-------------------------- MODULE StreamRelay_proofs --------------------------
(***************************************************************************)
(* Theorems about one request and its backend, for every length of the     *)
(* stream, every way of cutting it into reads and every budget: what the   *)
(* client is given, what the breaker is told, and how long a silent        *)
(* backend can hold the call.                                              *)
(***************************************************************************)
EXTENDS RelayView, TLAPS

-----------------------------------------------------------------------------
(***************************************************************************)
(* The deadline                                                            *)
(***************************************************************************)

\* What a call that is not a stream may have spent in each suspension, given the
\* time since its deadline was set.
ClockInv ==
    /\ waited \in 0..Budget /\ spent \in Nat
    /\ pc \in {"head", "drain", "read", "begin", "write"} => IsStream(body)
    /\ ~IsStream(body) =>
          /\ pc \in {"start", "resolve"} => spent = 0
          /\ pc = "connect" => spent <= waited
          /\ pc \in {"send", "reply"} => spent <= Budget + waited
          /\ spent <= 2 * Budget

\* Every step keeps within the budgets given so far.
LEMMA ClockStep == ClockInv /\ [Next]_vars => ClockInv'
<1> SUFFICES ASSUME ClockInv, [Next]_vars PROVE ClockInv'
  OBVIOUS
<1>1. Budget \in Nat /\ waited \in 0..Budget /\ spent \in Nat
  BY RelayAssumption DEF ClockInv
<1>2. body' = body
  BY DEF Next, HealthChanges, Reject, Dispatch, Tick, Call, NotConnected, Resolved, Connected,
         Sent, ExchangeFails, ReplyRead, Relay, HeadRead, Drained, Read, ReadEnds, Begin, Write,
         SinkFails, WriteEnding, Emit, EndingFails, Answered, ClientLeaves, callVars, vars
<1>3. CASE Tick
  BY <1>1, <1>2, <1>3 DEF Tick, Timed, ClockInv
<1>4. CASE Dispatch
  BY <1>1, <1>2, <1>4 DEF Dispatch, Arm, ClockInv
<1>5. CASE Connected
  BY <1>1, <1>2, <1>5 DEF Connected, Arm, ClockInv
<1>6. CASE Resolved
  BY <1>1, <1>2, <1>6 DEF Resolved, clockVars, ClockInv
<1>7. CASE Sent
  BY <1>1, <1>2, <1>7 DEF Sent, clockVars, ClockInv
\* The steps that leave the clock alone and go where no deadline is running.
<1>8. ASSUME UNCHANGED clockVars,
             pc' = pc \/ pc' \in {"answer", "again", "sentinel", "error", "last", "end"}
      PROVE  ClockInv'
  BY <1>1, <1>2, <1>8 DEF clockVars, ClockInv
\* The steps within stream_chat().
<1>9. ASSUME IsStream(body), waited' \in 0..Budget, spent' = spent PROVE ClockInv'
  BY <1>1, <1>2, <1>9 DEF ClockInv
<1>10. ASSUME BeginRead \/ UNCHANGED clockVars PROVE waited' \in 0..Budget /\ spent' = spent
  BY <1>1, <1>10 DEF BeginRead, Arm, clockVars
<1>11. CASE HeadRead
  BY <1>9, <1>10, <1>11 DEF HeadRead, ClockInv
<1>12. CASE Read
  <2>1. PICK n \in 0..(MaxChunks - backend.chunks), d \in BOOLEAN,
             e \in {"more", "timeout", "dropped", "complete"},
             flushed \in {<<>>, <<Cut>>} : ReadEnds(n, d, e, flushed)
    BY <1>12 DEF Read
  <2>2. pc = "read" /\ (BeginRead \/ UNCHANGED clockVars)
    BY <2>1, Zenon DEF ReadEnds
  <2> QED
    BY <1>9, <1>10, <2>2 DEF ClockInv
<1>13. CASE Write
  <2>1. pc = "write" /\ (BeginRead \/ UNCHANGED clockVars)
    BY <1>13, Zenon DEF Write
  <2> QED
    BY <1>9, <1>10, <2>1 DEF ClockInv
<1>14. CASE Begin \/ SinkFails
  <2>1. pc \in {"begin", "write"} /\ UNCHANGED clockVars
    BY <1>14 DEF Begin, SinkFails
  <2> QED
    BY <1>9, <1>10, <2>1 DEF ClockInv
<1>15. CASE HealthChanges \/ Reject \/ ClientLeaves
  BY <1>8, <1>15 DEF HealthChanges, Reject, ClientLeaves, Answer
<1>16. CASE NotConnected \/ ExchangeFails \/ ReplyRead \/ Drained
  BY <1>8, <1>16 DEF NotConnected, ExchangeFails, ReplyRead, Drained, Answer
<1>17. CASE WriteEnding \/ EndingFails \/ Answered
  BY <1>8, <1>17 DEF WriteEnding, Emit, EndingFails, Answered
<1>18. CASE UNCHANGED vars
  BY <1>8, <1>18 DEF vars, clockVars
<1> QED
  BY <1>3, <1>4, <1>5, <1>6, <1>7, <1>11, <1>12, <1>13, <1>14, <1>15, <1>16, <1>17, <1>18
  DEF Next, Call, Relay

\* A backend can hold a call that is not a stream for two budgets, whatever the
\* budget is.
THEOREM UnaryIsBounded == Spec => []UnaryWithinTwoBudgets
<1>1. Init => ClockInv
  BY RelayAssumption DEF Init, ClockInv
<1>2. ClockInv => UnaryWithinTwoBudgets
  BY DEF ClockInv, UnaryWithinTwoBudgets
<1> QED
  BY <1>1, <1>2, ClockStep, PTL DEF Spec

-----------------------------------------------------------------------------
(***************************************************************************)
(* The frames between the backend and the client                           *)
(***************************************************************************)

Marks == {Cut, Done, Header, ErrorEvent, LastChunk}

Frame == {Chunk(i) : i \in Nat} \cup Marks

\* What is told of the frames below; their form does not matter.
LEMMA FrameFacts ==
    /\ \A i \in Nat : Chunk(i) \in Frame /\ Chunk(i)[1] = "chunk"
    /\ \A x \in Marks : x \in Frame /\ x[1] # "chunk"
    /\ Cut # Done /\ Cut # Header /\ Cut # ErrorEvent /\ Cut # LastChunk
    /\ Done # Header /\ Done # ErrorEvent /\ Done # LastChunk
    /\ Header # ErrorEvent /\ Header # LastChunk /\ ErrorEvent # LastChunk
<1>1. ASSUME NEW i \in Nat PROVE Chunk(i)[1] = "chunk"
  BY DEF Chunk
<1>2. Cut[1] = "cut" /\ Done[1] = "[DONE]" /\ Header[1] = "header"
  BY DEF Cut, Done, Header
<1>3. ErrorEvent[1] = "error" /\ LastChunk[1] = "last"
  BY DEF ErrorEvent, LastChunk
<1> QED
  BY <1>1, <1>2, <1>3 DEF Frame, Marks

\* The frames the sink has written, behind the header.
Base(o) == IF o = <<>> THEN 0 ELSE Len(o) - 1

\* The i-th frame of the stream: written, or else pending.
Item(o, p, i) == IF i <= Base(o) THEN o[i + 1] ELSE p[i - Base(o)]

\* How the stream ends so far, t frames having been taken from the reads.
Tailed(o, p, b, e, t) ==
    \/ t = b.chunks /\ b.done = FALSE
    \/ t = b.chunks + 1 /\ b.done = TRUE /\ Item(o, p, t) = Done
    \/ t = b.chunks + 1 /\ b.done = FALSE /\ Item(o, p, t) = Cut /\ e # "more"

\* Written and pending frames together are the backend's chunks in order and its
\* [DONE], or the beginning of a chunk when there is nothing more to read.
Relayed(o, p, b, e) ==
    /\ o \in Seq(Frame) /\ p \in Seq(Frame) /\ b \in [chunks : Nat, done : BOOLEAN]
    /\ o # <<>> => o[1] = Header
    /\ \A i \in 1..b.chunks : Item(o, p, i) = Chunk(i)
    /\ Tailed(o, p, b, e, Base(o) + Len(p))

\* The frames that one read adds: n chunks behind c, [DONE] or the flushed rest.
Batch(c, n, d, flushed) == Chunks(c + 1, n) \o (IF d THEN <<Done>> ELSE <<>>) \o flushed

\* The frames of a batch, one by one.
Batched(s, c, n, d, flushed) ==
    /\ s \in Seq(Frame)
    /\ \A j \in 1..n : s[j] = Chunk(c + j)
    /\ d = FALSE /\ flushed = <<>> => Len(s) = n
    /\ d = TRUE => Len(s) = n + 1 /\ s[n + 1] = Done
    /\ flushed = <<Cut>> => Len(s) = n + 1 /\ s[n + 1] = Cut

\* Concatenation puts them in that order.
LEMMA BatchFrames ==
    ASSUME NEW c \in Nat, NEW n \in Nat, NEW d \in BOOLEAN, NEW flushed \in {<<>>, <<Cut>>},
           d = TRUE => flushed = <<>>
    PROVE  Batched(Batch(c, n, d, flushed), c, n, d, flushed)
<1> DEFINE cs == Chunks(c + 1, n)
<1>1. /\ cs \in Seq(Frame) /\ Len(cs) = n
      /\ \A j \in 1..n : cs[j] = Chunk(c + j)
  <2>1. \A j \in 1..n : c + 1 + j - 1 = c + j /\ c + j \in Nat
    OBVIOUS
  <2>2. cs \in [1..n -> Frame] /\ \A j \in 1..n : cs[j] = Chunk(c + j)
    BY <2>1, FrameFacts DEF Chunks
  <2> QED
    BY <2>2
<1>2. <<Done>> \in Seq(Frame) /\ <<Cut>> \in Seq(Frame) /\ <<>> \in Seq(Frame)
  BY FrameFacts DEF Marks
<1> HIDE DEF cs
<1>3. ASSUME NEW x \in Frame
      PROVE  /\ cs \o <<x>> \in Seq(Frame) /\ Len(cs \o <<x>>) = n + 1
             /\ (cs \o <<x>>)[n + 1] = x
             /\ \A j \in 1..n : (cs \o <<x>>)[j] = Chunk(c + j)
  <2>1. <<x>> \in Seq(Frame) /\ Len(<<x>>) = 1 /\ <<x>>[1] = x
    OBVIOUS
  <2>2. cs \o <<x>> \in Seq(Frame) /\ Len(cs \o <<x>>) = n + 1
    BY <1>1, <2>1
  <2>3. (cs \o <<x>>)[n + 1] = <<x>>[n + 1 - Len(cs)]
    BY <1>1, <2>1
  <2> QED
    BY <1>1, <2>1, <2>2, <2>3
<1>4. cs \o <<>> = cs
  BY <1>1
<1>5. Done \in Frame /\ Cut \in Frame
  BY FrameFacts DEF Marks
<1>6. CASE d = TRUE
  <2>1. flushed = <<>> /\ flushed # <<Cut>>
    BY <1>6
  <2>2. Batch(c, n, d, flushed) = cs \o <<Done>> \o <<>>
    BY <1>6, <2>1 DEF Batch, cs
  <2>3. cs \o <<Done>> \o <<>> = cs \o <<Done>>
    BY <1>3, <1>5
  <2> DEFINE s == cs \o <<Done>>
  <2>4. /\ s \in Seq(Frame) /\ Len(s) = n + 1 /\ s[n + 1] = Done
        /\ \A j \in 1..n : s[j] = Chunk(c + j)
    BY <1>3, <1>5
  <2> HIDE DEF s
  <2>5. Batched(s, c, n, d, flushed)
    BY <1>6, <2>1, <2>4 DEF Batched
  <2> QED
    BY <2>2, <2>3, <2>5 DEF s
<1>7. CASE d = FALSE /\ flushed = <<>>
  <2>1. Batch(c, n, d, flushed) = cs \o <<>> \o <<>>
    BY <1>7 DEF Batch, cs
  <2>2. flushed # <<Cut>>
    BY <1>7
  <2>3. Batched(cs, c, n, d, flushed)
    BY <1>1, <1>7, <2>2 DEF Batched
  <2> QED
    BY <1>4, <2>1, <2>3
<1>8. CASE d = FALSE /\ flushed = <<Cut>>
  <2>1. Batch(c, n, d, flushed) = cs \o <<>> \o <<Cut>> /\ flushed # <<>>
    BY <1>8 DEF Batch, cs
  <2> DEFINE s == cs \o <<Cut>>
  <2>2. /\ s \in Seq(Frame) /\ Len(s) = n + 1 /\ s[n + 1] = Cut
        /\ \A j \in 1..n : s[j] = Chunk(c + j)
    BY <1>3, <1>5
  <2> HIDE DEF s
  <2>3. Batched(s, c, n, d, flushed)
    BY <1>8, <2>1, <2>2 DEF Batched
  <2> QED
    BY <1>4, <2>1, <2>3 DEF s
<1>9. (d = TRUE \/ d = FALSE) /\ (flushed = <<>> \/ flushed = <<Cut>>)
  OBVIOUS
<1> QED
  BY <1>6, <1>7, <1>8, <1>9, Zenon

\* A read continues the stream where the last one left it.
LEMMA RelayedRead ==
    ASSUME NEW o, NEW b, Relayed(o, <<>>, b, "more"),
           NEW n \in Nat, NEW d \in BOOLEAN, NEW flushed \in {<<>>, <<Cut>>}, NEW e,
           b.done = TRUE => n = 0 /\ d = FALSE,
           flushed # <<>> => e # "more" /\ d = FALSE /\ b.done = FALSE,
           NEW c \in [chunks : Nat, done : BOOLEAN], c.chunks = b.chunks + n,
           c.done = TRUE <=> b.done = TRUE \/ d = TRUE
    PROVE  Relayed(o, Batch(b.chunks, n, d, flushed), c, e)
<1> DEFINE p == Batch(b.chunks, n, d, flushed)
<1>1. /\ o \in Seq(Frame) /\ b.chunks \in Nat /\ b.done \in BOOLEAN
      /\ o # <<>> => o[1] = Header
      /\ \A i \in 1..b.chunks : Item(o, <<>>, i) = Chunk(i)
      /\ Tailed(o, <<>>, b, "more", Base(o) + 0)
  BY DEF Relayed
<1>2. Base(o) \in Nat
  BY <1>1 DEF Base
<1>3. Batched(p, b.chunks, n, d, flushed)
  <2>1. d = TRUE => flushed = <<>>
    OBVIOUS
  <2> QED
    BY <1>1, <2>1, BatchFrames, Zenon
<1>4. \/ Base(o) = b.chunks /\ b.done = FALSE
      \/ Base(o) = b.chunks + 1 /\ b.done = TRUE /\ Item(o, <<>>, Base(o)) = Done
  BY <1>1, <1>2 DEF Tailed
<1>5. c.chunks = b.chunks + n /\ c.done \in BOOLEAN
  OBVIOUS
<1>6. c.done = TRUE <=> b.done = TRUE \/ d = TRUE
  OBVIOUS
<1>7. c \in [chunks : Nat, done : BOOLEAN]
  OBVIOUS
<1> HIDE DEF p
<1>8. CASE b.done = TRUE
  <2>1. n = 0 /\ d = FALSE /\ flushed = <<>>
    BY <1>8
  <2>2. Len(p) = 0 /\ c.chunks = b.chunks /\ c.done = TRUE /\ Base(o) = b.chunks + 1
    BY <1>1, <1>3, <1>4, <1>5, <1>6, <1>8, <2>1 DEF Batched
  <2>3. \A i \in 1..c.chunks : Item(o, p, i) = Chunk(i)
    BY <1>1, <2>2 DEF Item
  <2>4. Item(o, p, Base(o) + Len(p)) = Done
    BY <1>2, <1>4, <1>8, <2>2 DEF Item
  <2> QED
    BY <1>1, <1>2, <1>3, <1>7, <2>2, <2>3, <2>4 DEF Batched, Relayed, Tailed, p
<1>9. CASE b.done = FALSE
  <2>1. Base(o) = b.chunks
    BY <1>4, <1>9
  <2>2. \A i \in 1..c.chunks : Item(o, p, i) = Chunk(i)
    <3> TAKE i \in 1..c.chunks
    <3>1. CASE i <= b.chunks
      BY <1>1, <2>1, <3>1 DEF Item
    <3>2. CASE i > b.chunks
      <4>1. i - b.chunks \in 1..n
        BY <1>1, <1>5, <3>2
      <4>2. p[i - b.chunks] = Chunk(b.chunks + (i - b.chunks))
        BY <1>3, <4>1 DEF Batched
      <4>3. b.chunks + (i - b.chunks) = i
        BY <1>1, <1>5
      <4> QED
        BY <1>1, <1>5, <2>1, <3>2, <4>2, <4>3 DEF Item
    <3> QED
      BY <1>1, <1>5, <3>1, <3>2
  <2>3. Item(o, p, b.chunks + n + 1) = p[n + 1]
    <3> DEFINE i == b.chunks + n + 1
    <3>1. ~(i <= Base(o)) /\ i - Base(o) = n + 1
      BY <1>1, <2>1
    <3> HIDE DEF i
    <3>2. Item(o, p, i) = p[n + 1]
      BY <3>1 DEF Item
    <3> QED
      BY <3>2 DEF i
  <2>4. Tailed(o, p, c, e, Base(o) + Len(p))
    <3>1. CASE d = TRUE
      <4>1. Len(p) = n + 1 /\ p[n + 1] = Done /\ c.done = TRUE
        BY <1>3, <1>6, <3>1 DEF Batched
      <4>2. Base(o) + Len(p) = b.chunks + n + 1 /\ c.chunks + 1 = b.chunks + n + 1
        BY <1>1, <1>5, <2>1, <4>1
      <4> QED
        BY <2>3, <4>1, <4>2 DEF Tailed
    <3>2. CASE d = FALSE /\ flushed = <<>>
      <4>1. Len(p) = n /\ c.done = FALSE
        BY <1>3, <1>6, <1>9, <3>2 DEF Batched
      <4> QED
        BY <1>1, <1>5, <2>1, <4>1 DEF Tailed
    <3>3. CASE d = FALSE /\ flushed = <<Cut>>
      <4>1. Len(p) = n + 1 /\ p[n + 1] = Cut /\ c.done = FALSE
        BY <1>3, <1>6, <1>9, <3>3 DEF Batched
      <4>2. e # "more"
        BY <3>3
      <4> QED
        BY <1>1, <1>5, <2>1, <2>3, <4>1, <4>2 DEF Tailed
    <3> QED
      BY <3>1, <3>2, <3>3, Zenon
  <2> QED
    BY <1>1, <1>3, <1>7, <2>2, <2>4 DEF Batched, Relayed, p
<1> QED
  BY <1>1, <1>8, <1>9, Zenon

\* The header changes nothing of the frames.
LEMMA RelayedBegin ==
    ASSUME NEW p, NEW b, NEW e, Relayed(<<>>, p, b, e)
    PROVE  Relayed(<<Header>>, p, b, e)
<1>1. <<Header>> \in Seq(Frame) /\ <<Header>> # <<>> /\ <<Header>>[1] = Header
  BY FrameFacts DEF Marks
<1>2. Base(<<Header>>) = 0 /\ Base(<<>>) = 0
  BY <1>1 DEF Base
<1>3. p \in Seq(Frame) /\ b.chunks \in Nat /\ Len(p) \in Nat
  BY DEF Relayed
<1>4. \A i \in Nat \ {0} : Item(<<Header>>, p, i) = Item(<<>>, p, i)
  BY <1>2 DEF Item
<1> QED
  BY <1>1, <1>2, <1>3, <1>4 DEF Relayed, Tailed

\* write_data() moves the next frame from the one side to the other.
LEMMA RelayedWrite ==
    ASSUME NEW o, NEW p, NEW b, NEW e, Relayed(o, p, b, e), o # <<>>, p # <<>>
    PROVE  Relayed(Append(o, Head(p)), Tail(p), b, e)
<1> DEFINE a == Append(o, Head(p))
           t == Tail(p)
<1>1. o \in Seq(Frame) /\ p \in Seq(Frame) /\ b.chunks \in Nat /\ o[1] = Header
  BY DEF Relayed
<1>2. /\ a \in Seq(Frame) /\ t \in Seq(Frame) /\ a # <<>>
      /\ Len(a) = Len(o) + 1 /\ Len(p) = Len(t) + 1 /\ Len(t) \in Nat
      /\ a[Len(o) + 1] = p[1]
      /\ \A i \in 1..Len(o) : a[i] = o[i]
      /\ \A i \in 1..Len(t) : t[i] = p[i + 1]
      /\ Len(o) \in Nat \ {0}
  BY <1>1
<1>3. Base(a) = Base(o) + 1 /\ Base(o) = Len(o) - 1
  BY <1>2 DEF Base
<1> HIDE DEF a, t
<1>4. \A i \in 1..(Base(o) + Len(p)) : Item(a, t, i) = Item(o, p, i)
  <2> TAKE i \in 1..(Base(o) + Len(p))
  <2>1. CASE i <= Base(o)
    BY <1>2, <1>3, <2>1 DEF Item
  <2>2. CASE i = Base(o) + 1
    <3>1. Item(a, t, i) = a[Len(o) + 1]
      BY <1>2, <1>3, <2>2 DEF Item
    <3>2. Item(o, p, i) = p[1]
      BY <1>2, <1>3, <2>2 DEF Item
    <3> QED
      BY <1>2, <3>1, <3>2
  <2>3. CASE i > Base(o) + 1
    <3>1. Item(a, t, i) = t[i - Base(a)] /\ Item(o, p, i) = p[i - Base(o)]
      BY <1>2, <1>3, <2>3 DEF Item
    <3>2. i - Base(a) \in 1..Len(t) /\ (i - Base(a)) + 1 = i - Base(o)
      BY <1>2, <1>3, <2>3
    <3> QED
      BY <1>2, <3>1, <3>2
  <2> QED
    BY <1>2, <1>3, <2>1, <2>2, <2>3
<1>5. /\ b.chunks <= Base(o) + Len(p) /\ Base(a) + Len(t) = Base(o) + Len(p)
      /\ b.chunks + 1 >= 1
  BY <1>1, <1>2, <1>3 DEF Relayed, Tailed
<1>6. a[1] = Header
  <2>1. 1 \in 1..Len(o)
    BY <1>2
  <2> QED
    BY <1>1, <1>2, <2>1, Zenon
<1>7. \A i \in 1..b.chunks : Item(a, t, i) = Chunk(i)
  BY <1>1, <1>2, <1>3, <1>4, <1>5 DEF Relayed
<1>8. Tailed(a, t, b, e, Base(a) + Len(t))
  <2>1. Tailed(o, p, b, e, Base(o) + Len(p))
    BY DEF Relayed
  <2>2. Base(o) + Len(p) = b.chunks + 1 => Item(a, t, b.chunks + 1) = Item(o, p, b.chunks + 1)
    BY <1>1, <1>4
  <2> QED
    BY <1>5, <2>1, <2>2 DEF Tailed
<1> QED
  BY <1>2, <1>6, <1>7, <1>8 DEF Relayed, a, t

-----------------------------------------------------------------------------
(***************************************************************************)
(* What has been written                                                   *)
(***************************************************************************)

WrittenIn(o, x) == \E i \in 1..Len(o) : o[i] = x

\* FramesInOrder of the output o when the backend has sent k chunks.
InOrder(o, k) ==
    /\ o # <<>> => o[1] = Header
    /\ \A i \in 2..Len(o) :
          /\ o[i] # Header
          /\ o[i][1] = "chunk" => o[i] = Chunk(i - 1) /\ i - 1 <= k
    /\ \A i \in 1..Len(o) : o[i] = LastChunk => i = Len(o)

\* The i-th thing written is a frame of the stream.
Genuine(x, i, b) ==
    \/ x = Chunk(i - 1) /\ i - 1 \in Nat /\ i - 1 <= b.chunks
    \/ x = Done /\ b.done = TRUE
    \/ x = Cut

\* While the sink is fed, only the stream's frames are behind the header.
LEMMA RelayedOrder ==
    ASSUME NEW o, NEW p, NEW b, NEW e, Relayed(o, p, b, e)
    PROVE  /\ InOrder(o, b.chunks)
           /\ ~WrittenIn(o, LastChunk) /\ ~WrittenIn(o, ErrorEvent)
           /\ WrittenIn(o, Done) => b.done = TRUE
<1>1. o \in Seq(Frame) /\ p \in Seq(Frame) /\ b.chunks \in Nat /\ b.done \in BOOLEAN
  BY DEF Relayed
<1>2. CASE o = <<>>
  BY <1>2 DEF InOrder, WrittenIn
<1>3. CASE o # <<>>
  <2>1. o[1] = Header /\ Base(o) = Len(o) - 1 /\ Len(o) \in Nat \ {0} /\ Len(p) \in Nat
    BY <1>1, <1>3 DEF Relayed, Base
  <2>2. ASSUME NEW i \in 2..Len(o)
        PROVE  Genuine(o[i], i, b)
    <3>1. /\ i - 1 \in Nat \ {0} /\ i - 1 <= Base(o) /\ (i - 1) + 1 = i
          /\ i - 1 <= Base(o) + Len(p)
      BY <2>1
    <3>2. Item(o, p, i - 1) = o[i]
      BY <3>1 DEF Item
    <3>3. CASE i - 1 <= b.chunks
      <4>1. Item(o, p, i - 1) = Chunk(i - 1)
        BY <1>1, <3>1, <3>3 DEF Relayed
      <4> QED
        BY <3>1, <3>2, <3>3, <4>1 DEF Genuine
    <3>4. CASE i - 1 > b.chunks
      <4>1. Tailed(o, p, b, e, Base(o) + Len(p))
        BY DEF Relayed
      <4>2. i - 1 = Base(o) + Len(p)
        BY <1>1, <2>1, <3>1, <3>4, <4>1 DEF Tailed
      <4>3. Base(o) + Len(p) # b.chunks
        BY <1>1, <3>4, <4>2
      <4>4. \/ b.done = TRUE /\ Item(o, p, i - 1) = Done
            \/ Item(o, p, i - 1) = Cut
        BY <4>1, <4>2, <4>3 DEF Tailed
      <4> QED
        BY <3>2, <4>4 DEF Genuine
    <3> QED
      BY <1>1, <2>1, <3>3, <3>4
  <2>3. ASSUME NEW i \in 2..Len(o)
        PROVE  /\ o[i] # Header /\ o[i] # LastChunk /\ o[i] # ErrorEvent
               /\ o[i] = Done => b.done = TRUE
               /\ o[i][1] = "chunk" => o[i] = Chunk(i - 1) /\ i - 1 <= b.chunks
    BY <2>2, FrameFacts, Zenon DEF Marks, Genuine
  <2>4. Header # LastChunk /\ Header # ErrorEvent /\ Header # Done
    BY FrameFacts
  <2>5. \A i \in 1..Len(o) : i = 1 \/ i \in 2..Len(o)
    BY <2>1
  <2>6. InOrder(o, b.chunks)
    <3>1. \A i \in 1..Len(o) : o[i] # LastChunk
      BY <2>1, <2>3, <2>4, <2>5, Zenon
    <3>2. \A i \in 2..Len(o) :
             o[i] # Header /\ (o[i][1] = "chunk" => o[i] = Chunk(i - 1) /\ i - 1 <= b.chunks)
      BY <2>3, Zenon
    <3> QED
      BY <2>1, <3>1, <3>2, Zenon DEF InOrder
  <2>7. ~WrittenIn(o, LastChunk) /\ ~WrittenIn(o, ErrorEvent)
    BY <2>1, <2>3, <2>4, <2>5, Zenon DEF WrittenIn
  <2>8. WrittenIn(o, Done) => b.done = TRUE
    BY <2>1, <2>3, <2>4, <2>5, Zenon DEF WrittenIn
  <2> QED
    BY <2>6, <2>7, <2>8
<1> QED
  BY <1>2, <1>3, Zenon

\* With nothing pending, everything the backend has sent is written.
LEMMA RelayedAll ==
    ASSUME NEW o, NEW b, NEW e, Relayed(o, <<>>, b, e), b.done = TRUE
    PROVE  /\ o # <<>> /\ WrittenIn(o, Done)
           /\ \A i \in 1..b.chunks : WrittenIn(o, Chunk(i))
<1>1. /\ o \in Seq(Frame) /\ b.chunks \in Nat
      /\ \A i \in 1..b.chunks : Item(o, <<>>, i) = Chunk(i)
      /\ Tailed(o, <<>>, b, e, Base(o) + 0)
  BY DEF Relayed
<1>2. Base(o) \in Nat
  BY <1>1 DEF Base
<1>3. Base(o) = b.chunks + 1 /\ Item(o, <<>>, Base(o)) = Done
  BY <1>1, <1>2 DEF Tailed
<1>4. o # <<>> /\ Len(o) = b.chunks + 2
  BY <1>1, <1>3 DEF Base
<1>5. ASSUME NEW i \in 1..(b.chunks + 1)
      PROVE  Item(o, <<>>, i) = o[i + 1] /\ i + 1 \in 1..Len(o)
  BY <1>1, <1>3, <1>4 DEF Item
<1>6. WrittenIn(o, Done)
  BY <1>1, <1>3, <1>5 DEF WrittenIn
<1>7. ASSUME NEW i \in 1..b.chunks PROVE WrittenIn(o, Chunk(i))
  BY <1>1, <1>5 DEF WrittenIn
<1> QED
  BY <1>4, <1>6, <1>7

\* One more write.
LEMMA AppendFrame ==
    ASSUME NEW o \in Seq(Frame), NEW x \in Frame
    PROVE  /\ Append(o, x) \in Seq(Frame) /\ Append(o, x) # <<>>
           /\ \A y : WrittenIn(Append(o, x), y) <=> WrittenIn(o, y) \/ x = y
<1>1. /\ Append(o, x) \in Seq(Frame) /\ Len(Append(o, x)) = Len(o) + 1 /\ Len(o) \in Nat
      /\ Append(o, x)[Len(o) + 1] = x
      /\ \A i \in 1..Len(o) : Append(o, x)[i] = o[i]
  OBVIOUS
<1>2. Append(o, x) # <<>>
  <2>1. Len(Append(o, x)) # 0 /\ Len(<<>>) = 0
    BY <1>1
  <2> QED
    BY <2>1, Zenon
<1>3. ASSUME NEW y PROVE WrittenIn(Append(o, x), y) <=> WrittenIn(o, y) \/ x = y
  BY <1>1 DEF WrittenIn
<1> QED
  BY <1>1, <1>2, <1>3

\* What the gateway writes itself keeps the order.
LEMMA AppendInOrder ==
    ASSUME NEW o \in Seq(Frame), NEW k, InOrder(o, k), ~WrittenIn(o, LastChunk), o # <<>>,
           NEW x \in {Done, ErrorEvent, LastChunk}
    PROVE  InOrder(Append(o, x), k)
<1> DEFINE a == Append(o, x)
<1>1. x \in Frame /\ x # Header /\ x[1] # "chunk"
  BY FrameFacts DEF Marks
<1>2. /\ Len(a) = Len(o) + 1 /\ Len(o) \in Nat \ {0} /\ a[Len(o) + 1] = x
      /\ \A i \in 1..Len(o) : a[i] = o[i]
  BY <1>1
<1> HIDE DEF a
<1>3. \A i \in 1..Len(o) : o[i] # LastChunk
  BY DEF WrittenIn
<1>4. a[1] = Header
  BY <1>2 DEF InOrder
<1>5. ASSUME NEW i \in 2..Len(a)
      PROVE  a[i] # Header /\ (a[i][1] = "chunk" => a[i] = Chunk(i - 1) /\ i - 1 <= k)
  <2>1. CASE i = Len(a)
    BY <1>1, <1>2, <2>1
  <2>2. CASE i # Len(a)
    <3>1. i \in 2..Len(o) /\ i \in 1..Len(o)
      BY <1>2, <2>2
    <3> QED
      BY <1>2, <3>1 DEF InOrder
  <2> QED
    BY <2>1, <2>2
<1>6. ASSUME NEW i \in 1..Len(a), a[i] = LastChunk PROVE i = Len(a)
  BY <1>2, <1>3, <1>6
<1> QED
  BY <1>4, <1>5, <1>6 DEF InOrder, a

-----------------------------------------------------------------------------
(***************************************************************************)
(* The inductive invariant                                                 *)
(***************************************************************************)

Before == {"start", "resolve", "connect", "send", "reply", "head", "drain"}
Sink   == {"read", "begin", "write"}
Ending == {"answer", "again", "sentinel", "error", "last", "end"}

\* The response has been ended in agreement with the report.
Told(o, b, e, rep) ==
    \/ /\ rep = "success"
       /\ WrittenIn(o, Done) /\ ~WrittenIn(o, ErrorEvent)
       /\ \A i \in 1..b.chunks : WrittenIn(o, Chunk(i))
    \/ /\ rep = "failure"
       /\ WrittenIn(o, ErrorEvent)
       /\ WrittenIn(o, Done) => e = "timeout"

\* At any time.
OutputInv ==
    /\ out \in Seq(Frame) /\ backend \in [chunks : Nat, done : BOOLEAN]
    /\ header_started \in BOOLEAN /\ client \in {"here", "gone"}
    /\ header_started = TRUE <=> out # <<>>
    /\ InOrder(out, backend.chunks)
    /\ WrittenIn(out, LastChunk) => pc = "end"

\* In each part of the call.
PhaseInv ==
    /\ pc \in Before \cup Sink \cup Ending
    /\ pc \in Before => /\ out = <<>> /\ pending = <<>> /\ ec = "more"
                        /\ backend.chunks = 0 /\ backend.done = FALSE
    /\ pc \in Sink => Relayed(out, pending, backend, ec)
    /\ pc = "read" => pending = <<>> /\ ec = "more"
    /\ pc \in {"begin", "write"} => pending # <<>>
    /\ pc = "begin" => out = <<>>
    /\ pc = "write" => out # <<>>
    /\ pc \in {"answer", "again"} => out = <<>>
    /\ pc \in {"sentinel", "error", "last"} => out # <<>>
    /\ pc \in {"again", "sentinel"} => client = "gone"
    /\ pc = "error" /\ client = "here" =>
          report = "failure" /\ (WrittenIn(out, Done) => ec = "timeout")
    /\ pc \in {"last", "end"} /\ client = "here" /\ out # <<>> =>
          Told(out, backend, ec, report)

RelayInv == OutputInv /\ PhaseInv

\* handle_chat() after a call that the sink did not stop: everything that was
\* read has been written.
LEMMA SettleAll ==
    ASSUME OutputInv, out' \in Seq(Frame), header_started' \in BOOLEAN,
           header_started' = TRUE <=> out' # <<>>,
           client' = client, Relayed(out', <<>>, backend', ec'), Settle(ec', FALSE)
    PROVE  RelayInv'
<1>1. backend' \in [chunks : Nat, done : BOOLEAN] /\ backend'.done \in BOOLEAN
  BY DEF Relayed
<1>2. /\ InOrder(out', backend'.chunks)
      /\ ~WrittenIn(out', LastChunk) /\ ~WrittenIn(out', ErrorEvent)
      /\ WrittenIn(out', Done) => backend'.done = TRUE
  BY RelayedOrder, Zenon
<1>3. OutputInv'
  BY <1>1, <1>2 DEF OutputInv
<1>4. backend'.done = TRUE =>
        /\ out' # <<>> /\ WrittenIn(out', Done)
        /\ \A i \in 1..backend'.chunks : WrittenIn(out', Chunk(i))
  BY RelayedAll, Zenon
<1>5. \/ header_started' = FALSE /\ pc' = "answer"
      \/ header_started' = FALSE /\ backend'.done = TRUE /\ pc' = "again"
      \/ /\ header_started' = TRUE /\ pc' = "error" /\ report' = "failure"
         /\ backend'.done = TRUE => ec' = "timeout"
      \/ header_started' = TRUE /\ pc' = "last" /\ report' = "success" /\ backend'.done = TRUE
  BY <1>1, Zenon DEF Settle, UpstreamAborted, Answer
<1>6. PhaseInv'
  BY <1>2, <1>4, <1>5 DEF PhaseInv, Before, Sink, Ending, Told
<1> QED
  BY <1>3, <1>6 DEF RelayInv

\* A call that the sink stopped: the client is gone.
LEMMA SettleStopped ==
    ASSUME OutputInv, client = "gone", pc # "end",
           UNCHANGED <<out, backend, header_started, client>>, Settle(ec, TRUE)
    PROVE  RelayInv'
<1>1. \/ header_started' = FALSE /\ pc' \in {"answer", "again"}
      \/ header_started' = TRUE /\ pc' = "end"
  <2>1. header_started' \in BOOLEAN
    BY DEF OutputInv
  <2> QED
    BY <2>1, Zenon DEF Settle, Answer
<1>2. OutputInv'
  BY DEF OutputInv
<1>3. PhaseInv'
  BY <1>1 DEF OutputInv, PhaseInv, Before, Sink, Ending
<1> QED
  BY <1>2, <1>3 DEF RelayInv

\* Every step keeps the invariant.
LEMMA RelayStep == RelayInv /\ [Next]_vars => RelayInv'
<1> SUFFICES ASSUME RelayInv, [Next]_vars PROVE RelayInv'
  OBVIOUS
<1>1. OutputInv /\ PhaseInv
  BY DEF RelayInv
<1>2. /\ out \in Seq(Frame) /\ header_started \in BOOLEAN /\ client \in {"here", "gone"}
      /\ backend \in [chunks : Nat, done : BOOLEAN]
      /\ backend.chunks \in Nat /\ backend.done \in BOOLEAN
      /\ header_started = TRUE <=> out # <<>>
      /\ InOrder(out, backend.chunks)
  BY <1>1 DEF OutputInv
<1>3. Cut \in Frame /\ Done \in Frame /\ Header \in Frame /\ ErrorEvent \in Frame
      /\ LastChunk \in Frame
  BY FrameFacts DEF Marks
\* The call goes on and nothing is read or written.
<1>4. ASSUME UNCHANGED <<out, pending, backend, header_started, client, ec>>,
             pc \in Before, pc' \in Before \cup {"answer"}
      PROVE  RelayInv'
  <2>1. OutputInv'
    BY <1>1, <1>4 DEF OutputInv, Before
  <2>2. PhaseInv'
    BY <1>1, <1>4 DEF PhaseInv, Before, Sink, Ending
  <2> QED
    BY <2>1, <2>2 DEF RelayInv
\* Nothing happens, or the client leaves.
<1>5. ASSUME UNCHANGED <<pc, out, pending, backend, header_started, ec, report>>,
             client' = client \/ client' = "gone"
      PROVE  RelayInv'
  <2>1. OutputInv'
    BY <1>1, <1>5 DEF OutputInv
  <2>2. PhaseInv'
    BY <1>1, <1>5 DEF PhaseInv
  <2> QED
    BY <2>1, <2>2 DEF RelayInv
\* The sink is still at work.
<1>6. ASSUME pc \in Before \cup Sink, pc' \in Sink, client' = client,
             header_started' \in BOOLEAN, header_started' = TRUE <=> out' # <<>>,
             Relayed(out', pending', backend', ec'),
             pc' = "read" => pending' = <<>> /\ ec' = "more",
             pc' \in {"begin", "write"} => pending' # <<>>,
             pc' = "begin" => out' = <<>>,
             pc' = "write" => out' # <<>>
      PROVE  RelayInv'
  <2>1. InOrder(out', backend'.chunks) /\ ~WrittenIn(out', LastChunk)
    BY <1>6, RelayedOrder, Zenon
  <2>2. out' \in Seq(Frame) /\ backend' \in [chunks : Nat, done : BOOLEAN]
    BY <1>6 DEF Relayed
  <2>3. OutputInv'
    BY <1>2, <1>6, <2>1, <2>2 DEF OutputInv
  <2>4. PhaseInv'
    BY <1>6 DEF PhaseInv, Before, Sink, Ending
  <2> QED
    BY <2>3, <2>4 DEF RelayInv
<1>7. CASE HealthChanges \/ Reject \/ Dispatch
  BY <1>4, <1>7 DEF HealthChanges, Reject, Dispatch, Answer, callVars, Before
<1>8. CASE NotConnected \/ Resolved \/ Connected
  BY <1>4, <1>8 DEF NotConnected, Resolved, Connected, Answer, callVars, Before
<1>9. CASE Sent \/ ExchangeFails
  BY <1>4, <1>9 DEF Sent, ExchangeFails, Answer, callVars, Before
<1>10. CASE ReplyRead \/ Drained
  BY <1>4, <1>10 DEF ReplyRead, Drained, Answer, callVars, Before
<1>11. CASE Tick
  BY <1>5, <1>11 DEF Tick, callVars
<1>12. CASE ClientLeaves
  BY <1>5, <1>12 DEF ClientLeaves, callVars
<1>13. CASE UNCHANGED vars
  BY <1>5, <1>13 DEF vars
<1>14. CASE HeadRead
  <2>1. UNCHANGED <<out, pending, backend, header_started, client, ec>> /\ pc = "head"
    BY <1>14 DEF HeadRead
  <2>2. CASE pc' = "drain"
    BY <1>4, <2>1, <2>2 DEF Before
  <2>3. CASE pc' = "read"
    <3>1. /\ out = <<>> /\ pending = <<>> /\ ec = "more"
          /\ backend.chunks = 0 /\ backend.done = FALSE
      BY <1>1, <2>1 DEF PhaseInv, Before
    <3>2. <<>> \in Seq(Frame) /\ Base(<<>>) = 0 /\ Len(<<>>) = 0
      BY DEF Base
    <3>3. Relayed(out, pending, backend, ec)
      BY <1>2, <3>1, <3>2 DEF Relayed, Tailed
    <3> QED
      BY <1>2, <1>6, <2>1, <2>3, <3>1, <3>3, Zenon DEF Before, Sink
  <2> QED
    BY <1>14, <2>2, <2>3 DEF HeadRead, BeginRead
<1>15. CASE Read
  <2>1. PICK n \in 0..(MaxChunks - backend.chunks), d \in BOOLEAN,
             e \in {"more", "timeout", "dropped", "complete"},
             flushed \in {<<>>, <<Cut>>} : ReadEnds(n, d, e, flushed)
    BY <1>15 DEF Read
  <2>2. /\ pc = "read" /\ ec' = e /\ UNCHANGED <<out, client, header_started>>
        /\ pending' = Batch(backend.chunks, n, d, flushed)
        /\ backend' = [chunks |-> backend.chunks + n, done |-> backend.done \/ d]
    BY <2>1 DEF ReadEnds, Batch
  <2>3. n \in Nat
    BY <1>2, RelayAssumption
  <2>4. /\ backend.done = TRUE => n = 0 /\ d = FALSE
        /\ flushed # <<>> => e # "more" /\ d = FALSE /\ backend.done = FALSE
    BY <1>2, <2>1, Zenon DEF ReadEnds
  <2>5. backend'.done \in BOOLEAN /\ (backend'.done = TRUE <=> backend.done = TRUE \/ d = TRUE)
    <3>1. backend'.done = (backend.done \/ d)
      BY <2>2
    <3> QED
      BY <1>2, <3>1, Zenon
  <2>6. backend' \in [chunks : Nat, done : BOOLEAN] /\ backend'.chunks = backend.chunks + n
    <3>1. backend' = [chunks |-> backend.chunks + n, done |-> backend'.done]
      BY <2>2
    <3> QED
      BY <1>2, <2>3, <2>5, <3>1
  <2>7. Relayed(out, <<>>, backend, "more")
    BY <1>1, <2>2 DEF PhaseInv, Sink
  <2>8. Relayed(out', pending', backend', ec')
    <3>1. Relayed(out, Batch(backend.chunks, n, d, flushed), backend', e)
      BY <2>3, <2>4, <2>5, <2>6, <2>7, RelayedRead, Zenon
    <3> QED
      BY <2>2, <3>1
  <2>9. CASE pending' # <<>>
    <3>1. pc' = IF header_started THEN "write" ELSE "begin"
      BY <2>1, <2>9, Zenon DEF ReadEnds
    <3>2. \/ header_started = TRUE /\ pc' = "write"
          \/ header_started = FALSE /\ pc' = "begin"
      BY <1>2, <3>1, Zenon
    <3> QED
      BY <1>2, <1>6, <2>2, <2>8, <2>9, <3>2, Zenon DEF Sink
  <2>10. CASE pending' = <<>> /\ e = "more"
    <3>1. pc' = "read"
      BY <2>1, <2>10 DEF ReadEnds, BeginRead
    <3> QED
      BY <1>2, <1>6, <2>2, <2>8, <2>10, <3>1, Zenon DEF Sink
  <2>11. CASE pending' = <<>> /\ e # "more"
    <3>1. Settle(ec', FALSE)
      BY <2>1, <2>2, <2>11, Zenon DEF ReadEnds
    <3> QED
      BY <1>1, <1>2, <2>2, <2>8, <2>11, <3>1, SettleAll, Zenon
  <2> QED
    BY <2>9, <2>10, <2>11
<1>16. CASE Begin
  <2>1. /\ pc = "begin" /\ pc' = "write" /\ header_started' = TRUE
        /\ out' = Append(out, Header) /\ UNCHANGED <<pending, backend, client, ec>>
    BY <1>16 DEF Begin, callVars
  <2>2. out = <<>> /\ pending # <<>> /\ Relayed(<<>>, pending, backend, ec)
    BY <1>1, <2>1 DEF PhaseInv, Sink
  <2>3. out' = <<Header>> /\ out' # <<>>
    BY <2>1, <2>2
  <2>4. Relayed(out', pending', backend', ec')
    BY <2>1, <2>2, <2>3, RelayedBegin
  <2> QED
    BY <1>6, <2>1, <2>2, <2>3, <2>4 DEF Sink
<1>17. CASE Write
  <2>1. /\ pc = "write" /\ out' = Append(out, Head(pending)) /\ pending' = Tail(pending)
        /\ UNCHANGED <<backend, ec, client, header_started>>
    BY <1>17 DEF Write
  <2>2. out # <<>> /\ pending # <<>> /\ Relayed(out, pending, backend, ec)
    BY <1>1, <2>1 DEF PhaseInv, Sink
  <2>3. Relayed(out', pending', backend', ec')
    BY <2>1, <2>2, RelayedWrite
  <2>4. out' # <<>> /\ out' \in Seq(Frame)
    <3>1. Head(pending) \in Frame
      BY <2>2 DEF Relayed
    <3> QED
      BY <1>2, <2>1, <3>1, AppendFrame
  <2>5. header_started' \in BOOLEAN /\ header_started' = TRUE
    BY <1>2, <2>1, <2>2
  <2>6. CASE pending' # <<>>
    <3>1. pc' = "write"
      BY <2>1, <2>6, <1>17, Zenon DEF Write
    <3> QED
      BY <1>6, <2>1, <2>3, <2>4, <2>5, <2>6, <3>1 DEF Sink
  <2>7. CASE pending' = <<>> /\ ec = "more"
    <3>1. pc' = "read"
      BY <2>7, <1>17 DEF Write, BeginRead
    <3> QED
      BY <1>6, <2>1, <2>3, <2>4, <2>5, <2>7, <3>1 DEF Sink
  <2>8. CASE pending' = <<>> /\ ec # "more"
    <3>1. Settle(ec', FALSE)
      BY <1>17, <2>1, <2>8, Zenon DEF Write
    <3> QED
      BY <1>1, <2>1, <2>3, <2>4, <2>5, <2>8, <3>1, SettleAll, Zenon
  <2> QED
    BY <2>6, <2>7, <2>8
<1>18. CASE SinkFails
  BY <1>1, <1>18, SettleStopped DEF SinkFails, WriteFails
<1>19. CASE WriteEnding
  <2>1. CASE Emit("again", Header, "sentinel")
    <3>1. /\ pc = "again" /\ pc' = "sentinel" /\ out' = Append(out, Header)
          /\ header_started' = (header_started \/ Header = Header)
          /\ UNCHANGED <<backend, client>>
      BY <2>1 DEF Emit, callVars
    <3>2. out = <<>> /\ client = "gone"
      BY <1>1, <3>1 DEF PhaseInv
    <3>3. out' = <<Header>> /\ out' # <<>> /\ out' \in Seq(Frame)
      BY <1>3, <3>1, <3>2
    <3>4. header_started' = TRUE
      BY <3>1, Zenon
    <3>5. InOrder(out', backend'.chunks) /\ ~WrittenIn(out', LastChunk)
      BY <3>3, FrameFacts DEF InOrder, WrittenIn
    <3>6. OutputInv'
      BY <1>2, <3>1, <3>3, <3>4, <3>5 DEF OutputInv
    <3>7. PhaseInv'
      BY <3>1, <3>2, <3>3 DEF PhaseInv, Before, Sink, Ending
    <3> QED
      BY <3>6, <3>7 DEF RelayInv
  <2>2. ASSUME NEW x \in {Done, ErrorEvent, LastChunk}, out # <<>>, pc # "end",
               out' = Append(out, x), header_started' = (header_started \/ x = Header),
               UNCHANGED <<backend, client>>, x = LastChunk => pc' = "end"
        PROVE  /\ OutputInv' /\ out' # <<>>
               /\ \A y : WrittenIn(out', y) <=> WrittenIn(out, y) \/ x = y
    <3>1. /\ out' \in Seq(Frame) /\ out' # <<>>
          /\ \A y : WrittenIn(out', y) <=> WrittenIn(out, y) \/ x = y
      BY <1>2, <1>3, <2>2, AppendFrame
    <3>2. ~WrittenIn(out, LastChunk)
      BY <1>1, <2>2 DEF OutputInv
    <3>3. InOrder(out', backend'.chunks)
      BY <1>2, <2>2, <3>2, AppendInOrder
    <3>4. header_started' = TRUE
      <4>1. header_started = TRUE
        BY <1>2, <2>2
      <4> QED
        BY <2>2, <4>1, Zenon
    <3> QED
      BY <1>2, <2>2, <3>1, <3>2, <3>3, <3>4 DEF OutputInv
  <2>3. CASE Emit("sentinel", Done, "last")
    <3>1. /\ pc = "sentinel" /\ pc' = "last" /\ out' = Append(out, Done)
          /\ header_started' = (header_started \/ Done = Header)
          /\ UNCHANGED <<backend, client>> /\ Done # LastChunk
      BY <2>3, FrameFacts DEF Emit, callVars
    <3>2. client = "gone" /\ out # <<>>
      BY <1>1, <3>1 DEF PhaseInv
    <3>3. OutputInv' /\ out' # <<>>
      BY <2>2, <3>1, <3>2
    <3>4. PhaseInv'
      BY <3>1, <3>2, <3>3 DEF PhaseInv, Before, Sink, Ending
    <3> QED
      BY <3>3, <3>4 DEF RelayInv
  <2>4. CASE Emit("error", ErrorEvent, "last")
    <3>1. /\ pc = "error" /\ pc' = "last" /\ out' = Append(out, ErrorEvent)
          /\ header_started' = (header_started \/ ErrorEvent = Header)
          /\ UNCHANGED <<backend, client, ec, report>>
          /\ ErrorEvent # LastChunk /\ ErrorEvent # Done
      BY <2>4, FrameFacts DEF Emit, callVars
    <3>2. out # <<>> /\ (client = "here" =>
             report = "failure" /\ (WrittenIn(out, Done) => ec = "timeout"))
      BY <1>1, <3>1 DEF PhaseInv
    <3>3. /\ OutputInv' /\ out' # <<>>
          /\ \A y : WrittenIn(out', y) <=> WrittenIn(out, y) \/ ErrorEvent = y
      BY <2>2, <3>1, <3>2
    <3>4. client = "here" => Told(out', backend', ec', report')
      BY <3>1, <3>2, <3>3 DEF Told
    <3>5. PhaseInv'
      BY <3>1, <3>3, <3>4 DEF PhaseInv, Before, Sink, Ending
    <3> QED
      BY <3>3, <3>5 DEF RelayInv
  <2>5. CASE Emit("last", LastChunk, "end")
    <3>1. /\ pc = "last" /\ pc' = "end" /\ out' = Append(out, LastChunk)
          /\ header_started' = (header_started \/ LastChunk = Header)
          /\ UNCHANGED <<backend, client, ec, report>>
          /\ LastChunk # ErrorEvent /\ LastChunk # Done
      BY <2>5, FrameFacts DEF Emit, callVars
    <3>2. out # <<>> /\ (client = "here" => Told(out, backend, ec, report))
      BY <1>1, <3>1 DEF PhaseInv
    <3>3. /\ OutputInv' /\ out' # <<>>
          /\ \A y : WrittenIn(out', y) <=> WrittenIn(out, y) \/ LastChunk = y
      BY <2>2, <3>1, <3>2
    <3>4. client = "here" => Told(out', backend', ec', report')
      BY <3>1, <3>2, <3>3 DEF Told
    <3>5. PhaseInv'
      BY <3>1, <3>3, <3>4 DEF PhaseInv, Before, Sink, Ending
    <3> QED
      BY <3>3, <3>5 DEF RelayInv
  <2> QED
    BY <1>19, <2>1, <2>3, <2>4, <2>5 DEF WriteEnding
<1>20. CASE EndingFails
  <2>1. /\ client = "gone" /\ pc' = "end"
        /\ UNCHANGED <<out, backend, header_started, client>>
    BY <1>20 DEF EndingFails, WriteFails, callVars
  <2>2. OutputInv'
    BY <1>1, <2>1 DEF OutputInv
  <2>3. PhaseInv'
    BY <2>1 DEF PhaseInv, Before, Sink, Ending
  <2> QED
    BY <2>2, <2>3 DEF RelayInv
<1>21. CASE Answered
  <2>1. /\ pc = "answer" /\ pc' = "end"
        /\ UNCHANGED <<out, backend, header_started, client>>
    BY <1>21 DEF Answered, callVars
  <2>2. out = <<>>
    BY <1>1, <2>1 DEF PhaseInv
  <2>3. OutputInv'
    BY <1>1, <2>1 DEF OutputInv
  <2>4. PhaseInv'
    BY <2>1, <2>2 DEF PhaseInv, Before, Sink, Ending
  <2> QED
    BY <2>3, <2>4 DEF RelayInv
<1> QED
  BY <1>7, <1>8, <1>9, <1>10, <1>11, <1>12, <1>13, <1>14, <1>15, <1>16, <1>17, <1>18, <1>19,
     <1>20, <1>21
  DEF Next, Call, Relay

\* The invariant holds in every state of every behaviour.
LEMMA RelayInvariance == Spec => []RelayInv
<1>1. Init => RelayInv
  <2> SUFFICES ASSUME Init PROVE RelayInv
    OBVIOUS
  <2>1. out = <<>> /\ out \in Seq(Frame) /\ Len(out) = 0
    BY DEF Init
  <2>2. OutputInv
    <3>1. InOrder(out, backend.chunks) /\ ~WrittenIn(out, LastChunk)
      BY <2>1 DEF InOrder, WrittenIn
    <3>2. /\ backend \in [chunks : Nat, done : BOOLEAN] /\ client = "here"
          /\ header_started = FALSE
      BY DEF Init
    <3> QED
      BY <2>1, <3>1, <3>2, Zenon DEF OutputInv
  <2>3. PhaseInv
    BY DEF Init, PhaseInv, Before, Sink, Ending
  <2> QED
    BY <2>2, <2>3 DEF RelayInv
<1> QED
  BY <1>1, RelayStep, PTL DEF Spec

-----------------------------------------------------------------------------
\* However the backend's stream is cut into reads, and wherever it breaks off:
\* nothing is lost, doubled or overtaken, and a response that is ended properly
\* is complete or says that it is not.
THEOREM RelayNeverTruncatesSilently == Spec => []NeverSilentTruncation
<1>1. RelayInv => NeverSilentTruncation
  <2> SUFFICES ASSUME RelayInv PROVE NeverSilentTruncation
    OBVIOUS
  <2>1. FramesInOrder
    BY DEF RelayInv, OutputInv, InOrder, FramesInOrder
  <2>2. \A x : Written(x) <=> WrittenIn(out, x)
    BY DEF Written, WrittenIn
  <2>3. ASSUME Written(LastChunk), client = "here"
        PROVE  \/ Written(ErrorEvent)
               \/ Written(Done) /\ \A i \in 1..backend.chunks : Written(Chunk(i))
    <3>1. pc = "end"
      BY <2>2, <2>3 DEF RelayInv, OutputInv
    <3>2. out # <<>>
      BY <2>3 DEF Written
    <3>3. Told(out, backend, ec, report)
      BY <2>3, <3>1, <3>2 DEF RelayInv, PhaseInv
    <3> QED
      BY <2>2, <3>3, Zenon DEF Told
  <2> QED
    BY <2>1, <2>3 DEF NeverSilentTruncation
<1> QED
  BY <1>1, RelayInvariance, PTL

\* What the breaker is told of a stream is what the client could see of it.
THEOREM RelayReportsWhatItSent == Spec => []ReportAgreesWithResponse
<1>1. RelayInv => ReportAgreesWithResponse
  <2> SUFFICES ASSUME RelayInv, pc = "end", client = "here", header_started
               PROVE  /\ report = "success" => Written(Done) /\ ~Written(ErrorEvent)
                      /\ report = "failure" => /\ Written(ErrorEvent)
                                               /\ Written(Done) => ec = "timeout"
                      /\ report # "none"
    BY DEF ReportAgreesWithResponse
  <2>1. header_started = TRUE
    BY Zenon
  <2>2. Told(out, backend, ec, report)
    BY <2>1 DEF RelayInv, OutputInv, PhaseInv
  <2>3. \A x : Written(x) <=> WrittenIn(out, x)
    BY DEF Written, WrittenIn
  <2> QED
    BY <2>2, <2>3 DEF Told
<1> QED
  BY <1>1, RelayInvariance, PTL

-----------------------------------------------------------------------------
(***************************************************************************)
(* The answers                                                             *)
(***************************************************************************)

\* The error blames no member of b that is well-formed.
Blames(error, b) ==
    /\ error.code = 400
    /\ error \notin {NoError, TheirError}
    /\ \A m \in {"model", "messages", "stream"} :
          error.param = m => ~WellFormed([WellFormedBody EXCEPT ![m] = b[m]])

\* parse() refuses exactly the bodies that are not well-formed, with a 400 that
\* names the member at fault or none.
LEMMA RefusedBodies ==
    ASSUME NEW b \in Bodies
    PROVE  \/ WellFormed(b) /\ ParseError(b) = NoError
           \/ ~WellFormed(b) /\ Blames(ParseError(b), b)
<1>1. \A p : /\ make_error("InvalidRequest", p).code = 400
             /\ make_error("InvalidRequest", p).param = p
             /\ make_error("InvalidRequest", p) \notin {NoError, TheirError}
  BY DEF make_error, status_code, NoError, TheirError
<1>2. ASSUME NEW p, p \in {"model", "messages", "stream"} =>
                       ~WellFormed([WellFormedBody EXCEPT ![p] = b[p]])
      PROVE  Blames(make_error("InvalidRequest", p), b)
  <2> DEFINE error == make_error("InvalidRequest", p)
  <2>1. error.code = 400 /\ error.param = p /\ error \notin {NoError, TheirError}
    BY <1>1
  <2> HIDE DEF error
  <2>2. Blames(error, b)
    BY <1>2, <2>1, ZenonT(60) DEF Blames
  <2> QED
    BY <2>2 DEF error
<1>3. CASE b.json # "object"
  <2>1. ParseError(b) = make_error("InvalidRequest", "null")
    BY <1>3 DEF ParseError
  <2>2. Blames(make_error("InvalidRequest", "null"), b)
    BY <1>2, Zenon
  <2> QED
    BY <1>3, <2>1, <2>2 DEF WellFormed
<1>4. CASE b.json = "object"
  <2>1. /\ b.model \in {"absent", "not a string", "served", "unknown"}
        /\ b.messages \in {"absent", "not an array", "empty", "without role", "good"}
        /\ b.stream \in {"absent", "not a boolean", "true", "false"}
    BY <1>4, Zenon DEF Bodies
  <2>2. CASE b.model \notin {"served", "unknown"}
    <3>1. ParseError(b) = make_error("InvalidRequest", "model") /\ ~WellFormed(b)
      BY <1>4, <2>1, <2>2, Zenon DEF ParseError, WellFormed
    <3>2. ~WellFormed([WellFormedBody EXCEPT !["model"] = b["model"]])
      BY <2>2 DEF WellFormed, WellFormedBody
    <3> QED
      BY <1>2, <3>1, <3>2, Zenon
  <2>3. CASE b.model \in {"served", "unknown"} /\ b.messages # "good"
    <3>1. ParseError(b) = make_error("InvalidRequest", "messages") /\ ~WellFormed(b)
      BY <1>4, <2>1, <2>3, Zenon DEF ParseError, WellFormed
    <3>2. ~WellFormed([WellFormedBody EXCEPT !["messages"] = b["messages"]])
      BY <2>3 DEF WellFormed, WellFormedBody
    <3> QED
      BY <1>2, <3>1, <3>2, Zenon
  <2>4. CASE /\ b.model \in {"served", "unknown"} /\ b.messages = "good"
             /\ b.stream = "not a boolean"
    <3>1. ParseError(b) = make_error("InvalidRequest", "stream") /\ ~WellFormed(b)
      BY <1>4, <2>1, <2>4, Zenon DEF ParseError, WellFormed
    <3>2. ~WellFormed([WellFormedBody EXCEPT !["stream"] = b["stream"]])
      BY <2>4, Zenon DEF WellFormed, WellFormedBody
    <3> QED
      BY <1>2, <3>1, <3>2, Zenon
  <2>5. CASE /\ b.model \in {"served", "unknown"} /\ b.messages = "good"
             /\ b.stream # "not a boolean"
    BY <1>4, <2>1, <2>5, Zenon DEF ParseError, WellFormed
  <2> QED
    BY <2>2, <2>3, <2>4, <2>5, Zenon
<1> QED
  BY <1>3, <1>4

\* A status and an error object that fit, and blame no member in a 400.
Fits(status, error) ==
    /\ status = 200 <=> error = NoError
    /\ error \notin {NoError, TheirError} => error.code = status
    /\ status = 400 => error.param \notin {"model", "messages", "stream"}

\* The answers handle_chat() gives to a body that parses.
LEMMA FittingAnswers ==
    /\ Fits(404, make_error("UnknownModel", "model"))
    /\ Fits(503, make_error("NoBackend", "null"))
    /\ Fits(502, make_error("UpstreamFailure", "null"))
    /\ \A kind \in {"UpstreamTimeout", "UpstreamFailure"} :
          status_code(kind) # 400 /\ Fits(status_code(kind), make_error(kind, "null"))
    /\ Fits(200, NoError)
    /\ \A b \in ErrorBodies, s \in {400, 500} : Fits(s, wrap_upstream_error(b, s))
<1>1. NoError # TheirError /\ TheirError.param = "backend"
  BY DEF NoError, TheirError
<1>2. \A p : \A kind \in {"UnknownModel", "NoBackend", "UpstreamFailure", "UpstreamTimeout"} :
         /\ make_error(kind, p) # NoError
         /\ make_error(kind, p).code = status_code(kind)
  BY DEF make_error, NoError
<1>3. /\ status_code("UnknownModel") = 404 /\ status_code("NoBackend") = 503
      /\ status_code("UpstreamFailure") = 502 /\ status_code("UpstreamTimeout") = 504
  BY DEF status_code
<1>4. ASSUME NEW b \in ErrorBodies, NEW s \in {400, 500} PROVE Fits(s, wrap_upstream_error(b, s))
  <2>1. CASE b = "openai"
    BY <1>1, <2>1 DEF Fits, wrap_upstream_error
  <2>2. CASE b # "openai"
    BY <1>1, <2>2 DEF Fits, wrap_upstream_error, NoError
  <2> QED
    BY <2>1, <2>2
<1> QED
  BY <1>1, <1>2, <1>3, <1>4 DEF Fits

\* Only a body that parses leaves the start, an error status waits in "drain",
\* and the answer given explains itself.
AnswerInv ==
    /\ body \in Bodies
    /\ pc = "start" => report = "none"
    /\ pc = "drain" => http_status \in {400, 500}
    /\ AnswersExplainThemselves

\* An answer that fits, to a body that parses.
LEMMA AnswerToWellFormed ==
    ASSUME NEW status, NEW error, Answer(status, error), Fits(status, error),
           body' = body, body \in Bodies, WellFormed(body), status = 400 => report' # "none"
    PROVE  AnswerInv'
<1>1. pc' = "answer" /\ answer'.status = status /\ answer'.error = error
  BY DEF Answer
<1>2. /\ answer'.status = 200 <=> answer'.error = NoError
      /\ answer'.error \notin {NoError, TheirError} => answer'.error.code = answer'.status
      /\ answer'.status = 400 => answer'.error.param \notin {"model", "messages", "stream"}
  BY <1>1 DEF Fits
<1>3. WellFormed(body')
  OBVIOUS
<1> QED
  BY <1>1, <1>2, <1>3 DEF AnswerInv, AnswersExplainThemselves

\* Every step keeps it.
LEMMA AnswerStep == AnswerInv /\ [Next]_vars => AnswerInv'
<1> SUFFICES ASSUME AnswerInv, [Next]_vars PROVE AnswerInv'
  OBVIOUS
<1>1. body \in Bodies
  BY DEF AnswerInv
<1>2. pc \notin {"start", "answer", "end"} => WellFormed(body)
  BY DEF AnswerInv, AnswersExplainThemselves
\* The steps that go on with the request, or end it.
<1>3. ASSUME body' = body, pc' \notin {"start", "answer", "drain"}, pc' = "end" \/ WellFormed(body)
      PROVE  AnswerInv'
  BY <1>1, <1>3 DEF AnswerInv, AnswersExplainThemselves
\* The steps that leave it where it is.
<1>4. ASSUME UNCHANGED <<pc, body, answer, report, http_status>>
      PROVE  AnswerInv'
  BY <1>4 DEF AnswerInv, AnswersExplainThemselves
<1>5. CASE Reject
  <2>1. body' = body /\ report' = "none"
    BY <1>5 DEF Reject, callVars, AnswerInv
  <2>2. CASE ParseError(body) # NoError /\ Answer(ParseError(body).code, ParseError(body))
    <3>1. ~WellFormed(body) /\ Blames(ParseError(body), body)
      BY <1>1, <2>2, RefusedBodies, Zenon
    <3>2. pc' = "answer" /\ answer'.status = 400 /\ answer'.error = ParseError(body)
      BY <2>2, <3>1 DEF Answer, Blames
    <3> DEFINE error == ParseError(body)
    <3> HIDE DEF error
    <3>3. Blames(error, body) /\ answer'.error = error
      BY <3>1, <3>2 DEF error
    <3>4. error \notin {NoError, TheirError} /\ error.code = 400
      BY <3>3 DEF Blames
    <3>5. \A m \in {"model", "messages", "stream"} :
             error.param = m => ~WellFormed([WellFormedBody EXCEPT ![m] = body[m]])
      BY <3>3, Zenon DEF Blames
    <3>6. ~WellFormed(body')
      BY <2>1, <3>1
    <3> QED
      BY <1>1, <2>1, <3>2, <3>3, <3>4, <3>5, <3>6 DEF AnswerInv, AnswersExplainThemselves
  <2>3. CASE ParseError(body) = NoError /\ (\/ Answer(404, make_error("UnknownModel", "model"))
                                            \/ Answer(503, make_error("NoBackend", "null")))
    <3>1. WellFormed(body)
      BY <1>1, <2>3, RefusedBodies, Zenon DEF Blames
    <3> QED
      BY <1>1, <2>1, <2>3, <3>1, FittingAnswers, AnswerToWellFormed
  <2> QED
    BY <1>5, <2>2, <2>3, Zenon DEF Reject
<1>6. CASE Dispatch
  <2>1. ParseError(body) = NoError /\ pc' = "resolve" /\ body' = body
    BY <1>6, Zenon DEF Dispatch, callVars
  <2>2. WellFormed(body)
    BY <1>1, <2>1, RefusedBodies, Zenon DEF Blames
  <2> QED
    BY <1>3, <2>1, <2>2
<1>7. CASE NotConnected
  <2>1. pc \in {"resolve", "connect"} /\ body' = body /\ report' = "failure"
    BY <1>7 DEF NotConnected, callVars
  <2>2. \/ Answer(502, make_error("UpstreamFailure", "null"))
        \/ Answer(503, make_error("NoBackend", "null"))
    BY <1>7, Zenon DEF NotConnected
  <2> QED
    BY <1>1, <1>2, <2>1, <2>2, FittingAnswers, AnswerToWellFormed
<1>8. CASE ExchangeFails
  <2>1. pc \in {"send", "head", "reply"} /\ body' = body
    BY <1>8 DEF ExchangeFails, callVars
  <2>2. \/ Answer(502, make_error("UpstreamFailure", "null"))
        \/ Answer(200, NoError)
    BY <1>8, Zenon DEF ExchangeFails
  <2> QED
    BY <1>1, <1>2, <2>1, <2>2, FittingAnswers, AnswerToWellFormed
<1>9. CASE ReplyRead
  <2>1. pc = "reply" /\ body' = body /\ report' \in {"success", "failure"}
    BY <1>9 DEF ReplyRead
  <2>2. \/ Answer(200, NoError)
        \/ \E b \in ErrorBodies, s \in {400, 500} : Answer(s, wrap_upstream_error(b, s))
    BY <1>9 DEF ReplyRead
  <2> QED
    BY <1>1, <1>2, <2>1, <2>2, FittingAnswers, AnswerToWellFormed
<1>10. CASE Drained
  <2>1. pc = "drain" /\ body' = body /\ report' = "failure" /\ http_status \in {400, 500}
    BY <1>10 DEF Drained, callVars, AnswerInv
  <2>2. \E b \in ErrorBodies : Answer(http_status, wrap_upstream_error(b, http_status))
    BY <1>10 DEF Drained
  <2> QED
    BY <1>1, <1>2, <2>1, <2>2, FittingAnswers, AnswerToWellFormed
<1>11. ASSUME NEW e, NEW stopped, Settle(e, stopped), body' = body, WellFormed(body)
       PROVE  AnswerInv'
  <2>1. \/ \E kind \in {"UpstreamTimeout", "UpstreamFailure"} :
              Answer(status_code(kind), make_error(kind, "null"))
        \/ pc' \in {"again", "end", "error", "last"}
    BY <1>11, Zenon DEF Settle
  <2> QED
    BY <1>1, <1>3, <1>11, <2>1, FittingAnswers, AnswerToWellFormed
<1>12. CASE Read
  <2>1. PICK n \in 0..(MaxChunks - backend.chunks), d \in BOOLEAN,
             e \in {"more", "timeout", "dropped", "complete"},
             flushed \in {<<>>, <<Cut>>} : ReadEnds(n, d, e, flushed)
    BY <1>12 DEF Read
  <2>2. /\ pc = "read" /\ body' = body
        /\ \/ pc' \in {"begin", "write", "read"}
           \/ Settle(e, FALSE)
    BY <2>1, Zenon DEF ReadEnds, BeginRead
  <2> QED
    BY <1>2, <1>3, <1>11, <2>2, Zenon
<1>13. CASE Write
  <2>1. /\ pc = "write" /\ body' = body
        /\ \/ pc' \in {"write", "read"}
           \/ Settle(ec, FALSE)
    BY <1>13, Zenon DEF Write, BeginRead
  <2> QED
    BY <1>2, <1>3, <1>11, <2>1, Zenon
<1>14. CASE SinkFails
  BY <1>2, <1>11, <1>14, Zenon DEF SinkFails
<1>15. CASE HeadRead
  <2>1. pc = "head" /\ body' = body
    BY <1>15 DEF HeadRead
  <2>2. CASE pc' = "read"
    BY <1>2, <1>3, <2>1, <2>2
  <2>3. CASE pc' = "drain" /\ http_status' \in {400, 500}
    BY <1>1, <1>2, <2>1, <2>3 DEF AnswerInv, AnswersExplainThemselves
  <2> QED
    BY <1>15, <2>2, <2>3 DEF HeadRead, BeginRead
<1>16. CASE Resolved \/ Connected \/ Sent
  BY <1>2, <1>3, <1>16 DEF Resolved, Connected, Sent, callVars
<1>17. CASE Begin \/ WriteEnding
  BY <1>2, <1>3, <1>17 DEF Begin, WriteEnding, Emit, callVars
<1>18. CASE EndingFails \/ Answered
  BY <1>3, <1>18 DEF EndingFails, Answered, callVars
<1>19. CASE HealthChanges \/ Tick \/ ClientLeaves \/ UNCHANGED vars
  BY <1>4, <1>19 DEF HealthChanges, Tick, ClientLeaves, callVars, vars
<1> QED
  BY <1>5, <1>6, <1>7, <1>8, <1>9, <1>10, <1>12, <1>13, <1>14, <1>15, <1>16, <1>17,
     <1>18, <1>19
  DEF Next, Call, Relay

\* Every answer that is no stream says what went wrong and whose fault it was,
\* and no malformed body reaches a backend.
THEOREM RelayExplainsItsAnswers == Spec => []AnswersExplainThemselves
<1>1. Init => AnswerInv
  BY DEF Init, AnswerInv, AnswersExplainThemselves
<1>2. AnswerInv => AnswersExplainThemselves
  BY DEF AnswerInv
<1> QED
  BY <1>1, <1>2, AnswerStep, PTL DEF Spec

-----------------------------------------------------------------------------
(***************************************************************************)
(* What Gateway sees                                                       *)
(***************************************************************************)

\* The breaker after f failures.
Fields(s, e, f) == [state |-> s, elapsed |-> e, consecutive_failures |-> f]

Brk(f) == Fields("Closed", FALSE, f)

\* The locals while the call goes on and after an empty stream.
CallLocals(stream, started) ==
    [IdleLocals EXCEPT !.pc = "upstream", !.stream = stream, !.order = <<"b">>, !.pos = 1,
                       !.attempts = 1, !.header_started = started, !.slot = {"b"}]

UnaryLocals == CallLocals(FALSE, FALSE)

BeginningLocals == [IdleLocals EXCEPT !.pc = "beginning", !.slot = {"b"}]

\* Gateway sees a request with locals l, t tickets and f failures.
View(l, t, f) ==
    /\ gw_req = [r \in {"r"} |-> l]
    /\ gw_active = [b \in {"b"} |-> IF b \in l.slot THEN 1 ELSE 0]
    /\ gw_in_flight = t
    /\ gw_tickets = IF t = 1 THEN {"r"} ELSE {}
    /\ gw_breaker = [b \in {"b"} |-> Brk(f)]

Fails == IF report = "failure" THEN 1 ELSE 0

-----------------------------------------------------------------------------
(***************************************************************************)
(* What Gateway sees at each suspension                                    *)
(***************************************************************************)

\* The invariant: what was reported, answered and sent by then.
MapInv ==
    /\ healthy \in BOOLEAN /\ header_started \in BOOLEAN
    /\ pc \in {"start"} \cup InCallPcs => report = "none"
    /\ pc \in {"start", "resolve", "connect", "send", "reply", "head", "drain", "begin"}
          => header_started = FALSE
    /\ pc = "write" => header_started = TRUE
    /\ pc \in {"start", "resolve", "connect", "send", "reply", "head"} => http_status = 0
    /\ pc = "drain" => http_status \in {400, 500}
    /\ pc \in {"head", "drain", "read", "begin", "write"} => IsStream(body)
    /\ pc = "reply" => ~IsStream(body)

\* Before and after the request.
LEMMA RestView ==
    ASSUME pc \in {"start", "end"}
    PROVE  View(IdleLocals, 0, Fails)
<1>1. Locals = IdleLocals
  <2>1. pc \notin InCallPcs /\ pc # "again" /\ pc # "answer"
    BY DEF InCallPcs
  <2> QED
    BY <2>1, SMTT(30) DEF Locals
<1>2. gw_in_flight = 0 /\ gw_tickets = {}
  BY DEF gw_in_flight, gw_tickets, TicketHeld
<1> QED
  BY <1>1, <1>2 DEF View, gw_req, gw_active, gw_breaker, Brk, Fields, Fails

\* During the call.
LEMMA CallView ==
    ASSUME MapInv, pc \in InCallPcs
    PROVE  View(CallLocals(IsStream(body), header_started), 1, 0)
<1>1. Locals = CallLocals(IsStream(body), header_started)
  BY DEF Locals, InCallPcs, CallLocals
<1>2. gw_in_flight = 1 /\ gw_tickets = {"r"}
  BY DEF gw_in_flight, gw_tickets, TicketHeld, InCallPcs
<1>3. report = "none"
  BY DEF MapInv
<1> QED
  BY <1>1, <1>2, <1>3 DEF View, gw_req, gw_active, gw_breaker, Brk, Fields

\* Before the second attempt at the header.
LEMMA AgainView ==
    ASSUME pc = "again"
    PROVE  View(BeginningLocals, 1, Fails)
<1>1. Locals = BeginningLocals
  BY DEF Locals, InCallPcs, BeginningLocals
<1>2. gw_in_flight = 1 /\ gw_tickets = {"r"}
  BY DEF gw_in_flight, gw_tickets, TicketHeld
<1> QED
  BY <1>1, <1>2 DEF View, gw_req, gw_active, gw_breaker, Brk, Fields, Fails

\* While the end of a stream is written.
LEMMA EndingView ==
    ASSUME pc \in {"sentinel", "error", "last"}
    PROVE  View(WritingLocals({"b"}, 200, "none"), 1, Fails)
<1>1. Locals = WritingLocals({"b"}, 200, "none")
  <2>1. pc \notin InCallPcs /\ pc \notin {"start", "end"} /\ pc # "again" /\ pc # "answer"
    BY DEF InCallPcs
  <2> QED
    BY <2>1 DEF Locals
<1>2. gw_in_flight = 1 /\ gw_tickets = {"r"}
  BY DEF gw_in_flight, gw_tickets, TicketHeld
<1> QED
  BY <1>1, <1>2 DEF View, gw_req, gw_active, gw_breaker, Brk, Fields, Fails

\* While an answer is written: given with the slot, without it, or before the
\* admission.
LEMMA AnswerView ==
    ASSUME pc = "answer"
    PROVE  /\ report = "none" /\ answer.status # 503 =>
                 View(WritingLocals({}, answer.status, "none"), 0, 0)
           /\ answer.status = 503 => View(WritingLocals({}, 503, "none"), 1, Fails)
           /\ report # "none" /\ answer.status # 503 =>
                 View(WritingLocals({"b"}, answer.status, Outcome), 1, Fails)
<1>1. Locals = WritingLocals(IF SlotHeld THEN {"b"} ELSE {}, answer.status, Outcome)
  BY DEF Locals, InCallPcs
<1>2. CASE report = "none" /\ answer.status # 503
  <2>1. ~SlotHeld /\ ~TicketHeld
    BY <1>2 DEF SlotHeld, TicketHeld
  <2>2. Outcome = "none" /\ Locals = WritingLocals({}, answer.status, "none")
    BY <1>1, <2>1 DEF Outcome
  <2> QED
    BY <1>2, <2>1, <2>2 DEF View, gw_req, gw_active, gw_breaker, gw_in_flight, gw_tickets,
                            Brk, Fields
<1>3. CASE answer.status = 503
  <2>1. ~SlotHeld /\ TicketHeld
    BY <1>3 DEF SlotHeld, TicketHeld
  <2>2. Outcome = "none" /\ Locals = WritingLocals({}, 503, "none")
    BY <1>1, <1>3, <2>1 DEF Outcome
  <2> QED
    BY <1>3, <2>1, <2>2 DEF View, gw_req, gw_active, gw_breaker, gw_in_flight, gw_tickets,
                            Brk, Fields, Fails
<1>4. CASE report # "none" /\ answer.status # 503
  <2>1. SlotHeld /\ TicketHeld
    BY <1>4 DEF SlotHeld, TicketHeld
  <2>2. Locals = WritingLocals({"b"}, answer.status, Outcome)
    BY <1>1, <2>1
  <2> QED
    BY <1>4, <2>1, <2>2 DEF View, gw_req, gw_active, gw_breaker, gw_in_flight, gw_tickets,
                            Brk, Fields, Fails
<1> QED
  BY <1>2, <1>3, <1>4
-----------------------------------------------------------------------------
(***************************************************************************)
(* The invariant                                                           *)
(***************************************************************************)

\* What handle_chat() does when the read loop is over keeps it.
LEMMA SettleKeepsMap ==
    ASSUME NEW e, NEW stopped, MapInv, Settle(e, stopped),
           UNCHANGED <<healthy, header_started>>
    PROVE  MapInv'
<1>1. pc' \in {"answer", "again", "end", "error", "last"}
  BY DEF Settle, Answer
<1>2. pc' \notin {"start", "write", "drain", "reply", "read", "head", "begin", "resolve",
                  "connect", "send"}
  BY <1>1
<1> QED
  BY <1>2, ZenonT(60) DEF MapInv, InCallPcs

\* Initially.
LEMMA InitMap == Init => MapInv
  BY Zenon DEF Init, MapInv, InCallPcs

\* Every step keeps it.
LEMMA NextMap == MapInv /\ [Next]_vars => MapInv'
<1> SUFFICES ASSUME MapInv, [Next]_vars PROVE MapInv'
  OBVIOUS
<1> USE DEF MapInv, InCallPcs
<1>1. CASE UNCHANGED vars
  BY <1>1 DEF vars
<1>2. CASE HealthChanges
  BY <1>2 DEF HealthChanges, clockVars
<1>3. CASE Reject
  BY <1>3, ZenonT(60) DEF Reject, Answer, callVars
<1>4. CASE Dispatch
  BY <1>4 DEF Dispatch, callVars
<1>5. CASE Tick
  BY <1>5 DEF Tick, callVars
<1>6. CASE NotConnected
  BY <1>6 DEF NotConnected, Answer, callVars
<1>7. CASE Resolved
  BY <1>7 DEF Resolved, callVars
<1>8. CASE Connected
  BY <1>8 DEF Connected, callVars
<1>9. CASE Sent
  BY <1>9 DEF Sent, callVars
<1>10. CASE ExchangeFails
  BY <1>10 DEF ExchangeFails, Answer, callVars
<1>11. CASE ReplyRead
  BY <1>11 DEF ReplyRead, Answer
<1>12. CASE HeadRead
  BY <1>12 DEF HeadRead, BeginRead
<1>13. CASE Drained
  BY <1>13 DEF Drained, Answer, callVars
<1>14. CASE Read
  <2>1. PICK n, d, e, flushed : ReadEnds(n, d, e, flushed)
    BY <1>14, Zenon DEF Read
  <2>2. pc = "read" /\ UNCHANGED <<body, healthy, http_status, header_started>>
    BY <2>1 DEF ReadEnds
  <2>3. CASE Settle(e, FALSE)
    BY <2>2, <2>3, SettleKeepsMap, ZenonT(60)
  <2>4. CASE pc' = (IF header_started THEN "write" ELSE "begin") /\ UNCHANGED report
    BY <2>2, <2>4
  <2>5. CASE BeginRead
    BY <2>2, <2>5, ZenonT(60) DEF BeginRead
  <2> QED
    BY <2>1, <2>3, <2>4, <2>5, ZenonT(60) DEF ReadEnds
<1>15. CASE Begin
  BY <1>15 DEF Begin, callVars
<1>16. CASE Write
  <2>2. pc = "write" /\ UNCHANGED <<body, healthy, http_status, header_started>>
    BY <1>16 DEF Write
  <2>3. CASE Settle(ec, FALSE)
    BY <2>2, <2>3, SettleKeepsMap, ZenonT(60)
  <2>4. CASE UNCHANGED <<pc, report>>
    BY <2>2, <2>4
  <2>5. CASE BeginRead
    BY <2>2, <2>5 DEF BeginRead
  <2> QED
    BY <1>16, <2>3, <2>4, <2>5, Zenon DEF Write
<1>17. CASE SinkFails
  <2>1. Settle(ec, TRUE) /\ UNCHANGED <<healthy, header_started>>
    BY <1>17, ZenonT(60) DEF SinkFails
  <2> QED
    BY <2>1, SettleKeepsMap, Zenon
<1>18. CASE WriteEnding
  <2>1. ASSUME NEW at, NEW x, NEW next \in {"sentinel", "last", "end"}, Emit(at, x, next)
        PROVE  MapInv'
    <3>1. pc' = next /\ healthy' = healthy /\ header_started' \in BOOLEAN
      BY <2>1 DEF Emit, callVars
    <3> QED
      BY <3>1
  <2> QED
    BY <1>18, <2>1, ZenonT(60) DEF WriteEnding
<1>19. CASE EndingFails
  BY <1>19 DEF EndingFails, callVars
<1>20. CASE Answered
  BY <1>20 DEF Answered, callVars
<1>21. CASE ClientLeaves
  BY <1>21 DEF ClientLeaves, callVars
<1> QED
  BY <1>1, <1>2, <1>3, <1>4, <1>5, <1>6, <1>7, <1>8, <1>9, <1>10, <1>11, <1>12, <1>13, <1>14,
     <1>15, <1>16, <1>17, <1>18, <1>19, <1>20, <1>21, ZenonT(60) DEF Next, Call, Relay

\* In every state.
LEMMA MapInvariance == Spec => []MapInv
  BY InitMap, NextMap, PTL DEF Spec

-----------------------------------------------------------------------------
(***************************************************************************)
(* What Gateway sees of each step of the relay                             *)
(***************************************************************************)

\* What Gateway sees, whatever the suspension.
Seen ==
    /\ pc \in {"start", "end"} => View(IdleLocals, 0, Fails)
    /\ pc \in InCallPcs => View(CallLocals(IsStream(body), header_started), 1, 0)
    /\ pc = "again" => View(BeginningLocals, 1, Fails)
    /\ pc \in {"sentinel", "error", "last"} => View(WritingLocals({"b"}, 200, "none"), 1, Fails)
    /\ pc = "answer" /\ report = "none" /\ answer.status # 503 =>
          View(WritingLocals({}, answer.status, "none"), 0, 0)
    /\ pc = "answer" /\ answer.status = 503 => View(WritingLocals({}, 503, "none"), 1, Fails)
    /\ pc = "answer" /\ report # "none" /\ answer.status # 503 =>
          View(WritingLocals({"b"}, answer.status, Outcome), 1, Fails)

\* (by the lemmas on each)
LEMMA Views == MapInv => Seen
<1> SUFFICES ASSUME MapInv PROVE Seen
  OBVIOUS
<1>1. pc \in {"start", "end"} => View(IdleLocals, 0, Fails)
  BY RestView
<1>2. pc \in InCallPcs => View(CallLocals(IsStream(body), header_started), 1, 0)
  BY CallView
<1>3. pc = "again" => View(BeginningLocals, 1, Fails)
  BY AgainView
<1>4. pc \in {"sentinel", "error", "last"} => View(WritingLocals({"b"}, 200, "none"), 1, Fails)
  BY EndingView
<1>5. /\ pc = "answer" /\ report = "none" /\ answer.status # 503 =>
            View(WritingLocals({}, answer.status, "none"), 0, 0)
      /\ pc = "answer" /\ answer.status = 503 => View(WritingLocals({}, 503, "none"), 1, Fails)
      /\ pc = "answer" /\ report # "none" /\ answer.status # 503 =>
            View(WritingLocals({"b"}, answer.status, Outcome), 1, Fails)
  BY AnswerView, ZenonT(60)
<1> QED
  BY <1>1, <1>2, <1>3, <1>4, <1>5, Zenon DEF Seen

\* After a step, too.
LEMMA ViewsNext == MapInv' => Seen'
  BY Views, PTL

\* What a step may look like: nothing changes, ...
NothingSeen ==
    UNCHANGED <<gw_req, gw_active, gw_in_flight, gw_tickets, gw_breaker, gw_healthy>>

\* ... the backend's health does, ...
HealthSeen ==
    /\ UNCHANGED <<gw_req, gw_active, gw_in_flight, gw_tickets, gw_breaker>>
    /\ \/ "b" \in gw_healthy /\ gw_healthy' = gw_healthy \ {"b"}
       \/ "b" \notin gw_healthy /\ gw_healthy' = gw_healthy \cup {"b"}

\* ... or the request comes in, ...
RejectSeen ==
    /\ View(IdleLocals, 0, 0) /\ UNCHANGED gw_healthy
    /\ \E code \in {400, 404} : View(WritingLocals({}, code, "none"), 0, 0)'

UnservedSeen ==
    /\ View(IdleLocals, 0, 0) /\ UNCHANGED gw_healthy /\ gw_healthy = {}
    /\ View(WritingLocals({}, 503, "none"), 1, 0)'

DispatchSeen ==
    /\ View(IdleLocals, 0, 0) /\ UNCHANGED gw_healthy /\ gw_healthy = {"b"}
    /\ \E stream \in BOOLEAN : View(CallLocals(stream, FALSE), 1, 0)'

\* ... a call ends that was not a stream, ...
RefusedSeen ==
    /\ View(UnaryLocals, 1, 0) /\ UNCHANGED gw_healthy
    /\ View(WritingLocals({}, 503, "none"), 1, 1)'

UnaryEnd(f, code, outcome) ==
    \/ f = 1 /\ code = 500 /\ outcome = "failed"
    \/ f = 0 /\ code = 400 /\ outcome = "failed"
    \/ f = 0 /\ code = 200 /\ outcome \in {"ok", "cut"}

UnarySeen ==
    /\ View(UnaryLocals, 1, 0) /\ UNCHANGED gw_healthy
    /\ \E f, code, outcome :
          UnaryEnd(f, code, outcome) /\ View(WritingLocals({"b"}, code, outcome), 1, f)'

\* ... one that was, before its first byte, ...
EmptySeen ==
    /\ View(CallLocals(TRUE, FALSE), 1, 0) /\ UNCHANGED gw_healthy
    /\ \E code \in {400, 500, 502, 504} : View(WritingLocals({"b"}, code, "none"), 1, 1)'

NoFrameSeen ==
    /\ View(CallLocals(TRUE, FALSE), 1, 0) /\ UNCHANGED gw_healthy
    /\ View(BeginningLocals, 1, 0)'

\* ... or after it, ...
FirstSeen ==
    /\ View(CallLocals(TRUE, FALSE), 1, 0) /\ UNCHANGED gw_healthy
    /\ View(CallLocals(TRUE, TRUE), 1, 0)'

BegunSeen ==
    /\ View(CallLocals(TRUE, TRUE), 1, 0) /\ UNCHANGED gw_healthy
    /\ \E f \in {0, 1} : View(WritingLocals({"b"}, 200, "none"), 1, f)'

GoneSeen ==
    /\ View(CallLocals(TRUE, TRUE), 1, 0) /\ UNCHANGED gw_healthy
    /\ View(IdleLocals, 0, 0)'

\* ... the header of an empty stream is written at last, or cannot be, ...
AgainSeen ==
    /\ UNCHANGED gw_healthy
    /\ \E f : View(BeginningLocals, 1, f) /\ View(WritingLocals({"b"}, 200, "none"), 1, f)'

ThrowSeen ==
    /\ UNCHANGED gw_healthy
    /\ \E f : View(BeginningLocals, 1, f) /\ View(IdleLocals, 0, f)'

\* ... and the response is over.
FinishSeen ==
    /\ UNCHANGED gw_healthy
    /\ \E slot \in {{}, {"b"}}, t \in {0, 1} : \E code, outcome, f :
          View(WritingLocals(slot, code, outcome), t, f) /\ View(IdleLocals, 0, f)'

StepSeen ==
    \/ NothingSeen \/ HealthSeen \/ RejectSeen \/ UnservedSeen \/ DispatchSeen
    \/ RefusedSeen \/ UnarySeen \/ EmptySeen \/ NoFrameSeen \/ FirstSeen \/ BegunSeen
    \/ GoneSeen \/ AgainSeen \/ ThrowSeen \/ FinishSeen

\* The end of the request.
LEMMA EndSeen ==
    ASSUME Seen', pc' = "end", NEW f, f = Fails, UNCHANGED <<report, healthy>>
    PROVE  View(IdleLocals, 0, f)' /\ UNCHANGED gw_healthy
<1>1. View(IdleLocals, 0, Fails)'
  BY DEF Seen
<1>2. Fails' = f /\ gw_healthy' = gw_healthy
  BY DEF Fails, gw_healthy
<1> QED
  BY <1>1, <1>2 DEF View

\* Gateway sees nothing of what happens within the call ...
LEMMA CallStutters ==
    ASSUME Seen, Seen', pc \in InCallPcs, pc' \in InCallPcs,
           UNCHANGED <<body, healthy, header_started>>
    PROVE  NothingSeen
<1>1. View(CallLocals(IsStream(body), header_started), 1, 0)
  BY DEF Seen
<1>2. View(CallLocals(IsStream(body), header_started), 1, 0)'
  BY DEF Seen
<1>3. IsStream(body') = IsStream(body) /\ header_started' = header_started
  BY DEF IsStream
<1>4. UNCHANGED <<gw_req, gw_active, gw_in_flight, gw_tickets, gw_breaker>>
  BY <1>1, <1>2, <1>3 DEF View
<1> QED
  BY <1>4 DEF NothingSeen, gw_healthy

\* ... nor between the last writes of a stream.
LEMMA EndingStutters ==
    ASSUME Seen, Seen', pc \in {"sentinel", "error", "last"}, pc' \in {"sentinel", "error", "last"},
           UNCHANGED <<report, healthy>>
    PROVE  NothingSeen
<1>1. View(WritingLocals({"b"}, 200, "none"), 1, Fails)
  BY DEF Seen
<1>2. View(WritingLocals({"b"}, 200, "none"), 1, Fails)'
  BY DEF Seen
<1>3. Fails' = Fails
  BY DEF Fails
<1>4. UNCHANGED <<gw_req, gw_active, gw_in_flight, gw_tickets, gw_breaker>>
  BY <1>1, <1>2, <1>3 DEF View
<1> QED
  BY <1>4 DEF NothingSeen, gw_healthy

\* Gateway sees nothing of the client, of the chunks and of the clock.
LEMMA OtherStutters ==
    ASSUME UNCHANGED <<pc, callVars, answer, header_started, report>>
    PROVE  NothingSeen
<1>1. UNCHANGED <<pc, body, healthy, http_status, answer, header_started, report>>
  BY DEF callVars
<1>2. UNCHANGED <<SlotHeld, TicketHeld>>
  BY <1>1 DEF SlotHeld, TicketHeld
<1>3. UNCHANGED Outcome
  BY <1>1, <1>2 DEF Outcome, IsStream
<1>4. UNCHANGED Locals
  BY <1>1, <1>2, <1>3 DEF Locals, IsStream
<1> QED
  BY <1>1, <1>2, <1>4 DEF NothingSeen, gw_healthy, gw_in_flight, gw_tickets, gw_breaker, gw_active,
                          gw_req

\* What Answer() decides.
LEMMA AnswerGiven ==
    ASSUME NEW s, NEW e, Answer(s, e)
    PROVE  pc' = "answer" /\ answer'.status = s
BY DEF Answer

\* The answer that follows a failed or completed call.
LEMMA AnswerSeen ==
    ASSUME Seen', pc' = "answer", NEW code, answer'.status = code, code # 503,
           report' \in {"success", "failure"}, NEW outcome, Outcome' = outcome
    PROVE  /\ report' = "failure" => View(WritingLocals({"b"}, code, outcome), 1, 1)'
           /\ report' = "success" => View(WritingLocals({"b"}, code, outcome), 1, 0)'
<1>1. View(WritingLocals({"b"}, answer.status, Outcome), 1, Fails)'
  BY DEF Seen
<1>2. (report' = "failure" => Fails' = 1) /\ (report' = "success" => Fails' = 0)
  BY DEF Fails
<1> QED
  BY <1>1, <1>2

\* What is seen of a request in its call.
LEMMA CallSeen ==
    ASSUME Seen, pc \in InCallPcs
    PROVE  /\ IsStream(body) /\ header_started = FALSE => View(CallLocals(TRUE, FALSE), 1, 0)
           /\ IsStream(body) /\ header_started = TRUE => View(CallLocals(TRUE, TRUE), 1, 0)
           /\ ~IsStream(body) /\ header_started = FALSE => View(CallLocals(FALSE, FALSE), 1, 0)
<1>1. View(CallLocals(IsStream(body), header_started), 1, 0)
  BY DEF Seen
<1>2. IsStream(body) \in BOOLEAN
  BY DEF IsStream
<1> QED
  BY <1>1, <1>2, ZenonT(60)

\* Before the call.
LEMMA BeforeMaps ==
    ASSUME MapInv, Seen, Seen', HealthChanges \/ Reject \/ Dispatch
    PROVE  StepSeen
<1>1. pc = "start" /\ report = "none" /\ healthy \in BOOLEAN /\ header_started = FALSE
  BY DEF MapInv, HealthChanges, Reject, Dispatch
<1>2. View(IdleLocals, 0, 0)
  <2>1. Fails = 0
    BY <1>1 DEF Fails
  <2> QED
    BY <1>1, <2>1 DEF Seen
<1>3. CASE HealthChanges
  <2>1. UNCHANGED <<pc, body, http_status, answer, header_started, report>> /\ healthy' = ~healthy
    BY <1>3 DEF HealthChanges
  <2>2. View(IdleLocals, 0, 0)'
    <3>1. View(IdleLocals, 0, Fails)'
      BY <1>1, <2>1 DEF Seen
    <3>2. Fails' = 0
      BY <1>1, <2>1 DEF Fails
    <3> QED
      BY <3>1, <3>2 DEF View
  <2>3. UNCHANGED <<gw_req, gw_active, gw_in_flight, gw_tickets, gw_breaker>>
    BY <1>2, <2>2 DEF View
  <2>4. \/ "b" \in gw_healthy /\ gw_healthy' = gw_healthy \ {"b"}
        \/ "b" \notin gw_healthy /\ gw_healthy' = gw_healthy \cup {"b"}
    BY <1>1, <2>1, ZenonT(60) DEF gw_healthy
  <2>5. HealthSeen
    BY <2>3, <2>4, Zenon DEF HealthSeen
  <2> QED
    BY <2>5 DEF StepSeen
<1>4. CASE Reject
  <2>1. pc' = "answer" /\ UNCHANGED <<healthy, report, gw_healthy>>
    <3>1. UNCHANGED <<callVars, report>>
      BY <1>4, Zenon DEF Reject
    <3>2. pc' = "answer"
      BY <1>4, Zenon DEF Reject, Answer
    <3>3. UNCHANGED <<healthy, report>>
      BY <3>1 DEF callVars
    <3>4. UNCHANGED gw_healthy
      BY <3>3 DEF gw_healthy
    <3> QED
      BY <3>2, <3>3, <3>4, Zenon
  <2>2. answer'.status \in {400, 404} \/ (answer'.status = 503 /\ ~healthy)
    <3>1. ParseError(body) # NoError => ParseError(body).code = 400
      BY ZenonT(60) DEF ParseError, make_error, status_code
    <3>2. \/ ParseError(body) # NoError /\ Answer(ParseError(body).code, ParseError(body))
          \/ Answer(404, make_error("UnknownModel", "model"))
          \/ ~healthy /\ Answer(503, make_error("NoBackend", "null"))
      BY <1>4, Zenon DEF Reject
    <3> QED
      <4>1. CASE ParseError(body) # NoError /\ Answer(ParseError(body).code, ParseError(body))
        BY <3>1, <4>1, AnswerGiven
      <4>2. CASE Answer(404, make_error("UnknownModel", "model"))
        BY <4>2, AnswerGiven
      <4>3. CASE ~healthy /\ Answer(503, make_error("NoBackend", "null"))
        BY <4>3, AnswerGiven
      <4> QED
        BY <3>2, <4>1, <4>2, <4>3
  <2>3. ASSUME NEW code \in {400, 404}, answer'.status = code PROVE StepSeen
    <3>1. View(WritingLocals({}, code, "none"), 0, 0)'
      <4>1. code # 503
        BY <2>3
      <4> QED
        BY <1>1, <2>1, <2>3, <4>1, ZenonT(30) DEF Seen
    <3>2. RejectSeen
      BY <1>2, <2>1, <3>1 DEF RejectSeen
    <3> QED
      BY <3>2 DEF StepSeen
  <2>4. ASSUME answer'.status = 503, ~healthy PROVE StepSeen
    <3>1. View(WritingLocals({}, 503, "none"), 1, Fails)'
      BY <2>1, <2>4 DEF Seen
    <3>2. Fails' = 0
      BY <1>1, <2>1 DEF Fails
    <3>3. View(WritingLocals({}, 503, "none"), 1, 0)'
      BY <3>1, <3>2 DEF View
    <3>4. gw_healthy = {}
      BY <2>4 DEF gw_healthy
    <3>5. UnservedSeen
      BY <1>2, <2>1, <3>3, <3>4, Zenon DEF UnservedSeen
    <3> QED
      BY <3>5 DEF StepSeen
  <2> QED
    BY <2>2, <2>3, <2>4, SMTT(30)
<1>5. CASE Dispatch
  <2>1. pc' = "resolve" /\ healthy /\ UNCHANGED <<healthy, header_started>>
    BY <1>5 DEF Dispatch, callVars
  <2>2. gw_healthy = {"b"} /\ UNCHANGED gw_healthy
    BY <2>1 DEF gw_healthy
  <2>3. PICK stream \in BOOLEAN : stream = IsStream(body')
    BY Zenon DEF IsStream
  <2>4. View(CallLocals(stream, FALSE), 1, 0)'
    <3>1. View(CallLocals(IsStream(body), header_started), 1, 0)'
      BY <2>1 DEF Seen, InCallPcs
    <3> QED
      BY <1>1, <2>1, <2>3, <3>1, ZenonT(60) DEF View
  <2>5. DispatchSeen
    BY <1>2, <2>2, <2>4, Zenon DEF DispatchSeen
  <2> QED
    BY <2>5 DEF StepSeen
<1> QED
  BY <1>3, <1>4, <1>5

\* What is recorded of the call, once the breaker was told.
LEMMA OutcomeNext ==
    ASSUME report' # "none", answer'.status # 503
    PROVE  /\ IsStream(body') => Outcome' = "none"
           /\ ~IsStream(body') /\ answer'.status # 200 => Outcome' = "failed"
           /\ ~IsStream(body') /\ answer'.status = 200 /\ http_status' = 0 => Outcome' = "cut"
           /\ ~IsStream(body') /\ answer'.status = 200 /\ http_status' # 0 => Outcome' = "ok"
  BY DEF Outcome, SlotHeld, IsStream

\* A stream that fails before its first byte.
LEMMA EmptyFails ==
    ASSUME Seen, Seen', pc \in InCallPcs, IsStream(body), header_started = FALSE,
           pc' = "answer", answer'.status \in {400, 500, 502, 504},
           report' = "failure", UNCHANGED <<body, healthy>>
    PROVE  StepSeen
<1>5. PICK code \in {400, 500, 502, 504} : answer'.status = code
  OBVIOUS
<1>1. View(CallLocals(TRUE, FALSE), 1, 0)
  BY CallSeen, ZenonT(60)
<1>2. Outcome' = "none"
  BY OutcomeNext
<1>3. View(WritingLocals({"b"}, code, "none"), 1, 1)'
  BY <1>2, <1>5, AnswerSeen
<1>6. UNCHANGED gw_healthy
  BY DEF gw_healthy
<1>7. \E c \in {400, 500, 502, 504} : View(WritingLocals({"b"}, c, "none"), 1, 1)'
  BY <1>3
<1>4. EmptySeen
  BY <1>1, <1>6, <1>7, ZenonT(60) DEF EmptySeen
<1> QED
  BY <1>4 DEF StepSeen

\* The answer to a non-streaming request.
LEMMA UnaryAnswer ==
    ASSUME Seen, Seen', pc \in InCallPcs, ~IsStream(body), header_started = FALSE,
           pc' = "answer", UNCHANGED <<body, healthy>>,
           \/ answer'.status = 500 /\ report' = "failure"
           \/ answer'.status \in {200, 400} /\ report' = "success"
    PROVE  StepSeen
<1>1. View(UnaryLocals, 1, 0)
  BY CallSeen, Zenon DEF UnaryLocals
<1>2. UNCHANGED gw_healthy
  BY DEF gw_healthy
<1>3. PICK code : code = answer'.status
  BY Zenon
<1>4. PICK outcome : outcome = Outcome'
  BY Zenon
<1>5. PICK f \in {0, 1} : f = IF report' = "failure" THEN 1 ELSE 0
  OBVIOUS
<1>6. View(WritingLocals({"b"}, code, outcome), 1, f)'
  BY <1>3, <1>4, <1>5, AnswerSeen
<1>7. UnaryEnd(f, code, outcome)
  BY <1>3, <1>4, <1>5, OutcomeNext DEF UnaryEnd
<1>8. UnarySeen
  BY <1>1, <1>2, <1>6, <1>7 DEF UnarySeen
<1> QED
  BY <1>8 DEF StepSeen

\* Either call.
LEMMA CallMaps ==
    ASSUME MapInv, Seen, Seen', Call
    PROVE  StepSeen
<1>1. /\ pc \in {"resolve", "connect", "send", "reply", "head"} /\ pc \in InCallPcs
      /\ header_started = FALSE
      /\ UNCHANGED <<body, healthy, header_started>>
  BY ZenonT(60) DEF Call, NotConnected, Resolved, Connected, Sent, ExchangeFails, ReplyRead,
         callVars, MapInv, InCallPcs
<1>2. CASE NotConnected
  <2>1. pc' = "answer" /\ report' = "failure"
    BY <1>2 DEF NotConnected, Answer
  <2>2. CASE IsStream(body)
    <3>1. answer'.status = 502
      BY <1>2, <2>2 DEF NotConnected, Answer
    <3> QED
      BY <1>1, <2>1, <2>2, <3>1, EmptyFails, ZenonT(60)
  <2>3. CASE ~IsStream(body)
    <3>1. answer'.status = 503
      BY <1>2, <2>3 DEF NotConnected, Answer
    <3>2. View(WritingLocals({}, 503, "none"), 1, Fails)'
      BY <2>1, <3>1 DEF Seen
    <3>3. Fails' = 1
      BY <2>1 DEF Fails
    <3>4. View(WritingLocals({}, 503, "none"), 1, 1)'
      BY <3>2, <3>3 DEF View
    <3>5. View(UnaryLocals, 1, 0)
      BY <1>1, <2>3, CallSeen, Zenon DEF UnaryLocals
    <3>6. RefusedSeen
      BY <1>1, <3>4, <3>5 DEF RefusedSeen, gw_healthy
    <3> QED
      BY <3>6 DEF StepSeen
  <2> QED
    BY <2>2, <2>3
<1>3. CASE Resolved \/ Connected \/ Sent
  <2>1. pc' \in InCallPcs
    BY <1>3 DEF Resolved, Connected, Sent, InCallPcs
  <2> QED
    BY <1>1, <2>1, CallStutters DEF StepSeen
<1>4. CASE ExchangeFails
  <2>1. pc' = "answer"
    BY <1>4 DEF ExchangeFails, Answer
  <2>2. CASE IsStream(body)
    <3>1. answer'.status = 502 /\ report' = "failure"
      BY <1>4, <2>2, AnswerGiven, Zenon DEF ExchangeFails
    <3> QED
      BY <1>1, <2>1, <2>2, <3>1, EmptyFails, ZenonT(60)
  <2>3. CASE ~IsStream(body)
    <3>1. answer'.status = 200 /\ report' = "success"
      BY <1>4, <2>3, AnswerGiven, Zenon DEF ExchangeFails
    <3> QED
      BY <1>1, <2>1, <2>3, <3>1, UnaryAnswer, ZenonT(60)
  <2> QED
    BY <2>2, <2>3
<1>5. CASE ReplyRead
  <2>1. pc = "reply" /\ pc' = "answer"
    BY <1>5 DEF ReplyRead, Answer
  <2>2. \/ answer'.status = 500 /\ report' = "failure"
        \/ answer'.status \in {200, 400} /\ report' = "success"
    BY <1>5 DEF ReplyRead, Answer
  <2>3. ~IsStream(body)
    BY <2>1 DEF MapInv
  <2> QED
    BY <1>1, <2>1, <2>2, <2>3, UnaryAnswer, ZenonT(60)
<1> QED
  BY <1>2, <1>3, <1>4, <1>5, SMTT(30) DEF Call

\* The call of a stream that was begun ends and the last writes follow.
LEMMA BegunEnds ==
    ASSUME Seen, Seen', pc \in InCallPcs, IsStream(body), header_started = TRUE,
           pc' \in {"error", "last"}, report' \in {"success", "failure"}, UNCHANGED healthy
    PROVE  StepSeen
<1>1. View(CallLocals(TRUE, TRUE), 1, 0)
  BY CallSeen, Zenon
<1>2. UNCHANGED gw_healthy
  BY DEF gw_healthy
<1>3. PICK f \in {0, 1} : f = IF report' = "failure" THEN 1 ELSE 0
  OBVIOUS
<1>4. View(WritingLocals({"b"}, 200, "none"), 1, f)'
  <2>1. View(WritingLocals({"b"}, 200, "none"), 1, Fails)'
    BY DEF Seen
  <2>2. Fails' = f
    BY <1>3 DEF Fails
  <2> QED
    BY <2>1, <2>2, SMTT(30) DEF View
<1>5. BegunSeen
  BY <1>1, <1>2, <1>4, Zenon DEF BegunSeen
<1> QED
  BY <1>5 DEF StepSeen

\* The read loop is over.
LEMMA SettleMaps ==
    ASSUME NEW e, NEW stopped, MapInv, Seen, Seen', pc \in {"read", "begin", "write"},
           Settle(e, stopped), UNCHANGED <<body, healthy, header_started>>
    PROVE  StepSeen
<1>1. /\ pc \in InCallPcs /\ IsStream(body) /\ report = "none"
      /\ header_started \in BOOLEAN
  BY DEF MapInv, InCallPcs
<1>2. CASE header_started = FALSE /\ pc' = "answer"
  <2>1. answer'.status \in {502, 504}
    BY <1>2 DEF Settle, Answer, status_code
  <2>2. report' = "failure"
    BY <1>2 DEF Settle, Answer
  <2>3. answer'.status \in {400, 500, 502, 504} /\ UNCHANGED <<body, healthy>>
    BY <2>1
  <2> QED
    BY <1>1, <1>2, <2>2, <2>3, EmptyFails, ZenonT(60)
<1>3. CASE header_started = FALSE /\ pc' = "again" /\ report' = "success"
  <2>1. View(CallLocals(TRUE, FALSE), 1, 0)
    BY <1>1, <1>3, CallSeen, ZenonT(60)
  <2>2. View(BeginningLocals, 1, 0)'
    <3>1. View(BeginningLocals, 1, Fails)'
      BY <1>3 DEF Seen
    <3>2. Fails' = 0
      BY <1>3 DEF Fails
    <3> QED
      BY <3>1, <3>2 DEF View
  <2>3. UNCHANGED gw_healthy
    BY DEF gw_healthy
  <2>4. NoFrameSeen
    BY <2>1, <2>2, <2>3, Zenon DEF NoFrameSeen
  <2> QED
    BY <2>4 DEF StepSeen
<1>4. CASE header_started = TRUE /\ pc' = "end" /\ UNCHANGED report
  <2>1. View(CallLocals(TRUE, TRUE), 1, 0)
    BY <1>1, <1>4, CallSeen, Zenon
  <2>2. Fails = 0
    BY <1>1 DEF Fails
  <2>3. View(IdleLocals, 0, 0)' /\ UNCHANGED gw_healthy
    BY <1>4, <2>2, EndSeen
  <2>7. GoneSeen
    BY <2>1, <2>3, Zenon DEF GoneSeen
  <2> QED
    BY <2>7 DEF StepSeen
<1>5. CASE header_started = TRUE /\ pc' \in {"error", "last"} /\ report' \in {"success", "failure"}
  BY <1>1, <1>5, BegunEnds
<1> QED
  BY <1>1, <1>2, <1>3, <1>4, <1>5, ZenonT(60) DEF Settle, Answer

\* stream_chat() and the sink.
LEMMA StreamMaps ==
    ASSUME MapInv, Seen, Seen', HeadRead \/ Drained \/ Read \/ Begin \/ Write \/ SinkFails
    PROVE  StepSeen
<1>1. CASE HeadRead
  <2>1. /\ pc \in InCallPcs /\ pc' \in InCallPcs
        /\ UNCHANGED <<body, healthy, header_started>>
    BY <1>1 DEF HeadRead, BeginRead, InCallPcs
  <2> QED
    BY <2>1, CallStutters DEF StepSeen
<1>2. CASE Drained
  <2>1. /\ pc = "drain" /\ pc' = "answer" /\ report' = "failure"
        /\ answer'.status = http_status /\ UNCHANGED <<body, healthy>>
    <3>1. pc = "drain" /\ pc' = "answer" /\ report' = "failure" /\ answer'.status = http_status
      BY <1>2 DEF Drained, Answer
    <3>2. UNCHANGED <<body, healthy>>
      BY <1>2 DEF Drained, Answer, callVars
    <3> QED
      BY <3>1, <3>2, Zenon
  <2>2. IsStream(body) /\ header_started = FALSE /\ http_status \in {400, 500}
    BY <2>1 DEF MapInv
  <2>3. pc \in InCallPcs
    BY <2>1 DEF InCallPcs
  <2> QED
    BY <2>1, <2>2, <2>3, EmptyFails, ZenonT(60)
<1>3. CASE Read
  <2>1. PICK n, d, e, flushed : ReadEnds(n, d, e, flushed)
    BY <1>3, Zenon DEF Read
  <2>2. pc = "read" /\ pc \in InCallPcs /\ UNCHANGED <<body, healthy, header_started>>
    BY <2>1 DEF ReadEnds, InCallPcs
  <2>3. Settle(e, FALSE) \/ pc' \in {"read", "write", "begin"}
    BY <2>1, Zenon DEF ReadEnds, BeginRead
  <2>4. CASE Settle(e, FALSE)
    BY <2>2, <2>4, SettleMaps, Zenon
  <2>5. CASE pc' \in {"read", "write", "begin"}
    <3>1. pc' \in InCallPcs
      BY <2>5 DEF InCallPcs
    <3> QED
      BY <2>2, <3>1, CallStutters DEF StepSeen
  <2> QED
    BY <2>3, <2>4, <2>5, Zenon
<1>4. CASE Begin
  <2>1. /\ pc = "begin" /\ pc' = "write" /\ header_started' = TRUE
        /\ UNCHANGED <<body, healthy>>
    BY <1>4 DEF Begin, callVars
  <2>2. IsStream(body) /\ header_started = FALSE
    BY <2>1 DEF MapInv
  <2>3. View(CallLocals(TRUE, FALSE), 1, 0)
    BY <2>1, <2>2, CallSeen, ZenonT(60) DEF InCallPcs
  <2>4. View(CallLocals(TRUE, TRUE), 1, 0)'
    <3>1. View(CallLocals(IsStream(body), header_started), 1, 0)'
      BY <2>1, ZenonT(60) DEF Seen, InCallPcs
    <3>2. IsStream(body') = TRUE
      BY <2>1, <2>2 DEF IsStream
    <3> QED
      BY <2>1, <3>1, <3>2 DEF View
  <2>5. UNCHANGED gw_healthy
    BY <2>1 DEF gw_healthy
  <2>6. FirstSeen
    BY <2>3, <2>4, <2>5, Zenon DEF FirstSeen
  <2> QED
    BY <2>6 DEF StepSeen
<1>5. CASE Write
  <2>2. pc = "write" /\ pc \in InCallPcs /\ UNCHANGED <<body, healthy, header_started>>
    BY <1>5 DEF Write, InCallPcs
  <2>3. Settle(ec, FALSE) \/ pc' \in {"read", "write"}
    BY <1>5, Zenon DEF Write, BeginRead
  <2>4. CASE Settle(ec, FALSE)
    BY <2>2, <2>4, SettleMaps, Zenon
  <2>5. CASE pc' \in {"read", "write"}
    <3>1. pc' \in InCallPcs
      BY <2>5 DEF InCallPcs
    <3> QED
      BY <2>2, <3>1, CallStutters DEF StepSeen
  <2> QED
    BY <2>3, <2>4, <2>5, ZenonT(60)
<1>6. CASE SinkFails
  <2>1. /\ pc \in {"begin", "write"} /\ Settle(ec, TRUE)
        /\ UNCHANGED <<body, healthy, header_started>>
    BY <1>6, ZenonT(60) DEF SinkFails
  <2> QED
    BY <2>1, SettleMaps, Zenon
<1> QED
  BY <1>1, <1>2, <1>3, <1>4, <1>5, <1>6

\* The end of the response.
LEMMA EndingMaps ==
    ASSUME MapInv, Seen, Seen', WriteEnding \/ EndingFails \/ Answered
    PROVE  StepSeen
<1>1. UNCHANGED <<report, healthy, gw_healthy>>
  <2>1. CASE WriteEnding
    <3>1. UNCHANGED <<callVars, report>>
      BY <2>1, Zenon DEF WriteEnding, Emit
    <3>2. UNCHANGED <<report, healthy>>
      BY <3>1 DEF callVars
    <3> QED
      BY <3>2 DEF gw_healthy
  <2>2. CASE EndingFails
    BY <2>2 DEF EndingFails, callVars, gw_healthy
  <2>3. CASE Answered
    BY <2>3 DEF Answered, callVars, gw_healthy
  <2> QED
    BY <2>1, <2>2, <2>3, Zenon
<1>2. \/ pc = "again" /\ pc' \in {"sentinel", "end"}
      \/ pc \in {"sentinel", "error", "last"} /\ pc' \in {"last", "end"}
      \/ pc = "answer" /\ pc' = "end"
  BY DEF WriteEnding, Emit, EndingFails, Answered
<1>3. CASE pc = "again" /\ pc' = "sentinel"
  <2>1. PICK f : f = Fails
    BY Zenon
  <2>2. View(BeginningLocals, 1, f)
    BY <1>3, <2>1, Zenon DEF Seen
  <2>3. View(WritingLocals({"b"}, 200, "none"), 1, f)'
    <3>1. View(WritingLocals({"b"}, 200, "none"), 1, Fails)'
      BY <1>3 DEF Seen
    <3>2. Fails' = f
      BY <1>1, <2>1 DEF Fails
    <3> QED
      BY <3>1, <3>2 DEF View
  <2>4. AgainSeen
    BY <1>1, <2>2, <2>3 DEF AgainSeen
  <2> QED
    BY <2>4 DEF StepSeen
<1>4. CASE pc = "again" /\ pc' = "end"
  <2>1. PICK f : f = Fails
    BY Zenon
  <2>2. View(BeginningLocals, 1, f)
    BY <1>4, <2>1 DEF Seen
  <2>3. View(IdleLocals, 0, f)'
    BY <1>1, <1>4, <2>1, EndSeen
  <2>5. ThrowSeen
    BY <1>1, <2>2, <2>3 DEF ThrowSeen
  <2> QED
    BY <2>5 DEF StepSeen
<1>5. CASE pc \in {"sentinel", "error", "last"} /\ pc' = "last"
  BY <1>1, <1>5, EndingStutters DEF StepSeen
<1>6. ASSUME NEW slot \in {{}, {"b"}}, NEW code, NEW outcome, NEW t \in {0, 1}, pc' = "end",
             View(WritingLocals(slot, code, outcome), t, Fails)
      PROVE  StepSeen
  <2>1. PICK f : f = Fails
    BY Zenon
  <2>2. View(IdleLocals, 0, f)'
    BY <1>1, <1>6, <2>1, EndSeen
  <2>5. FinishSeen
    BY <1>1, <1>6, <2>1, <2>2 DEF FinishSeen
  <2> QED
    BY <2>5 DEF StepSeen
<1>7. CASE pc \in {"sentinel", "error", "last"} /\ pc' = "end"
  <2>1. View(WritingLocals({"b"}, 200, "none"), 1, Fails)
    BY <1>7 DEF Seen
  <2> QED
    BY <1>6, <1>7, <2>1
<1>8. CASE pc = "answer" /\ pc' = "end"
  <2>1. CASE report = "none" /\ answer.status # 503
    <3>1. View(WritingLocals({}, answer.status, "none"), 0, 0)
      BY <1>8, <2>1 DEF Seen
    <3>2. Fails = 0
      BY <2>1 DEF Fails
    <3> QED
      BY <1>6, <1>8, <3>1, <3>2
  <2>2. CASE answer.status = 503
    <3>1. View(WritingLocals({}, 503, "none"), 1, Fails)
      BY <1>8, <2>2 DEF Seen
    <3> QED
      BY <1>6, <1>8, <3>1
  <2>3. CASE report # "none" /\ answer.status # 503
    <3>1. View(WritingLocals({"b"}, answer.status, Outcome), 1, Fails)
      BY <1>8, <2>3 DEF Seen
    <3> QED
      BY <1>6, <1>8, <3>1
  <2> QED
    BY <2>1, <2>2, <2>3
<1> QED
  BY <1>2, <1>3, <1>4, <1>5, <1>7, <1>8, SMTT(30)

\* Every step of the relay.
LEMMA NextSeen == MapInv /\ MapInv' /\ [Next]_vars => StepSeen
<1> SUFFICES ASSUME MapInv, MapInv', [Next]_vars PROVE StepSeen
  OBVIOUS
<1>1. Seen /\ Seen'
  BY Views, ViewsNext
<1>2. CASE UNCHANGED vars
  BY <1>2, OtherStutters DEF vars, callVars, StepSeen
<1>3. CASE HealthChanges \/ Reject \/ Dispatch
  BY <1>1, <1>3, BeforeMaps
<1>4. CASE Tick
  BY <1>4, OtherStutters DEF Tick, StepSeen
<1>5. CASE Call
  BY <1>1, <1>5, CallMaps
<1>6. CASE HeadRead \/ Drained \/ Read \/ Begin \/ Write \/ SinkFails
  BY <1>1, <1>6, StreamMaps
<1>7. CASE WriteEnding \/ EndingFails \/ Answered
  BY <1>1, <1>7, EndingMaps
<1>8. CASE ClientLeaves
  BY <1>8, OtherStutters DEF ClientLeaves, StepSeen
<1> QED
  BY <1>2, <1>3, <1>4, <1>5, <1>6, <1>7, <1>8, Zenon DEF Next, Relay
=============================================================================
