---------------------------- MODULE Gateway_proofs ----------------------------
(***************************************************************************)
(* The theorems about Gateway and GatewayMetrics, for every set of         *)
(* requests, every finite set of backends, every value of the limits and   *)
(* every number of arrivals.  What the single steps do is in               *)
(* Gateway_lemmas; the theorems about the gate come from                   *)
(* GlobalGate_proofs, with the requests as its callers.                    *)
(***************************************************************************)
EXTENDS GatewayMetrics, Gateway_lemmas, FiniteSetTheorems

-----------------------------------------------------------------------------
(***************************************************************************)
(* From the steps to the invariant                                         *)
(***************************************************************************)

\* What the invariant of the gate says to those who use it.
GateFacts ==
    /\ Gate!TypeOK
    /\ woken \subseteq suspended
    /\ Gate!NoIdleSlotWhileWaiting

\* A backend on which a slot is held counts at least that one.
LEMMA HeldIsCounted ==
    ASSUME Inv, NEW r \in Requests, NEW b \in req[r].slot
    PROVE  b \in Backends /\ active[b] \in Nat \ {0}
<1>1. b \in Backends
  BY DEF Inv, LocalsInv, Locals
<1>2. r \in Holders(b)
  BY DEF Holders
<1>3. IsFiniteSet(Holders(b)) /\ active[b] = Cardinality(Holders(b)) /\ active[b] \in Nat
  BY <1>1 DEF Inv, SlotsInv, SlotsMatchRequests
<1>4. Cardinality(Holders(b)) # 0
  BY <1>2, <1>3, FS_EmptySet
<1> QED
  BY <1>1, <1>3, <1>4

\* The hypothesis of the lemmas about the single steps.
LEMMA InvCounts == Inv => Counts
<1> SUFFICES ASSUME Inv PROVE Counts
  OBVIOUS
<1>1. ASSUME NEW r \in Requests, NEW b \in req[r].slot PROVE active[b] # 0
  BY HeldIsCounted
<1>2. ASSUME NEW S \in SUBSET Backends PROVE Cardinality(S) \in Nat
  BY GatewayAssumption, FS_Subset, FS_CardinalityType
<1> QED
  BY <1>1, <1>2 DEF Counts

\* An effect on one request keeps the slot counts exact on every backend.
LEMMA EffectSlots ==
    ASSUME Inv, NEW r \in Requests, NEW q, Effect(r, q)
    PROVE  SlotsInv'
<1>1. /\ active \in [Backends -> Nat]
      /\ \A b \in Backends : /\ IsFiniteSet(Holders(b))
                             /\ active[b] = Cardinality(Holders(b))
                             /\ active[b] <= max_in_flight
  BY DEF Inv, SlotsInv, SlotsMatchRequests
<1>2. /\ req \in [Requests -> Locals]
      /\ req' = [req EXCEPT ![r] = q]
      /\ q.slot \subseteq Backends /\ req[r].slot \subseteq Backends
  BY DEF Inv, LocalsInv, Effect, Locals
<1>3. SlotMoves(r, q)
  BY DEF Effect
<1>4. \A b \in req[r].slot : active[b] > 0
  BY HeldIsCounted
<1>5. active' \in [Backends -> Nat]
  BY <1>1, <1>2, <1>3, <1>4 DEF SlotMoves
<1>6. ASSUME NEW b \in Backends
      PROVE  /\ IsFiniteSet(Holders(b)')
             /\ active'[b] = Cardinality(Holders(b)')
             /\ active'[b] <= max_in_flight
  <2>0. max_in_flight \in Nat /\ active[b] \in Nat
    BY <1>1, GatewayAssumption
  <2>1. CASE b \in q.slot \ req[r].slot
    <3>1. Holders(b)' = Holders(b) \cup {r} /\ r \notin Holders(b)
      BY <2>1, <1>2 DEF Holders
    <3>2. /\ IsFiniteSet(Holders(b)')
          /\ Cardinality(Holders(b)') = Cardinality(Holders(b)) + 1
      BY <3>1, <1>1, FS_AddElement
    <3>3. active'[b] = active[b] + 1 /\ active[b] < max_in_flight
      BY <2>1, <1>3 DEF SlotMoves
    <3> QED
      BY <3>2, <3>3, <2>0, <1>1
  <2>2. CASE b \in req[r].slot \ q.slot
    <3>1. Holders(b)' = Holders(b) \ {r} /\ r \in Holders(b)
      BY <2>2, <1>2 DEF Holders
    <3>2. /\ IsFiniteSet(Holders(b)')
          /\ Cardinality(Holders(b)') = Cardinality(Holders(b)) - 1
      BY <3>1, <1>1, FS_RemoveElement
    <3>3. active'[b] = active[b] - 1
      BY <2>2, <1>3 DEF SlotMoves
    <3> QED
      BY <3>2, <3>3, <2>0, <1>1
  <2>3. CASE b \in req[r].slot <=> b \in q.slot
    <3>1. Holders(b)' = Holders(b)
      BY <2>3, <1>2 DEF Holders
    <3>2. active'[b] = active[b]
      BY <2>3, <1>3 DEF SlotMoves
    <3> QED
      BY <3>1, <3>2, <1>1
  <2> QED
    BY <2>1, <2>2, <2>3
<1> QED
  BY <1>5, <1>6 DEF SlotsInv, SlotsMatchRequests

\* Whatever has the Effect of a step on one request keeps the invariant.
LEMMA EffectInv ==
    ASSUME Inv, NEW r \in Requests, NEW q, Effect(r, q)
    PROVE  Inv'
<1>1. LocalsInv'
  BY DEF Inv, LocalsInv, Effect
<1>2. TicketsInv'
  <2>1. ASSUME NEW c \in Requests \ {r} PROVE req'[c] = req[c]
    BY DEF Inv, LocalsInv, Effect
  <2>2. req'[r] = q
    BY DEF Inv, LocalsInv, Effect
  <2> QED
    BY <2>1, <2>2 DEF Inv, TicketsInv, Effect, TicketMoves
<1> QED
  BY <1>1, <1>2, EffectSlots, Zenon DEF Inv, Effect

\* A gateway that has served nothing is coherent.
LEMMA InitInv == Init => Inv
<1> SUFFICES ASSUME Init PROVE Inv
  OBVIOUS
<1>1. breaker \in [Backends -> Breakers] /\ healthy \subseteq Backends
  BY DEF Init, FreshBreaker, Breakers, BreakerStates
<1>2. Idle \in Locals /\ Coherent(Idle) /\ ~TicketDue(Idle)
  BY IdleLocals
<1>3. LocalsInv
  BY <1>2 DEF Init, LocalsInv
<1>4. TicketsInv
  <2>1. tickets = {} /\ suspended = {} /\ Idle.pc # "queued"
    BY DEF Init, Gate!Init, Idle
  <2> QED
    BY <2>1, <1>2 DEF TicketsInv, Init
<1>5. SlotsInv
  <2>1. \A b \in Backends : Holders(b) = {}
    BY DEF Init, Holders, Idle
  <2>2. \A b \in Backends : IsFiniteSet(Holders(b)) /\ Cardinality(Holders(b)) = 0
    BY <2>1, FS_EmptySet
  <2>3. active \in [Backends -> Nat] /\ \A b \in Backends : active[b] = 0
    BY DEF Init
  <2> QED
    BY <2>2, <2>3, GatewayAssumption DEF SlotsInv, SlotsMatchRequests
<1> QED
  BY <1>1, <1>3, <1>4, <1>5 DEF Inv

\* Every step keeps the invariant, uses the gate as specified and is disciplined
\* towards every request.
LEMMA StepEffect ==
    ASSUME Inv, GateFacts, [Next]_vars
    PROVE  /\ Inv'
           /\ [Gate!Next]_gateVars
           /\ \A r \in Requests : Disciplined(req[r], req'[r])
<1>0. \A r \in Requests : Disciplined(req[r], req[r])
  <2> TAKE r \in Requests
  <2>1. req[r] \in Locals
    BY LocalsOf
  <2> QED
    BY <2>1 DEF Disciplined, Locals
<1>1. ASSUME NEW r \in Requests, NEW q, Effect(r, q)
      PROVE  /\ Inv'
             /\ [Gate!Next]_gateVars
             /\ \A c \in Requests : Disciplined(req[c], req'[c])
  <2>1. Inv'
    BY <1>1, EffectInv
  <2>2. [Gate!Next]_gateVars
    BY <1>1 DEF Effect, TicketMoves
  <2>3. ASSUME NEW c \in Requests PROVE Disciplined(req[c], req'[c])
    <3>1. req'[c] = IF c = r THEN q ELSE req[c]
      BY <1>1 DEF Effect, Inv, LocalsInv
    <3>2. Disciplined(req[r], q)
      BY <1>1 DEF Effect
    <3>3. CASE c = r
      BY <3>1, <3>2, <3>3
    <3>4. CASE c # r
      BY <3>1, <3>4, <1>0
    <3> QED
      BY <3>3, <3>4
  <2> QED
    BY <2>1, <2>2, <2>3
<1>2. CASE Around
  <2>1. req' = req /\ active' = active /\ tickets' = tickets /\ suspended' = suspended
    BY <1>2 DEF gateVars, Around
  <2>2. Inv'
    BY <1>2, <2>1, ZenonT(60)
       DEF Inv, LocalsInv, TicketsInv, SlotsInv, SlotsMatchRequests, Holders, Around
  <2>3. \A c \in Requests : Disciplined(req[c], req'[c])
    BY <1>0, <2>1, Zenon
  <2> QED
    BY <1>2, <2>2, <2>3 DEF Around
<1> QED
  BY <1>1, <1>2, InvCounts, StepKinds DEF GateFacts

\* Every state of the invariant is of the right type.
LEMMA InvTypes == Inv /\ GateFacts => TypeOK
<1> SUFFICES ASSUME Inv, GateFacts PROVE TypeOK
  OBVIOUS
<1>1. ASSUME NEW r \in Requests
      PROVE  /\ req[r].pc \in Pcs /\ req[r].order \in Seq(Backends)
             /\ req[r].pos \in 0..Len(req[r].order)
             /\ req[r].attempts \in 0..max_attempts
             /\ req[r].final_code \in Codes /\ req[r].slot \subseteq Backends
  <2>1. req[r] \in Locals /\ Coherent(req[r])
    BY LocalsOf
  <2> QED
    BY <2>1 DEF Locals, Coherent
<1> QED
  BY <1>1 DEF GateFacts, TypeOK, Inv, SlotsInv, Pcs

\* A disciplined step retries once, elsewhere, and before the first byte.
LEMMA RetryIsClean ==
    ASSUME NEW r \in Requests, IsRetry(r), Disciplined(req[r], req'[r])
    PROVE  /\ req'[r].attempts = 2
           /\ ~req[r].header_started
           /\ req'[r].slot \cap req[r].slot = {}
<1>1. /\ req'[r].attempts = 2
      /\ req[r].header_started = FALSE
      /\ req'[r].slot \cap req[r].slot = {}
  BY DEF Disciplined, IsRetry
<1> QED
  BY <1>1, Zenon

-----------------------------------------------------------------------------
(***************************************************************************)
(* The counters                                                            *)
(***************************************************************************)

\* The requests whose response began with this status.
Answered(code) == {r \in Requests : Status(req[r]) = code}

CountInv ==
    /\ uncounted \in [Codes \ {0} -> Int]
    /\ \A code \in Codes \ {0} : IsFiniteSet(Answered(code))
    /\ CountedAsSeen

\* What the registry, and the history kept beside it, say of the gateway.
Reports == CountInv /\ ProbeLostOnlyByClient

\* A response that has begun keeps its status or ends.
KeepsStatus(old, new) == Status(old) # 0 => new.pc = "idle" \/ Status(new) = Status(old)

\* The status of a request by where it is.
LEMMA StatusOf ==
    ASSUME NEW q \in Locals, Coherent(q)
    PROVE  /\ Status(q) \in Codes
           /\ Status(q) # 0 <=> q.pc = "writing" \/ q.header_started = TRUE
           /\ q.header_started = TRUE => q.pc = "upstream" /\ q.stream = TRUE /\ Status(q) = 200
           /\ q.pc = "idle" => Status(q) = 0
<1>1. /\ q.header_started \in BOOLEAN /\ q.final_code \in Codes /\ q.stream \in BOOLEAN
      /\ q.pc = "writing" <=> q.final_code # 0
  BY DEF Locals, Coherent
<1>2. CASE q.header_started = TRUE
  <2>1. Status(q) = 200
    BY <1>2, Zenon DEF Status
  <2>2. q.pc = "upstream" /\ q.stream = TRUE
    BY <1>1, <1>2 DEF Coherent, StreamsOnly
  <2> QED
    BY <1>2, <2>1, <2>2 DEF Codes
<1>3. CASE q.header_started = FALSE
  <2>1. Status(q) = q.final_code
    BY <1>3, Zenon DEF Status
  <2> QED
    BY <1>1, <1>3, <2>1
<1> QED
  BY <1>1, <1>2, <1>3

\* A response that has begun keeps its status until the request leaves.
LEMMA StatusKept ==
    ASSUME Inv, woken \subseteq suspended, Next, NEW r \in Requests
    PROVE  KeepsStatus(req[r], req'[r])
<1> SUFFICES ASSUME Status(req[r]) # 0
             PROVE  req'[r].pc = "idle" \/ Status(req'[r]) = Status(req[r])
  BY DEF KeepsStatus
<1>1. /\ req \in [Requests -> Locals] /\ req[r] \in Locals /\ Coherent(req[r])
      /\ r \in suspended <=> req[r].pc = "queued"
  BY LocalsOf DEF Inv, LocalsInv
<1>2. \/ req[r].pc = "writing"
      \/ /\ req[r].pc = "upstream" /\ req[r].header_started = TRUE
         /\ req[r].stream = TRUE /\ Status(req[r]) = 200
  BY <1>1, StatusOf
<1>3. CASE \E b \in Backends : HealthChanges(b) \/ WindowElapses(b)
  BY <1>3 DEF HealthChanges, WindowElapses
<1>4. ASSUME NEW c \in Requests, c # r,
             \/ RejectEarly(c) \/ ArriveAdmitted(c) \/ ArriveQueueFull(c)
             \/ ArriveWait(c) \/ TimerExpires(c) \/ LeaveQueue(c)
             \/ FirstFrame(c) \/ CallEnds(c) \/ WriteEnds(c)
      PROVE  Status(req'[r]) = Status(req[r])
  <2>1. PICK q : Effect(c, q)
    BY <1>4, InvCounts, ArrivalEffect, ServeEffect
  <2>2. req'[r] = req[r]
    BY <1>1, <1>4, <2>1 DEF Effect
  <2> QED
    BY <2>2
<1>5. CASE RejectEarly(r) \/ ArriveAdmitted(r) \/ ArriveQueueFull(r) \/ ArriveWait(r)
  BY <1>2, <1>5 DEF RejectEarly, ArriveAdmitted, ArriveQueueFull, ArriveWait
<1>6. CASE TimerExpires(r)
  BY <1>6 DEF TimerExpires
<1>7. CASE LeaveQueue(r)
  <2>1. r \in woken
    BY <1>7 DEF LeaveQueue, LeaveQueueAdmitted, LeaveQueueTimeout,
                Gate!ResumeGranted, Gate!ResumeTimeout
  <2> QED
    BY <1>1, <1>2, <2>1
<1>8. ASSUME NEW x \in BOOLEAN, InCall(r, x)
      PROVE  x = TRUE /\ req[r].header_started = TRUE /\ Status(req[r]) = 200
  BY <1>2, <1>8 DEF InCall
<1>9. CASE \/ FirstFrame(r) \/ UnaryRefused(r) \/ UnaryServerError(r) \/ UnaryAnswered(r)
           \/ StreamFailedEmpty(r) \/ StreamNothing(r)
  BY <1>8, <1>9, Zenon DEF FirstFrame, UnaryRefused, UnaryServerError, UnaryAnswered,
            StreamFailedEmpty, StreamNothing
<1>10. CASE StreamFailedMid(r) \/ StreamDone(r)
  <2>1. PICK brk : Respond(r, 200, "none", brk) /\ InCall(r, TRUE)
    BY <1>10, Zenon DEF StreamFailedMid, StreamDone
  <2>2. req'[r] = Writing(req[r].slot, 200, "none")
    BY <1>1, <2>1 DEF Respond
  <2>3. req[r].slot \in SUBSET Backends
    BY <1>1 DEF Locals
  <2>4. /\ req'[r] \in Locals /\ Coherent(req'[r])
        /\ req'[r].pc = "writing" /\ req'[r].final_code = 200
    BY <2>2, <2>3, WritingLocals DEF Codes, Outcomes
  <2>5. req'[r].header_started = FALSE
    BY <2>4 DEF Coherent
  <2>6. Status(req'[r]) = 200
    BY <2>4, <2>5, Zenon DEF Status
  <2> QED
    BY <1>8, <2>1, <2>6
<1>11. CASE Leave(r)
  <2>1. req'[r] = Idle
    BY <1>1, <1>11 DEF Leave
  <2> QED
    BY <2>1 DEF Idle
<1>12. CASE BeginAgain(r)
  BY <1>2, <1>12 DEF BeginAgain
<1>13. CASE CallEnds(r) \/ WriteEnds(r)
  BY <1>9, <1>10, <1>11, <1>12, <1>13, Zenon
     DEF CallEnds, WriteEnds, ClientGone, Finish, BeginThrows
<1> QED
  BY <1>3, <1>4, <1>5, <1>6, <1>7, <1>9, <1>13, Zenon DEF Next

\* A response is owed a count from its beginning to the end of its request.
LEMMA CountStep ==
    ASSUME Inv, CountInv, NEW r \in Requests, NEW q, Effect(r, q),
           KeepsStatus(req[r], q), Record
    PROVE  CountInv'
<1>1. /\ req \in [Requests -> Locals] /\ req[r] \in Locals /\ Coherent(req[r])
      /\ req' = [req EXCEPT ![r] = q]
      /\ q \in Locals /\ Coherent(q)
  BY LocalsOf DEF Inv, LocalsInv, Effect
<1>2. req'[r] = q /\ \A c \in Requests \ {r} : req'[c] = req[c]
  BY <1>1
<1>3. /\ Status(req[r]) # 0 => req[r].pc # "idle"
      /\ q.pc = "idle" => Status(q) = 0
      /\ Status(req[r]) # 0 => q.pc = "idle" \/ Status(q) = Status(req[r])
  BY <1>1, StatusOf DEF KeepsStatus
<1>4. Cardinality({}) = 0 /\ Cardinality({r}) = 1
  BY FS_EmptySet, FS_Singleton, ZenonT(60)
<1>5. ASSUME NEW code \in Codes \ {0}
      PROVE  /\ uncounted'[code] \in Int
             /\ IsFiniteSet(Answered(code)')
             /\ uncounted'[code] = Cardinality(Answered(code)')
  <2>1. /\ uncounted[code] \in Int /\ IsFiniteSet(Answered(code))
        /\ Cardinality(Answered(code)) \in Nat
        /\ uncounted[code] = Cardinality(Answered(code))
    BY FS_CardinalityType DEF CountInv, CountedAsSeen, Answered
  <2>2. uncounted'[code] =
            uncounted[code] + Cardinality(Begun(code)) - Cardinality(Recorded(code))
    BY DEF Record
  <2>3. code # 0
    OBVIOUS
  <2>4. CASE Status(req[r]) = 0 /\ Status(q) = code
    <3>1. /\ Begun(code) = {r} /\ Recorded(code) = {}
          /\ Answered(code)' = Answered(code) \cup {r} /\ r \notin Answered(code)
      BY <1>2, <1>3, <2>3, <2>4 DEF Begun, Recorded, Leaving, Answered
    <3>2. /\ IsFiniteSet(Answered(code)')
          /\ Cardinality(Answered(code)') = Cardinality(Answered(code)) + 1
      BY <2>1, <3>1, FS_AddElement
    <3> QED
      BY <1>4, <2>1, <2>2, <3>1, <3>2
  <2>5. CASE Status(req[r]) = code /\ q.pc = "idle"
    <3>1. /\ Begun(code) = {} /\ Recorded(code) = {r}
          /\ Answered(code)' = Answered(code) \ {r} /\ r \in Answered(code)
      BY <1>2, <1>3, <2>3, <2>5 DEF Begun, Recorded, Leaving, Answered
    <3>2. /\ IsFiniteSet(Answered(code)')
          /\ Cardinality(Answered(code)') = Cardinality(Answered(code)) - 1
      BY <2>1, <3>1, FS_RemoveElement
    <3> QED
      BY <1>4, <2>1, <2>2, <3>1, <3>2
  <2>6. CASE /\ ~(Status(req[r]) = 0 /\ Status(q) = code)
             /\ ~(Status(req[r]) = code /\ q.pc = "idle")
    <3>1. Status(q) = code <=> Status(req[r]) = code
      BY <1>3, <2>3, <2>6
    <3>2. /\ Begun(code) = {} /\ Recorded(code) = {}
          /\ Answered(code)' = Answered(code)
      BY <1>2, <1>3, <2>3, <2>6, <3>1 DEF Begun, Recorded, Leaving, Answered
    <3> QED
      BY <1>4, <2>1, <2>2, <3>2
  <2> QED
    BY <2>4, <2>5, <2>6
<1>6. uncounted' \in [Codes \ {0} -> Int]
  <2>1. uncounted' = [code \in Codes \ {0} |-> uncounted'[code]]
    BY DEF Record
  <2> QED
    BY <1>5, <2>1
<1> QED
  BY <1>5, <1>6 DEF CountInv, CountedAsSeen, Answered

-----------------------------------------------------------------------------
(***************************************************************************)
(* The probes                                                              *)
(***************************************************************************)

\* A breaker stays in HALF_OPEN only with its probe, or with the memory that the
\* client of the probe has left.
LEMMA ProbeStep ==
    ASSUME Inv, ProbeLostOnlyByClient, NEW r \in Requests, NEW q, Effect(r, q), History
    PROVE  ProbeLostOnlyByClient'
<1>1. /\ req \in [Requests -> Locals] /\ req[r] \in Locals
      /\ req' = [req EXCEPT ![r] = q] /\ q \in Locals
      /\ Disciplined(req[r], q) /\ ProbesKept(r, q)
  BY DEF Inv, LocalsInv, Effect
<1>2. req'[r] = q /\ \A c \in Requests \ {r} : req'[c] = req[c]
  BY <1>1
<1>3. \A c \in Requests, b \in Backends :
        Probing(req[c], b) <=> c \in Holders(b) /\ req[c].pc = "upstream" /\ req[c].is_probe
  <2>1. \A c \in Requests : req[c].is_probe \in BOOLEAN
    BY <1>1 DEF Locals
  <2> QED
    BY <2>1, Zenon DEF Probing, Holders
<1>4. \A c \in Requests, b \in Backends :
        Probing(req'[c], b) <=> c \in Holders(b)' /\ req'[c].pc = "upstream" /\ req'[c].is_probe
  <2>1. req' \in [Requests -> Locals]
    BY <1>1
  <2>2. \A c \in Requests : req'[c].is_probe \in BOOLEAN
    BY <2>1 DEF Locals
  <2> QED
    BY <2>2, Zenon DEF Probing, Holders
<1> SUFFICES ASSUME NEW b \in Backends, breaker'[b].state = "HalfOpen",
                    ~ \E c \in Requests : Probing(req'[c], b)
             PROVE  b \in lost'
  BY <1>4 DEF ProbeLostOnlyByClient, Holders
<1>5. breaker[b].state = "HalfOpen" /\ (Probing(req[r], b) => q.pc = "idle")
  BY <1>1, <1>2 DEF ProbesKept
<1>6. (\E c \in Requests : Probing(req[c], b)) \/ b \in lost
  BY <1>3, <1>5 DEF ProbeLostOnlyByClient, Holders
<1>7. CASE b \in lost
  BY <1>7 DEF History
<1>8. ASSUME NEW c \in Requests, Probing(req[c], b) PROVE b \in lost'
  <2>1. c = r
    BY <1>2, <1>8
  <2>2. q.pc = "idle" /\ req[r].pc = "upstream"
    BY <1>5, <1>8, <2>1 DEF Probing
  <2>3. req[r].header_started = TRUE
    BY <1>1, <2>2 DEF Disciplined, Exits
  <2>4. b \in req[r].slot /\ req[r].is_probe = TRUE
    BY <1>8, <2>1 DEF Probing
  <2>5. r \in Leaving
    BY <1>2, <2>2 DEF Leaving
  <2>6. b \in req[r].slot /\ req[r].is_probe /\ req[r].header_started
    BY <2>3, <2>4, Zenon
  <2> QED
    BY <2>5, <2>6, Zenon DEF History
<1> QED
  BY <1>6, <1>7, <1>8

\* A step that moves no request neither counts nor loses a probe.
LEMMA AroundStep ==
    ASSUME CountInv, ProbeLostOnlyByClient, Around, Record, History
    PROVE  CountInv' /\ ProbeLostOnlyByClient'
<1>1. req' = req /\ \A b \in Backends : breaker'[b].state = breaker[b].state
  BY DEF Around
<1>2. ASSUME NEW code \in Codes \ {0} PROVE Begun(code) = {} /\ Recorded(code) = {}
  BY <1>1 DEF Begun, Recorded, Leaving
<1>3. ASSUME NEW code \in Codes \ {0} PROVE uncounted'[code] = uncounted[code] + 0 - 0
  BY <1>2, FS_EmptySet DEF Record
<1>4. uncounted' = uncounted
  <2>1. uncounted \in [Codes \ {0} -> Int] /\ DOMAIN uncounted' = Codes \ {0}
    BY DEF CountInv, Record
  <2>2. ASSUME NEW code \in Codes \ {0} PROVE uncounted'[code] = uncounted[code]
    BY <1>3, <2>1
  <2>3. uncounted' = [code \in Codes \ {0} |-> uncounted'[code]]
    BY DEF Record
  <2> QED
    BY <2>1, <2>2, <2>3
<1>5. CountInv'
  BY <1>1, <1>4 DEF CountInv, CountedAsSeen, Answered
<1>6. ASSUME NEW b \in Backends, breaker'[b].state = "HalfOpen", b \in lost
      PROVE  b \in lost'
  BY <1>6 DEF History
<1>7. ProbeLostOnlyByClient'
  BY <1>1, <1>6 DEF ProbeLostOnlyByClient, Holders
<1> QED
  BY <1>5, <1>7

\* Before the first request there is nothing to count.
LEMMA InitReports == MetricsInit => Reports
<1> SUFFICES ASSUME MetricsInit PROVE Reports
  OBVIOUS
<1>1. ASSUME NEW r \in Requests PROVE Status(req[r]) = 0
  <2>1. req[r] = Idle
    BY DEF MetricsInit, Init
  <2> QED
    BY <2>1 DEF Idle, Status
<1>2. ASSUME NEW code \in Codes \ {0} PROVE Answered(code) = {}
  BY <1>1 DEF Answered
<1>3. CountInv
  BY <1>2, FS_EmptySet DEF MetricsInit, CountInv, CountedAsSeen, Answered
<1>4. ProbeLostOnlyByClient
  BY DEF MetricsInit, Init, FreshBreaker, ProbeLostOnlyByClient
<1> QED
  BY <1>3, <1>4 DEF Reports

\* Every step of handle_chat, with its reporting, keeps the reports true.
LEMMA StepReports ==
    ASSUME Inv, GateFacts, Reports, [MetricsNext]_<<vars, metricsVars>>
    PROVE  Reports'
<1>1. CASE MetricsNext
  <2>1. Next /\ Record /\ History /\ woken \subseteq suspended
    BY <1>1 DEF MetricsNext, GateFacts
  <2>2. CountInv /\ ProbeLostOnlyByClient
    BY DEF Reports
  <2>3. CASE Around
    BY <2>1, <2>2, <2>3, AroundStep DEF Reports
  <2>4. ASSUME NEW r \in Requests, NEW q, Effect(r, q) PROVE Reports'
    <3>1. KeepsStatus(req[r], req'[r])
      BY <2>1, StatusKept
    <3>2. req'[r] = q
      BY <2>4 DEF Effect, Inv, LocalsInv
    <3>3. CountInv'
      BY <2>1, <2>2, <2>4, <3>1, <3>2, CountStep
    <3>4. ProbeLostOnlyByClient'
      BY <2>1, <2>2, <2>4, ProbeStep
    <3> QED
      BY <3>3, <3>4 DEF Reports
  <2> QED
    BY <2>1, <2>3, <2>4, InvCounts, StepKinds
<1>2. CASE UNCHANGED <<vars, metricsVars>>
  <2>1. req' = req /\ breaker' = breaker /\ uncounted' = uncounted /\ lost' = lost
    BY <1>2 DEF vars, gateVars, metricsVars
  <2> QED
    BY <2>1 DEF Reports, CountInv, CountedAsSeen, Answered, ProbeLostOnlyByClient, Holders
<1> QED
  BY <1>1, <1>2

-----------------------------------------------------------------------------
(***************************************************************************)
(* The theorems                                                            *)
(***************************************************************************)

GateProofs == INSTANCE GlobalGate_proofs WITH Callers <- Requests

\* The properties are not inductive by themselves: that a slot is given back
\* once needs the coherence of the locals (in Inv), and that a resumed request
\* is one that was suspended needs the invariant of the gate.
IInv == Inv /\ GateProofs!IInv

\* The limits of the gateway meet what the theorems about the gate assume.
LEMMA GateAssumptions == GateProofs!GateAssumption
BY GatewayAssumption, SMTT(30) DEF GateProofs!GateAssumption

\* The invariant of the gate says what the steps rely on.
LEMMA GateInvFacts == GateProofs!IInv => GateFacts
BY SMTT(30) DEF GateProofs!IInv, GateProofs!TypeOK, GateProofs!NoIdleSlotWhileWaiting,
       GateProofs!QueueIsTheUngranted, GateFacts, Gate!TypeOK, Gate!NoIdleSlotWhileWaiting

\* The two instances of the gate are one.
LEMMA SameGate == [Gate!Next]_gateVars <=> [GateProofs!Next]_(GateProofs!vars)
<1>1. UNCHANGED gateVars <=> UNCHANGED GateProofs!vars
  BY SMTT(30) DEF gateVars, GateProofs!vars
<1>2. ASSUME NEW c \in Requests
      PROVE  /\ Gate!AcquireNow(c) <=> GateProofs!AcquireNow(c)
             /\ Gate!AcquireQueueFull(c) <=> GateProofs!AcquireQueueFull(c)
             /\ Gate!AcquireWait(c) <=> GateProofs!AcquireWait(c)
             /\ Gate!TimerExpires(c) <=> GateProofs!TimerExpires(c)
             /\ Gate!ResumeGranted(c) <=> GateProofs!ResumeGranted(c)
             /\ Gate!ResumeTimeout(c) <=> GateProofs!ResumeTimeout(c)
             /\ Gate!Release(c) <=> GateProofs!Release(c)
  <2>1. Gate!Outside(c) <=> GateProofs!Outside(c)
    BY SMTT(30) DEF Gate!Outside, GateProofs!Outside
  <2>2. Gate!HasFreeSlot <=> GateProofs!HasFreeSlot
    BY SMTT(30) DEF Gate!HasFreeSlot, GateProofs!HasFreeSlot
  <2>3. /\ Gate!AcquireNow(c) <=> GateProofs!AcquireNow(c)
        /\ Gate!AcquireQueueFull(c) <=> GateProofs!AcquireQueueFull(c)
        /\ Gate!AcquireWait(c) <=> GateProofs!AcquireWait(c)
    BY <2>1, <2>2, SMTT(30)
       DEF Gate!AcquireNow, Gate!AcquireQueueFull, Gate!AcquireWait, Gate!vars,
           GateProofs!AcquireNow, GateProofs!AcquireQueueFull,
           GateProofs!AcquireWait, GateProofs!vars
  <2>4. /\ Gate!TimerExpires(c) <=> GateProofs!TimerExpires(c)
        /\ Gate!ResumeGranted(c) <=> GateProofs!ResumeGranted(c)
    BY SMTT(30) DEF Gate!TimerExpires, Gate!ResumeGranted,
           GateProofs!TimerExpires, GateProofs!ResumeGranted
  <2>5. Gate!Queued = GateProofs!Queued
    BY SMTT(30) DEF Gate!Queued, GateProofs!Queued
  <2>6. \A i : Gate!Erase(waiters, i) = GateProofs!Erase(waiters, i)
    BY SMTT(30) DEF Gate!Erase, GateProofs!Erase
  <2>7. Gate!ResumeTimeout(c) <=> GateProofs!ResumeTimeout(c)
    BY <2>5, <2>6, SMTT(30) DEF Gate!ResumeTimeout, GateProofs!ResumeTimeout
  <2>8. Gate!Release(c) <=> GateProofs!Release(c)
    BY SMTT(30) DEF Gate!Release, Gate!GrantOldest, Gate!FreeSlot,
           GateProofs!Release, GateProofs!GrantOldest, GateProofs!FreeSlot
  <2> QED
    BY <2>3, <2>4, <2>7, <2>8, SMTT(30)
<1>3. Gate!Next <=> GateProofs!Next
  BY <1>2, Zenon DEF Gate!Next, GateProofs!Next
<1> QED
  BY <1>1, <1>3, SMTT(30)

\* Every step keeps the invariant and is a step of the gate or leaves it alone.
LEMMA NextIInv ==
    IInv /\ [Next]_vars =>
        /\ IInv'
        /\ [Gate!Next]_gateVars
        /\ \A r \in Requests : Disciplined(req[r], req'[r])
<1> SUFFICES ASSUME IInv, [Next]_vars
             PROVE  /\ IInv'
                    /\ [Gate!Next]_gateVars
                    /\ \A r \in Requests : Disciplined(req[r], req'[r])
  OBVIOUS
<1>1. /\ Inv'
      /\ [Gate!Next]_gateVars
      /\ \A r \in Requests : Disciplined(req[r], req'[r])
  BY GateInvFacts, StepEffect, SMTT(30) DEF IInv
<1>2. GateProofs!IInv'
  BY <1>1, SameGate, GateAssumptions, GateProofs!NextIInv, SMTT(30) DEF IInv
<1> QED
  BY <1>1, <1>2, SMTT(30) DEF IInv

\* The inductive invariant holds in every state of every behaviour.
LEMMA Invariance == Spec => []IInv
<1>1. Init => IInv
  BY InitInv, GateAssumptions, GateProofs!InitIInv, SMTT(30)
     DEF IInv, Init, Gate!Init, GateProofs!Init
<1>2. IInv /\ [Next]_vars => IInv'
  BY NextIInv, SMTT(30)
<1> QED
  BY <1>1, <1>2, PTL DEF Spec

\* So it does with the reporting, and the reports are true.
LEMMA MetricsInvariance == MetricsSpec => []Reports
<1>1. MetricsInit => Init /\ Reports
  BY InitReports, SMTT(30) DEF MetricsInit
<1>2. [MetricsNext]_<<vars, metricsVars>> => [Next]_vars
  BY SMTT(30) DEF MetricsNext
<1>3. IInv /\ Reports /\ [MetricsNext]_<<vars, metricsVars>> => Reports'
  <2> SUFFICES ASSUME IInv, Reports, [MetricsNext]_<<vars, metricsVars>>
               PROVE  Reports'
    OBVIOUS
  <2>1. GateFacts
    BY GateInvFacts, SMTT(30) DEF IInv
  <2> QED
    BY <2>1, StepReports, SMTT(30) DEF IInv
<1> QED
  BY <1>1, <1>2, <1>3, Invariance, PTL DEF MetricsSpec, Spec

-----------------------------------------------------------------------------
\* The state of the gateway keeps its types.
THEOREM GatewayTypeCorrect == Spec => []TypeOK
<1>1. IInv => TypeOK
  BY GateInvFacts, InvTypes, SMTT(30) DEF IInv
<1> QED
  BY <1>1, Invariance, PTL

\* On every backend active_ is the number of requests that hold a slot there,
\* within max_in_flight, for any number of requests and backends.
THEOREM GatewaySlotsMatch == Spec => []SlotsMatchRequests
<1>1. IInv => SlotsMatchRequests
  BY SMTT(30) DEF IInv, Inv, SlotsInv
<1> QED
  BY <1>1, Invariance, PTL

\* A request owns a global slot exactly from its admission to its last write.
THEOREM GatewayTicketsMatch == Spec => []TicketWhileServed
<1>1. IInv => TicketWhileServed
  BY SMTT(30) DEF IInv, Inv, TicketsInv, TicketDue, TicketWhileServed
<1> QED
  BY <1>1, Invariance, PTL

\* Failover happens once, elsewhere, and before the client has got a byte.
THEOREM GatewayRetriesCleanly == Spec => OneCleanRetry
<1>1. IInv /\ [Next]_vars =>
        [\A r \in Requests : IsRetry(r) =>
            /\ req'[r].attempts = 2
            /\ ~req[r].header_started
            /\ req'[r].slot \cap req[r].slot = {}]_vars
  BY NextIInv, RetryIsClean, SMTT(30)
<1> QED
  BY <1>1, Invariance, PTL DEF Spec, OneCleanRetry

\* The first dispatch of a request goes to a backend that is HEALTHY then.
THEOREM GatewayDispatchesToHealthy == Spec => FirstDispatchIsHealthy
<1>1. IInv /\ [Next]_vars =>
        [\A r \in Requests :
            req[r].attempts = 0 /\ req'[r].attempts = 1
                => req'[r].slot \subseteq healthy]_vars
  BY NextIInv, SMTT(30) DEF Disciplined
<1> QED
  BY <1>1, Invariance, PTL DEF Spec, FirstDispatchIsHealthy

\* A single failed call is surfaced only from the last candidate.
THEOREM GatewaySurfacesLast == Spec => FailureSurfacedLast
<1>1. IInv /\ [Next]_vars =>
        [\A r \in Requests :
            (/\ req[r].pc = "upstream" /\ req[r].attempts = 1
             /\ req'[r].pc = "writing" /\ req'[r].final_code \in {500, 502, 504})
                => req[r].pos = Len(req[r].order)]_vars
  BY NextIInv, SMTT(30) DEF Disciplined, BackendFailures
<1> QED
  BY <1>1, Invariance, PTL DEF Spec, FailureSurfacedLast

\* For any number of requests, each response is counted once, and under the
\* status that its client saw.
THEOREM GatewayCountsAsSeen == MetricsSpec => []CountedAsSeen
<1>1. Reports => CountedAsSeen
  BY SMTT(30) DEF Reports, CountInv
<1> QED
  BY <1>1, MetricsInvariance, PTL

\* Nothing but a client that leaves a streamed probe can leave a breaker in
\* HALF_OPEN without its probe.
THEOREM GatewayLosesProbesByClientsOnly == MetricsSpec => []ProbeLostOnlyByClient
<1>1. Reports => ProbeLostOnlyByClient
  BY SMTT(30) DEF Reports
<1> QED
  BY <1>1, MetricsInvariance, PTL
=============================================================================
