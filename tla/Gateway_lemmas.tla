---------------------------- MODULE Gateway_lemmas ----------------------------
(***************************************************************************)
(* What the steps of Gateway do, for every set of requests, backends and   *)
(* models and every value of the limits.                                   *)
(*                                                                         *)
(* Every action changes the locals of one request only, and the rest of    *)
(* the state in step with them.  Effect says how: what becomes of that     *)
(* request, its ticket and its slots.  Each action is shown to have its    *)
(* effect, and the invariant and the action properties follow from the     *)
(* effect alone.  Module Gateway_proofs puts the theorems together.        *)
(***************************************************************************)
EXTENDS Gateway, TLAPS

\* The elements of a sequence.
LEMMA ElementOf ==
    ASSUME NEW S, NEW s \in Seq(S), NEW n \in 1..Len(s)
    PROVE  s[n] \in S
OBVIOUS

-----------------------------------------------------------------------------
(***************************************************************************)
(* The invariant                                                           *)
(***************************************************************************)

Pcs == {"idle", "queued", "upstream", "beginning", "writing"}

Outcomes == {"none", "ok", "cut", "failed"}

\* The statuses of a request that was turned away, and those that report that
\* its backend failed.
Refusals == {400, 404, 429}

BackendFailures == {500, 502, 504}

\* The locals of a request for which no backend is left.
GaveUp == Writing({}, 503, "none")

Locals ==
    [pc : Pcs, stream : BOOLEAN, serving : SUBSET Backends, order : Seq(Backends),
     pos : Nat, attempts : 0..max_attempts, is_probe : BOOLEAN,
     header_started : BOOLEAN, final_code : Codes, slot : SUBSET Backends,
     outcome : Outcomes]

\* A sequence without repetition.
OneEach(o) == \A i, j \in 1..Len(o) : o[i] = o[j] => i = j

\* Only a stream starts its response while the call is in progress.
StreamsOnly(q) == q.stream = FALSE => q.header_started = FALSE

\* How the locals of one request hang together: the order names a backend once,
\* a request holds the slot of the backend it is being served from, the response
\* has been started only by a stream whose call is in progress, and final_code
\* is set exactly while the last response is written.
Coherent(q) ==
    /\ q.pos <= Len(q.order)
    /\ OneEach(q.order)
    /\ q.pc \in {"idle", "queued"} => q.slot = {} /\ q.attempts = 0
    /\ q.pc = "upstream" => /\ q.pos > 0
                            /\ q.attempts > 0
                            /\ q.slot = {q.order[q.pos]}
    /\ q.pc = "beginning" => q.slot # {}
    /\ StreamsOnly(q)
    /\ q.pc # "upstream" => q.header_started = FALSE
    /\ q.pc = "writing" <=> q.final_code # 0

\* What TicketWhileServed says of a request with locals q.
TicketDue(q) ==
    \/ q.pc \in {"upstream", "beginning"}
    \/ q.pc = "writing" /\ (q.slot # {} \/ q.final_code = 503)

LocalsInv ==
    /\ req \in [Requests -> Locals]
    /\ \A r \in Requests : Coherent(req[r])

TicketsInv ==
    /\ \A r \in Requests : r \in tickets <=> TicketDue(req[r])
    /\ \A r \in Requests : r \in suspended <=> req[r].pc = "queued"

SlotsInv ==
    /\ active \in [Backends -> Nat]
    /\ \A b \in Backends : IsFiniteSet(Holders(b))
    /\ SlotsMatchRequests

Inv ==
    /\ breaker \in [Backends -> Breakers]
    /\ healthy \subseteq Backends
    /\ LocalsInv
    /\ TicketsInv
    /\ SlotsInv

\* A request that has not arrived holds nothing.
LEMMA IdleLocals == Idle \in Locals /\ Coherent(Idle) /\ ~TicketDue(Idle)
<1>1. Idle \in Locals
  <2>1. <<>> \in Seq(Backends) /\ {} \in SUBSET Backends /\ 0 \in Nat
    OBVIOUS
  <2>2. 0 \in 0..max_attempts /\ 0 \in Codes /\ "idle" \in Pcs /\ "none" \in Outcomes
    BY DEF max_attempts, Codes, Pcs, Outcomes
  <2> QED
    BY <2>1, <2>2 DEF Idle, Locals
<1>2. Coherent(Idle)
  BY DEF Idle, Coherent, OneEach, StreamsOnly
<1> QED
  BY <1>1, <1>2 DEF Idle, TicketDue

-----------------------------------------------------------------------------
(***************************************************************************)
(* The walk                                                                *)
(***************************************************************************)

\* The methods of a breaker keep its fields in their types.
LEMMA BreakerOps ==
    ASSUME NEW b \in Breakers, NEW p
    PROVE  /\ WindowPassed(b) \in Breakers
           /\ AfterAllow(b) \in Breakers
           /\ PassedOver(b) \in Breakers
           /\ OnSuccess(b, p) \in Breakers
           /\ OnFailure(b, p) \in Breakers
<1> USE DEF Breakers, BreakerStates
<1>1. WindowPassed(b) \in Breakers
  BY Zenon DEF WindowPassed
<1>2. AfterAllow(b) \in Breakers
  BY Zenon DEF AfterAllow
<1>3. \A a \in Breakers : Reopened(a) \in Breakers
  BY Zenon DEF Reopened
<1>4. PassedOver(b) \in Breakers
  BY <1>2, <1>3, Zenon DEF PassedOver, AbortProbe
<1>5. OnSuccess(b, p) \in Breakers
  BY Zenon DEF OnSuccess
<1>6. CountFailure(b) \in Breakers
  <2> DEFINE counted == [b EXCEPT !.consecutive_failures = @ + 1]
  <2>1. counted \in Breakers
    OBVIOUS
  <2>2. CountFailure(b) \in {Reopened(counted), counted}
    BY DEF CountFailure
  <2> QED
    BY <2>1, <2>2, <1>3
<1>7. OnFailure(b, p) \in Breakers
  BY <1>3, <1>6, Zenon DEF OnFailure
<1> QED
  BY <1>1, <1>2, <1>4, <1>5, <1>7

\* When a method leaves a breaker in HALF_OPEN.
LEMMA ProbeOps ==
    ASSUME NEW b \in Breakers
    PROVE  /\ Allows(b) => /\ PassedOver(b).state # "HalfOpen"
                           /\ ~IsProbe(PassedOver(b))
           /\ AfterAllow(b).state = "HalfOpen" => b.state = "HalfOpen" \/ IsProbe(b)
           /\ \A p \in BOOLEAN :
                 /\ OnSuccess(b, p).state # "HalfOpen"
                 /\ OnFailure(b, p).state = "HalfOpen" => b.state = "HalfOpen" /\ p = FALSE
<1>1. \A a \in Breakers : Reopened(a).state = "Open" /\ Reopened(a).elapsed = FALSE
  BY DEF Breakers, Reopened
<1>2. AfterAllow(b) \in Breakers
  BY BreakerOps
<1>3. Allows(b) => PassedOver(b).state # "HalfOpen" /\ ~IsProbe(PassedOver(b))
  <2>1. CASE IsProbe(b)
    <3>1. PassedOver(b) = Reopened(AfterAllow(b))
      BY <2>1 DEF PassedOver, AbortProbe
    <3>2. PassedOver(b).state = "Open" /\ PassedOver(b).elapsed = FALSE
      BY <3>1, <1>1, <1>2
    <3> QED
      BY <3>2 DEF IsProbe
  <2>2. CASE ~IsProbe(b)
    <3>1. PassedOver(b) = b
      BY <2>2 DEF PassedOver, AbortProbe, AfterAllow
    <3> QED
      BY <2>2, <3>1 DEF Allows
  <2> QED
    BY <2>1, <2>2
<1>4. AfterAllow(b).state = "HalfOpen" => b.state = "HalfOpen" \/ IsProbe(b)
  BY DEF AfterAllow
<1>5. \A p \in BOOLEAN : OnSuccess(b, p).state # "HalfOpen"
  BY DEF OnSuccess, Breakers
<1>6. CountFailure(b).state = "HalfOpen" => b.state = "HalfOpen"
  BY DEF CountFailure, Reopened, Breakers
<1>7. ASSUME NEW p \in BOOLEAN, OnFailure(b, p).state = "HalfOpen"
      PROVE  b.state = "HalfOpen" /\ p = FALSE
  <2>1. CASE p = TRUE
    BY <1>1, <1>7, <2>1 DEF OnFailure
  <2>2. CASE p = FALSE
    BY <1>6, <1>7, <2>2 DEF OnFailure
  <2> QED
    BY <2>1, <2>2, Zenon
<1> QED
  BY <1>3, <1>4, <1>5, <1>7, Zenon

\* The locals of q once its walk has dispatched it to position p.
Dispatched(q, p, probe) ==
    [q EXCEPT !.pc = "upstream", !.pos = p, !.slot = {q.order[p]},
              !.attempts = @ + 1, !.is_probe = probe]

\* Of the breakers brk, none becomes HALF_OPEN outside S.
HalfOpensOnly(brk, S) ==
    \A d \in Backends :
        breaker'[d].state = "HalfOpen" => brk[d].state = "HalfOpen" \/ d \in S

\* What a walk comes to: it gives up, or it takes one slot more on the backend
\* at a position it has not been at; only that one's breaker may have been
\* promoted to HALF_OPEN, and then the call is the probe.
WalkResult(r, q, from, brk, act) ==
    \/ /\ active' = act
       /\ HalfOpensOnly(brk, {})
       /\ req' = [req EXCEPT ![r] = GaveUp]
    \/ \E p \in from..Len(q.order), probe \in BOOLEAN :
          /\ q.attempts < max_attempts
          /\ act[q.order[p]] < max_in_flight
          /\ active' = [act EXCEPT ![q.order[p]] = @ + 1]
          /\ HalfOpensOnly(brk, IF probe THEN {q.order[p]} ELSE {})
          /\ req' = [req EXCEPT ![r] = Dispatched(q, p, probe)]

\* Passing over a candidate keeps its breaker in its type, makes no breaker
\* HALF_OPEN, and none ready for a probe.
LEMMA PassingEffect ==
    ASSUME NEW o, NEW from, NEW last, NEW brk \in [Backends -> Breakers]
    PROVE  LET passed == AfterPassing(o, from, last, brk)
           IN  /\ passed \in [Backends -> Breakers]
               /\ \A d \in Backends :
                     /\ passed[d].state = "HalfOpen" => brk[d].state = "HalfOpen"
                     /\ IsProbe(passed[d]) => IsProbe(brk[d])
<1> DEFINE passed == AfterPassing(o, from, last, brk)
<1>1. \A d \in Backends : \/ passed[d] = brk[d]
                          \/ Allows(brk[d]) /\ passed[d] = PassedOver(brk[d])
  BY Zenon DEF AfterPassing
<1>2. passed = [d \in Backends |-> passed[d]]
  BY DEF AfterPassing
<1> HIDE DEF passed
<1>3. ASSUME NEW d \in Backends
      PROVE  /\ passed[d] \in Breakers
             /\ passed[d].state = "HalfOpen" => brk[d].state = "HalfOpen"
             /\ IsProbe(passed[d]) => IsProbe(brk[d])
  <2>1. brk[d] \in Breakers
    OBVIOUS
  <2>2. CASE passed[d] = brk[d]
    BY <2>1, <2>2, Zenon
  <2>3. CASE Allows(brk[d]) /\ passed[d] = PassedOver(brk[d])
    <3>1. PassedOver(brk[d]) \in Breakers
      BY <2>1, BreakerOps, Zenon
    <3>2. PassedOver(brk[d]).state # "HalfOpen" /\ ~IsProbe(PassedOver(brk[d]))
      BY <2>1, <2>3, ProbeOps, Zenon
    <3> QED
      BY <2>3, <3>1, <3>2, Zenon
  <2> QED
    BY <1>1, <2>2, <2>3, Zenon
<1>4. passed \in [Backends -> Breakers]
  BY <1>2, <1>3, Zenon
<1> QED
  BY <1>3, <1>4, Zenon DEF passed

\* What one walk of the order returns is a WalkResult.
LEMMA WalkEffect ==
    ASSUME NEW r \in Requests, NEW q \in Locals, NEW from \in Nat \ {0},
           NEW brk \in [Backends -> Breakers], NEW act \in [Backends -> Nat],
           Walk(r, q, from, brk, act)
    PROVE  /\ breaker' \in [Backends -> Breakers]
           /\ WalkResult(r, q, from, brk, act)
<1> DEFINE o         == q.order
           takers    == Takers(o, from, brk, act)
           open      == q.attempts < max_attempts
           passed(l) == AfterPassing(o, from, l, brk)
<1>1. o \in Seq(Backends) /\ Len(o) \in Nat
  BY DEF Locals
<1>2. ASSUME NEW l
      PROVE  /\ passed(l) \in [Backends -> Breakers]
             /\ \A d \in Backends :
                   /\ passed(l)[d].state = "HalfOpen" => brk[d].state = "HalfOpen"
                   /\ IsProbe(passed(l)[d]) => IsProbe(brk[d])
  BY PassingEffect, Zenon
<1> HIDE DEF passed
<1>3. ASSUME NEW next \in takers, open,
             breaker' = [passed(next - 1) EXCEPT ![o[next]] = AfterAllow(@)],
             active' = [act EXCEPT ![o[next]] = @ + 1],
             req' = [req EXCEPT ![r] = Dispatched(q, next, IsProbe(brk[o[next]]))]
      PROVE  /\ breaker' \in [Backends -> Breakers]
             /\ WalkResult(r, q, from, brk, act)
  <2> DEFINE b   == o[next]
             was == passed(next - 1)
  <2>1. next \in from..Len(o) /\ HasRoom(act, b)
    BY Zenon DEF Takers
  <2>2. b \in Backends
    <3>1. \A p \in from..Len(o) : o[p] \in Backends
      BY <1>1, ElementOf
    <3> QED
      BY <2>1, <3>1, Zenon
  <2>3. brk[b] \in Breakers /\ IsProbe(brk[b]) \in BOOLEAN
    BY <2>2 DEF IsProbe
  <2>4. /\ was \in [Backends -> Breakers]
        /\ \A d \in Backends :
              /\ was[d].state = "HalfOpen" => brk[d].state = "HalfOpen"
              /\ IsProbe(was[d]) => IsProbe(brk[d])
    BY <1>2, Zenon
  <2>5. breaker' = [was EXCEPT ![b] = AfterAllow(@)]
    BY <1>3, Zenon
  <2>6. act[b] < max_in_flight
    BY <2>1 DEF HasRoom
  <2> HIDE DEF was
  <2>7. was[b] \in Breakers /\ AfterAllow(was[b]) \in Breakers
    BY <2>2, <2>4, BreakerOps, Zenon
  <2>8. breaker' \in [Backends -> Breakers]
    BY <2>2, <2>4, <2>5, <2>7, Zenon
  <2>9. HalfOpensOnly(brk, IF IsProbe(brk[b]) THEN {b} ELSE {})
    <3> SUFFICES ASSUME NEW d \in Backends, breaker'[d].state = "HalfOpen"
                 PROVE  brk[d].state = "HalfOpen" \/ (d = b /\ IsProbe(brk[b]))
      BY Zenon DEF HalfOpensOnly
    <3>1. breaker'[d] = IF d = b THEN AfterAllow(was[d]) ELSE was[d]
      BY <2>4, <2>5, Zenon
    <3>2. CASE d # b
      BY <3>1, <3>2, <2>4, Zenon
    <3>3. CASE d = b
      <4>1. was[d].state = "HalfOpen" \/ IsProbe(was[d])
        BY <3>1, <3>3, <2>7, ProbeOps, Zenon
      <4> QED
        BY <4>1, <3>3, <2>4, Zenon
    <3> QED
      BY <3>2, <3>3, Zenon
  <2> QED
    BY <2>1, <2>3, <2>6, <2>8, <2>9, <1>3, Zenon DEF WalkResult
<1>4. ASSUME NEW l, breaker' = passed(l), active' = act,
             req' = [req EXCEPT ![r] = GaveUp]
      PROVE  /\ breaker' \in [Backends -> Breakers]
             /\ WalkResult(r, q, from, brk, act)
  <2>1. HalfOpensOnly(brk, {})
    BY <1>2, <1>4, Zenon DEF HalfOpensOnly
  <2> QED
    BY <1>4, <1>2, <2>1, Zenon DEF WalkResult
<1>5. \/ /\ open
         /\ \E next \in takers :
              /\ breaker' = [passed(next - 1) EXCEPT ![o[next]] = AfterAllow(@)]
              /\ active' = [act EXCEPT ![o[next]] = @ + 1]
              /\ req' = [req EXCEPT ![r] = Dispatched(q, next, IsProbe(brk[o[next]]))]
      \/ /\ \E l : breaker' = passed(l)
         /\ active' = act
         /\ req' = [req EXCEPT ![r] = GaveUp]
  BY ZenonT(60) DEF Walk, Dispatched, GaveUp, passed
<1> QED
  BY <1>3, <1>4, <1>5, Zenon
-----------------------------------------------------------------------------
(***************************************************************************)
(* The effect of a step on the request that takes it                       *)
(***************************************************************************)

\* The gate is used as its specification says, and r's membership of tickets
\* and suspended follows its new locals q.
TicketMoves(r, q) ==
    /\ [Gate!Next]_gateVars
    /\ \A c \in Requests \ {r} : /\ c \in tickets' <=> c \in tickets
                                 /\ c \in suspended' <=> c \in suspended
    /\ r \in tickets' <=> TicketDue(q)
    /\ r \in suspended' <=> q.pc = "queued"

\* The limiters count the slots that r takes and gives back, and a slot is
\* taken only where there is room.
SlotMoves(r, q) ==
    /\ active' = [b \in Backends |->
                    IF b \in q.slot \ req[r].slot THEN active[b] + 1
                    ELSE IF b \in req[r].slot \ q.slot THEN active[b] - 1
                    ELSE active[b]]
    /\ \A b \in q.slot \ req[r].slot : active[b] < max_in_flight

\* The three ways out of handle_chat: behind the last write, by the exception of
\* BeginThrows, and when the client of a stream has left.
Exits(old) ==
    \/ old.pc \in {"writing", "beginning"}
    \/ old.pc = "upstream" /\ old.header_started = TRUE

\* OneCleanRetry, FirstDispatchIsHealthy and FailureSurfacedLast, of one request,
\* and that it leaves by one of the three ways.
Disciplined(old, new) ==
    /\ old.attempts > 0 /\ new.attempts > old.attempts =>
          /\ new.attempts = 2
          /\ old.header_started = FALSE
          /\ new.slot \cap old.slot = {}
    /\ old.attempts = 0 /\ new.attempts = 1 => new.slot \subseteq healthy
    /\ (/\ old.pc = "upstream" /\ old.attempts = 1
        /\ new.pc = "writing" /\ new.final_code \in BackendFailures)
          => old.pos = Len(old.order)
    /\ old.pc # "idle" /\ new.pc = "idle" => Exits(old)

\* The call of a request with locals q is the probe of b's breaker.
Probing(q, b) == q.pc = "upstream" /\ b \in q.slot /\ q.is_probe = TRUE

\* A breaker is HALF_OPEN after the step only if r probes it now, or if it was
\* before and its probe, should it have been r, has left handle_chat.
ProbesKept(r, q) ==
    \A b \in Backends : breaker'[b].state = "HalfOpen" =>
        \/ Probing(q, b)
        \/ /\ breaker[b].state = "HalfOpen"
           /\ Probing(req[r], b) => q.pc = "idle"

Effect(r, q) ==
    /\ q \in Locals
    /\ Coherent(q)
    /\ req' = [req EXCEPT ![r] = q]
    /\ breaker' \in [Backends -> Breakers]
    /\ healthy' = healthy
    /\ TicketMoves(r, q)
    /\ SlotMoves(r, q)
    /\ Disciplined(req[r], q)
    /\ ProbesKept(r, q)

\* A step that leaves the gate alone.
LEMMA TicketsKept ==
    ASSUME NEW r \in Requests, NEW q, UNCHANGED gateVars,
           r \in tickets <=> TicketDue(q), r \in suspended <=> q.pc = "queued"
    PROVE  TicketMoves(r, q)
<1>1. tickets' = tickets /\ suspended' = suspended
  BY DEF gateVars
<1>2. [Gate!Next]_gateVars
  BY Zenon
<1> QED
  BY <1>1, <1>2, Zenon DEF TicketMoves

\* A step that leaves the limiters and the slot of its request alone.
LEMMA SlotsKept ==
    ASSUME NEW r, NEW q, active \in [Backends -> Nat], active' = active,
           q.slot = req[r].slot
    PROVE  SlotMoves(r, q)
<1>1. q.slot \ req[r].slot = {} /\ req[r].slot \ q.slot = {}
  OBVIOUS
<1>2. active = [b \in Backends |-> active[b]]
  OBVIOUS
<1> QED
  BY <1>1, <1>2 DEF SlotMoves

\* A step that neither dispatches its request, nor answers for a backend, nor
\* ends the handler.
LEMMA QuietIsDisciplined ==
    ASSUME NEW old, NEW new,
           old.attempts \in Nat, new.attempts \in {0, old.attempts},
           new.pc # "idle" \/ old.pc = "idle",
           old.pc = "upstream" => new.pc # "writing"
    PROVE  Disciplined(old, new)
<1>1. /\ ~(old.attempts > 0 /\ new.attempts > old.attempts)
      /\ ~(old.attempts = 0 /\ new.attempts = 1)
  OBVIOUS
<1> QED
  BY <1>1, Zenon DEF Disciplined

\* What counting adds to Inv: a backend on which a slot is held counts at least
\* that one, and so many candidates are a number of them.  Gateway_proofs derives
\* it from Inv, with the theorems about cardinalities.
Counts ==
    /\ \A r \in Requests : \A b \in req[r].slot : active[b] # 0
    /\ \A S \in SUBSET Backends : Cardinality(S) \in Nat

-----------------------------------------------------------------------------
(***************************************************************************)
(* The effects of the actions                                              *)
(***************************************************************************)

\* The locals of a request that has its response.
LEMMA WritingLocals ==
    ASSUME NEW S \in SUBSET Backends, NEW code \in Codes \ {0}, NEW x \in Outcomes
    PROVE  LET w == Writing(S, code, x)
           IN  /\ w \in Locals
               /\ Coherent(w)
               /\ w.pc = "writing" /\ w.slot = S /\ w.final_code = code
               /\ w.attempts = 0
<1> DEFINE w == Writing(S, code, x)
<1>1. Idle \in Locals /\ "writing" \in Pcs
  BY IdleLocals DEF Pcs
<1>2. w \in Locals
  BY <1>1, Zenon DEF Writing, Locals
<1>3. /\ w.pc = "writing" /\ w.slot = S /\ w.final_code = code
      /\ w.attempts = Idle.attempts /\ w.pos = Idle.pos /\ w.order = Idle.order
      /\ w.stream = Idle.stream /\ w.header_started = Idle.header_started
  BY <1>1 DEF Writing, Locals
<1>4. /\ Idle.attempts = 0 /\ Idle.pos = 0 /\ Idle.order = <<>>
      /\ Idle.header_started = FALSE
  BY DEF Idle
<1>5. Coherent(w)
  <2>1. w.pos <= Len(w.order) /\ Len(w.order) = 0
    BY <1>3, <1>4
  <2>2. w.header_started = FALSE
    BY <1>3, <1>4, Zenon
  <2> QED
    BY <1>3, <2>1, <2>2 DEF Coherent, OneEach, StreamsOnly
<1> QED
  BY <1>2, <1>3, <1>4, <1>5

\* What the invariant says of the locals of a request.
LEMMA LocalsOf ==
    ASSUME Inv, NEW r \in Requests
    PROVE  /\ req[r] \in Locals
           /\ Coherent(req[r])
           /\ r \in tickets <=> TicketDue(req[r])
           /\ r \in suspended <=> req[r].pc = "queued"
BY DEF Inv, LocalsInv, TicketsInv

\* A call that has reported leaves no breaker in HALF_OPEN as its probe, and
\* reporting promotes none.
LEMMA ReportedProbes ==
    ASSUME Inv, NEW r \in Requests, req[r].pc = "upstream",
           NEW brk \in {Failed(r), Succeeded(r)}, NEW b \in Backends,
           brk[b].state = "HalfOpen"
    PROVE  breaker[b].state = "HalfOpen" /\ ~Probing(req[r], b)
<1>1. /\ req[r] \in Locals
      /\ req[r].slot = {Serving(r)}
      /\ breaker \in [Backends -> Breakers]
  BY LocalsOf, Zenon DEF Coherent, Serving, Inv
<1>2. breaker[b] \in Breakers /\ req[r].is_probe \in BOOLEAN
  BY <1>1 DEF Locals
<1>3. CASE b = Serving(r)
  <2>1. brk[b] \in {OnFailure(breaker[b], req[r].is_probe),
                    OnSuccess(breaker[b], req[r].is_probe)}
    BY <1>1, <1>3 DEF Failed, Succeeded
  <2>2. /\ OnSuccess(breaker[b], req[r].is_probe).state # "HalfOpen"
        /\ OnFailure(breaker[b], req[r].is_probe).state = "HalfOpen"
              => breaker[b].state = "HalfOpen" /\ req[r].is_probe = FALSE
    BY <1>2, ProbeOps, Zenon
  <2>3. breaker[b].state = "HalfOpen" /\ req[r].is_probe = FALSE
    BY <2>1, <2>2, Zenon
  <2> QED
    BY <2>3 DEF Probing
<1>4. CASE b # Serving(r)
  <2>1. brk[b] = breaker[b]
    BY <1>1, <1>4 DEF Failed, Succeeded
  <2> QED
    BY <1>1, <1>4, <2>1 DEF Probing
<1> QED
  BY <1>3, <1>4

\* A request that holds one backend slot and starts its response keeps the slot
\* and the ticket.
LEMMA RespondEffect ==
    ASSUME Inv, NEW r \in Requests, NEW code \in Codes \ {0}, NEW x \in Outcomes,
           NEW brk \in {Failed(r), Succeeded(r)}, brk \in [Backends -> Breakers],
           req[r].pc = "upstream",
           req[r].attempts = 1 /\ code \in BackendFailures
               => req[r].pos = Len(req[r].order),
           Respond(r, code, x, brk)
    PROVE  \E q : Effect(r, q)
<1> DEFINE w == Writing(req[r].slot, code, x)
<1>1. /\ req[r] \in Locals /\ Coherent(req[r])
      /\ r \in tickets <=> TicketDue(req[r])
      /\ r \in suspended <=> req[r].pc = "queued"
  BY LocalsOf
<1>2. req[r].slot \in SUBSET Backends /\ req[r].slot # {}
  BY <1>1, Zenon DEF Locals, Coherent
<1>3. /\ w \in Locals /\ Coherent(w)
      /\ w.pc = "writing" /\ w.slot = req[r].slot /\ w.final_code = code
      /\ w.attempts = 0
  BY <1>2, WritingLocals
<1> HIDE DEF w
<1>4. TicketMoves(r, w)
  <2>1. TicketDue(req[r]) /\ TicketDue(w) /\ w.pc # "queued"
    BY <1>2, <1>3 DEF TicketDue
  <2>2. UNCHANGED gateVars
    BY DEF Respond
  <2> QED
    BY <1>1, <2>1, <2>2, TicketsKept, Zenon
<1>5. SlotMoves(r, w)
  BY <1>3 DEF Respond, SlotMoves, Inv, SlotsInv
<1>6. Disciplined(req[r], w)
  BY <1>1, <1>3 DEF Disciplined, Locals
<1>7. /\ req' = [req EXCEPT ![r] = w]
      /\ breaker' = brk /\ healthy' = healthy
  BY DEF Respond, w
<1>8. ProbesKept(r, w)
  BY <1>7, ReportedProbes DEF ProbesKept
<1> QED
  BY <1>3, <1>4, <1>5, <1>6, <1>7, <1>8, Zenon DEF Effect

\* Scope exit gives back what is held.
LEMMA LeaveEffect ==
    ASSUME Inv, NEW r \in Requests, Exits(req[r]), Leave(r)
    PROVE  \E q : Effect(r, q)
<1>1. /\ req[r] \in Locals
      /\ r \notin suspended
  BY LocalsOf DEF Exits
<1>2. /\ Idle \in Locals /\ Coherent(Idle) /\ ~TicketDue(Idle)
      /\ Idle.pc = "idle" /\ Idle.slot = {} /\ Idle.attempts = 0
  BY IdleLocals DEF Idle
<1>3. TicketMoves(r, Idle)
  <2>1. CASE r \in tickets
    <3>1. Gate!Release(r)
      BY <2>1 DEF Leave
    <3>2. tickets' = tickets \ {r} /\ suspended' = suspended
      BY <3>1 DEF Gate!Release
    <3>3. Gate!Next
      BY <3>1 DEF Gate!Next
    <3> QED
      BY <3>2, <3>3, <1>1, <1>2 DEF TicketMoves
  <2>2. CASE r \notin tickets
    <3>1. UNCHANGED gateVars
      BY <2>2 DEF Leave
    <3> QED
      BY <2>2, <3>1, <1>1, <1>2 DEF TicketMoves, gateVars
  <2> QED
    BY <2>1, <2>2
<1>4. SlotMoves(r, Idle)
  BY <1>2 DEF Leave, SlotMoves
<1>5. Disciplined(req[r], Idle)
  BY <1>1, <1>2 DEF Disciplined, Locals
<1>6. /\ req' = [req EXCEPT ![r] = Idle]
      /\ breaker' = breaker /\ breaker \in [Backends -> Breakers] /\ healthy' = healthy
  BY DEF Leave, Inv
<1>7. ProbesKept(r, Idle)
  BY <1>2, <1>6 DEF ProbesKept
<1> QED
  BY <1>2, <1>3, <1>4, <1>5, <1>6, <1>7, Zenon DEF Effect

\* The locals of a request that has been dispatched.
LEMMA DispatchedLocals ==
    ASSUME NEW q \in Locals, NEW p \in 1..Len(q.order), NEW probe \in BOOLEAN,
           q.attempts < max_attempts,
           OneEach(q.order), StreamsOnly(q), q.final_code = 0
    PROVE  LET d == Dispatched(q, p, probe)
           IN  /\ d \in Locals
               /\ Coherent(d)
               /\ d.pc = "upstream" /\ d.slot = {q.order[p]}
               /\ d.attempts = q.attempts + 1
               /\ d.is_probe = probe
<1> DEFINE d == Dispatched(q, p, probe)
<1>1. /\ q.order \in Seq(Backends) /\ Len(q.order) \in Nat
      /\ q.attempts \in 0..max_attempts /\ p \in Nat
  BY DEF Locals
<1>2. /\ q.order[p] \in Backends
      /\ q.attempts + 1 \in 0..max_attempts
      /\ "upstream" \in Pcs
  BY <1>1, ElementOf DEF max_attempts, Pcs
<1>3. d \in Locals
  BY <1>1, <1>2, Zenon DEF Dispatched, Locals
<1>4. /\ d.pc = "upstream" /\ d.slot = {q.order[p]} /\ d.pos = p
      /\ d.attempts = q.attempts + 1 /\ d.order = q.order
      /\ d.final_code = q.final_code
  BY <1>1 DEF Dispatched, Locals
<1>5. /\ d.stream = q.stream /\ d.header_started = q.header_started
      /\ d.is_probe = probe
  BY DEF Dispatched, Locals
<1>6. StreamsOnly(d)
  BY <1>5, Zenon DEF StreamsOnly
<1> HIDE DEF d
<1>7. Coherent(d)
  BY <1>1, <1>4, <1>6 DEF Coherent
<1> QED
  BY <1>3, <1>4, <1>5, <1>7 DEF d

\* The locals of a request that was refused or has run out of backends.
LEMMA GiveUpLocals ==
    /\ GaveUp \in Locals
    /\ Coherent(GaveUp)
    /\ GaveUp.pc = "writing" /\ GaveUp.slot = {} /\ GaveUp.attempts = 0
    /\ GaveUp.final_code \notin BackendFailures
    /\ TicketDue(GaveUp)
<1>1. {} \in SUBSET Backends /\ 503 \in Codes \ {0} /\ "none" \in Outcomes
  BY DEF Codes, Outcomes
<1> QED
  BY <1>1, WritingLocals DEF GaveUp, TicketDue, BackendFailures

\* `continue': the walk goes on behind the backend that failed, so the slot it
\* takes is one of another backend.
LEMMA ContinueEffect ==
    ASSUME Inv, Counts, NEW r \in Requests,
           req[r].pc = "upstream", req[r].header_started = FALSE,
           ContinueWalk(r)
    PROVE  \E q : Effect(r, q)
<1> DEFINE s   == Serving(r)
           act == [active EXCEPT ![s] = @ - 1]
           old == req[r]
<1>1. /\ old \in Locals /\ Coherent(old)
      /\ r \in tickets /\ r \notin suspended
  BY LocalsOf DEF TicketDue
<1>2. /\ old.pos \in 1..Len(old.order) /\ Len(old.order) \in Nat
      /\ old.slot = {s}
      /\ old.attempts \in 1..2
      /\ OneEach(old.order) /\ old.final_code = 0
  BY <1>1 DEF Locals, Coherent, Serving, max_attempts
<1>3. s \in Backends /\ active[s] \in Nat \ {0} /\ active \in [Backends -> Nat]
  <2>1. s \in Backends
    BY <1>1, <1>2 DEF Locals
  <2>2. active[s] # 0
    BY <1>2 DEF Counts
  <2>3. active \in [Backends -> Nat]
    BY DEF Inv, SlotsInv
  <2> QED
    BY <2>1, <2>2, <2>3
<1>4. act \in [Backends -> Nat]
  BY <1>3
<1>5. Failed(r) \in [Backends -> Breakers]
  <2>1. breaker \in [Backends -> Breakers]
    BY DEF Inv
  <2>2. OnFailure(breaker[s], old.is_probe) \in Breakers
    BY <2>1, <1>3, BreakerOps
  <2> QED
    BY <2>1, <2>2, <1>3 DEF Failed
<1>6. Walk(r, old, old.pos + 1, Failed(r), act) /\ UNCHANGED <<gateVars, healthy>>
  BY DEF ContinueWalk
<1>7. old.pos + 1 \in Nat \ {0}
  BY <1>2
<1> HIDE DEF act, s
<1>8. /\ breaker' \in [Backends -> Breakers]
      /\ WalkResult(r, old, old.pos + 1, Failed(r), act)
  BY <1>1, <1>4, <1>5, <1>6, <1>7, WalkEffect
<1>9. UNCHANGED gateVars /\ healthy' = healthy
  BY <1>6
<1>10. CASE /\ active' = act
            /\ HalfOpensOnly(Failed(r), {})
            /\ req' = [req EXCEPT ![r] = GaveUp]
  <2> DEFINE w == GaveUp
  <2>1. /\ w \in Locals /\ Coherent(w)
        /\ w.pc = "writing" /\ w.slot = {} /\ w.attempts = 0
        /\ w.final_code \notin BackendFailures /\ TicketDue(w)
    BY GiveUpLocals
  <2>0. req' = [req EXCEPT ![r] = w]
    BY <1>10
  <2> HIDE DEF w
  <2>2. TicketMoves(r, w)
    <3>1. w.pc # "queued"
      BY <2>1
    <3> QED
      BY <1>1, <1>9, <2>1, <3>1, TicketsKept, Zenon
  <2>3. SlotMoves(r, w)
    <3>1. w.slot \ old.slot = {} /\ old.slot \ w.slot = {s}
      BY <1>2, <2>1
    <3>2. act = [b \in Backends |-> IF b = s THEN active[b] - 1 ELSE active[b]]
      BY <1>3, Zenon DEF act
    <3> QED
      BY <1>10, <3>1, <3>2 DEF SlotMoves
  <2>4. Disciplined(old, w)
    BY <1>2, <2>1 DEF Disciplined
  <2>5. ProbesKept(r, w)
    BY <1>10, ReportedProbes DEF ProbesKept, HalfOpensOnly
  <2> QED
    BY <1>8, <1>9, <2>0, <2>1, <2>2, <2>3, <2>4, <2>5, Zenon DEF Effect
<1>11. ASSUME NEW p \in (old.pos + 1)..Len(old.order), NEW probe \in BOOLEAN,
              old.attempts < max_attempts,
              act[old.order[p]] < max_in_flight,
              active' = [act EXCEPT ![old.order[p]] = @ + 1],
              HalfOpensOnly(Failed(r), IF probe THEN {old.order[p]} ELSE {}),
              req' = [req EXCEPT ![r] = Dispatched(old, p, probe)]
       PROVE  \E q : Effect(r, q)
  <2> DEFINE d == Dispatched(old, p, probe)
             b == old.order[p]
  <2>1. p \in 1..Len(old.order) /\ p # old.pos
    BY <1>2
  <2>2. b # s /\ b \in Backends
    <3>1. b # s
      BY <2>1, <1>2 DEF s, Serving, OneEach
    <3>2. old.order \in Seq(Backends)
      BY <1>1 DEF Locals
    <3> QED
      BY <2>1, <3>1, <3>2, ElementOf
  <2>3. /\ d \in Locals /\ Coherent(d)
        /\ d.pc = "upstream" /\ d.slot = {b} /\ d.attempts = old.attempts + 1
        /\ d.is_probe = probe
    <3>1. StreamsOnly(old)
      BY <1>1 DEF Coherent
    <3>2. /\ old \in Locals /\ OneEach(old.order) /\ old.final_code = 0
          /\ old.attempts < max_attempts
      BY <1>1, <1>2, <1>11
    <3> QED
      BY <2>1, <3>1, <3>2, DispatchedLocals, SMTT(20)
  <2> HIDE DEF d, b
  <2>4. TicketMoves(r, d)
    <3>1. TicketDue(d) /\ d.pc # "queued"
      BY <2>3 DEF TicketDue
    <3> QED
      BY <1>1, <1>9, <3>1, TicketsKept, Zenon
  <2>5. active' = [act EXCEPT ![b] = @ + 1] /\ act[b] < max_in_flight
    BY <1>11 DEF b
  <2>6. SlotMoves(r, d)
    <3>1. d.slot \ old.slot = {b} /\ old.slot \ d.slot = {s}
      BY <1>2, <2>2, <2>3
    <3>2. [act EXCEPT ![b] = @ + 1]
            = [c \in Backends |-> IF c = b THEN active[c] + 1
                                  ELSE IF c = s THEN active[c] - 1 ELSE active[c]]
      BY <1>3, <2>2, Zenon DEF act
    <3>3. active[b] < max_in_flight
      BY <1>3, <2>2, <2>5 DEF act
    <3> QED
      BY <2>5, <3>1, <3>2, <3>3 DEF SlotMoves
  <2>7. Disciplined(old, d)
    <3>1. old.attempts = 1 /\ d.attempts = 2
      BY <1>2, <1>11, <2>3 DEF max_attempts
    <3>2. d.slot \cap old.slot = {}
      BY <1>2, <2>2, <2>3
    <3>3. old.header_started = FALSE
      OBVIOUS
    <3> QED
      BY <2>3, <3>1, <3>2, <3>3 DEF Disciplined
  <2>8. ProbesKept(r, d)
    <3> SUFFICES ASSUME NEW c \in Backends, breaker'[c].state = "HalfOpen"
                 PROVE  \/ Probing(d, c)
                        \/ breaker[c].state = "HalfOpen" /\ ~Probing(old, c)
      BY DEF ProbesKept
    <3>1. CASE Failed(r)[c].state = "HalfOpen"
      BY <3>1, ReportedProbes
    <3>2. CASE Failed(r)[c].state # "HalfOpen"
      <4>1. c \in IF probe THEN {b} ELSE {}
        BY <1>11, <3>2 DEF HalfOpensOnly, b
      <4>2. c = b /\ probe = TRUE
        BY <4>1, Zenon
      <4> QED
        BY <2>3, <4>2 DEF Probing
    <3> QED
      BY <3>1, <3>2
  <2> QED
    BY <1>8, <1>9, <1>11, <2>3, <2>4, <2>6, <2>7, <2>8, Zenon DEF Effect, d
<1> QED
  BY <1>8, <1>10, <1>11, Zenon DEF WalkResult

\* Admission: of the walk's order, which is one of the healthy candidates.
LEMMA AdmittedEffect ==
    ASSUME Inv, Counts, NEW r \in Requests, NEW q \in Locals,
           req[r].pc \in {"idle", "queued"},
           q.attempts = 0, q.header_started = FALSE, q.final_code = 0,
           \A c \in Requests \ {r} : /\ c \in tickets' <=> c \in tickets
                                     /\ c \in suspended' <=> c \in suspended,
           r \in tickets', r \notin suspended', [Gate!Next]_gateVars,
           Admitted(r, q)
    PROVE  \E n : Effect(r, n)
<1>1. /\ req[r] \in Locals
      /\ req[r].slot = {} /\ req[r].attempts = 0 /\ req[r].pc # "upstream"
  BY LocalsOf, Zenon DEF Coherent
<1>2. /\ breaker \in [Backends -> Breakers]
      /\ active \in [Backends -> Nat]
      /\ healthy' = healthy
  BY Zenon DEF Inv, SlotsInv, Admitted
<1>3. ASSUME breaker' \in [Backends -> Breakers], active' = active,
             HalfOpensOnly(breaker, {}),
             req' = [req EXCEPT ![r] = GaveUp]
      PROVE  \E n : Effect(r, n)
  <2> DEFINE w == GaveUp
  <2>1. /\ w \in Locals /\ Coherent(w)
        /\ w.pc = "writing" /\ w.slot = {} /\ w.attempts = 0
        /\ w.final_code \notin BackendFailures /\ TicketDue(w)
    BY GiveUpLocals
  <2>2. req' = [req EXCEPT ![r] = w]
    BY <1>3
  <2> HIDE DEF w
  <2>3. TicketMoves(r, w)
    BY <2>1 DEF TicketMoves
  <2>4. SlotMoves(r, w)
    BY <1>1, <1>2, <1>3, <2>1, SlotsKept, Zenon
  <2>5. Disciplined(req[r], w)
    BY <1>1, <2>1 DEF Disciplined
  <2>6. ProbesKept(r, w)
    BY <1>1, <1>3 DEF ProbesKept, HalfOpensOnly, Probing
  <2> QED
    BY <1>2, <1>3, <2>1, <2>2, <2>3, <2>4, <2>5, <2>6, Zenon DEF Effect
<1>4. ASSUME q.serving \cap healthy # {},
             NEW o \in RouteOrders(q.serving \cap healthy),
             Walk(r, [q EXCEPT !.serving = {}, !.order = o], 1, breaker, active)
      PROVE  \E n : Effect(r, n)
  <2> DEFINE n == Cardinality(q.serving \cap healthy)
             k == [q EXCEPT !.serving = {}, !.order = o]
  <2>1. n \in Nat
    <3>1. q.serving \cap healthy \in SUBSET Backends
      BY DEF Inv
    <3> QED
      BY <3>1 DEF Counts
  <2>2. /\ o \in [1..n -> q.serving \cap healthy]
        /\ \A i, j \in DOMAIN o : o[i] = o[j] => i = j
    BY Zenon DEF RouteOrders
  <2> HIDE DEF n
  <2>3. /\ o \in Seq(Backends) /\ Len(o) = n
        /\ OneEach(o)
        /\ \A p \in 1..Len(o) : o[p] \in healthy /\ o[p] \in Backends
    <3>1. q.serving \cap healthy \subseteq Backends
      BY DEF Inv
    <3>2. o \in Seq(q.serving \cap healthy) /\ Len(o) = n /\ DOMAIN o = 1..n
      BY <2>1, <2>2
    <3>3. o \in Seq(Backends)
      BY <2>1, <2>2, <3>1
    <3> QED
      BY <2>2, <3>1, <3>2, <3>3 DEF OneEach
  <2>4. /\ k \in Locals
        /\ k.order = o /\ k.attempts = 0 /\ k.final_code = 0
    BY <2>3, Zenon DEF Locals
  <2>5. StreamsOnly(k)
    <3>1. k.header_started = q.header_started
      BY DEF Locals
    <3> QED
      BY <3>1, Zenon DEF StreamsOnly
  <2> HIDE DEF k
  <2>6. /\ breaker' \in [Backends -> Breakers]
        /\ WalkResult(r, k, 1, breaker, active)
    BY <1>2, <1>4, <2>4, WalkEffect DEF k
  <2>7. ASSUME NEW p \in 1..Len(k.order), NEW probe \in BOOLEAN,
               k.attempts < max_attempts,
               active[k.order[p]] < max_in_flight,
               active' = [active EXCEPT ![k.order[p]] = @ + 1],
               HalfOpensOnly(breaker, IF probe THEN {k.order[p]} ELSE {}),
               req' = [req EXCEPT ![r] = Dispatched(k, p, probe)]
        PROVE  \E x : Effect(r, x)
    <3> DEFINE d == Dispatched(k, p, probe)
               b == k.order[p]
    <3>1. b \in healthy /\ b \in Backends
      BY <2>3, <2>4
    <3>2. /\ d \in Locals /\ Coherent(d)
          /\ d.pc = "upstream" /\ d.slot = {b} /\ d.attempts = 1
          /\ d.is_probe = probe
      <4>1. p \in 1..Len(k.order) /\ k.attempts + 1 = 1 /\ OneEach(k.order)
        BY <2>3, <2>4
      <4> QED
        BY <2>4, <2>5, <2>7, <4>1, DispatchedLocals, ZenonT(30)
    <3>3. active' = [active EXCEPT ![b] = @ + 1] /\ active[b] < max_in_flight
      BY <2>7
    <3>4. /\ req' = [req EXCEPT ![r] = d]
          /\ HalfOpensOnly(breaker, IF probe THEN {b} ELSE {})
      BY <2>7
    <3> HIDE DEF d, b
    <3>5. TicketMoves(r, d)
      BY <3>2 DEF TicketMoves, TicketDue
    <3>6. SlotMoves(r, d)
      <4>1. [active EXCEPT ![b] = @ + 1]
              = [c \in Backends |-> IF c = b THEN active[c] + 1 ELSE active[c]]
        BY <1>2, <3>1, Zenon
      <4> QED
        BY <1>1, <3>2, <3>3, <4>1 DEF SlotMoves
    <3>7. Disciplined(req[r], d)
      BY <1>1, <3>1, <3>2 DEF Disciplined
    <3>8. ProbesKept(r, d)
      <4> SUFFICES ASSUME NEW c \in Backends, breaker'[c].state = "HalfOpen",
                          breaker[c].state # "HalfOpen"
                   PROVE  Probing(d, c)
        BY <1>1, Zenon DEF ProbesKept, Probing
      <4>1. c \in IF probe THEN {b} ELSE {}
        BY <3>4 DEF HalfOpensOnly
      <4>2. c = b /\ probe = TRUE
        BY <4>1, Zenon
      <4> QED
        BY <3>2, <4>2 DEF Probing
    <3> QED
      BY <1>2, <2>6, <3>2, <3>4, <3>5, <3>6, <3>7, <3>8, Zenon DEF Effect
  <2> QED
    BY <2>6, <2>7, <1>3, Zenon DEF WalkResult
<1>5. CASE q.serving \cap healthy = {}
  <2>1. breaker' = breaker
    BY <1>5, Zenon DEF Admitted
  <2>2. HalfOpensOnly(breaker, {})
    BY <2>1, Zenon DEF HalfOpensOnly
  <2>3. active' = active /\ req' = [req EXCEPT ![r] = GaveUp]
    BY <1>5, ZenonT(30) DEF Admitted, GaveUp
  <2> QED
    BY <1>2, <1>3, <2>1, <2>2, <2>3
<1> QED
  BY <1>4, <1>5, Zenon DEF Admitted

\* A request that is turned away has neither a ticket nor a slot.
LEMMA RefuseEffect ==
    ASSUME Inv, NEW r \in Requests, NEW code \in Refusals,
           req[r].pc \in {"idle", "queued"},
           \A c \in Requests \ {r} : /\ c \in tickets' <=> c \in tickets
                                     /\ c \in suspended' <=> c \in suspended,
           r \notin tickets', r \notin suspended', [Gate!Next]_gateVars,
           req' = [req EXCEPT ![r] = Writing({}, code, "none")],
           UNCHANGED <<breaker, active, healthy>>
    PROVE  \E n : Effect(r, n)
<1> DEFINE w == Writing({}, code, "none")
<1>0. req[r] \in Locals /\ Coherent(req[r])
  BY LocalsOf
<1>1. /\ req[r] \in Locals
      /\ req[r].slot = {} /\ req[r].attempts = 0 /\ req[r].pc # "upstream"
  BY <1>0 DEF Coherent
<1>2. /\ w \in Locals /\ Coherent(w)
      /\ w.pc = "writing" /\ w.slot = {} /\ w.final_code = code
      /\ w.attempts = 0
  <2>1. {} \in SUBSET Backends /\ code \in Codes \ {0} /\ "none" \in Outcomes
    BY DEF Codes, Outcomes, Refusals
  <2> QED
    BY <2>1, WritingLocals, SMTT(20)
<1>3. req' = [req EXCEPT ![r] = w]
  OBVIOUS
<1> HIDE DEF w
<1>4. TicketMoves(r, w)
  BY <1>2 DEF TicketMoves, TicketDue, Refusals
<1>5. SlotMoves(r, w)
  <2>1. active \in [Backends -> Nat] /\ active' = active
    BY DEF Inv, SlotsInv
  <2> QED
    BY <1>1, <1>2, <2>1, SlotsKept, Zenon
<1>6. Disciplined(req[r], w)
  BY <1>1, <1>2 DEF Disciplined
<1>7. ProbesKept(r, w)
  BY <1>1 DEF ProbesKept, Probing
<1> QED
  <2>1. breaker' \in [Backends -> Breakers] /\ healthy' = healthy
    BY DEF Inv
  <2> QED
    BY <1>2, <1>3, <1>4, <1>5, <1>6, <1>7, <2>1, Zenon DEF Effect

\* The locals of a request that has just arrived.
LEMMA ArrivalLocals ==
    ASSUME NEW q \in Arrivals
    PROVE  /\ q \in Locals
           /\ q.attempts = 0 /\ q.slot = {} /\ q.pos = 0 /\ q.order = <<>>
           /\ q.header_started = FALSE /\ q.final_code = 0
<1>1. PICK k \in Kinds, m \in Models : q = Arrival(k, m)
  BY DEF Arrivals
<1>2. k \in BOOLEAN /\ m \in SUBSET Backends
  BY GatewayAssumption
<1>3. Idle \in Locals
  BY IdleLocals
<1>4. q \in Locals
  BY <1>1, <1>2, <1>3, Zenon DEF Locals, Arrival
<1>5. /\ q.attempts = Idle.attempts /\ q.slot = Idle.slot /\ q.pos = Idle.pos
      /\ q.order = Idle.order /\ q.header_started = Idle.header_started
      /\ q.final_code = Idle.final_code
  BY <1>1, <1>3 DEF Locals, Arrival
<1> QED
  BY <1>4, <1>5, Zenon DEF Idle

\* The status of a request that was turned away.
LEMMA RefusalStatus ==
    ASSUME NEW r, RejectEarly(r) \/ TurnAway(r)
    PROVE  \E code \in Refusals : req' = [req EXCEPT ![r] = Writing({}, code, "none")]
<1>1. CASE RejectEarly(r)
  <2>1. PICK code \in {400, 404} : req' = [req EXCEPT ![r] = Writing({}, code, "none")]
    BY <1>1, ZenonT(30) DEF RejectEarly
  <2>2. code \in Refusals
    BY DEF Refusals
  <2> QED
    BY <2>1, <2>2, ZenonT(30)
<1>2. CASE TurnAway(r)
  <2> DEFINE code == 429
  <2>1. req' = [req EXCEPT ![r] = Writing({}, code, "none")] /\ code \in Refusals
    BY <1>2 DEF TurnAway, Refusals
  <2> HIDE DEF code
  <2> QED
    BY <2>1, Zenon
<1> QED
  BY <1>1, <1>2

\* Arrival and the queue.
LEMMA ArrivalEffect ==
    ASSUME Inv, Counts, woken \subseteq suspended, NEW r \in Requests,
           \/ RejectEarly(r) \/ ArriveAdmitted(r) \/ ArriveQueueFull(r)
           \/ ArriveWait(r) \/ TimerExpires(r) \/ LeaveQueue(r)
    PROVE  \E q : Effect(r, q)
<1>0. /\ req[r] \in Locals /\ Coherent(req[r])
      /\ r \in tickets <=> TicketDue(req[r])
      /\ r \in suspended <=> req[r].pc = "queued"
  BY LocalsOf
<1>1. CASE RejectEarly(r)
  <2>1. r \notin tickets /\ r \notin suspended /\ req[r].pc = "idle"
    BY <1>0, <1>1 DEF RejectEarly, TicketDue
  <2>2. PICK code \in Refusals : req' = [req EXCEPT ![r] = Writing({}, code, "none")]
    BY <1>1, RefusalStatus, Zenon
  <2>3. UNCHANGED gateVars /\ UNCHANGED <<breaker, active, healthy>>
    BY <1>1 DEF RejectEarly
  <2>4. [Gate!Next]_gateVars
    BY <2>3
  <2>5. tickets' = tickets /\ suspended' = suspended
    BY <2>3 DEF gateVars
  <2>6. /\ req[r].pc \in {"idle", "queued"}
        /\ r \notin tickets' /\ r \notin suspended'
    BY <2>1, <2>5
  <2> QED
    BY <2>2, <2>3, <2>4, <2>5, <2>6, RefuseEffect, Zenon
<1>2. CASE ArriveQueueFull(r)
  <2>1. r \notin tickets /\ r \notin suspended /\ req[r].pc = "idle"
    BY <1>0, <1>2 DEF ArriveQueueFull, TicketDue
  <2>2. tickets' = tickets /\ suspended' = suspended /\ Gate!Next
    BY <1>2, Zenon DEF ArriveQueueFull, Gate!AcquireQueueFull, Gate!vars, Gate!Next
  <2> QED
    <3>1. PICK code \in Refusals : req' = [req EXCEPT ![r] = Writing({}, code, "none")]
      <4>1. TurnAway(r)
        BY <1>2 DEF ArriveQueueFull
      <4> QED
        BY <4>1, RefusalStatus, Zenon
    <3>2. req[r].pc \in {"idle", "queued"} /\ UNCHANGED <<breaker, active, healthy>>
      BY <1>2, <2>1, <2>2 DEF ArriveQueueFull, TurnAway
    <3>3. \A c \in Requests \ {r} : /\ c \in tickets' <=> c \in tickets
                                    /\ c \in suspended' <=> c \in suspended
      BY <2>1, <2>2, Zenon
    <3>4. r \notin tickets' /\ r \notin suspended'
      BY <2>1, <2>2, Zenon
    <3>5. [Gate!Next]_gateVars
      BY <2>1, <2>2, Zenon
    <3> QED
      BY <3>1, <3>2, <3>3, <3>4, <3>5, RefuseEffect, Zenon
<1>3. CASE LeaveQueueTimeout(r)
  <2>1. /\ r \in suspended /\ suspended' = suspended \ {r} /\ tickets' = tickets
        /\ Gate!Next
    BY <1>3 DEF LeaveQueueTimeout, Gate!ResumeTimeout, Gate!Next
  <2>2. req[r].pc = "queued" /\ r \notin tickets
    BY <1>0, <2>1 DEF TicketDue
  <2> QED
    <3>1. PICK code \in Refusals : req' = [req EXCEPT ![r] = Writing({}, code, "none")]
      <4>1. TurnAway(r)
        BY <1>3 DEF LeaveQueueTimeout
      <4> QED
        BY <4>1, RefusalStatus, Zenon
    <3>2. req[r].pc \in {"idle", "queued"} /\ UNCHANGED <<breaker, active, healthy>>
      BY <1>3, <2>1, <2>2 DEF LeaveQueueTimeout, TurnAway
    <3>3. \A c \in Requests \ {r} : /\ c \in tickets' <=> c \in tickets
                                    /\ c \in suspended' <=> c \in suspended
      BY <2>1, <2>2, Zenon
    <3>4. r \notin tickets' /\ r \notin suspended'
      BY <2>1, <2>2, Zenon
    <3>5. [Gate!Next]_gateVars
      BY <2>1, <2>2, Zenon
    <3> QED
      BY <3>1, <3>2, <3>3, <3>4, <3>5, RefuseEffect, Zenon
<1>4. CASE ArriveAdmitted(r)
  <2>1. PICK q \in Arrivals : Admitted(r, q)
    BY <1>4 DEF ArriveAdmitted
  <2>2. req[r].pc = "idle" /\ r \notin suspended
    BY <1>0, <1>4 DEF ArriveAdmitted
  <2>3. suspended' = suspended /\ tickets' = tickets \cup {r} /\ Gate!Next
    BY <1>4 DEF ArriveAdmitted, Gate!AcquireNow, Gate!Next
  <2>4. q \in Locals /\ q.attempts = 0 /\ q.header_started = FALSE /\ q.final_code = 0
    BY ArrivalLocals, Zenon
  <2> QED
    BY <2>1, <2>2, <2>3, <2>4, AdmittedEffect, Zenon
<1>5. CASE LeaveQueueAdmitted(r)
  <2>1. /\ r \in suspended /\ suspended' = suspended \ {r} /\ tickets' = tickets \cup {r}
        /\ Gate!Next
    BY <1>5 DEF LeaveQueueAdmitted, Gate!ResumeGranted, Gate!Next
  <2>2. req[r].pc = "queued"
    BY <1>0, <2>1
  <2>3. req[r].attempts = 0 /\ req[r].header_started = FALSE /\ req[r].final_code = 0
    BY <1>0, <2>2 DEF Coherent
  <2>4. Admitted(r, req[r])
    BY <1>5 DEF LeaveQueueAdmitted
  <2> QED
    BY <1>0, <2>1, <2>2, <2>3, <2>4, AdmittedEffect, Zenon
<1>6. CASE ArriveWait(r)
  <2>1. PICK q \in Arrivals : req' = [req EXCEPT ![r] = [q EXCEPT !.pc = "queued"]]
    BY <1>6, Zenon DEF ArriveWait
  <2>2. /\ req[r].pc = "idle" /\ req[r].slot = {} /\ req[r].attempts = 0
        /\ r \notin tickets
    BY <1>0, <1>6 DEF ArriveWait, Coherent, TicketDue
  <2>3. suspended' = suspended \cup {r} /\ tickets' = tickets /\ Gate!Next
    BY <1>6 DEF ArriveWait, Gate!AcquireWait, Gate!Next
  <2> DEFINE n == [q EXCEPT !.pc = "queued"]
  <2>4. /\ q \in Locals
        /\ q.attempts = 0 /\ q.slot = {} /\ q.pos = 0 /\ q.order = <<>>
        /\ q.header_started = FALSE /\ q.final_code = 0
    BY ArrivalLocals, Zenon
  <2>5. n \in Locals
    BY <2>4 DEF Locals, Pcs
  <2>6. /\ n.pc = "queued" /\ n.attempts = 0 /\ n.slot = {}
        /\ n.pos = 0 /\ n.order = <<>> /\ n.final_code = 0
    BY <2>4 DEF Locals
  <2>7. n.header_started = FALSE
    BY <2>4 DEF Locals
  <2>8. req' = [req EXCEPT ![r] = n]
    BY <2>1
  <2> HIDE DEF n
  <2>9. Coherent(n)
    BY <2>6, <2>7 DEF Coherent, OneEach, StreamsOnly
  <2>10. TicketMoves(r, n)
    BY <2>2, <2>3, <2>6 DEF TicketMoves, TicketDue
  <2>11. SlotMoves(r, n)
    <3>1. active \in [Backends -> Nat] /\ active' = active
      BY <1>6 DEF ArriveWait, Inv, SlotsInv
    <3> QED
      BY <2>2, <2>6, <3>1, SlotsKept, Zenon
  <2>12. Disciplined(req[r], n)
    BY <2>2, <2>6 DEF Disciplined
  <2>13. /\ breaker' = breaker /\ breaker \in [Backends -> Breakers]
         /\ healthy' = healthy
    BY <1>6 DEF ArriveWait, Inv
  <2>14. ProbesKept(r, n)
    BY <2>2, <2>13 DEF ProbesKept, Probing
  <2> QED
    BY <2>5, <2>8, <2>9, <2>10, <2>11, <2>12, <2>13, <2>14, Zenon DEF Effect
<1>7. CASE TimerExpires(r)
  <2>1. suspended' = suspended /\ tickets' = tickets /\ Gate!Next
    BY <1>7 DEF TimerExpires, Gate!TimerExpires, Gate!Next
  <2>2. /\ breaker' = breaker /\ breaker \in [Backends -> Breakers]
        /\ healthy' = healthy /\ req' = req /\ active' = active
        /\ req \in [Requests -> Locals] /\ active \in [Backends -> Nat]
    BY <1>7 DEF TimerExpires, Inv, LocalsInv, SlotsInv
  <2>3. req' = [req EXCEPT ![r] = req[r]]
    BY <2>2
  <2>4. TicketMoves(r, req[r])
    BY <1>0, <2>1 DEF TicketMoves
  <2>5. SlotMoves(r, req[r])
    BY <2>2, SlotsKept
  <2>6. Disciplined(req[r], req[r])
    BY <1>0 DEF Disciplined, Locals
  <2>7. ProbesKept(r, req[r])
    BY <2>2 DEF ProbesKept
  <2> QED
    BY <1>0, <2>2, <2>3, <2>4, <2>5, <2>6, <2>7 DEF Effect
<1> QED
  BY <1>1, <1>2, <1>3, <1>4, <1>5, <1>6, <1>7 DEF LeaveQueue

\* The upstream call and the response.
LEMMA ServeEffect ==
    ASSUME Inv, Counts, NEW r \in Requests,
           FirstFrame(r) \/ CallEnds(r) \/ WriteEnds(r)
    PROVE  \E q : Effect(r, q)
<1>0. /\ req[r] \in Locals /\ Coherent(req[r])
      /\ r \in tickets <=> TicketDue(req[r])
      /\ r \in suspended <=> req[r].pc = "queued"
  BY LocalsOf
<1>1. /\ breaker \in [Backends -> Breakers]
      /\ req \in [Requests -> Locals]
      /\ active \in [Backends -> Nat]
  BY DEF Inv, LocalsInv, SlotsInv
<1>2. ASSUME req[r].pc = "upstream"
      PROVE  /\ Succeeded(r) \in [Backends -> Breakers]
             /\ Failed(r) \in [Backends -> Breakers]
  <2>1. Serving(r) \in Backends
    <3>1. req[r].slot = {Serving(r)} /\ req[r].slot \subseteq Backends
      BY <1>0, <1>2 DEF Coherent, Serving, Locals
    <3> QED
      BY <3>1
  <2>2. /\ OnSuccess(breaker[Serving(r)], req[r].is_probe) \in Breakers
        /\ OnFailure(breaker[Serving(r)], req[r].is_probe) \in Breakers
    BY <1>1, <2>1, BreakerOps, Zenon
  <2> QED
    BY <1>1, <2>1, <2>2 DEF Succeeded, Failed
<1>3. ASSUME req[r].pc = "upstream", ~MayRetry(r), req[r].attempts = 1
      PROVE  req[r].pos = Len(req[r].order)
  <2>1. /\ req[r].pos <= Len(req[r].order)
        /\ req[r].pos \in Nat /\ Len(req[r].order) \in Nat
    BY <1>0 DEF Coherent, Locals
  <2>2. ~(req[r].pos < Len(req[r].order))
    BY <1>3 DEF MayRetry, max_attempts
  <2> QED
    BY <2>1, <2>2
<1>4. /\ {200, 400, 500, 502, 504} \subseteq Codes \ {0}
      /\ {"none", "ok", "cut", "failed"} \subseteq Outcomes
  BY DEF Codes, Outcomes
<1>13. req[r].attempts \in Nat
  BY <1>0 DEF Locals, max_attempts
<1>12. ASSUME NEW code \in Codes \ {0}, NEW x \in Outcomes,
              NEW brk \in {Failed(r), Succeeded(r)},
              req[r].pc = "upstream",
              ~MayRetry(r) \/ code \notin BackendFailures,
              Respond(r, code, x, brk)
       PROVE  \E q : Effect(r, q)
  <2>1. brk \in [Backends -> Breakers]
    BY <1>2, <1>12, Zenon
  <2>2. req[r].attempts = 1 /\ code \in BackendFailures
            => req[r].pos = Len(req[r].order)
    BY <1>3, <1>12, Zenon
  <2> QED
    BY <1>12, <2>1, <2>2, RespondEffect, Zenon
<1>5. CASE UnaryRefused(r) \/ UnaryServerError(r) \/ UnaryAnswered(r)
  <2>1. req[r].pc = "upstream" /\ req[r].stream = FALSE
    BY <1>5 DEF UnaryRefused, UnaryServerError, UnaryAnswered, InCall
  <2>2. req[r].header_started = FALSE
    BY <1>0, <2>1 DEF Coherent, StreamsOnly
  <2>3. CASE ContinueWalk(r)
    BY <2>1, <2>2, <2>3, ContinueEffect, Zenon
  <2>4. CASE ~MayRetry(r) /\ Respond(r, 500, "failed", Failed(r))
    <3>1. PICK code \in Codes \ {0} : Respond(r, code, "failed", Failed(r))
      BY <1>4, <2>4
    <3>2. ~MayRetry(r) /\ "failed" \in Outcomes
      BY <1>4, <2>4
    <3> QED
      BY <1>12, <2>1, <3>1, <3>2, Zenon
  <2>5. CASE Respond(r, 400, "failed", Succeeded(r))
    <3>1. PICK code \in Codes \ {0} : /\ code \notin BackendFailures
                                     /\ Respond(r, code, "failed", Succeeded(r))
      BY <1>4, <2>5 DEF BackendFailures
    <3>2. "failed" \in Outcomes
      BY <1>4
    <3> QED
      BY <1>12, <2>1, <3>1, <3>2, Zenon
  <2>6. ASSUME NEW x \in {"ok", "cut"}, Respond(r, 200, x, Succeeded(r))
        PROVE  \E q : Effect(r, q)
    <3>1. PICK code \in Codes \ {0} : /\ code \notin BackendFailures
                                     /\ Respond(r, code, x, Succeeded(r))
      BY <1>4, <2>6 DEF BackendFailures
    <3>2. x \in Outcomes
      BY <1>4
    <3> QED
      BY <1>12, <2>1, <3>1, <3>2, Zenon
  <2> QED
    BY <1>5, <2>3, <2>4, <2>5, <2>6, Zenon
       DEF UnaryRefused, UnaryServerError, UnaryAnswered
<1>6. CASE StreamFailedEmpty(r)
  <2>1. req[r].pc = "upstream"
    BY <1>6 DEF StreamFailedEmpty, InCall
  <2>2. req[r].header_started = FALSE
    BY <1>0, <1>6, Zenon DEF StreamFailedEmpty, Locals
  <2>3. CASE ContinueWalk(r)
    BY <2>1, <2>2, <2>3, ContinueEffect, Zenon
  <2>4. ASSUME NEW x \in Failures, ~MayRetry(r),
               Respond(r, ZeroByteStatus(x), "none", Failed(r))
        PROVE  \E q : Effect(r, q)
    <3>1. ZeroByteStatus(x) \in Codes \ {0}
      BY <1>4 DEF ZeroByteStatus
    <3>2. "none" \in Outcomes
      BY <1>4
    <3> QED
      BY <1>12, <2>1, <2>4, <3>1, <3>2, Zenon
  <2> QED
    BY <1>6, <2>3, <2>4 DEF StreamFailedEmpty
<1>7. CASE StreamFailedMid(r) \/ StreamDone(r)
  <2>1. req[r].pc = "upstream"
    BY <1>7 DEF StreamFailedMid, StreamDone, InCall
  <2>4. ASSUME NEW brk \in {Failed(r), Succeeded(r)}, Respond(r, 200, "none", brk)
        PROVE  \E q : Effect(r, q)
    <3>1. PICK code \in Codes \ {0} : /\ code \notin BackendFailures
                                     /\ Respond(r, code, "none", brk)
      BY <1>4, <2>4 DEF BackendFailures
    <3>2. "none" \in Outcomes
      BY <1>4
    <3> QED
      BY <1>12, <2>1, <3>1, <3>2, Zenon
  <2>2. CASE Respond(r, 200, "none", Failed(r))
    BY <2>2, <2>4
  <2>3. CASE Respond(r, 200, "none", Succeeded(r))
    BY <2>3, <2>4
  <2> QED
    BY <1>7, <2>2, <2>3, Zenon DEF StreamFailedMid, StreamDone
<1>8. CASE ClientGone(r) \/ Finish(r) \/ BeginThrows(r)
  <2>1. Leave(r)
    BY <1>8, Zenon DEF ClientGone, Finish, BeginThrows
  <2>2. CASE ClientGone(r)
    <3>1. req[r].pc = "upstream" /\ req[r].header_started
      BY <2>2, Zenon DEF ClientGone, InCall
    <3>2. req[r].header_started = TRUE
      BY <1>0, <3>1, Zenon DEF Locals
    <3> QED
      BY <2>1, <3>1, <3>2, LeaveEffect, Zenon DEF Exits
  <2>3. CASE Finish(r) \/ BeginThrows(r)
    BY <2>1, <2>3, LeaveEffect, Zenon DEF Finish, BeginThrows, Exits
  <2> QED
    BY <1>8, <2>2, <2>3
<1>9. CASE FirstFrame(r)
  <2> DEFINE q == [req[r] EXCEPT !.header_started = TRUE]
  <2>1. req[r].pc = "upstream" /\ req[r].stream = TRUE
    BY <1>9 DEF FirstFrame, InCall
  <2>2. q \in Locals
    BY <1>0, Zenon DEF Locals
  <2>3. /\ q.pc = req[r].pc /\ q.slot = req[r].slot /\ q.pos = req[r].pos
        /\ q.order = req[r].order /\ q.attempts = req[r].attempts
        /\ q.final_code = req[r].final_code
    BY <1>0 DEF Locals
  <2>4. q.stream = TRUE /\ q.is_probe = req[r].is_probe
    BY <1>0, <2>1 DEF Locals
  <2>5. /\ req' = [req EXCEPT ![r] = q]
        /\ UNCHANGED gateVars
        /\ breaker' = breaker /\ active' = active /\ healthy' = healthy
    BY <1>1, <1>9 DEF FirstFrame
  <2> HIDE DEF q
  <2>6. Coherent(q)
    <3>1. StreamsOnly(q)
      BY <2>4 DEF StreamsOnly
    <3>2. OneEach(q.order) /\ q.pc = "upstream" /\ q.pos <= Len(q.order)
      BY <1>0, <2>1, <2>3, Zenon DEF Coherent
    <3>3. q.pos > 0 /\ q.attempts > 0 /\ q.slot = {q.order[q.pos]} /\ q.final_code = 0
      BY <1>0, <2>1, <2>3, Zenon DEF Coherent
    <3> QED
      BY <3>1, <3>2, <3>3, Zenon DEF Coherent
  <2>7. TicketMoves(r, q)
    <3>1. TicketDue(q) <=> TicketDue(req[r])
      BY <2>3 DEF TicketDue
    <3> QED
      BY <1>0, <2>3, <2>5, <3>1, TicketsKept, Zenon
  <2>8. SlotMoves(r, q)
    BY <1>1, <2>3, <2>5, SlotsKept
  <2>9. Disciplined(req[r], q)
    BY <1>13, <2>1, <2>3, QuietIsDisciplined, Zenon
  <2>10. ProbesKept(r, q)
    BY <2>3, <2>4, <2>5, Zenon DEF ProbesKept, Probing
  <2> QED
    BY <1>1, <2>2, <2>5, <2>6, <2>7, <2>8, <2>9, <2>10, Zenon DEF Effect
<1>10. CASE StreamNothing(r)
  <2> DEFINE q == [Idle EXCEPT !.pc = "beginning", !.slot = req[r].slot]
  <2>1. req[r].pc = "upstream" /\ req[r].slot # {} /\ req[r].slot \subseteq Backends
    BY <1>0, <1>10, Zenon DEF StreamNothing, InCall, Coherent, Locals
  <2>2. Idle \in Locals
    BY IdleLocals
  <2>3. q \in Locals
    BY <2>1, <2>2, Zenon DEF Locals, Pcs
  <2>4. /\ q.pc = "beginning" /\ q.slot = req[r].slot
        /\ q.attempts = Idle.attempts /\ q.pos = Idle.pos /\ q.order = Idle.order
        /\ q.header_started = Idle.header_started
        /\ q.final_code = Idle.final_code
    BY <2>2 DEF Locals
  <2>5. /\ Idle.attempts = 0 /\ Idle.pos = 0 /\ Idle.order = <<>>
        /\ Idle.header_started = FALSE /\ Idle.final_code = 0
    BY DEF Idle
  <2>6. q.header_started = FALSE
    BY <2>4, <2>5, Zenon
  <2>7. /\ req' = [req EXCEPT ![r] = q]
        /\ UNCHANGED gateVars
        /\ breaker' = Succeeded(r) /\ active' = active /\ healthy' = healthy
    BY <1>10 DEF StreamNothing
  <2> HIDE DEF q
  <2>8. Coherent(q)
    BY <2>1, <2>4, <2>5, <2>6 DEF Coherent, OneEach, StreamsOnly
  <2>9. TicketMoves(r, q)
    <3>1. TicketDue(req[r]) /\ TicketDue(q)
      BY <2>1, <2>4 DEF TicketDue
    <3>2. req[r].pc # "queued" /\ q.pc # "queued"
      BY <2>1, <2>4
    <3> QED
      BY <1>0, <2>7, <3>1, <3>2, TicketsKept, Zenon
  <2>10. SlotMoves(r, q)
    BY <1>1, <2>4, <2>7, SlotsKept, Zenon
  <2>11. Disciplined(req[r], q)
    BY <1>13, <2>4, <2>5, QuietIsDisciplined, Zenon
  <2>12. ProbesKept(r, q)
    BY <2>1, <2>7, ReportedProbes DEF ProbesKept
  <2> QED
    BY <1>2, <2>1, <2>3, <2>7, <2>8, <2>9, <2>10, <2>11, <2>12, Zenon DEF Effect
<1>11. CASE BeginAgain(r)
  <2> DEFINE q == Writing(req[r].slot, 200, "none")
  <2>1. /\ req[r].pc = "beginning" /\ req[r].slot # {}
        /\ req[r].slot \in SUBSET Backends
    BY <1>0, <1>11 DEF BeginAgain, Coherent, Locals
  <2>2. /\ q \in Locals /\ Coherent(q)
        /\ q.pc = "writing" /\ q.slot = req[r].slot /\ q.attempts = 0
    <3>1. 200 \in Codes \ {0} /\ "none" \in Outcomes
      BY <1>4
    <3> QED
      BY <2>1, <3>1, WritingLocals
  <2>3. /\ req' = [req EXCEPT ![r] = q]
        /\ UNCHANGED gateVars
        /\ breaker' = breaker /\ active' = active /\ healthy' = healthy
    BY <1>11 DEF BeginAgain
  <2> HIDE DEF q
  <2>4. TicketMoves(r, q)
    <3>1. TicketDue(req[r]) /\ TicketDue(q)
      BY <2>1, <2>2 DEF TicketDue
    <3>2. req[r].pc # "queued" /\ q.pc # "queued"
      BY <2>1, <2>2
    <3> QED
      BY <1>0, <2>3, <3>1, <3>2, TicketsKept, Zenon
  <2>5. SlotMoves(r, q)
    BY <1>1, <2>2, <2>3, SlotsKept, Zenon
  <2>6. Disciplined(req[r], q)
    BY <1>13, <2>1, <2>2, QuietIsDisciplined, Zenon
  <2>7. ProbesKept(r, q)
    BY <2>1, <2>3 DEF ProbesKept, Probing
  <2> QED
    BY <1>1, <2>2, <2>3, <2>4, <2>5, <2>6, <2>7, Zenon DEF Effect
<1> QED
  BY <1>5, <1>6, <1>7, <1>8, <1>9, <1>10, <1>11 DEF CallEnds, WriteEnds
\* A step of the surroundings: no request moves, and no breaker changes state.
Around ==
    /\ UNCHANGED <<gateVars, active, req>>
    /\ breaker' \in [Backends -> Breakers]
    /\ \A b \in Backends : breaker'[b].state = breaker[b].state
    /\ healthy' \subseteq Backends

\* Every step has the Effect of a step of one request, or is one of the
\* surroundings.
LEMMA StepKinds ==
    ASSUME Inv, Counts, woken \subseteq suspended, [Next]_vars
    PROVE  \/ \E r \in Requests : \E q : Effect(r, q)
           \/ Around
<1>1. ASSUME NEW b \in Backends, HealthChanges(b) \/ WindowElapses(b)
      PROVE  Around
  <2>1. CASE HealthChanges(b)
    BY <2>1 DEF HealthChanges, Inv, Around
  <2>2. CASE WindowElapses(b)
    <3>1. breaker \in [Backends -> Breakers] /\ WindowPassed(breaker[b]) \in Breakers
      BY BreakerOps, Zenon DEF Inv
    <3>2. WindowPassed(breaker[b]).state = breaker[b].state
      BY <3>1 DEF WindowPassed, Breakers
    <3> QED
      BY <2>2, <3>1, <3>2 DEF WindowElapses, Inv, Around
  <2> QED
    BY <1>1, <2>1, <2>2
<1>2. CASE UNCHANGED vars
  BY <1>2 DEF vars, gateVars, Inv, Around
<1>3. ASSUME NEW r \in Requests,
             \/ RejectEarly(r) \/ ArriveAdmitted(r) \/ ArriveQueueFull(r)
             \/ ArriveWait(r) \/ TimerExpires(r) \/ LeaveQueue(r)
             \/ FirstFrame(r) \/ CallEnds(r) \/ WriteEnds(r)
      PROVE  \E q : Effect(r, q)
  BY <1>3, ArrivalEffect, ServeEffect
<1> QED
  BY <1>1, <1>2, <1>3 DEF Next
=============================================================================
