------------------------------- MODULE Gateway -------------------------------
(***************************************************************************)
(* server::Gateway::handle_chat (src/src/server/gateway.cpp): how a chat   *)
(* request passes the global gate, walks the candidate backends through    *)
(* their circuit breakers and in-flight limiters, fails over at most once, *)
(* and gives everything back.  It composes GlobalGate (instantiated on the *)
(* same variables) with one Breaker and one PerBackendLimiter per backend. *)
(*                                                                         *)
(* handle_chat runs on one thread: each action below is everything the     *)
(* coroutine does from one suspension to the next, which may be admission, *)
(* eligibility, the ordering and several candidates of the walk at once.   *)
(* It suspends in four places, the values of pc:                           *)
(*   "queued"     in gate_->acquire();                                     *)
(*   "upstream"   in post_chat() or stream_chat();                         *)
(*   "beginning"  in the writer.begin() after an empty stream;             *)
(*   "writing"    in write_json() or in the last writes of a stream.       *)
(* "idle" is a connection between two requests.                            *)
(*                                                                         *)
(* Bodies, headers, labels and times are left out; what the registry is    *)
(* told is in module GatewayMetrics.  The routing policy is taken by its   *)
(* interface: it returns the candidates in some order.                     *)
(***************************************************************************)
EXTENDS Breaker, Sequences, FiniteSets

CONSTANTS
    Requests,         \* connections, each with at most one request in progress
    Backends,         \* configured backends
    Models,           \* backends_for_model() of each model that is served
    Kinds,            \* values of "stream" that clients send
    max_concurrent,   \* cfg.server.max_concurrent_streams
    queue_depth,      \* cfg.server.queue_depth
    max_in_flight,    \* BackendConfig::max_in_flight
    Polite            \* the requests whose backends and clients keep moving

ASSUME GatewayAssumption ==
    /\ IsFiniteSet(Backends)
    /\ Models \subseteq (SUBSET Backends) \ {{}}
    /\ Kinds \subseteq BOOLEAN
    /\ max_concurrent \in Nat \ {0}
    /\ queue_depth \in Nat
    /\ max_in_flight \in Nat \ {0}
    /\ Polite \subseteq Requests

VARIABLES
    in_flight, waiters, granted, woken, suspended, tickets,   \* the GlobalGate
    breaker,   \* per backend: the fields of its CircuitBreaker
    active,    \* per backend: PerBackendLimiter::active_
    healthy,   \* the backends whose observed_health() is Healthy
    req        \* per request: the locals of handle_chat

gateVars == <<in_flight, waiters, granted, woken, suspended, tickets>>

vars == <<in_flight, waiters, granted, woken, suspended, tickets,
          breaker, active, healthy, req>>

Gate == INSTANCE GlobalGate WITH Callers <- Requests

-----------------------------------------------------------------------------
(***************************************************************************)
(* The locals of handle_chat                                               *)
(***************************************************************************)

\* max_attempts: the initial dispatch and one zero-byte retry.
max_attempts == 2

\* The statuses a client may see: 400 and 500 also stand for the 4xx and the
\* 5xx of a backend; 0 is "not set yet".
Codes == {0, 200, 400, 404, 429, 500, 502, 503, 504}

\* The failures of UnaryResult and StreamResult: no connection; the exchange
\* broke off; the budget ran out; a 4xx; a 5xx.
Failures == {"refused", "cut", "timeout", "client_error", "server_error"}

\* final_code = 0 until an exit path sets it; slot is the backend whose
\* BackendSlot is in scope; outcome remembers, for a property, how the call of a
\* non-streaming request ended.
Idle == [pc |-> "idle", stream |-> FALSE, serving |-> {}, order |-> <<>>, pos |-> 0,
         attempts |-> 0, is_probe |-> FALSE, header_started |-> FALSE,
         final_code |-> 0, slot |-> {}, outcome |-> "none"]

Init ==
    /\ Gate!Init
    /\ breaker = [b \in Backends |-> FreshBreaker]
    /\ active = [b \in Backends |-> 0]
    /\ healthy = {}
    /\ req = [r \in Requests |-> Idle]

\* The response is complete and what remains is to write it, with the backend
\* slots in `slot' still held; the other locals are not read any more.
Writing(slot, code, outcome) ==
    [Idle EXCEPT !.pc = "writing", !.final_code = code, !.slot = slot,
                 !.outcome = outcome]

-----------------------------------------------------------------------------
(***************************************************************************)
(* The failover walk                                                       *)
(***************************************************************************)

\* RouteOrder::order: every candidate, once, in the order the policy likes.
RouteOrders(cands) ==
    {o \in [1..Cardinality(cands) -> cands] :
        \A i, j \in DOMAIN o : o[i] = o[j] => i = j}

\* try_acquire() would succeed on b.
HasRoom(act, b) == act[b] < max_in_flight

\* Positions from `from' on at which the walk would dispatch.
Takers(o, from, brk, act) ==
    {p \in from..Len(o) : Allows(brk[o[p]]) /\ HasRoom(act, o[p])}

\* Mutation: the probe decision is not aborted when the limiter is full.
MutPassedOver(b) == AfterAllow(b)

\* One candidate the walk passes over: denied by its breaker, or let through by
\* it and then found at capacity, which aborts the decision.
PassedOver(b) == AbortProbe(AfterAllow(b), IsProbe(b))

\* The breakers brk when the walk has passed over the positions from..last of o.
AfterPassing(o, from, last, brk) ==
    [d \in Backends |->
        IF Allows(brk[d]) /\ \E p \in from..last : o[p] = d THEN PassedOver(brk[d])
        ELSE brk[d]]

\* The walk goes on at position `from' of q.order with breakers brk and
\* limiters act: it passes over candidates until it can dispatch, or gives up
\* with 503 when none is left or both attempts are used.
Walk(r, q, from, brk, act) ==
    LET o      == q.order
        takers == Takers(o, from, brk, act)
        open   == q.attempts < max_attempts
    IN  \/ /\ open
           /\ \E next \in takers :
                /\ \A t \in takers : next <= t
                /\ breaker' = [AfterPassing(o, from, next - 1, brk)
                                 EXCEPT ![o[next]] = AfterAllow(@)]
                /\ active' = [act EXCEPT ![o[next]] = @ + 1]
                /\ req' = [req EXCEPT ![r] =
                     [q EXCEPT !.pc = "upstream", !.pos = next, !.slot = {o[next]},
                               !.attempts = @ + 1, !.is_probe = IsProbe(brk[o[next]])]]
        \/ /\ ~open \/ takers = {}
           /\ breaker' = AfterPassing(o, from, IF open THEN Len(o) ELSE from - 1, brk)
           /\ active' = act
           /\ req' = [req EXCEPT ![r] = Writing({}, 503, "none")]

-----------------------------------------------------------------------------
(***************************************************************************)
(* Arrival and admission                                                   *)
(***************************************************************************)

\* Mutation: every backend that serves the model is a candidate.
MutAdmitted(r, q) ==
    /\ \E o \in RouteOrders(q.serving) :
          Walk(r, [q EXCEPT !.serving = {}, !.order = o], 1, breaker, active)
    /\ UNCHANGED healthy

\* Admitted: keep the HEALTHY candidates, order them and start the walk; with
\* no candidate the answer is 503.
Admitted(r, q) ==
    /\ LET candidates == q.serving \cap healthy
       IN  \/ /\ candidates = {}
              /\ req' = [req EXCEPT ![r] = Writing({}, 503, "none")]
              /\ UNCHANGED <<breaker, active>>
           \/ /\ candidates # {}
              /\ \E o \in RouteOrders(candidates) :
                    Walk(r, [q EXCEPT !.serving = {}, !.order = o], 1, breaker, active)
    /\ UNCHANGED healthy

\* Turned away by the gate: 429.
TurnAway(r) ==
    /\ req' = [req EXCEPT ![r] = Writing({}, 429, "none")]
    /\ UNCHANGED <<breaker, active, healthy>>

\* A body that does not parse, or a model no backend serves.
RejectEarly(r) ==
    /\ req[r].pc = "idle"
    /\ \E code \in {400, 404} : req' = [req EXCEPT ![r] = Writing({}, code, "none")]
    /\ UNCHANGED <<gateVars, breaker, active, healthy>>

\* A request that was parsed, and the backends that serve it.
Arrival(stream, serving) == [Idle EXCEPT !.stream = stream, !.serving = serving]

Arrivals == {Arrival(k, m) : k \in Kinds, m \in Models}

ArriveAdmitted(r) ==
    /\ req[r].pc = "idle"
    /\ Gate!AcquireNow(r)
    /\ \E q \in Arrivals : Admitted(r, q)

ArriveQueueFull(r) ==
    /\ req[r].pc = "idle"
    /\ Gate!AcquireQueueFull(r)
    /\ TurnAway(r)

ArriveWait(r) ==
    /\ req[r].pc = "idle"
    /\ Gate!AcquireWait(r)
    /\ \E q \in Arrivals : req' = [req EXCEPT ![r] = [q EXCEPT !.pc = "queued"]]
    /\ UNCHANGED <<breaker, active, healthy>>

TimerExpires(r) ==
    /\ Gate!TimerExpires(r)
    /\ UNCHANGED <<breaker, active, healthy, req>>

LeaveQueueAdmitted(r) ==
    /\ Gate!ResumeGranted(r)
    /\ Admitted(r, req[r])

LeaveQueueTimeout(r) ==
    /\ Gate!ResumeTimeout(r)
    /\ TurnAway(r)

-----------------------------------------------------------------------------
(***************************************************************************)
(* The upstream call returns                                               *)
(***************************************************************************)

InCall(r, stream) == req[r].pc = "upstream" /\ req[r].stream = stream

\* The backend r is being served from.
Serving(r) == req[r].order[req[r].pos]

Succeeded(r) == [breaker EXCEPT ![Serving(r)] = OnSuccess(@, req[r].is_probe)]

Failed(r) == [breaker EXCEPT ![Serving(r)] = OnFailure(@, req[r].is_probe)]

\* Mutation: the failover forgets the slot of the backend that failed.
MutContinueWalk(r) ==
    /\ Walk(r, req[r], req[r].pos + 1, Failed(r), active)
    /\ UNCHANGED <<gateVars, healthy>>

\* Mutation: the walk starts over with its attempts forgotten.
MutRetryForEver(r) ==
    /\ Walk(r, [req[r] EXCEPT !.attempts = 0], 1, Failed(r),
            [active EXCEPT ![Serving(r)] = @ - 1])
    /\ UNCHANGED <<gateVars, healthy>>

\* `continue': the slot of the failed backend goes out of scope and the walk
\* moves to the next position.
ContinueWalk(r) ==
    /\ Walk(r, req[r], req[r].pos + 1, Failed(r),
            [active EXCEPT ![Serving(r)] = @ - 1])
    /\ UNCHANGED <<gateVars, healthy>>

\* The response with status code starts; the slot stays held while it is written.
Respond(r, code, outcome, brk) ==
    /\ breaker' = brk
    /\ req' = [req EXCEPT ![r] = Writing(req[r].slot, code, outcome)]
    /\ UNCHANGED <<gateVars, active, healthy>>

\* Mutation: a failure is surfaced without looking for another backend.
MutMayRetry(r) == req[r].attempts + 1 < max_attempts /\ req[r].pos < Len(req[r].order)

\* attempts < max_attempts && pos + 1 < order.size()
MayRetry(r) == req[r].attempts < max_attempts /\ req[r].pos < Len(req[r].order)

\* post_chat() could not connect: always on to the next position.
UnaryRefused(r) ==
    /\ InCall(r, FALSE)
    /\ ContinueWalk(r)

\* post_chat() returned a 5xx.
UnaryServerError(r) ==
    /\ InCall(r, FALSE)
    /\ \/ MayRetry(r) /\ ContinueWalk(r)
       \/ ~MayRetry(r) /\ Respond(r, 500, "failed", Failed(r))

\* post_chat() connected and returned something below 500: a complete answer,
\* a 4xx, or status 0 when the exchange broke off ("cut").
UnaryAnswered(r) ==
    /\ InCall(r, FALSE)
    /\ \/ Respond(r, 400, "failed", Succeeded(r))
       \/ \E x \in {"ok", "cut"} : Respond(r, 200, x, Succeeded(r))

\* The status of a stream that failed before its first byte.
ZeroByteStatus(x) ==
    CASE x = "client_error" -> 400
      [] x = "server_error" -> 500
      [] x = "timeout"      -> 504
      [] OTHER              -> 502

\* stream_chat() failed and no byte was sent downstream.
StreamFailedEmpty(r) ==
    /\ InCall(r, TRUE)
    /\ ~req[r].header_started
    /\ \E x \in Failures :
          \/ MayRetry(r) /\ ContinueWalk(r)
          \/ ~MayRetry(r) /\ Respond(r, ZeroByteStatus(x), "none", Failed(r))

\* The sink's writer.begin() completed: bytes have been sent downstream.
FirstFrame(r) ==
    /\ InCall(r, TRUE)
    /\ ~req[r].header_started
    /\ req' = [req EXCEPT ![r].header_started = TRUE]
    /\ UNCHANGED <<gateVars, breaker, active, healthy>>

\* The sink's writer.begin() threw, so stream_chat() stopped with nothing to
\* report: the "produced nothing" branch begins the response again.
StreamNothing(r) ==
    /\ InCall(r, TRUE)
    /\ ~req[r].header_started
    /\ breaker' = Succeeded(r)
    /\ req' = [req EXCEPT ![r] = [Idle EXCEPT !.pc = "beginning", !.slot = req[r].slot]]
    /\ UNCHANGED <<gateVars, active, healthy>>

\* ... and the header goes out this time; [DONE] and the terminator follow.
BeginAgain(r) ==
    /\ req[r].pc = "beginning"
    /\ req' = [req EXCEPT ![r] = Writing(req[r].slot, 200, "none")]
    /\ UNCHANGED <<gateVars, breaker, active, healthy>>

\* Mutation: a stream that breaks off after bytes were sent is retried.
MutStreamFailedMid(r) ==
    /\ InCall(r, TRUE)
    /\ req[r].header_started
    /\ ContinueWalk(r)

\* Mutation: the failure of the stream becomes the status of the response.
MutStreamStatus(r) ==
    /\ InCall(r, TRUE)
    /\ req[r].header_started
    /\ Respond(r, 502, "none", Failed(r))

\* stream_chat() aborted or timed out after bytes: terminal error event.
StreamFailedMid(r) ==
    /\ InCall(r, TRUE)
    /\ req[r].header_started
    /\ Respond(r, 200, "none", Failed(r))

StreamDone(r) ==
    /\ InCall(r, TRUE)
    /\ req[r].header_started
    /\ Respond(r, 200, "none", Succeeded(r))

-----------------------------------------------------------------------------
(***************************************************************************)
(* handle_chat returns or throws                                           *)
(***************************************************************************)

\* Mutation: no Ticket holds the global slot.
MutLeaveKeepsTicket(r) ==
    /\ active' = [b \in Backends |->
                     IF b \in req[r].slot THEN active[b] - 1 ELSE active[b]]
    /\ req' = [req EXCEPT ![r] = Idle]
    /\ UNCHANGED <<gateVars, breaker, healthy>>

\* Scope exit: the BackendSlot, then the Ticket, then the locals.
Leave(r) ==
    /\ active' = [b \in Backends |->
                     IF b \in req[r].slot THEN active[b] - 1 ELSE active[b]]
    /\ IF r \in tickets THEN Gate!Release(r) ELSE UNCHANGED gateVars
    /\ req' = [req EXCEPT ![r] = Idle]
    /\ UNCHANGED <<breaker, healthy>>

\* The last write completed or failed; either way the coroutine ends.
Finish(r) == req[r].pc = "writing" /\ Leave(r)

\* The second writer.begin() throws, with final_code still 0.
BeginThrows(r) == req[r].pc = "beginning" /\ Leave(r)

\* The client left mid-stream: returns at once, nothing told to the breaker.
ClientGone(r) == InCall(r, TRUE) /\ req[r].header_started /\ Leave(r)

-----------------------------------------------------------------------------
(***************************************************************************)
(* The surroundings                                                        *)
(***************************************************************************)

\* The monitor of b publishes a new state.
HealthChanges(b) ==
    /\ \/ b \in healthy /\ healthy' = healthy \ {b}
       \/ b \notin healthy /\ healthy' = healthy \cup {b}
    /\ UNCHANGED <<gateVars, breaker, active, req>>

\* The open window of b's breaker passes.
WindowElapses(b) ==
    /\ breaker[b].state = "Open"
    /\ ~breaker[b].elapsed
    /\ breaker' = [breaker EXCEPT ![b] = WindowPassed(@)]
    /\ UNCHANGED <<gateVars, active, healthy, req>>

CallEnds(r) ==
    \/ UnaryRefused(r) \/ UnaryServerError(r) \/ UnaryAnswered(r)
    \/ StreamFailedEmpty(r) \/ StreamNothing(r)
    \/ StreamFailedMid(r) \/ StreamDone(r) \/ ClientGone(r)

LeaveQueue(r) == LeaveQueueAdmitted(r) \/ LeaveQueueTimeout(r)

WriteEnds(r) == Finish(r) \/ BeginAgain(r) \/ BeginThrows(r)

Next ==
    \/ \E r \in Requests :
          \/ RejectEarly(r) \/ ArriveAdmitted(r) \/ ArriveQueueFull(r)
          \/ ArriveWait(r) \/ TimerExpires(r) \/ LeaveQueue(r)
          \/ FirstFrame(r) \/ CallEnds(r) \/ WriteEnds(r)
    \/ \E b \in Backends : HealthChanges(b) \/ WindowElapses(b)

Spec == Init /\ [][Next]_vars

\* Timers fire and ready coroutines run.  The upstream calls of the Polite end
\* and their clients read the response or go away; all others may hang for ever.
FairSpec ==
    /\ Spec
    /\ \A r \in Polite :
          /\ WF_vars(TimerExpires(r))
          /\ WF_vars(LeaveQueue(r))
          /\ WF_vars(CallEnds(r))
          /\ WF_vars(WriteEnds(r))

-----------------------------------------------------------------------------
(***************************************************************************)
(* Properties                                                              *)
(***************************************************************************)

TypeOK ==
    /\ Gate!TypeOK
    /\ breaker \in [Backends -> Breakers]
    /\ active \in [Backends -> Nat]
    /\ healthy \subseteq Backends
    /\ \A r \in Requests :
          /\ req[r].pc \in {"idle", "queued", "upstream", "beginning", "writing"}
          /\ req[r].order \in Seq(Backends)
          /\ req[r].pos \in 0..Len(req[r].order)
          /\ req[r].attempts \in 0..max_attempts
          /\ req[r].final_code \in Codes
          /\ req[r].slot \subseteq Backends

\* The requests that hold a slot on b.
Holders(b) == {r \in Requests : b \in req[r].slot}

\* Whatever mixture of failovers, capacity skips, client departures and
\* exceptions a request goes through, active_ of a limiter is the number of
\* requests being served from that backend, never above max_in_flight: no
\* path out of handle_chat leaks a slot or gives one back twice.
SlotsMatchRequests ==
    \A b \in Backends :
        /\ active[b] = Cardinality(Holders(b))
        /\ active[b] <= max_in_flight

\* A request owns a global slot from its admission to its last write and at no
\* other time: it is dispatched only with a ticket, a 429, 400 or 404 response
\* holds none, and a connection that is idle again has given its ticket back.
TicketWhileServed ==
    \A r \in Requests :
        r \in tickets <=>
            \/ req[r].pc \in {"upstream", "beginning"}
            \/ req[r].pc = "writing" /\ (req[r].slot # {} \/ req[r].final_code = 503)

\* A step that dispatches a request for the second time.
IsRetry(r) == req[r].attempts > 0 /\ req'[r].attempts > req[r].attempts

\* Failover is one retry, on a backend not tried before, and only while the
\* client has received nothing ("bytes-sent -> terminal SSE error event").
OneCleanRetry ==
    [][\A r \in Requests : IsRetry(r) =>
          /\ req'[r].attempts = 2
          /\ ~req[r].header_started
          /\ req'[r].slot \cap req[r].slot = {}]_vars

\* Health is read again after the wait in the queue: the first dispatch of a
\* request goes to a backend that is HEALTHY at that moment.  (The retry goes
\* down the same list and may meet one that no longer is.)
FirstDispatchIsHealthy ==
    [][\A r \in Requests :
          req[r].attempts = 0 /\ req'[r].attempts = 1
              => req'[r].slot \subseteq healthy]_vars

\* The client sees the failure of a single upstream call only when the walk had
\* nowhere left to go: that backend was the last of the order.
FailureSurfacedLast ==
    [][\A r \in Requests :
          (/\ req[r].pc = "upstream" /\ req[r].attempts = 1
           /\ req'[r].pc = "writing" /\ req'[r].final_code \in {500, 502, 504})
              => req[r].pos = Len(req[r].order)]_vars

\* A breaker in HALF_OPEN has its probe in flight ("HALF_OPEN -> denied (the
\* probe is already in flight)"): no path through the walk, a capacity skip or
\* a failover leaves it waiting for a report that never comes.
HalfOpenHasProbe ==
    \A b \in Backends :
        breaker[b].state = "HalfOpen" =>
            \E r \in Holders(b) : req[r].pc = "upstream" /\ req[r].is_probe

\* Every request ends: whatever the gate, the breakers and the backends do, the
\* connection gets its response or is closed, and can carry the next request.
EveryRequestEnds == \A r \in Polite : req[r].pc # "idle" ~> req[r].pc = "idle"

\* A unary request is answered 200 only if its backend answered.
NoFalseSuccess ==
    \A r \in Requests :
        req[r].pc = "writing" /\ req[r].final_code = 200 => req[r].outcome # "cut"
=============================================================================
