------------------------------- MODULE Router --------------------------------
(***************************************************************************)
(* Gateway::order_candidates() at work: requests are routed one after the  *)
(* other by the configured policy while backends come, go, fill up and     *)
(* empty.  The requests are the turns of one conversation.  Each goes to   *)
(* the first backend of its RouteOrder that its breaker lets it use and    *)
(* that has an in-flight slot left.  Which breakers deny is left open, and *)
(* the failover behind a failed call is in Gateway.                        *)
(***************************************************************************)
EXTENDS Routing

CONSTANTS
    Backends,      \* config indices
    Models,        \* backends_for_model() of each model
    Policies,      \* values of routing.policy
    Scores,        \* the rendezvous scores an affinity key may have
    Messages,      \* messages: [role |-> ..., kind |-> ..., content |-> ...]
    MaxTurns,      \* bound on the length of the conversation
    MaxRouted      \* bound on cursor_ and on the requests counted

ASSUME RouterAssumption ==
    /\ Backends \subseteq Nat /\ IsFiniteSet(Backends)
    /\ Models \subseteq (SUBSET Backends) \ {{}}
    /\ Scores \subseteq Nat
    /\ Policies \subseteq {"round_robin", "prefix_affinity"}
    /\ MaxTurns \in Nat /\ MaxRouted \in Nat

VARIABLES
    policy,     \* routing.policy, read once at start-up
    eligible,   \* the backends that are HEALTHY
    active,     \* active_ of each backend's limiter
    cursor,     \* RoundRobin::cursor_
    msgs,       \* the messages of the conversation so far
    key,        \* RouteRequest::affinity_key of its next request
    score,      \* the key, seen through XXH64
    turns       \* per model: times each backend was first since the last change
                \* of eligible or the last request for another model (history)

vars == <<policy, eligible, active, cursor, msgs, key, score, turns>>

\* Any text; every model shares it.
ModelName == <<"m">>

NoTurns == [m \in Models |-> [b \in Backends |-> 0]]

Init ==
    /\ policy \in Policies
    /\ eligible = Backends
    /\ active = [b \in Backends |-> 0]
    /\ cursor = 0
    /\ msgs \in [1..1 -> Messages]
    /\ key = canonical_affinity_string(ModelName, msgs)
    /\ score \in [Backends -> Scores]
    /\ policy = "round_robin" => /\ score = CHOOSE f \in [Backends -> Scores] : TRUE
                                 /\ msgs = CHOOSE f \in [1..1 -> Messages] : TRUE
    /\ turns = NoTurns

\* What the policy answers for these candidates now.
RouteOrder(cands) ==
    IF policy = "prefix_affinity" THEN AffinityOrder(score, cands, active)
                                  ELSE RoundRobinOrder(cands, cursor)

\* Mutation: the cursor is read and never advanced.
MutNextCursor == cursor

\* cursor_.fetch_add(1), by round_robin only.
NextCursor == IF policy = "round_robin" THEN cursor + 1 ELSE cursor

\* One more turn for b in a row of requests for m.
TakesTurn(m, b) ==
    [k \in Models |-> IF k = m THEN [turns[m] EXCEPT ![b] = @ + 1] ELSE NoTurns[k]]

\* A request for a model is routed and walks the order to the first backend that
\* is not denied by its breaker and has a slot left.
Route(m) ==
    LET cands == m \cap eligible
        o     == RouteOrder(cands).order
    IN  /\ cands # {}
        /\ cursor < MaxRouted
        /\ cursor' = NextCursor
        /\ turns' = IF policy = "round_robin" THEN TakesTurn(m, o[1]) ELSE turns
        /\ \E denied \in SUBSET cands :
              LET takers == {i \in DOMAIN o :
                                o[i] \notin denied /\ active[o[i]] < max_in_flight}
              IN  \/ takers = {} /\ active' = active
                  \/ \E first \in takers :
                        /\ \A j \in takers : first <= j
                        /\ active' = [active EXCEPT ![o[first]] = @ + 1]
        /\ UNCHANGED <<policy, eligible, msgs, key, score>>

\* The conversation grows.  XXH64 of a key that has changed may be anything;
\* round_robin does not look at it.
Say(msg) ==
    /\ policy = "prefix_affinity"
    /\ Len(msgs) < MaxTurns
    /\ msgs' = Append(msgs, msg)
    /\ key' = canonical_affinity_string(ModelName, msgs')
    /\ score' \in IF key' = key THEN {score} ELSE [Backends -> Scores]
    /\ UNCHANGED <<policy, eligible, active, cursor, turns>>

\* A request ends and gives its slot back.
Finish(b) ==
    /\ active[b] > 0
    /\ active' = [active EXCEPT ![b] = @ - 1]
    /\ UNCHANGED <<policy, eligible, cursor, msgs, key, score, turns>>

\* A backend becomes eligible or stops being so.
Churn(b) ==
    /\ \/ b \in eligible /\ eligible' = eligible \ {b}
       \/ b \notin eligible /\ eligible' = eligible \cup {b}
    /\ turns' = NoTurns
    /\ UNCHANGED <<policy, active, cursor, msgs, key, score>>

Next ==
    \/ \E m \in Models : Route(m)
    \/ \E msg \in Messages : Say(msg)
    \/ \E b \in Backends : Finish(b) \/ Churn(b)

Spec == Init /\ [][Next]_vars

-----------------------------------------------------------------------------
(***************************************************************************)
(* Properties                                                              *)
(***************************************************************************)

\* What is routed to first, for a model with candidates.
HeadOf(m) == RouteOrder(m \cap eligible).order[1]

\* The order is every candidate exactly once: failover can reach each of them
\* and none twice, however the load guard has moved the head.
OrderIsPermutation ==
    \A m \in {n \in Models : n \cap eligible # {}} :
        LET o == RouteOrder(m \cap eligible).order
        IN  /\ {o[i] : i \in DOMAIN o} = m \cap eligible
            /\ \A i, j \in DOMAIN o : o[i] = o[j] => i = j

\* Prefix affinity never sends a request first to a backend at or above the load threshold
\* while a candidate below it exists, nor past a better-ranked one below it.
GuardFindsRoom ==
    policy = "prefix_affinity" => \A m \in {n \in Models : n \cap eligible # {}} :
        LET h == HeadOf(m)
        IN  \A b \in m \cap eligible :
               active[b] * threshold_den < threshold_num * max_in_flight =>
                  /\ active[h] * threshold_den < threshold_num * max_in_flight
                  /\ h # b => score[h] > score[b] \/ (score[h] = score[b] /\ h < b)

\* Under prefix affinity churn moves as few requests as possible: when a backend
\* leaves, a key it did not serve stays where it is, and when one arrives a key
\* stays or moves to it ("deterministic stickiness, minimal reshuffle on churn").
MinimalReshuffle ==
    [][eligible' # eligible /\ policy = "prefix_affinity" => \A m \in Models : \A b \in m :
          (m \cap eligible # {} /\ m \cap eligible' # {}) =>
             /\ (eligible' = eligible \ {b} /\ HeadOf(m) # b) => HeadOf(m)' = HeadOf(m)
             /\ (eligible' = eligible \cup {b}) => HeadOf(m)' \in {HeadOf(m), b}]_vars

\* A conversation that has filled the prefix stays where it is: a further turn
\* changes neither its key nor the backend it goes to first.
ConversationSticks ==
    [][msgs' # msgs /\ policy = "prefix_affinity" /\ Len(key) = prefix_bytes =>
          /\ key' = key
          /\ \A m \in Models : m \cap eligible # {} => HeadOf(m)' = HeadOf(m)]_vars

\* Requests for one model that come in a row are spread evenly: while its
\* candidates stay the same, no backend is first for it more than once more often
\* than another, wherever cursor_ stands when the row begins.  (policy.hpp says
\* of round_robin that it "spreads load evenly".  The models share cursor_, and
\* nothing is said of rows that requests for another model break up.)
SpreadsEvenly ==
    \A m \in Models : \A b, c \in m \cap eligible : turns[m][b] <= turns[m][c] + 1
=============================================================================
