---------------------------- MODULE HealthMonitor ----------------------------
(***************************************************************************)
(* health::HealthMonitor (src/src/health/checker.cpp): the loop that       *)
(* probes one backend and publishes its state to the routing path.         *)
(* probe_once() suspends in each GET and run() in the interval timer; the  *)
(* backend may change at any moment in between.                            *)
(*                                                                         *)
(* Module Process runs it beside the sessions and the drain.               *)
(*                                                                         *)
(* server is the backend process, as far as probes can tell: "down",       *)
(* "loading" its model, "failing" (it answers, but wrongly) or "ready".    *)
(***************************************************************************)
EXTENDS Naturals

VARIABLES
    type,      \* type_
    server,    \* the backend process
    pc,        \* where run() is: "off", "health", "live", "ready", "timer" or "end"
    live,      \* probe_once(): the answer to GET /
    state,     \* state_
    stopped    \* stopped_

vars == <<type, server, pc, live, state, stopped>>

NoAnswer == [connected |-> FALSE, http_status |-> 0, banner |-> FALSE]

Answer(status, banner) == [connected |-> TRUE, http_status |-> status, banner |-> banner]

\* client_.get(): what the backend may answer.  A backend that is down refuses,
\* or the exchange breaks off after the connection.
HealthAnswers ==
    CASE server = "down"    -> {NoAnswer, Answer(0, FALSE)}
      [] server = "loading" -> {Answer(503, FALSE)}
      [] server = "failing" -> {Answer(500, FALSE)}
      [] server = "ready"   -> {Answer(200, FALSE)}

LiveAnswers ==
    CASE server = "down"    -> {NoAnswer, Answer(0, FALSE)}
      [] server = "failing" -> {Answer(500, FALSE), Answer(200, FALSE)}
      [] OTHER              -> {Answer(200, TRUE)}

TagsAnswers ==
    CASE server = "down"    -> {NoAnswer, Answer(0, FALSE)}
      [] server = "ready"   -> {Answer(200, FALSE)}
      [] OTHER              -> {Answer(500, FALSE)}

evaluate_health_endpoint(health) ==
    IF ~health.connected THEN "Dead"
    ELSE IF health.http_status = 200 THEN "Healthy"
    ELSE IF health.http_status = 503 THEN "NotReady"
    ELSE "Dead"

\* Mutation: readiness alone decides.
MutEvaluateOllama(liveness, readiness) ==
    IF readiness.connected /\ readiness.http_status = 200 THEN "Healthy"
    ELSE IF liveness.connected THEN "NotReady"
    ELSE "Dead"

evaluate_ollama(liveness, readiness) ==
    IF ~(liveness.connected /\ liveness.http_status = 200 /\ liveness.banner) THEN "Dead"
    ELSE IF readiness.connected /\ readiness.http_status = 200 THEN "Healthy"
    ELSE "NotReady"

-----------------------------------------------------------------------------

Init ==
    /\ type = "vllm"
    /\ server \in {"down", "loading", "failing", "ready"}
    /\ pc = "off"
    /\ live = NoAnswer
    /\ state = "Dead"
    /\ stopped = FALSE

\* The first GET of a round.
FirstProbe(t) == IF t = "ollama" THEN "live" ELSE "health"

\* The monitor of a backend of type t is constructed and run() is spawned.
Start(t) ==
    /\ pc = "off"
    /\ type' = t
    /\ pc' = FirstProbe(t)
    /\ UNCHANGED <<server, live, state, stopped>>

\* GET /health returns: the state is published and the timer armed.
HealthReturns ==
    /\ pc = "health"
    /\ \E a \in HealthAnswers : state' = evaluate_health_endpoint(a)
    /\ pc' = "timer"
    /\ UNCHANGED <<type, server, live, stopped>>

LiveReturns ==
    /\ pc = "live"
    /\ live' \in LiveAnswers
    /\ pc' = "ready"
    /\ UNCHANGED <<type, server, state, stopped>>

TagsReturns ==
    /\ pc = "ready"
    /\ \E a \in TagsAnswers : state' = evaluate_ollama(live, a)
    /\ live' = NoAnswer
    /\ pc' = "timer"
    /\ UNCHANGED <<type, server, stopped>>

\* The interval passes: another round, unless stop() was called.
TimerFires ==
    /\ pc = "timer"
    /\ pc' = IF stopped THEN "end" ELSE FirstProbe(type)
    /\ UNCHANGED <<type, server, live, state, stopped>>

Run == HealthReturns \/ LiveReturns \/ TagsReturns \/ TimerFires

\* stop(), from the signal handler.
Stop ==
    /\ ~stopped
    /\ stopped' = TRUE
    /\ UNCHANGED <<type, server, pc, live, state>>

\* The backend crashes, starts, finishes loading or goes wrong.
ServerChanges ==
    /\ server' \in {"down", "loading", "failing", "ready"} \ {server}
    /\ UNCHANGED <<type, pc, live, state, stopped>>
=============================================================================
