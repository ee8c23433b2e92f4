--------------------------- MODULE GatewayMetrics ----------------------------
(***************************************************************************)
(* What handle_chat tells the metrics::Registry when its TerminalRecorder  *)
(* is destroyed: one more in requests_total, under final_code.  A step     *)
(* here is a step of Gateway with the counting that is done in it.  Both   *)
(* variables are history: requests_total_ itself only grows, and what can  *)
(* be wrong with it is its distance from the responses that were begun.    *)
(***************************************************************************)
EXTENDS Gateway, Integers

VARIABLES
    uncounted,   \* per status: the responses begun, less requests_total_
    lost         \* backends whose half-open probe was left by its client

metricsVars == <<uncounted, lost>>

MetricsInit ==
    /\ Init
    /\ uncounted = [code \in Codes \ {0} |-> 0]
    /\ lost = {}

\* The requests that leave handle_chat in this step.
Leaving == {r \in Requests : req[r].pc # "idle" /\ req'[r].pc = "idle"}

\* The status of the response that has begun, 0 without one: final_code is set
\* just before the write, and to 200 on the way out of a stream whose header is
\* on the wire.
Status(q) == IF q.header_started THEN 200 ELSE q.final_code

\* The responses with this status that begin in this step.
Begun(code) == {r \in Requests : Status(req[r]) = 0 /\ Status(req'[r]) = code}

\* ~TerminalRecorder(): the requests counted under this code in this step.
Recorded(code) == {r \in Leaving : Status(req[r]) = code}

Record ==
    uncounted' = [code \in Codes \ {0} |->
        uncounted[code] + Cardinality(Begun(code)) - Cardinality(Recorded(code))]

\* A probe that leaves the call for good while the breaker still waits for it.
History ==
    lost' = {b \in Backends :
                /\ breaker'[b].state = "HalfOpen"
                /\ \/ b \in lost
                   \/ \E r \in Leaving :
                         b \in req[r].slot /\ req[r].is_probe /\ req[r].header_started}

MetricsNext == Next /\ Record /\ History

MetricsSpec == MetricsInit /\ [][MetricsNext]_<<vars, metricsVars>>

-----------------------------------------------------------------------------
(***************************************************************************)
(* Properties                                                              *)
(***************************************************************************)

\* Under each status requests_total has counted the responses that began with
\* it and are finished, each once: a response is counted under the status its
\* client saw, even when the stream behind a 200 fails or its client leaves.
CountedAsSeen ==
    \A code \in Codes \ {0} :
        uncounted[code] = Cardinality({r \in Requests : Status(req[r]) = code})

\* A breaker in HALF_OPEN has its probe in flight, unless the client of a
\* streamed probe left after its first byte: no skip at capacity, no failover,
\* no exception and no late result of another call loses the probe.
ProbeLostOnlyByClient ==
    \A b \in Backends :
        breaker[b].state = "HalfOpen" =>
            \/ \E r \in Holders(b) : req[r].pc = "upstream" /\ req[r].is_probe
            \/ b \in lost
=============================================================================
