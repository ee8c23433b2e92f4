------------------------------- MODULE Breaker -------------------------------
(***************************************************************************)
(* The operations of health::CircuitBreaker                                *)
(* (src/src/health/circuit_breaker.{hpp,cpp}) as functions from the        *)
(* breaker's fields to its fields.  Every method holds the mutex for its   *)
(* whole body, so each is one step.                                        *)
(*                                                                         *)
(* Time is one bit: `elapsed' is the test                                  *)
(* clock::now() - opened_at_ >= open_window_.  The code makes it in OPEN   *)
(* only, and enters OPEN only by setting opened_at_ to now, so the bit is  *)
(* kept FALSE in the other states.                                         *)
(***************************************************************************)
EXTENDS Naturals

CONSTANT failure_threshold    \* BackendConfig::failure_threshold

\* The range config.cpp enforces.
ASSUME BreakerAssumption == failure_threshold \in Nat \ {0}

BreakerStates == {"Closed", "Open", "HalfOpen"}

Breakers == [state : BreakerStates, consecutive_failures : Nat, elapsed : BOOLEAN]

FreshBreaker ==
    [state |-> "Closed", consecutive_failures |-> 0, elapsed |-> FALSE]

\* The open window of a breaker passes.
WindowPassed(b) == [b EXCEPT !.elapsed = TRUE]

\* allow_request(): Decision::is_probe and Decision::allowed ...
IsProbe(b) == b.state = "Open" /\ b.elapsed

Allows(b) == b.state = "Closed" \/ IsProbe(b)

\* Mutation: the probe slot is not consumed.
MutAfterAllow(b) == b

\* ... and the fields it leaves behind.
AfterAllow(b) ==
    IF IsProbe(b) THEN [b EXCEPT !.state = "HalfOpen", !.elapsed = FALSE] ELSE b

\* state_ = Open; opened_at_ = now.
Reopened(b) == [b EXCEPT !.state = "Open", !.elapsed = FALSE]

OnSuccess(b, is_probe) ==
    [b EXCEPT !.state = "Closed", !.consecutive_failures = 0, !.elapsed = FALSE]

\* Mutation: an aborted probe leaves the breaker as it is.
MutAbortProbe(b, is_probe) == b

AbortProbe(b, is_probe) == IF is_probe THEN Reopened(b) ELSE b

\* Mutation: the threshold test is off by one.
MutCountFailure(b) ==
    LET counted == [b EXCEPT !.consecutive_failures = @ + 1]
    IN  IF counted.consecutive_failures > failure_threshold
        THEN Reopened(counted)
        ELSE counted

\* A non-probe failure outside OPEN: ++consecutive_failures_ and the threshold.
CountFailure(b) ==
    LET counted == [b EXCEPT !.consecutive_failures = @ + 1]
    IN  IF counted.consecutive_failures >= failure_threshold
        THEN Reopened(counted)
        ELSE counted

\* Mutation: a failed probe is ignored like a late one.
MutOnFailure(b, is_probe) ==
    IF is_probe \/ b.state = "Open" THEN b ELSE CountFailure(b)

OnFailure(b, is_probe) ==
    IF is_probe THEN Reopened(b)
    ELSE IF b.state = "Open" THEN b
    ELSE CountFailure(b)
=============================================================================
