--------------------------- MODULE CircuitBreaker ---------------------------
(***************************************************************************)
(* One circuit breaker and the requests that use it the way                *)
(* Gateway::handle_chat does (src/src/server/gateway.cpp): allow_request() *)
(* before the upstream call, on_success() or on_failure() after it, and    *)
(* any number of other requests in between.                                *)
(***************************************************************************)
EXTENDS Breaker, Integers

CONSTANTS Callers,     \* requests routed to this backend
          Streamers    \* those with "stream": true

ASSUME StreamersAssumption == Streamers \subseteq Callers

VARIABLES
    breaker,   \* the fields of the CircuitBreaker
    calls,     \* per caller: no upstream call, a normal one, or the probe
    streak,    \* failures reported since the last success, up to the threshold
    lost,      \* callers that abandoned a probe since the breaker went HALF_OPEN
    due        \* calls the last window that passed is still good for
               \* (no code keeps these three; properties read them)

breakerVars == <<breaker, calls, streak, lost, due>>

BreakerInit ==
    /\ breaker = FreshBreaker
    /\ calls = [c \in Callers |-> "none"]
    /\ streak = 0
    /\ lost = {}
    /\ due = 0

\* allow_request() lets c through and c starts its upstream call.
Allow(c) ==
    /\ calls[c] = "none"
    /\ Allows(breaker)
    /\ calls' = [calls EXCEPT ![c] = IF IsProbe(breaker) THEN "probe" ELSE "normal"]
    /\ breaker' = AfterAllow(breaker)
    /\ due' = IF breaker.state = "Closed" THEN due ELSE due - 1
    /\ UNCHANGED <<streak, lost>>

\* allow_request() turns c away; c goes on to its next candidate.
Deny(c) ==
    /\ calls[c] = "none"
    /\ ~Allows(breaker)
    /\ UNCHANGED breakerVars

\* allow_request() lets c through but the backend has no in-flight slot left:
\* abort_probe() follows in the same step.
SkipAtCapacity(c) ==
    /\ calls[c] = "none"
    /\ Allows(breaker)
    /\ breaker' = AbortProbe(AfterAllow(breaker), IsProbe(breaker))
    /\ UNCHANGED <<calls, streak, lost, due>>

Succeed(c) ==
    /\ calls[c] # "none"
    /\ breaker' = OnSuccess(breaker, calls[c] = "probe")
    /\ calls' = [calls EXCEPT ![c] = "none"]
    /\ streak' = 0
    /\ lost' = {}
    /\ due' = 0

Fail(c) ==
    /\ calls[c] # "none"
    /\ breaker' = OnFailure(breaker, calls[c] = "probe")
    /\ calls' = [calls EXCEPT ![c] = "none"]
    /\ streak' = IF streak < failure_threshold THEN streak + 1 ELSE streak
    /\ lost' = IF breaker'.state = "HalfOpen" THEN lost ELSE {}
    /\ UNCHANGED due

\* The client of a stream goes away in the middle of it: handle_chat returns
\* and reports nothing to the breaker.
Abandon(c) ==
    /\ c \in Streamers
    /\ calls[c] # "none"
    /\ calls' = [calls EXCEPT ![c] = "none"]
    /\ lost' = IF calls[c] = "probe" /\ breaker.state = "HalfOpen"
                THEN lost \cup {c} ELSE lost
    /\ UNCHANGED <<breaker, streak, due>>

\* open_ms passes since the breaker opened.
WindowElapses ==
    /\ breaker.state = "Open"
    /\ ~breaker.elapsed
    /\ breaker' = WindowPassed(breaker)
    /\ due' = 1
    /\ UNCHANGED <<calls, streak, lost>>

BreakerNext ==
    \/ WindowElapses
    \/ \E c \in Callers :
          \/ Allow(c)
          \/ Deny(c)
          \/ SkipAtCapacity(c)
          \/ Succeed(c)
          \/ Fail(c)
          \/ Abandon(c)

BreakerSpec == BreakerInit /\ [][BreakerNext]_breakerVars

CallEnds(c) == Succeed(c) \/ Fail(c) \/ Abandon(c)

\* Time passes, and a call that is no stream ends with its budget.  A stream may
\* go on for ever: its deadline is set anew for every read, and the writes to
\* its client have none.
FairBreakerSpec ==
    /\ BreakerSpec
    /\ WF_breakerVars(WindowElapses)
    /\ \A c \in Callers \ Streamers : WF_breakerVars(CallEnds(c))

-----------------------------------------------------------------------------
(***************************************************************************)
(* Properties                                                              *)
(***************************************************************************)

BreakerTypeOK ==
    /\ breaker \in Breakers
    /\ calls \in [Callers -> {"none", "normal", "probe"}]
    /\ streak \in 0..failure_threshold
    /\ lost \in SUBSET Callers
    /\ due \in Int

ProbesInFlight == {c \in Callers : calls[c] = "probe"}

\* consecutive_failures_ means what its name says: in CLOSED it is the number
\* of failures since the last success, and a breaker never stays CLOSED with
\* failure_threshold of them, whatever late outcomes of earlier requests and
\* earlier probes arrive in between.
ClosedCountsTheStreak ==
    breaker.state = "Closed" =>
        /\ breaker.consecutive_failures = streak
        /\ streak < failure_threshold

\* HALF_OPEN denies everyone because "the probe is already in flight"
\* (circuit_breaker.hpp): there is one whose outcome will end the state, unless
\* a streaming client walked away from it.  Capacity skips, late outcomes and
\* probes of earlier windows cannot lose it.
HalfOpenHasProbe == breaker.state = "HalfOpen" => ProbesInFlight # {} \/ lost # {}

\* "single probe in half-open" (circuit_breaker.hpp): two requests are never
\* both out as the half-open probe.
SingleProbe == \A c, d \in ProbesInFlight : c = d

\* A backend that has been given up is tried once per open_ms at the most: from
\* the moment the breaker leaves CLOSED until it closes again, no more calls are
\* started than windows have passed, although outcomes of earlier calls and
\* earlier probes re-open it at any time and capacity skips undo its decisions.
OneTrialPerWindow == due >= 0

\* A backend is never shut out for good: the breaker comes back again and again
\* to a state in which it lets a request through, unless its client abandoned
\* the probe or the probe is a stream, which nothing ends.
NeverShutOut ==
    []<>(Allows(breaker) \/ lost # {} \/ ProbesInFlight \cap Streamers # {})
=============================================================================
