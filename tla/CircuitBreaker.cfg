\* Threshold two, four requests, one of them a stream whose client may leave.
CONSTANTS
    Callers = {c1, c2, c3, c4}
    Streamers = {c1}
    failure_threshold = 2
SPECIFICATION FairBreakerSpec
INVARIANTS
    ClosedCountsTheStreak
    HalfOpenHasProbe
    OneTrialPerWindow
PROPERTIES
    NeverShutOut
