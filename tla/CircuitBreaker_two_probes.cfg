\* Threshold two, three requests, none of them a stream.
CONSTANTS
    Callers = {c1, c2, c3}
    Streamers = {}
    failure_threshold = 2
SPECIFICATION BreakerSpec
INVARIANT
    SingleProbe
