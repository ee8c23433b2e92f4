SPECIFICATION Spec
CONSTANTS
    b1 = b1
    b2 = b2
    Backends = {b1, b2}
    Requests = {r1, r2}
    Polite = {}
    Kinds = {TRUE}
    Models <- ModelsShared
    max_concurrent = 2
    queue_depth = 1
    max_in_flight = 1
    failure_threshold = 1
INVARIANT HalfOpenHasProbe
