SPECIFICATION FairSpec
CONSTANTS
    b1 = b1
    b2 = b2
    Backends = {b1, b2}
    Requests = {r1, r2, r3}
    Polite = {r1}
    Kinds = {TRUE, FALSE}
    Models <- ModelsShared
    max_concurrent = 1
    queue_depth = 1
    max_in_flight = 1
    failure_threshold = 1
PROPERTIES
    EveryRequestEnds
