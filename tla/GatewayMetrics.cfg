SPECIFICATION MetricsSpec
CONSTANTS
    Backends = {b1, b2}
    Requests = {r1, r2, r3, r4}
    Polite = {}
    Kinds = {TRUE, FALSE}
    Models <- ModelsShared
    max_concurrent = 2
    queue_depth = 1
    max_in_flight = 1
    failure_threshold = 1
SYMMETRY Symmetry
INVARIANTS
    SlotsMatchRequests
    TicketWhileServed
    CountedAsSeen
    ProbeLostOnlyByClient
PROPERTIES
    FailureSurfacedLast
    OneCleanRetry
    FirstDispatchIsHealthy
