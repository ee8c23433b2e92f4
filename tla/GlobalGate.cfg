\* Two slots, a queue of three, six callers; no symmetry (temporal properties).
CONSTANTS
    Callers = {c1, c2, c3, c4, c5, c6}
    max_concurrent = 2
    queue_depth = 3
SPECIFICATION FairSpec
INVARIANTS
    SlotsConserved
    NoIdleSlotWhileWaiting
PROPERTIES
    FirstComeFirstServed
    EveryWaitEnds
    ImplementsPool
