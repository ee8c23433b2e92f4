\* Three backends with room for two; half of max_in_flight is the load threshold.
SPECIFICATION Spec
CONSTANTS
    Backends = {0, 1, 2}
    Models <- TwoModels
    Policies = {"round_robin", "prefix_affinity"}
    Scores = {1, 2, 3}
    Messages <- SomeMessages
    MaxTurns = 2
    MaxRouted = 9
    prefix_bytes = 6
    max_in_flight = 2
    threshold_num = 1
    threshold_den = 2
INVARIANTS
    OrderIsPermutation
    GuardFindsRoom
    SpreadsEvenly
PROPERTIES
    MinimalReshuffle
    ConversationSticks
