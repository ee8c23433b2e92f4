SPECIFICATION FairSpec
CONSTANTS
    MaxChunks = 4
    MaxReads = 3
    Budget = 2
CHECK_DEADLOCK FALSE
INVARIANTS
    NeverSilentTruncation
    ReportAgreesWithResponse
    UnaryWithinTwoBudgets
    AnswersExplainThemselves
PROPERTIES
    SilenceIsCutShort
    ImplementsGateway
