SPECIFICATION Spec
CONSTANTS
    Chars <- SmallChars
    Chunks <- SmallChunks
    MaxChunks = 6
INVARIANTS
    EventsOfTheText
    OneLineSurvives
CHECK_DEADLOCK FALSE
