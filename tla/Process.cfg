SPECIFICATION ProcessSpec
CONSTANTS
    Connections = {c1, c2}
    Arguments <- SomeArguments
    Files <- SomeFiles
INVARIANTS
    AcceptedIsUsable
    EverySettingIsRead
    TargetIsTheAuthority
    DrainIsGraceful
PROPERTIES
    SignalStops
    Converges
    HealthyIsEarned
