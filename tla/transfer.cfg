CONSTANTS
    ConfigKeys = {"lora", "security"}
    ModuleKeys = {"mqtt"}
    Slots = {0, 1}
    Null = Null
    Placeholder = "***"
    Ids = {1, 2, 3, 4}
    Worlds <- MCWorlds
    Contents <- MCContents
    Files <- MCFiles
    Typed <- MCTyped
    SafeSections <- MCSafe
    Labels = {"a", "b"}
    NoCommand = NoCommand
    MaxCommands = 1
    MaxOutside = 2
    Commands <- MCCommands
SPECIFICATION Spec
CHECK_DEADLOCK FALSE
INVARIANTS
    TypeOK
    RightRow
    SecretsSurviveEdits
    FilterHonoured
    UnsafeNeedsAsking
    DoneMeansHeld
PROPERTY
    DeviceChangesWereAsked
