SPECIFICATION FairSpec
CONSTANTS
    Sections <- MCSections
    Rank <- MCRank
    Unsendable = {"owner"}
    LoRa = "lora"
    Channels = {"channel0"}
    OldRegion = "LORA_24"
    NewRegion = "EU_868"
    MaxForcedReboots = 2
    Payloads <- MCPayloads
    MaxPasses = 4
    MaxReadAttempts = 3
    Faults = {"noopen", "readerr", "partial", "senderr", "lose", "abort", "slow", "drop", "crash"}
    FaultBudget = 2
INVARIANT TypeOK SessionInv SuccessIsDurable CleanSessionApplies
PROPERTY ImplementsContract RegionConsent PersistsWholeBatch PrimesBeforeCrossing Terminates
CHECK_DEADLOCK FALSE
