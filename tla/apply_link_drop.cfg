SPECIFICATION Spec
CONSTANTS
    Sections <- MCSections
    Rank <- MCRank
    Payloads <- MCGoodPayloads
    Unsendable = {"owner"}
    LoRa = "lora"
    Channels = {"channel0"}
    OldRegion = "EU_868"
    NewRegion = "EU_868"
    MaxPasses = 4
    MaxReadAttempts = 2
    MaxForcedReboots = 2
    Faults = {"drop"}
    FaultBudget = 1
INVARIANT SuccessPersists
CHECK_DEADLOCK FALSE
