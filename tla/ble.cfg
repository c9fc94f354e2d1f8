SPECIFICATION FairSpec
CONSTANTS
    Receivers = {"r1", "r2"}
    Capacity = 1
    Packets = 2
    FaultBudget = 1
INVARIANT TypeOK NewestKept PanicOnlyInFlight
PROPERTY PollerServes
CHECK_DEADLOCK FALSE
