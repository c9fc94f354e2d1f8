SPECIFICATION FairSpec
CONSTANTS
    Receivers = {"r1", "r2"}
    Senders = {"s1"}
    Scripts <- MCScripts
    MaxPdu = 1
    Noise <- MCNoise
    FaultBudget = 1
    MaxSends = 1
INVARIANT TypeOK InStep NoUseAfterClose
PROPERTY Served
CHECK_DEADLOCK FALSE
