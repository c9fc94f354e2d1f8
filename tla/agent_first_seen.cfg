SPECIFICATION Spec
CONSTANTS
    KindOrder <- MCKindOrder
    Interval <- MCInterval
    Jitter <- MCJitter
    Unbuildable <- MCNoPosition
    Nodes = {"n1", "n2"}
    Packets = {}
    OptedOut = {}
    RespectOk = TRUE
    Enabled = {"nodeinfo", "position"}
    OnFirstSeen = {"nodeinfo"}
    MetricsSweeps = FALSE
    Worlds <- MCSeen
    MaxVersion = 0
    MaxInbox = 2
    MaxSweeps = 2
PROPERTY SpacedEmissions
CHECK_DEADLOCK FALSE
