SPECIFICATION FairSpec
CONSTANTS
    KindOrder <- MCKindOrder
    Interval <- MCInterval
    Jitter <- MCJitter
    Unbuildable = {}
    Nodes = {"n1"}
    Packets = {"p1", "p2"}
    OptedOut = {"p2"}
    RespectOk = TRUE
    Enabled = {"nodeinfo", "position"}
    OnFirstSeen = {"nodeinfo"}
    MetricsSweeps = TRUE
    Worlds <- MCWorlds
    MaxVersion = 0
    MaxInbox = 2
    MaxSweeps = 1
INVARIANT TypeOK PacketsAccountedFor TimersFollowPublishes
PROPERTY RefreshLearnsAll TimedEmissions RunEnds
CHECK_DEADLOCK FALSE
