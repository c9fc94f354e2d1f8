SPECIFICATION FairSpec
CONSTANTS
    KindOrder <- MCKindOrder
    Interval <- MCInterval
    Jitter <- MCJitter
    Unbuildable = {}
    Nodes = {"n1"}
    Packets = {}
    OptedOut = {}
    RespectOk = TRUE
    Enabled = {"nodeinfo", "position"}
    OnFirstSeen = {"nodeinfo"}
    MetricsSweeps = FALSE
    Worlds <- MCPoll
    MaxVersion = 0
    MaxInbox = 2
    MaxSweeps = 2
PROPERTY PollEnds
CHECK_DEADLOCK FALSE
