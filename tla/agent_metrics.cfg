SPECIFICATION MetricsSpec
CONSTANTS
    LabelKeys = {"site"}
    Dotted = {}
    Reserved = {}
    BadKeys = {}
    LongValues = {}
    MaxLabels = 32
    GoodPins = {"123456"}
    Seconds <- MCSeconds
    Strings <- MCStrings
    Contents <- MCContents
    Pairs = {}
    FlagArgs <- MCFlagArgs
    MaxPairs = 0
    MaxEdits = 0
    BleUrls = {}
    MaxSignals = 1
    Nodes = {"n1"}
    Rows <- MCRows
    MaxChanges = 1
    MaxHeard = 1
    MaxTime = 2
INVARIANT GaugesTrue
CHECK_DEADLOCK FALSE
