SPECIFICATION ProcessSpec
CONSTANTS
    LabelKeys = {"site", "relaymesh.x", ""}
    Dotted = {"relaymesh.x"}
    Reserved = {"relaymesh.x"}
    BadKeys = {""}
    LongValues = {"long"}
    MaxLabels = 32
    GoodPins = {"123456"}
    Seconds <- MCSeconds
    Strings <- MCStrings
    Contents <- MCContents
    Pairs <- MCPairs
    FlagArgs <- MCFlagArgs
    MaxPairs = 2
    MaxEdits = 1
    BleUrls = {"ble"}
    MaxSignals = 2
INVARIANT TypeOK LastWordCounts ExitCodeHonest
CHECK_DEADLOCK FALSE
