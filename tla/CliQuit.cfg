CONSTANTS
    Args <- QuitArgs
    MaxLife = 2
    MaxNonces = 1
    MaxAmount = 3
    Capacity = 2
    Minute = 3
    Rates = {0, 2}
    MaxEpoch = 1
    MaxElapsed = 2
    MaxOwed = 1
    MaxLost = 2
    MaxUnbacked = 4
SPECIFICATION FairSpec
PROPERTIES
    LeavesOnDisconnect
CHECK_DEADLOCK FALSE
