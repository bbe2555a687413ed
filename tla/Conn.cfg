CONSTANTS
    Base = 2
    HeaderLen = 2
    MAX_FRAME_LEN = 2
    Payload <- MCPayload
    Conns = {1, 2}
    Pending = {2}
    QueueCap = 2
    Scripts <- MCScripts
    Leavers = {2}
    Slow = {1}
    Debtors = {2}
SPECIFICATION FairSpec
INVARIANTS
    StreamIntact
    EveryDeltaAccounted
    DropsAddUp
    HandlersNeverStall
PROPERTIES
    CloseIsObeyed
    LeavesOnceWritten
CHECK_DEADLOCK FALSE
