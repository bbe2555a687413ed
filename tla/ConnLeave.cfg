CONSTANTS
    Base = 2
    HeaderLen = 2
    MAX_FRAME_LEN = 2
    Payload <- MCPayload
    Conns = {1, 2}
    Pending = {}
    QueueCap = 2
    Scripts <- HelloScripts
    Leavers = {2}
    Slow = {}
    Debtors = {}
SPECIFICATION FairSpec
PROPERTIES
    ClientLeaves
CHECK_DEADLOCK FALSE
