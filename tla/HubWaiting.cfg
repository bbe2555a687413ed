CONSTANTS
    alice = alice bob = bob carol = carol h1 = h1 h2 = h2 h3 = h3 k1 = k1 k2 = k2
    MaxConns = 3
    Pids = {alice, bob, carol}
    Accounts = {alice, bob, carol}
    Handles = {}
    Keys = {}
    Frames <- WaitingFrames
    DefaultMaxParticipants = 3
    AnonMaxParticipants = 1
    MaxCounter = 2
    TransportFaults = FALSE
    SlowClients = FALSE
SPECIFICATION Spec
INVARIANTS
    ReservedNeverWait
    UniqueIds
PROPERTIES
    JoinedHostChangeMovesEpoch
    PowerLossJustified
    NoSelfPromotion
CHECK_DEADLOCK FALSE
