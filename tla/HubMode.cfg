CONSTANTS
    alice = alice bob = bob carol = carol h1 = h1 h2 = h2 h3 = h3 k1 = k1 k2 = k2
    MaxConns = 3
    Pids = {alice, bob}
    Accounts = {alice}
    Handles = {h1, h2, h3}
    Keys = {k1, k2}
    Frames <- ModeFrames
    DefaultMaxParticipants = 3
    AnonMaxParticipants = 2
    MaxCounter = 1
    TransportFaults = TRUE
    SlowClients = FALSE
SPECIFICATION Spec
INVARIANTS
    ModesApart
    AnonRosterSound
    SealedRelaySound
PROPERTIES
    ClosedDoor
CHECK_DEADLOCK FALSE
