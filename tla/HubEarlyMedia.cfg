CONSTANTS
    alice = alice bob = bob carol = carol h1 = h1 h2 = h2 h3 = h3 k1 = k1 k2 = k2
    MaxConns = 2
    Pids = {alice, bob}
    Accounts = {alice, bob}
    Handles = {}
    Keys = {}
    Frames <- EarlyMediaFrames
    DefaultMaxParticipants = 3
    AnonMaxParticipants = 1
    MaxCounter = 1
    TransportFaults = FALSE
    SlowClients = FALSE
SPECIFICATION Spec
INVARIANTS
    PlaintextNeedsKey
CHECK_DEADLOCK FALSE
