CONSTANTS
    alice = alice bob = bob h1 = h1 k1 = k1
    MaxConns = 2
    Pids = {alice, bob}
    Accounts = {alice, bob}
    Handles = {h1}
    Keys = {k1}
    Frames <- BillingFrames
    DefaultMaxParticipants = 3
    AnonMaxParticipants = 1
    MaxCounter = 1
    TransportFaults = FALSE
    SlowClients = FALSE
    Minute = 4
    DefaultRate = 3
    AnonFee = 2
    Grace = 4
    MaxStale = 1
    FreeCalls = FALSE
    HashRequired = TRUE
    MaxNano = 4
    Times = {1, 4}
SPECIFICATION BillingSpec
INVARIANTS
    ChargedFairly
PROPERTIES
    DefaultersTold
    EnforcedFairly
CHECK_DEADLOCK FALSE
