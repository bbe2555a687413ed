CONSTANTS
    Args <- AllArgs
    MaxLife = 2
    MaxNonces = 1
    MaxAmount = 3
    Capacity = 2
    Minute = 3
    Rates = {0, 2}
    MaxEpoch = 2
    MaxElapsed = 2
    MaxOwed = 1
    MaxLost = 2
    MaxUnbacked = 4
SPECIFICATION FairSpec
INVARIANTS
    DialsFreshLinks
    BillsAsMetered
    PaymentsBacked
    AnonymousStaysSealed
    MutedSoon
    LeftUnlessEnded
PROPERTIES
    QuitCompletes
    ConferenceLeaves
CHECK_DEADLOCK FALSE
