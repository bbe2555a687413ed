CONSTANTS
    ann = ann bert = bert
    Members = {ann, bert}
    System = system
    Backoff <- TwoRetries
    Settings <- AllSettings
SPECIFICATION FairSpec
INVARIANTS
    SessionTypeOK
    NeverStranded
    QuietWhenUnwanted
    ConnectedMeansShaken
PROPERTIES
    NothingRollsBack
    KeepsContract
    GetsThrough
