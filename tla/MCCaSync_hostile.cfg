SPECIFICATION Spec
CONSTANTS
    k1 = k1
    k2 = k2
    s1 = s1
    s2 = s2
    None = None
    KeySets <- MCKeySets
    Signers <- MCSigners
    ServerSigner = s1
    OperatorPin = None
    EnrollmentPin = s1
    MaxGeneration = 2
    Backlog = 2
    HonestServer = FALSE
INVARIANTS
    RecordsNeverAhead
    Handover
    OnlyAnchoredBundles
PROPERTIES
    RecordNeverRegresses
    ImplementsRollout
