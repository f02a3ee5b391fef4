SPECIFICATION FairSpec
CONSTANTS
    k1 = k1
    k2 = k2
    s1 = s1
    s2 = s2
    None = None
    KeySets <- MCKeySets
    Signers <- MCOneSigner
    ServerSigner = s1
    OperatorPin = None
    EnrollmentPin = None
    MaxGeneration = 3
    Backlog = 2
    HonestServer = TRUE
INVARIANTS
    NotModifiedIsTruthful
    RecordedBundleInstalled
PROPERTIES
    HostNeverRegresses
    Converges
