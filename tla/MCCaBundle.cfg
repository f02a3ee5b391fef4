SPECIFICATION BundleSpec
CONSTANTS
    a = a
    b = b
    s1 = s1
    s2 = s2
    Absent = Absent
    KeyPool <- MCKeyPool
    KeyLists <- MCKeyLists
    SigningKeys <- MCSigningKeys
    PinChoices <- MCPinChoices
    MaxKeys = 2
    Grace = 1
    MaxTime = 3
    MaxEdits = 2
    MaxSigns = 1
    MaxDeliveries = 2
INVARIANTS
    AcceptedWasSigned
    FingerprintIdentifiesFile
    AcceptedIsUsable
PROPERTY
    ContentJudgedOnlyIfSigned
CHECK_DEADLOCK FALSE
