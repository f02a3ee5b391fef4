SPECIFICATION Spec
CONSTANTS
    Agents = {a1}
    Keys = {k1, k2}
    MaxRequests = 3
    MaxInFlight = 1
    TokenUses = 1
    SigningKey = signingKey
    Offers = {signingKey}
    Malformed = malformed
    OperatorPin = FALSE
    None = None
SYMMETRY KeySymmetry
INVARIANTS PinnedAtEnrollment
