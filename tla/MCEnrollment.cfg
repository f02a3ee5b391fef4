SPECIFICATION FairSpec
CONSTANTS
    Agents = {a1}
    Keys = {k1, k2}
    MaxRequests = 5
    MaxInFlight = 2
    TokenUses = 3
    SigningKey = signingKey
    Offers = {signingKey, None}
    Malformed = malformed
    OperatorPin = FALSE
    None = None
INVARIANTS EnrolledIsRegistered KeyFilesAgree PinWasValidated
PROPERTIES WrittenOnce EventuallyInService
