SPECIFICATION FairSpec
CONSTANTS
    Tokens = {t1, t2}
    b1 = b1
    b2 = b2
    b3 = b3
    Methods = {"Ping", "VerifyState", "ApplyBundle"}
    Bodies <- MCBodies
    Size <- MCSize
    MAX_BODY_BYTES = 2
    Backlog = 1
    None = None
INVARIANTS ResultsTellTheTruth
PROPERTIES ChannelRecovers ImplementsExchange
