CONSTANTS
    MaxNonces = 3
    MaxCopies = 2
    Ahead = 1
    Behind = 2
    MaxGeneration = 1
    Window = 1
    HTTP_TIMEOUT = 1
SPECIFICATION FairSpec
INVARIANTS ActsOnceAsSigned
PROPERTIES OkWasTaken CatchesUp
