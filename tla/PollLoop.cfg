SPECIFICATION FairSpec
CONSTANTS
    HeartbeatInterval = 2
    SyncInterval = 6
    Jitter = 1
    HeartbeatTime = 2
    SyncTime = 2
    Step = 2
    MaxSetBack = 1
    MaxSetForward = 1
INVARIANTS HeartbeatsInTime SyncsInTime ShutdownIsPrompt
PROPERTIES NoIdleCycles SignalEndsLoop
CHECK_DEADLOCK FALSE
