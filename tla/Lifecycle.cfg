SPECIFICATION FairSpec
CHECK_DEADLOCK FALSE
CONSTANTS
    Actors = {a1, a2}
    a1 = a1
    a2 = a2
    NoActor = NoActor
    Kind <- StartHumanTimer
    Modes <- ThreeModes
    SyncModes = {FALSE}
    ResetWhen = {"suspended"}
    TaskFails = TRUE
    FaultStatus = "error"
    MaxJobs = 1
    MaxRequests = 3
INVARIANT TypeOK
INVARIANT NoLostRun
PROPERTY JobsRespectSuspend
 
