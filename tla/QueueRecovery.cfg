SPECIFICATION FairSpec
CONSTANTS
    Workers = {w1, w2}
    Instances = {i1}
    NoWorker = NoWorker
    NoInstance = NoInstance
    w1 = w1
    w2 = w2
    i1 = i1
    MaxAttempts = {1, 2}
    LockDuration = 1
    JobLimit = 1
    MaxDepth = 1
    Crashes = TRUE
    IdentityReuse = TRUE
    SaveStatuses = {"waiting"}
    FaultStatuses = {"error"}
PROPERTY CrashedLockRecovered
