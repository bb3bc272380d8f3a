SPECIFICATION Spec
CONSTANTS
    Workers = {w1, w2}
    Instances = {i1, i2}
    NoWorker = NoWorker
    NoInstance = NoInstance
    w1 = w1
    w2 = w2
    i1 = i1
    i2 = i2
    MaxAttempts = {1, 2}
    LockDuration = 2
    JobLimit = 1
    MaxDepth = 2
    Crashes = TRUE
    IdentityReuse = FALSE
    SaveStatuses = {"waiting"}
    FaultStatuses = {"error"}
INVARIANT TypeOK
INVARIANT LockAgreement
INVARIANT MutualExclusion
INVARIANT ReleaseFindsLock
PROPERTY OnlyOwnerReleases
PROPERTY RefinesInstanceLock
