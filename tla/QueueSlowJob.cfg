SPECIFICATION Spec
CONSTANTS
    Workers = {w1, w2}
    Instances = {i1}
    NoWorker = NoWorker
    NoInstance = NoInstance
    w1 = w1
    w2 = w2
    i1 = i1
    MaxAttempts = {1}
    LockDuration = 1
    JobLimit = 2
    MaxDepth = 1
    Crashes = FALSE
    IdentityReuse = FALSE
    SaveStatuses = {"waiting"}
    FaultStatuses = {"error"}
INVARIANT MutualExclusion
