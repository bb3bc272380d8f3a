SPECIFICATION FairSpec
CONSTANTS
    Workers = {w1, w2}
    Instances = {i1, i2}
    NoWorker = NoWorker
    NoInstance = NoInstance
    w1 = w1
    w2 = w2
    i1 = i1
    i2 = i2
    MaxAttempts = {2}
    LockDuration = 1
    JobLimit = 0
    MaxDepth = 2
    Crashes = FALSE
    IdentityReuse = FALSE
    SaveStatuses = {"waiting"}
    FaultStatuses = {"error"}
 
PROPERTY DequeueEnds
