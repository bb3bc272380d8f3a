SPECIFICATION Spec
CONSTANTS
    Workers = {w1, w2}
    w1 = w1
    w2 = w2
    Instances = {i1}
    Receives = {r1, r2}
    Sends = {s1, s2}
    i1 = i1
    i2 = i2
    r1 = r1
    r2 = r2
    r3 = r3
    r4 = r4
    r5 = r5
    i3 = i3
    s1 = s1
    s2 = s2
    Api = {s1, s2}
    Ttl = {s1}
    Owner <- MCOwner
    Correlates <- AllCorrelate
    Starts <- MCStarts
    NoSend = NoSend
    NoReceive = NoReceive
    NoInstance = NoInstance
    Modes = {"synchronous"}
    Closable = {i1}
    Crashes = FALSE
    EngineFails = FALSE
    BrokerFails = FALSE
SYMMETRY SymWorkers
INVARIANT TypeOK
INVARIANT AtMostOnce
INVARIANT RefusedIsFinal
