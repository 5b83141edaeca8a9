SPECIFICATION FairSpec
CONSTANTS
    w1 = w1
    w2 = w2
    e1 = e1
    e2 = e2
    e3 = e3
    e4 = e4
    NoEvent = NoEvent
    Events = {e1, e2, e3, e4}
    Workers = {w1, w2}
    WorkerId <- SamePid
    KindOf <- KindsOfKeys
    Flaky = {"assessment"}
    Limit = 2
    MaxRetries = 2
    MaxFaults = 1
    MaxStops = 0
    FaultKinds = {"crash"}
PROPERTIES
    CrashIsRedelivered
