SPECIFICATION MCSpec
CONSTANTS
    t0 = t0
    t1 = t1
    t2 = t2
    Sources = {s1}
    Texts = {t0, t1, t2}
    Chunks <- MCChunks
    Official = {t1, t2}
    Linked = {n1, n2}
    Known = {n1}
    Runs = {r1, r2}
    Calls = {c1, c2}
    None = None
    Jobs = {j1, j2}
    Payloads <- MCPayloads
    Licence = FALSE
    MaxFaults = 2
INVARIANT GuidanceCoherent
INVARIANT JobAccounted
PROPERTY PassedRunIsCurrent
PROPERTY JobsSettle
CHECK_DEADLOCK FALSE
