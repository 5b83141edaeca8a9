SPECIFICATION MCSpec
CONSTANTS
    Users = {u1}
    Passwords = {p1}
    SessionIds = {s1, s2, s3}
    TokenIds = {t1}
    Subjects = {x1}
    Requests = {r1, r2}
    RequireVerified = FALSE
    None = None
    SigningKeys = {"k1"}
    People = {"ann", "bob"}
    CaseIds = {"c1"}
    ResumeTokens = {"t1"}
    Tools = {"tool"}
    Callers = {r1, r2}
    Configs <- SampleConfigs
    Asks <- SampleAsks
    KeyTTL <- OneTick
    FetchLimit = 1
    AccessEnd = 2
    MaxSignals = 1
    Secret = Secret
    Nil = Nil
SYMMETRY Symmetry
CHECK_DEADLOCK FALSE
INVARIANTS
    TokensSpentOnce
PROPERTIES
    RevocationIsPermanent
    WithdrawnKeysDie
    CasesGuarded
