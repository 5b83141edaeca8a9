SPECIFICATION MCSpec
CONSTANTS
    Callers = {c1, c2, c3}
    FailMax = 2
    ResetTimeout = 2
    Acts = {"LAS"}
    SourceActs = {"LAS"}
    Versions <- MCVersions
    Sections <- MCSections
    Candidates = {"probation"}
    ActOf <- MCActOf
    Literal <- MCLiteral
    NoText = NoText
    Undated = Undated
    Unstated = Unstated
    Edts <- MCEdts
    Limits = {3}
    Before = 15
    After = 2
    Offsets <- MCOffsets
    Assessments <- MCAssessments
    Domains <- MCDomains
    Rule <- MCRule
    MaxMissing = 1
    Days = {20120406, 20140406, 20210406, 20250405, 20250406, 20260405, 20260406, 20270101}
INVARIANTS
    SwedishPackSound
    CountMatchesState
PROPERTIES
    DeadlinesSound
    FollowsTheModel
    VerdictsSound
    RuleTableSound
CHECK_DEADLOCK FALSE
