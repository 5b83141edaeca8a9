SPECIFICATION Spec
CONSTANTS
    r1 = r1
    t1 = t1
    u1 = u1
    c1 = c1
    NoDays = NoDays
    Nobody = Nobody
    NoRow = NoRow
    Runs = {r1}
    TraceOf <- SameTrace
    UserOf <- SameUser
    CaseOf <- SameCase
    Consent = {r1}
    EdtForms = {"date"}
    DaysLeft <- LastCriticalDay
    Routes = {"full_legal_pipeline", "full_legal_pipeline_plus_human_review"}
    DailyLimit = 90
    RequestLimit = 45
    Questions <- FewQuestions
    Replies <- SampleReplies
    Collected <- SampleCollected
    MaxFaults = 0
CHECK_DEADLOCK FALSE
INVARIANT
    OutputInBounds
