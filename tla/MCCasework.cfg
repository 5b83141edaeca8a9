SPECIFICATION MCSpec
CONSTANTS
    Cases = {c1, c2}
    Checkouts = {s1, s2}
    DocIds = {d1, d2}
    DocTypes = {particulars}
    Requests = {r1, r2}
    None = None
    Uploads = {u1}
    Stated = {"dismissal_date", "employer_name"}
    Values = {"typed"}
    Forms <- MCForms
    ReadValue = "read"
    Handlers = {r1, r2}
    NoValue = NoValue
    LeadIds = {l1, l2}
    NoLead = NoLead
    MatterIds = {"m1"}
    Clients = {"ann", "bob"}
    ClientCases = {"c1"}
    CaseOwner <- OwnedByAnn
    EventDates = {1, 4, 8}
    MonthsOf <- PeriodOf
    NoteIds = {"n1", "n2"}
    MaxEvents = 2
    MaxSaves = 1
    Absent = Absent
SYMMETRY Symmetry
CHECK_DEADLOCK FALSE
INVARIANTS
    MoneyAccounted
    OnboardedOnce
    PaidCanDownload
    EvidenceSound
    ReadableWithItsKey
    MattersSound
PROPERTIES
    PaidIsPermanent
