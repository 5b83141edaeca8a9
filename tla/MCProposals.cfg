SPECIFICATION FairProposalsSpec
CONSTANTS
    w1 = w1
    w2 = w2
    p1 = p1
    e1 = e1
    e2 = e2
    e3 = e3
    NoEvent = NoEvent
    Events = {p1, e1, e2, e3}
    ProposalIds = {p1}
    Workers = {w1, w2}
    WorkerId <- SamePid
    KindOf <- KindsOfKeys
    Flaky = {"assessment"}
    Limit = 2
    MaxRetries = 2
    MaxFaults = 2
    MaxErrors = 1
    MaxStops = 1
    FaultKinds = {"crash", "claim", "write"}
INVARIANTS
    ClaimExclusive
    EffectAtMostOnce
    StrandedOnlyByFaults
    ApprovalAtomic
    OkMeansApproved
PROPERTIES
    ImplementsLifecycle
    ApprovalDeadLetters
    NeverStarved
