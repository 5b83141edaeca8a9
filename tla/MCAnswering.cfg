SPECIFICATION MCSpec
CONSTANTS
    Calls = {1, 2}
    TraceOf <- OneTrace
    Asks <- SampleAsks
    Replies <- SampleReplies
    Collected <- SampleCollected
    MaxFaults = 1
    NoRow = NoRow
    NoDays = NoDays
    Passages = {"s1", "s2", "j1"}
    RuleRefs <- OneRule
    KindOf <- KindsOfAuthorities
    Local = {"s1", "j1"}
    Named = {"j1"}
    K = 2
    MaxChanges = 1
    Nodes = {"n0", "n1", "n2", "n3"}
    Root = "n0"
    LocalNodes = {"n0", "n1", "n2"}
    NodeKind <- KindsOfNodes
    Prerequisites = {"n1"}
    Shapes <- SampleShapes
    MaxDepth = 2
    GraphTTL = 1
    GraphEnd = 2
    MaxEdits = 1
    Chunks = {"c1"}
    Searches = {1, 2}
    SearchTTL = 1
    SearchEnd = 2
    MaxOutages = 1
    Keys = {"k1", "k2"}
    Maxsize = 1
    TTL = 2
    Requests = {1, 2}
    Checks = {1, 2, 3}
    Ids = {"i1", "i2"}
    MaxTime = 3
    MaxVersion = 1
    MaxFailures = 1
    Nobody = Nobody
    NoEntry = NoEntry
CHECK_DEADLOCK FALSE
INVARIANTS
    PassIsEarned
    DraftsSound
    BundleSound
    GraphAnswersHonest
    SearchHonest
    CachesHonest
