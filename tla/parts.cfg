SPECIFICATION Spec
CONSTANTS
    x1 = x1
    x2 = x2
    x3 = x3
    y1 = y1
    y2 = y2
    u1 = u1
    u2 = u2
    NoOne = NoOne
    Links = {"link"}
    Artifacts = {"report"}
    Visits <- Two
    Lifetimes = {1, 3}
    RunExpiry = 2
    LinkLimit = 1
    RouteLimit = 1
    LastMinute = 2
    Asked = {"review"}
    Callers <- Three
    Processes <- Two
    Keys = {"key"}
    Bodies = {"body"}
    PoolSize = 2
    ReviewLimit = 2
    Faults = {"crash", "drop"}
    Evaluators = {"e1", "e2"}
    Labelers = {"w1", "w2"}
    Proposals = {"p1"}
    Labels = {"valid", "dismissed"}
    NoLabel = "none"
    RetentionEnds <- RunsEnd
    ReviewLife = 2
    LastDay = 3
    PurgedRuns = {"r1", "r2", "r3"}
    Sweepers = {"s1", "s2"}
    Pages = {1, 2}
    SweepLimit = 2
    Emails = {u1, u2}
    SupabaseUsers = {"s1", "s2"}
    Clients <- Three
    Tokens = {"t1"}
    Runs = {"r1"}
    Workers <- Three
    Objects = {"report", "screenshot"}
    NoRun = "no run"
    MaxAttempts = 2
    HasStore = TRUE
    Crashable <- Three
    Expiring = {"r1"}
    Screenshots <- Two
    StoredAs <- Stored
    Uploads = {u1}
    ReviewProjects = {"A", "B"}
    MaxReviews = 1
    Organizations = {"o1", "o2"}
    StudioProjects = {"A", "B", "C"}
    OrgOf <- ProjectOrg
    Loads = {1, 2}
    Contracts = {"c1", "c2"}
    Handlers = {1, 2}
    MaxKeys = 3
    BundleFiles = {"report", "result"}
    Result = "result"
    Browsers <- Two
    Hosts = {"site", "mapped", "other"}
    Listed = {"site", "mapped"}
    Addresses = {"public", "mapped"}
    AddressOf <- AddressForms
    MaxTunnels = 1
    Requests = {"d1", "d2"}
    KindsOf <- KindsAsked
    Capabilities <- Devices
    Weights <- FourWeights
    TierFloor = 55
    VerdictFloor = 60
    FanOut = {"comfortRisk"}
    Scripts <- FourScripts
    Grants = {"granted", "denied", "absent"}
    MaxRequests = 1
    Commands <- Two
    WireLimit = 4
    Mentions <- FiveLinks
    HostOf <- Servers
    Landings = {"page", "moved"}
    Sizes = {0, 3}
    MaxAssets = 3
    NominalMass = 5
    AllowPrivate = FALSE
    Sessions <- ManySessions
    Budgets <- AllBudgets
    Durations = {1, 2, 4}
    WindowMs = 5
    MinSamples = 2
    FloorMs = 2
    MaxFrames = 5
    Incidents = {"i1", "i2", "i3"}
    OpenCap = 2
    Batches = {{"f1", "f2", "f3"}, {"f1", "f4"}}
    Contents <- FourFiles
    LastSeen = 2
    Reports <- TwoReports
SYMMETRY PartsSymmetry
CHECK_DEADLOCK FALSE
INVARIANTS
    TypeOK
    SharesHonoured
    PaidCallsJustified
    
    OneFirstWorkspace
    AttemptKeepsItsOwn
    
    AnswersReachTheirCommands
    EgressKept
    PreflightAccountsForPage
    
    
    
