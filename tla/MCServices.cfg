SPECIFICATION Spec
CONSTANTS
    e1 = e1
    e2 = e2
    e3 = e3
    Call = {c1, c2, c3}
    Instance = {i1, i2}
    NoInstance = NoInstance
    Limit = 1
    WindowMs = 2
    MaxClock = 3
    Event = {e1}
    ConfidenceOf <- MCConfidenceOf
    ReviewCall = {k1, k2}
    NoRow = NoRow
    JobAttempts = 2
    Nonce = {n1, n2}
    Live = {n1}
    Ambiguous = {n2}
    NoNonce = NoNonce
    RunRequest = {q1, q2}
    LastHour = 3
    DemoFaults = {"abort", "restart"}
    Evidence = {e1, e2, e3}
    Unclear = {}
    Epoch = {"hour"}
    EpochOf <- MCEpochOf
    Confidence <- MCConfidence
    Preview = {e3}
    Reviewer = {r1, r2}
    Wallet = {a1}
    Seeded = {a1}
    Zone = {z1, z2}
    ProviderType = {"sensor"}
    Request = {k1, k2}
    MirrorFaults = {"abort", "audit"}
    Identity = {u1}
    AuthCall = {b1, b2}
    SeedRole <- MCSeedRole
    SessionHours = 1
    MaxHours = 2
    Invocation = {1, 2, 3, 4, 5}
    Runs <- MCRuns
    Unmeasured = Unmeasured
    Message <- MCMessage
    Content <- MCContent
    Instant = {0, 1, 2}
    WindowStart = 1
    WindowEnd = 2
    Named = {"d1"}
    WindowRows = 2
    Unread = Unread
    NoticeKind = {"chain_committed"}
    Outcomes = {"sent"}
    PerPage = 1
    ListLimit = 4
    MaxRows = 4
    Arrivals <- MCArrivals
INVARIANTS
    LimitedOnlyAbove LimitPerStore
    EscalationsStayListed ReviewIsShown
    OneRunPerChallenge PublishedIfAuthorized
    NoApprovalIsLost
    RegistrationIsAudited
    LoweredRoleEnds
    FirstRunPasses
    PagingMissesNothing
    MetadataCountsTheEvidence
CHECK_DEADLOCK FALSE
