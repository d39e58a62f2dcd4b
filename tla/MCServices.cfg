SPECIFICATION Spec
CONSTANTS
    Focus = {"vmpush", "vlpush", "sse", "search", "ookla", "iperf3", "prune",
             "doc", "access", "sessions", "touch", "targets", "overlap",
             "outages"}
    r1 = r1  r2 = r2  r3 = r3  c1 = c1  c2 = c2  t1 = t1  p1 = p1  p2 = p2
    None = None
    VmSenders = {s1, s2}
    VmRingSize = 1
    VmMaxOffered = 3
    VmMaxEdits = 2
    VmFailedCap = 3
    VlLoggers = {s1, s2}
    VlQueueSize = 2
    VlBatchSize = 2
    VlMaxLines = 5
    VlMaxEdits = 2
    SseClients = {c1, c2}
    SseBufferSize = 1
    SseMaxEvents = 3
    SsRequests = {r1, r2, r3}
    SsKey <- MCKey
    SsPostcodes = {"a", "b"}
    SsWithCountry = {}
    SsBurst = 1
    SsTTL = 2
    SsMaxEntries = 1
    SsInterval = 1
    SsNever = None
    SsMaxNow = 2
    SlRequests = {r1, r2}
    SlNone = None
    SlMaxInvalidated = 2
    I3Urls = {u1, u2}
    I3NoUrl = NoUrl
    I3NoList = NoList
    I3MaxEdits = 2
    I3MaxCalls = 2
    PrRuns = {r1, r2}
    PrResultOf <- MCResultOf
    PrDays = {0, 1}
    PrGone = Gone
    PrBatch = 1
    PrMaxDay = 2
    PrMaxEdits = 1
    PrMaxErrors = 1
    DocClients = {c1, c2}
    DocByToken = {c2}
    DocLocks = {{}, {"tol", "legacy"}}
    DocNil = None
    DocMask = Mask
    DocMaxPuts = 2
    AcClients = {c1, c2}
    AcBearer <- MCBearer
    AcProxy <- MCProxy
    AcAdmins = {c1, c2}
    AcTokens = {t1, t2}
    AcNone = None
    AcMaxWrites = 3
    SnBrowsers = {c1, c2}
    SnConfs <- MCConfs
    SnNone = None
    SnStateTTL = 1
    SnDefaultTTL = 2
    SnMaxNow = 1
    SnMaxEdits = 1
    SnMaxLogins = 2
    SnMaxFaults = 1
    TtRequests = {r1, r2}
    TtTokens = {t1}
    TtNone = None
    TtQueueCap = 1
    TtMaxNow = 3
    TgClients = {c1, c2}
    TgOptions = {r1, r2}
    TgNames = {"wan", "lan", "x"}
    TgNone = None
    TgKeep = 2
    TgMaxTargets = 2
    TgMaxQueues = 3
    TgMaxWrites = 4
    OvOthers = {r1}
    OvSubject = r2
    OvNone = None
    OvWindow = 6
    OvThreshold = 1
    OvMaxFires = 3
    OvMaxTime = 7
    OvMaxLen = 4
    OuTargets = {1, 2}
    OuTimes = {1, 2, 3, 6}
    OuSkips = {2}
    OuGap = 2
    OuMax = 2
    OuNone = None
    OuMaxResults = 3
CHECK_DEADLOCK FALSE
INVARIANTS
    VmSafe
    VlSafe
    SseSafe
    CachesSound
    DocSafe
    AccessSafe
    TablesAgree
    TimesExact
PROPERTIES
    RowsKept
    DocPutExact
