SPECIFICATION Spec
CONSTANTS
    t1 = t1  s1 = s1  s2 = s2
    None = None  Empty = Empty  Gone = Gone
    Targets = {t1}
    Speeds = {"download"}
    Delays = {}
    Docs <- MCDocs
    Confs <- MCConfs
    Results <- MCResults
    Senders = {s1, s2}
    QueueCap = 1
    Day = 3
    MaxNow = 3
    MaxOffered = 3
    MaxTrouble = 1
SYMMETRY SenderSymmetry
CHECK_DEADLOCK FALSE
INVARIANTS
    TypeOK
    FiringIsCurrent
    ResultsAccounted
PROPERTIES
    AlertProtocol
