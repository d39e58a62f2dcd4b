SPECIFICATION Spec
CONSTANTS
    r1 = r1  r2 = r2
    t1 = t1  t2 = t2
    qa = qa  qb = qb
    c1 = c1  c2 = c2
    s1 = s1
    Main = Main
    None = None
    Runs = {r1, r2}
    Targets = {t1, t2}
    Queues = {qa}
    Clients = {c1}
    Schedules = {s1}
    QueueOf <- MCQueueOf1
    Enabled = {t1, t2}
    Requests <- MCRequests
    QueueCap = 1
    MaxFailures = 1
    MaxCrashes = 1
    Panics = TRUE
    Stops = FALSE
SYMMETRY RunSymmetry
CHECK_DEADLOCK FALSE
INVARIANTS
    TypeOK
    NothingStranded
    OneGoodRow
PROPERTIES
    RefinesLifecycle
