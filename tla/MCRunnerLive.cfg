SPECIFICATION FairSpec
CONSTANTS
    r1 = r1  r2 = r2
    t1 = t1  t2 = t2
    qa = qa  qb = qb
    c1 = c1  c2 = c2
    s1 = s1
    Main = Main
    None = None
    Runs = {r1, r2}
    Targets = {t1}
    Queues = {qa}
    Clients = {c1}
    Schedules = {s1}
    QueueOf <- MCQueueOf0
    Enabled = {t1}
    Requests <- MCSingle
    QueueCap = 1
    MaxFailures = 0
    MaxCrashes = 0
    Panics = TRUE
    Stops = TRUE
CHECK_DEADLOCK FALSE
INVARIANTS
    ShutdownSafe
PROPERTIES
    EveryRunEnds
    ShutdownReturns
