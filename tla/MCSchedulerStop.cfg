SPECIFICATION Spec
CONSTANTS
    sa = sa  sb = sb  t1 = t1  e1 = e1
    BadSpec = BadSpec  None = None  Main = Main
    Order <- MCOrder1
    InitRows <- MCRows1
    InitTargets <- MCTargets1
    Targets = {t1}
    Specs = {e1}
    Handlers = {h1, h2}
    Fires = {f1}
    MaxEdits = 1
    MaxFailures = 0
CHECK_DEADLOCK FALSE
INVARIANTS
    StoppedStaysStopped
