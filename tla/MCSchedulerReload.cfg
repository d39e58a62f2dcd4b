SPECIFICATION Spec
CONSTANTS
    sa = sa  sb = sb  t1 = t1  e1 = e1
    BadSpec = BadSpec  None = None  Main = Main
    Order <- MCOrder
    InitRows <- MCRows
    InitTargets <- MCTargets
    Targets = {t1}
    Specs = {e1}
    Handlers = {h1, h2}
    Fires = {f1}
    MaxEdits = 2
    MaxFailures = 1
SYMMETRY HandlerSymmetry
CHECK_DEADLOCK FALSE
INVARIANTS
    TypeOK
    NoLeak
    SettledMatchesStore
    NextIsOwn
    FireIsAnswered
