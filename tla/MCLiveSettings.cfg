SPECIFICATION Spec
CONSTANTS
    tz = tz  quiet = quiet  mode = mode  issuer = issuer
    None = None
    Keys = {tz, quiet, mode, issuer}
    Class <- MCClass
    ModeKey = mode
    OidcKeys = {issuer}
    InitDb <- MCInit
    Bodies <- MCBodies
    Writers = {w1, w2}
    OutCap = 1
    MaxPuts = 2
    MaxTrouble = 1
SYMMETRY WriterSymmetry
CHECK_DEADLOCK FALSE
INVARIANTS
    TypeOK
    NoChangeLost
    ProviderCurrent
