CONSTANTS
    Records = {r1, r2}
    Instances = {a, b}
    NoClaim = NoClaim
    ChanCap = 1
    SpillCap = 1
    BatchSize = 2
    MaxRetries = 2
    LateRecords = {r2}
    MaxRestarts = 2
SPECIFICATION Spec
SYMMETRY Symmetry
INVARIANTS ChargedOnceIffLogged OneCopy StopStrandsNothing ImportsAccountedFor
PROPERTIES NeverForgotten WalKeepsUntilLogged ImplementsLedger
CHECK_DEADLOCK FALSE
