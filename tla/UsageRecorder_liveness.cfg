CONSTANTS
    Records = {r1}
    Instances = {a, b}
    NoClaim = NoClaim
    ChanCap = 1
    SpillCap = 1
    BatchSize = 2
    MaxRetries = 2
    LateRecords = {r1}
    MaxRestarts = 1
SPECIFICATION FairSpec
PROPERTIES RecordsSettle StopReturns WalDrains
CHECK_DEADLOCK FALSE
