CONSTANTS
    r = r
    s = s
    a = a
    b = b
    Clients = {r, s}
    Replicas = {a, b}
    Writers = {b}
    At <- OneEach
    TTL = 1
    Lag = 1
    Quota = 1
    Limits <- OneSlot
    Leaving = {r}
    Failing = {r}
    Slow = {s}
    MaxUsed = 1
    MaxPeriods = 1
SPECIFICATION Spec
INVARIANTS WithinLimits SlotsReturned
PROPERTIES VerdictsAge PeriodBaseFixed
