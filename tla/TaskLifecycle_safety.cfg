CONSTANTS
    Tasks = {t1}
    Instances = {a, b}
    MaxAttempts = 2
    Cap = 1
    Exclusive = FALSE
    Rejects <- AllTypesKnown
    Asked = {}
    MaxClaims = 3
    MaxCalls = 0
    MaxCrashes = 2
SPECIFICATION Spec
INVARIANTS GivenUp WithinCap
PROPERTIES TerminalStays
CHECK_DEADLOCK FALSE
