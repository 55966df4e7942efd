CONSTANTS
    Tasks = {t1}
    Instances = {a}
    MaxAttempts = 2
    Cap = 1
    Exclusive = TRUE
    Rejects <- AllTypesKnown
    Asked = {"progress", "processing"}
    MaxClaims = 3
    MaxCalls = 1
    MaxCrashes = 0
SPECIFICATION Spec
PROPERTIES TerminalStays
CHECK_DEADLOCK FALSE
