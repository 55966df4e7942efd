CONSTANTS
    Tasks = {t1}
    Instances = {a, b}
    MaxAttempts = 1
    Cap = 1
    Exclusive = TRUE
    Rejects <- OneOlder
    Asked = {"retrying", "failed"}
    MaxClaims = 1
    MaxCalls = 1
    MaxCrashes = 1
SPECIFICATION FairSpec
INVARIANTS FailureRecordedOnce
PROPERTIES TasksEnd
CHECK_DEADLOCK FALSE
