CONSTANTS
    Instances = {a, b}
    Nobody = Nobody
    TTL = 6
    Period = 2
    MaxDelay = 1
    MaxErrors = 2
SPECIFICATION FairSpec
INVARIANTS OneLeader
PROPERTIES Succession
CHECK_DEADLOCK FALSE
