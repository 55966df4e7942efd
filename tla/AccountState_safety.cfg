CONSTANTS
    Actors = {x, y}
    RateLimits = {1, 2}
    DegradedDefault = 2
    DegradedMax = 3
    Threshold = 2
    StreakTTL = 5
    DbTimeout = 1
    CacheTTL = 2
    MaxStreak = 3
    Fails = TRUE
SPECIFICATION FairSpec
INVARIANTS StreakOutlivesDegradation
PROPERTIES StaleViewEnds
CHECK_DEADLOCK FALSE
