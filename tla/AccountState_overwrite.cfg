CONSTANTS
    Actors = {x, y}
    RateLimits = {1, 2}
    DegradedDefault = 1
    DegradedMax = 3
    Threshold = 2
    StreakTTL = 5
    DbTimeout = 1
    CacheTTL = 2
    MaxStreak = 4
    Fails = FALSE
SPECIFICATION Spec
PROPERTIES DisabledUntilRecovered
CHECK_DEADLOCK FALSE
