CONSTANTS
    Attempts = {p, q}
    NoAttempt = NoAttempt
    Cooldowns = {1, 3}
    Lease = 4
    RenewEvery = 2
    RetryEvery = 1
    MaxFailures = 1
    RedisFails = TRUE
    AdminClears = TRUE
SPECIFICATION FairSpec
INVARIANTS KeptProbeHolds
PROPERTIES ClosedOnlyByItsProbe CooldownKept LeaseEnds
CHECK_DEADLOCK FALSE
