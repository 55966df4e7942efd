CONSTANTS
    r = r
    s = s
    a1 = a1
    a2 = a2
    Requests = {r, s}
    Accounts = {a1, a2}
    Nobody = Nobody
    NoAccount = NoAccount
    Routes <- TwoKeys
    Outcomes <- TwoUpstreams
    Limited = {a1}
    MaxRPM <- One
    MaxSlots <- One
    Cancelling = {r}
    Crashing = {s}
    Slow = {}
    Failing = {s}
    MaxErrors = 1
    MaxMinutes = 1
SPECIFICATION FairSpec
INVARIANTS NothingOvercounted QuotaKept AttemptsCleanUp AccountLimit RecordedOnce
PROPERTIES RequestsEnd
CHECK_DEADLOCK FALSE
