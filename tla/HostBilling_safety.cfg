CONSTANTS
    t1 = t1
    t2 = t2
    p = p
    m = m
    d = d
    c1 = c1
    c2 = c2
    e = e
    Tasks = {t1, t2}
    Products = {p}
    Submitters = {m}
    Submitter <- OneMember
    Cost <- Prices
    Holders = {m, d}
    Draws <- WithDepartment
    Flaky = {t1}
    Calls = {c1, c2, e}
    Settles <- Retries
    Balances = {3}
    Quotas <- Left
SPECIFICATION Spec
INVARIANTS BudgetHolds QuotaHolds SettledIsCharged WindowCostOnce
PROPERTIES ImplementsLedger
SYMMETRY Symmetric
