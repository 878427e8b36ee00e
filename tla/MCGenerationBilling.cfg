SPECIFICATION FairSpec
CONSTANTS
    a1 = a1
    j1 = j1  j2 = j2
    q1 = q1  q2 = q2
    c1 = c1  c2 = c2
    Accounts = {a1}
    Jobs = {j1, j2}
    Deferred = {j2}
    Procs = {q1, q2}
    Calls = {c1, c2}
    Credits = {1, 2}
    JobAccount <- MCJobAccount
    Price <- MCPrice
    Opening <- MCOpening
    MaxCrashes = 1
    MaxFaults = 2
INVARIANTS
    DeliveredIsCharged
    PromisesAgreeWithLedger
    SettledAsEarned
    ProviderRunsReserved
PROPERTIES
    CallsEnd
    HoldsEnd
CHECK_DEADLOCK FALSE
