SPECIFICATION Spec
CONSTANTS
    a1 = a1
    j1 = j1  j2 = j2
    q1 = q1  q2 = q2
    c1 = c1  c2 = c2  c3 = c3
    Accounts = {a1}
    Jobs = {j1, j2}
    JobAccount <- MCJobAccount
    Credits = {1, 2}
    Procs = {q1, q2}
    Calls = {c1, c2, c3}
    Generations = {"g"}
    Price <- MCPrice
    Opening <- MCOpening
    MaxAttempts = 2
    MaxCrashes = 1
    MaxFaults = 1
SYMMETRY ImmediateSymmetry
INVARIANTS
    DeliveredIsCharged
    RecordsAreOwn
    AskedWithinAttempts
CHECK_DEADLOCK FALSE
