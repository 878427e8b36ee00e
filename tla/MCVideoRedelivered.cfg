SPECIFICATION Spec
CONSTANTS
    a1 = a1
    j1 = j1
    q1 = q1  q2 = q2
    c1 = c1  c2 = c2  c3 = c3
    Accounts = {a1}
    Jobs = {j1}
    JobAccount <- MCJobAccount
    Credits = {1}
    Procs = {q1, q2}
    Calls = {c1, c2, c3}
    Price = 1
    Opening <- MCOpening
    MaxCrashes = 1
    MaxFaults = 1
SYMMETRY VideoSymmetry
INVARIANT ReleasedHasFailed
CHECK_DEADLOCK FALSE
