SPECIFICATION Spec
CONSTANTS
    a1 = a1
    k1 = k1
    q1 = q1  q2 = q2
    c1 = c1  c2 = c2  c3 = c3
    Accounts = {a1}
    Jobs = {k1}
    JobAccount <- MCJobAccount
    Credits = {1}
    Procs = {q1, q2}
    Calls = {c1, c2, c3}
    Variants = {v1}
    Briefs = {b1, b2}
    Texts = {x1, x2}
    Price = 1
    Opening <- MCOpening
    MaxVersion = 2
    MaxCrashes = 1
    MaxFaults = 2
SYMMETRY GenerationSymmetry
INVARIANTS
    ChargedIsSaved
    DeliveredAsRequested
CHECK_DEADLOCK FALSE
