SPECIFICATION Spec
CONSTANTS
    s1 = s1  s2 = s2
    p1 = p1  p2 = p2
    beta = beta
    Subs = {s1, s2}
    Beta = beta
    Policy <- MCPolicy
    Procs = {p1, p2}
    MaxEvents = 3
    MaxPeriod = 2
    MaxFaults = 1
SYMMETRY StripeSymmetry
INVARIANTS
    OneServing
    MappedTogether
    Converged
    AcknowledgedIsApplied
    DoubleAppliesAlike
PROPERTY NeverRevived
CHECK_DEADLOCK FALSE
