SPECIFICATION Spec
CONSTANTS
    s1 = s1  s2 = s2
    p1 = p1  p2 = p2
    beta = beta
    Subs = {s1}
    Beta = beta
    Policy <- MCPolicy
    Procs = {p1}
    MaxEvents = 4
    MaxPeriod = 2
    MaxFaults = 1
INVARIANT GrantedOncePerInvoice
CHECK_DEADLOCK FALSE
