SPECIFICATION BothSpec
CONSTANTS
    a1 = a1
    j1 = j1  j2 = j2
    k1 = k1  k2 = k2  k3 = k3  k4 = k4
    p1 = p1  p2 = p2
    pay1 = pay1
    NoTerms = NoTerms
    NoOrigin = NoOrigin
    Accounts = {a1}
    Jobs = {j1, j2}
    Credits = {1, 2}
    Keys = {k1, k2, k3, k4}
    Periods = {p1, p2}
    Payments = {pay1}
    JobAccount <- MCJobAccount
    Terms <- MCTerms
    Evidence <- MCEvidence
SYMMETRY KeySymmetry
INVARIANTS
    ReservedIsOutstanding
    SettlementsMatchOrigin
    EffectsHappenOnce
    HoldsStaySettleable
    DoubleAnswersAlike
    OnlyStaleHoldsReported
PROPERTIES
    ImplementsCreditAccount
    DatabaseAcceptsEntries
CHECK_DEADLOCK FALSE
