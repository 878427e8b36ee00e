SPECIFICATION FairSessionSpec
CONSTANTS
    a1 = a1  a2 = a2
    j1 = j1
    s1 = s1  s2 = s2
    k1 = k1  k2 = k2  k3 = k3  k4 = k4
    p1 = p1
    pay1 = pay1
    NoTerms = NoTerms
    NoOrigin = NoOrigin
    NoRequest = NoRequest
    NoIntent = NoIntent
    Accounts = {a1, a2}
    Jobs = {j1}
    Credits = {1, 2}
    Keys = {k1, k2, k3, k4}
    Periods = {p1}
    Payments = {pay1}
    Evidence <- MCEvidence
    JobAccount <- MCJobAccount
    Terms <- MCTerms
    Sessions = {s1, s2}
    Requests <- MCRequests
INVARIANTS
    KeysAreGlobal
    AnswersAreDurable
PROPERTIES
    ImplementsCreditAccount
    EveryCallEnds
CHECK_DEADLOCK FALSE
