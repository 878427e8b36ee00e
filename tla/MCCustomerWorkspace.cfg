SPECIFICATION Spec
CONSTANTS
    u1 = u1  u2 = u2  e1 = e1
    c1 = c1  c2 = c2
    None = None
    Users = {u1, u2}
    Extra = {e1}
    Calls = {c1, c2}
    Members <- MCMembers
    Asked <- MCAsked
    Replaced <- MCReplaced
    MaxVersion = 2
    MaxRequests = 5
SYMMETRY CallSymmetry
INVARIANTS
    ScopesAreWorkspaces
    ContextIsOwnAndApproved
PROPERTIES
    BrandsChangeByOwnCommands
CHECK_DEADLOCK FALSE
