SPECIFICATION Spec
CONSTANTS
    h1 = h1
    h2 = h2
    h3 = h3
    P = P
    C1 = C1
    C2 = C2
    C3 = C3
    e1 = e1
    e2 = e2
    e3 = e3
    NoHost = NoHost
    Parent = P
    Hosts = {h1, h2}
    Children <- ThreeChildren
    Layouts <- Either
    Kinds = {"split", "merge", "migrate"}
    Entities = {e1}
    Newcomers = {}
    MaxRequests = 2
    CallersWait = TRUE
    Failing = {"migrate"}
    DeadlineExpires = FALSE
    SameTick = TRUE
INVARIANTS
    
    CommitCarriesState
    
CHECK_DEADLOCK FALSE
