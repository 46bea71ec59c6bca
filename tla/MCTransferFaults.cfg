SPECIFICATION FairSpec
CONSTANTS
    h1 = h1
    h2 = h2
    h3 = h3
    P = P
    C1 = C1
    C2 = C2
    C3 = C3
    e1 = e1
    e2 = e2
    e3 = e3
    NoHost = NoHost
    Parent = P
    Hosts = {h1, h2}
    Children <- TwoChildren
    Layouts <- Either
    Kinds = {"split", "merge", "migrate"}
    Entities = {e1, e2, e3}
    Newcomers = {e3}
    MaxRequests = 1
    CallersWait = TRUE
    Failing = {"split", "merge", "migrate"}
    DeadlineExpires = TRUE
    SameTick = TRUE
INVARIANTS
    OwnerServes
    
PROPERTIES
    TransfersEnd
CHECK_DEADLOCK FALSE
