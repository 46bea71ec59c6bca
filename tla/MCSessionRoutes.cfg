SPECIFICATION FairSpec
CONSTANTS
    h1 = h1
    h2 = h2
    c1 = c1
    c2 = c2
    c3 = c3
    c4 = c4
    Hosts = {h1, h2}
    Cells = {c1, c2, c3, c4}
    Layout <- TwoHosts
    MaxMoves = 2
    MaxBlips = 1
    MaxLost = 1
INVARIANT EpochNamesRoute
 
 
 
CHECK_DEADLOCK FALSE
