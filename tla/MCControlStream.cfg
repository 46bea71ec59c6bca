SPECIFICATION FairSpec
CONSTANTS
    s1 = s1
    s2 = s2
    s3 = s3
    None = None
    Streams = {s1, s2, s3}
    MaxFaults = 2
INVARIANTS
    ServedOrKilled
    DeadIsDown
PROPERTY
    ComesBack
CHECK_DEADLOCK FALSE
