SPECIFICATION Spec
CONSTANTS
    c1 = c1
    c2 = c2
    c3 = c3
    Cells <- MCCells
    Home = c1
    HostOf <- MCHostOf
    Crosses <- MCCrosses
    Rank <- MCRank
    LeadTicks = 1
    RetryTicks = 1
    CooldownTicks = 2
    TransferTicks = 0
    Teleports = FALSE
    Lossy = TRUE
    SendDeadline = FALSE
    MaxTick = 2
    MaxEpoch = 2
INVARIANT OneWayInv
PROPERTY ImplementsAuthority
CONSTRAINTS BeforeDespawn OnePostSystemsAtATime
