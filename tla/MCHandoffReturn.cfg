SPECIFICATION FairSpec
CONSTANTS
    c1 = c1
    c2 = c2
    Cells <- MCCells
    Home = c1
    HostOf <- OneHost
    Crosses <- BothWays
    LeadTicks = 2
    RetryTicks = 2
    CooldownTicks = 1
    TransferTicks = 1
    Teleports = TRUE
    Lossy = TRUE
    SendDeadline = FALSE
    MaxLag = 1
    MaxTick = 7
    MaxEpoch = 3
CONSTRAINT OnePostSystemsAtATime
INVARIANTS  DualIsClosing
ACTION_CONSTRAINT KeepTime
PROPERTY Settles
