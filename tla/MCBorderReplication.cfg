SPECIFICATION FairSpec
CONSTANTS
    west = west
    east = east
    south = south
    None = None
    Sources = {west, east}
    Receiver = south
    Home = west
    EpochSpace = 6
    FirstEpoch = 4
    FullTails = 3
    Resync = 4
    TTL = 5
    LeadTicks = 2
    MaxChanges = 1
    Budgets <- MCBudgets
INVARIANT
    NeverBare
PROPERTIES
    
    PromoteFresh
    ReplicaConverges
