SPECIFICATION FairSpec
CONSTANTS
    SeqMod = 12
    Ring = 3
    Window = 1
    MaxAge = 1
    Scenes <- MCScenes
    MaxMsgs = 4
    MaxFails = 1
    MaxInFlight = 2
INVARIANTS AtMostOnce NothingLost AckFresh OneGoodbye
PROPERTY RingDrains
CHECK_DEADLOCK FALSE
