SPECIFICATION FairSpec
CONSTANTS
    self = self
    ship = ship
    pos = pos
    hp = hp
    None = None
    Entities = {self, ship}
    Self = self
    Lively = {ship}
    Fields = {pos, hp}
    Links = {"ws", "udp", "mesh_ws", "mesh_udp"}
    GenSpace = 8
    SeqSpace = 6
    ReceiptTimeout = 2
    AckTimeout = 2
    MaxQueue = 2
    MaxChanges <- OneChange
    MaxFaults <- FewFaults
PROPERTIES
    CatchesUp
CHECK_DEADLOCK FALSE
