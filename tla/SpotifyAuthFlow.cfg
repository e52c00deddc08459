\* A panel that asks twice, one trouble.
SPECIFICATION FairSpec
CONSTANTS
    Client = {c1}
    None = None
    Idle = Idle
    MaxFlows = 2
    MaxTroubles = 1
INVARIANTS
    TypeOK
    StatusIsCurrent
    NothingLeftBehind
PROPERTIES
    PortComesFree
