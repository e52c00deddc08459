\* Two panels, four settings, two writes, two troubles.
SPECIFICATION FairSpec
CONSTANTS
    Client = {c1, c2}
    Written <- Followed
    Torn = Torn
    MaxWrites = 2
    MaxTroubles = 2
INVARIANTS
    TypeOK
    FileGoverns
    PanelsShowTheDocument
PROPERTIES
    ImplementsSettings
    DebugEnds
