\* Two panels, one stick, one trouble.
SPECIFICATION FairSpec
CONSTANTS
    Client = {c1, c2}
    d1 = d1
    Device = {d1}
    Content <- Camera
    Earlier <- OtherCamera
    None = None
    MaxFlows = 1
    MaxTroubles = 1
INVARIANTS
    TypeOK
    MountsAreOnRecord
    PhotosAreKept
PROPERTIES
    DoneMeansImported
    NothingWaitsForever
