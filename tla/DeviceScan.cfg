\* Two panels, two scans, fair scheduling.
SPECIFICATION ScanFairSpec
CONSTANTS
    Panel = {c1, c2}
    Scan = {s1, s2}
    NoScan = NoScan
INVARIANTS
    ScanTypeOK
    ScansKeepTheirDuties
PROPERTY
    EverySilenceIsAnswered
