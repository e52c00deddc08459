\* Two connections under fair scheduling.
SPECIFICATION FairSpec
CONSTANTS
    Conn = {c1, c2}
    Display = {d1}
    Job = {j1}
    Password = {pw}
    None = None
    Lifetimes <- OneDay
    MaxCount = 2
    MaxClock = 2
    MaxSaveErrors = 0
    MaxRestarts = 0
PROPERTY
    ConnectionsMoveOn
