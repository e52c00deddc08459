\* A revocation racing a login of the same display.
SPECIFICATION Spec
CONSTANTS
    Conn = {c1, c2}
    Display = {d1, d2}
    Job = {j1}
    Password = {pw}
    None = None
    Lifetimes <- OneDay
    MaxCount = 2
    MaxClock = 1
    MaxSaveErrors = 0
    MaxRestarts = 0
INVARIANT
    RevokedAreClosed
