\* Two connections of up to two displays and one handler task; logins lapse, a
\* write of the store fails, the backend restarts.
SPECIFICATION Spec
CONSTANTS
    Conn = {c1, c2}
    Display = {d1, d2}
    Job = {j1}
    Password = {pw}
    None = None
    Lifetimes <- NeverOrOneDay
    MaxCount = 2
    MaxClock = 2
    MaxSaveErrors = 1
    MaxRestarts = 1
SYMMETRY ConnsAndDisplays
INVARIANT
    GateIsKept
PROPERTIES
    LoginsLast
    ImplementsSessions
