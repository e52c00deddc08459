\* Two clients that apply, room for two runs, three commits.
SPECIFICATION FairSpec
CONSTANTS
    Client = {c1, c2}
    Run = {r1, r2}
    Commit = {v1, v2, v3}
    Mixed = Mixed
    None = None
INVARIANTS
    OneRunAndItIsTold
    RestartsAreSafe
    FailuresArePutBack
PROPERTY
    GatesOpenAgain
