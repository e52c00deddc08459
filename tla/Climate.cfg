\* Two requests in flight, two setpoints, fair scheduling.
SPECIFICATION ClimateFairSpec
CONSTANTS
    Request = {r1, r2}
    NoState = NoState
    MaxSetpoint = 1
INVARIANTS
    StaleFramesStayHidden
    LimitIsExact
PROPERTY
    ClimateRecovers
