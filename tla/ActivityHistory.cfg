\* Six instants, three to an hour; a gap of two.
SPECIFICATION Spec
CONSTANTS
    Kinds = {"trip", "session"}
    Gap = 2
    MinAmount = 1
    Hour = 3
    Starts = {1}
    Horizon = 5
    MaxPoints = 3
    MaxAmount = 3
    MaxLag = 1
    Asks = {3, 5}
    State = {"P", "Q", "D"}
    IdleStates = {"P", "Q"}
    MaxTroubles = 1
INVARIANTS
    TypeOK
    RunsAreFound
    CountedOnce
    ReadingsAgree
PROPERTIES
    ListedStay
CHECK_DEADLOCK FALSE
