SPECIFICATION SpecEach
CONSTANTS
    Addr = {a, b, c, d}
    MaxChallenges = 3
    MaxTime = 4
INVARIANTS
    GoodUntilCrowdedOut BansAndPenaltiesLast
    KeptForOperators
PROPERTIES NothingOfAnother
CHECK_DEADLOCK FALSE
