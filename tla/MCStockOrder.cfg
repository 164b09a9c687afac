CONSTANTS
    Placement = pl
    Txns = {t1, t2, t3, t4, t5, t6}
    Sagas = {pl, t1, t2, t3, t4, t5, t6}
    Quantity = 2
    Buffer = 1
    MaxFailures = 2
    None = None
    MaxRetries = 1
    MaxCrashes = 1
    MaxRefusals = 2
    MaxBackFails = 1
    MaxMarkFails = 1
    Length <- MCLength
    NoBackward <- MCNoBackward
SPECIFICATION FairSpec
CONSTRAINTS
    FewFaults
    QuietPlacement
    DisturbedDuringFills
CHECK_DEADLOCK FALSE
INVARIANTS
    FillIsWhole
    FilledExactly
    ClosedHoldsNothing
PROPERTIES
    VerdictStandsUndisturbed
    OrderEnds
