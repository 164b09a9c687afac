CONSTANTS
    AcceptSaga = acc
    Attempts = {e1}
    Sagas = {acc, e1}
    Contract = c1
    None = None
    MaxRetries = 2
    MaxCrashes = 2
    MaxRefusals = 2
    MaxBackFails = 1
    MaxMarkFails = 1
    Length <- MCLength
    NoBackward <- MCNoBackward
SPECIFICATION FairSpec
CONSTRAINTS
    FormedFirst
    LogWriteFailsAlone
CHECK_DEADLOCK FALSE
INVARIANTS
    ExercisedIsPaid
    UnwoundIsRestored
    
PROPERTIES
    EverySagaEnds
