\* One execution; refusals and failed compensations, no lost answer.
SPECIFICATION FairSpec
CONSTANTS
    r1 = r1
    r2 = r2
    Runs <- OneRun
    Steps = 4
    MaxRetries = 2
    MaxCrashes = 0
    Faults = {}
CHECK_DEADLOCK FALSE
INVARIANTS
    AllOrNothing
PROPERTIES
    TransferEnds
