\* Crashes, early pick-up and sweeps past the TTL; votes are stable.
SPECIFICATION FairSpec
CONSTANTS
    MaxAttempts = 1
    MaxCrashes = 1
    Faults = {"early", "outage"}
    Parties = {"credit"}
CHECK_DEADLOCK FALSE
INVARIANTS
    ReportedIsDone
PROPERTIES
    ImplementsAtomicCommit
    PaymentEnds
