\* No crash, no early pick-up, no outage past the TTL, but an account that may
\* stop or start accepting money between two votes.
SPECIFICATION Spec
CONSTANTS
    MaxAttempts = 2
    MaxCrashes = 0
    Faults = {"flaky"}
    Parties = {"credit", "debit"}
CHECK_DEADLOCK FALSE
INVARIANTS
    CreditIsBacked
PROPERTIES
    ImplementsAtomicCommit
