\* Two executions, lost answers, failing writes, a crash, recovery at any time.
SPECIFICATION Spec
CONSTANTS
    r1 = r1
    r2 = r2
    Runs <- TwoRuns
    Steps = 2
    MaxRetries = 1
    MaxCrashes = 1
    Faults = {"lost", "overlap", "db"}
SYMMETRY Executions
CHECK_DEADLOCK FALSE
INVARIANTS
    RefundsMatchLog
    NoDoubleRefund
