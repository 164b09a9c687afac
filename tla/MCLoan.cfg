\* Refusals, lost answers, failing writes and a crash, at most two together.
SPECIFICATION FairSpec
CONSTANTS
    c1 = c1
    c2 = c2
    None = None
    Sagas = {c1, c2}
    Length <- MCLength
    NoBackward = {}
    MaxRetries = 1
    MaxCrashes = 1
    MaxRefusals = 2
    MaxBackFails = 1
    MaxMarkFails = 1
    Months = 2
    Rates = {1}
    MaxLost = 1
    MaxDbFails = 2
CONSTRAINT FewFaults
CHECK_DEADLOCK FALSE
INVARIANTS
    OneLoanDisbursedOrUndone
    InstallmentIsWhole
    InstallmentsFollowLoan
PROPERTIES
    DisbursementEnds
