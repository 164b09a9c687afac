CONSTANTS
    client = client
    bank = bank
    o1 = o1
    o2 = o2
    o3 = o3
    Accounts = {client, bank}
    BankAccounts = {bank}
    Periods = {"daily"}
    Orders = {o1, o2, o3}
    Txns = {t1, t2}
    Keys = {k1, k2}
    Amounts = {1, 2}
    NoSettlement = NoSettlement
    Limit <- MCLimit
    AccountOf <- MCAccountOf
    InitialBalance <- MCInitialBalance
SPECIFICATION Spec
SYMMETRY Symmetry
INVARIANTS
    TypeOK
    ReservedIsOutstanding
    AvailableIdentity
    ClientNeverOverdrawn
    LedgerReconciles
    SettledTotalsAgree
