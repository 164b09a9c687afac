CONSTANTS
    client = client
    h1 = h1
    h2 = h2
    c1 = c1
    d1 = d1
    Accounts = {client}
    BankAccounts = {}
    Periods = {"daily"}
    OutKeys = {h1, h2}
    InKeys = {c1}
    DebitKeys = {d1}
    KeyAccount <- MCKeyAccount
    KeyAmount <- MCKeyAmount
    InitialBalance <- MCInitialBalance
    Limit <- MCLimit
    Rpcs = {r1, r2}
    MaxCalls = 2
SPECIFICATION HoldsFairSpec
CHECK_DEADLOCK FALSE
INVARIANTS
    EachKeyMovesOnce
    NothingHeldTwice
PROPERTIES
    HoldsEnd
