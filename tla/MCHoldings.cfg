CONSTANTS
    h1 = h1
    f1 = f1
    p1 = p1
    p2 = p2
    x1 = x1
    c1 = c1
    e1 = e1
    Holdings = {h1}
    FundHoldings = {f1}
    OrderKeys = {o1}
    OtcKeys = {c1}
    PeerKeys = {p1, p2}
    SellerContracts = {p1}
    BuyerContracts = {p2}
    TxKeys = {x1}
    Txns = {t1, t2}
    Credits = {k1}
    Exercises = {e1}
    Quantities = {1, 2}
    Qty = 1
    MaxLost = 1
    None = None
    InitialQuantity <- MCInitialQuantity
    TxOf <- MCTxOf
    HoldingOf <- MCHoldingOf
SPECIFICATION Spec
SYMMETRY Symmetry
CONSTRAINTS
    OneContract
    OneTaker
CHECK_DEADLOCK FALSE
INVARIANTS
    ReservedMatchesRows
    SharesConserved
    EndedIsSettled
    StrikePaidOnce
