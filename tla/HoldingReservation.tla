------------------------ MODULE HoldingReservation ------------------------
(***************************************************************************)
(* stock-service's HoldingReservationService: the shares held for sell     *)
(* orders, for the OTC contracts of this bank and for the option contracts *)
(* and NEW_TX votes shared with a peer bank, next to the writers of the    *)
(* holding row that know nothing of reservations: the share credits of the *)
(* holding repositories, their reversal and ExerciseOption.                *)
(*                                                                         *)
(* Every operation is one database transaction under the lock of the       *)
(* reservation row and of the holding row, so each is one action.  Calls   *)
(* that change nothing (replays, rejections) are stuttering steps.         *)
(***************************************************************************)
EXTENDS Integers, FiniteSets

CONSTANTS
    Holdings,       \* rows of holdings
    FundHoldings,   \* rows of fund_holdings
    OrderKeys,      \* sell orders
    OtcKeys,        \* OTC contracts between two clients of this bank
    PeerKeys,       \* option contracts shared with a peer bank
    TxKeys,         \* crossbank_tx_id of a NEW_TX this bank voted on
    Txns,           \* order_transaction_id of sell fills
    Credits,        \* idempotency keys of share credits
    Exercises,      \* calls of ExerciseOption that take shares
    Quantities,     \* quantities callers use
    InitialQuantity,
    None            \* no row, no link

Keys == OrderKeys \cup OtcKeys \cup PeerKeys \cup TxKeys
Rows == Holdings \cup FundHoldings

(* Shares are credited under a marker, or by the exercise of the contract. *)
CreditIds == Credits \cup PeerKeys

(* A settlement carries the fill's order_transaction_id, or an id derived  *)
(* from the contract: one settlement per contract.                         *)
SettlementIds == Txns \cup OtcKeys \cup PeerKeys

ASSUME HoldingAssumption ==
    /\ IsFiniteSet(Keys) /\ IsFiniteSet(SettlementIds) /\ IsFiniteSet(CreditIds)
    /\ IsFiniteSet(Exercises)
    /\ Holdings \cap FundHoldings = {}
    /\ OrderKeys \cap OtcKeys = {} /\ OrderKeys \cap PeerKeys = {} /\ OrderKeys \cap TxKeys = {}
    /\ OtcKeys \cap PeerKeys = {} /\ OtcKeys \cap TxKeys = {} /\ PeerKeys \cap TxKeys = {}
    /\ Txns \cap (OtcKeys \cup PeerKeys) = {} /\ Credits \cap PeerKeys = {}
    /\ Quantities \subseteq Nat \ {0}
    /\ InitialQuantity \in [Rows -> Nat]
    /\ None \notin Keys \cup Rows

VARIABLES
    hold,           \* holding rows: quantity and reserved_quantity
    res,            \* holding_reservations, by the key they were created under
    link,           \* peer_option_contract_id written on a crossbank_tx_id row
    stl,            \* holding_reservation_settlements
    credit,         \* share credits: holding_credit_markers, exercised contracts
    sold,           \* shares ExerciseOption took out of a holding row
    severed,        \* reservations whose holding row was deleted
    undercut,       \* history: rows that lost shares a reservation held
    shortfall       \* history: shares a reversal did not find

cutVars == <<sold, severed, undercut, shortfall>>
holdingVars == <<hold, res, link, stl, credit, cutVars>>

NoRow == [status |-> "none", holding |-> None, quantity |-> 0]
NoSettlement == [row |-> None, quantity |-> 0]
NoCredit == [holding |-> None, quantity |-> 0]

HoldingInit ==
    /\ hold = [h \in Rows |-> [quantity |-> InitialQuantity[h], reserved |-> 0]]
    /\ res = [k \in Keys |-> NoRow]
    /\ link = [x \in TxKeys |-> None]
    /\ stl = [s \in SettlementIds |-> NoSettlement]
    /\ credit = [c \in CreditIds |-> NoCredit]
    /\ sold = [e \in Exercises |-> NoCredit]
    /\ severed = {}
    /\ undercut = {}
    /\ shortfall = [h \in Rows |-> 0]

-----------------------------------------------------------------------------
(* Row look-ups *)

Available(h) == hold[h].quantity - hold[h].reserved

(* The row a call with key k finds: the one created under k or, for a      *)
(* peer contract, the vote-time row linked to it.                          *)
RowsOf(k) ==
    {r \in Keys : /\ res[r].status # "none"
                  /\ r = k \/ (r \in TxKeys /\ link[r] = k)}

(* The sum of a function's values: its units, named apart, are counted. *)
Total(f) == Cardinality(UNION {{x} \X (1 .. f[x]) : x \in DOMAIN f})

SettlementsOf(r) == [s \in SettlementIds |-> IF stl[s].row = r THEN stl[s].quantity ELSE 0]
Settled(r) == Total(SettlementsOf(r))

FloorZero(n) == IF n < 0 THEN 0 ELSE n
Outstanding(r) == FloorZero(res[r].quantity - Settled(r))

-----------------------------------------------------------------------------
(* Reserve, ReserveFund, ReserveForOTCContract, ReserveForPeerOption-      *)
(* Contract, ReserveForCrossBankNewTx                                      *)

HoldShares(k, h, q) ==
    /\ Available(h) >= q
    /\ RowsOf(k) = {}
    /\ res' = [res EXCEPT ![k] =
                  [status |-> "active", holding |-> h, quantity |-> q]]
    /\ hold' = [hold EXCEPT ![h].reserved = @ + q]
    /\ UNCHANGED <<link, stl, credit, cutVars>>

Reserve(o, h, q) == o \in OrderKeys /\ h \in Holdings /\ HoldShares(o, h, q)
ReserveFund(o, h, q) == o \in OrderKeys /\ h \in FundHoldings /\ HoldShares(o, h, q)
ReserveForOTCContract(c, h, q) == c \in OtcKeys /\ h \in Holdings /\ HoldShares(c, h, q)
ReserveForPeerOptionContract(p, h, q) == p \in PeerKeys /\ h \in Holdings /\ HoldShares(p, h, q)
ReserveForCrossBankNewTx(x, h, q) == x \in TxKeys /\ h \in Holdings /\ HoldShares(x, h, q)

-----------------------------------------------------------------------------
(* Release, ReleaseForOTCContract, ReleaseForPeerOptionContract,           *)
(* ReleaseForCrossBankNewTx                                                *)

(* The holding is read by the id kept in the reservation; when that row    *)
(* was deleted the call fails, here and below.                             *)
ReleaseRow(r) ==
    /\ res[r].status = "active" /\ r \notin severed
    /\ hold' = [hold EXCEPT ![res[r].holding].reserved = FloorZero(@ - Outstanding(r))]
    /\ res' = [res EXCEPT ![r].status = "released"]
    /\ UNCHANGED <<link, stl, credit, cutVars>>

Release(o) == o \in OrderKeys /\ \E r \in RowsOf(o) : ReleaseRow(r)
ReleaseForOTCContract(c) == c \in OtcKeys /\ \E r \in RowsOf(c) : ReleaseRow(r)
ReleaseForPeerOptionContract(p) == p \in PeerKeys /\ \E r \in RowsOf(p) : ReleaseRow(r)
ReleaseForCrossBankNewTx(x) == x \in TxKeys /\ \E r \in RowsOf(x) : ReleaseRow(r)

-----------------------------------------------------------------------------
(* PartialSettle, ConsumeForOTCContract, ConsumeForPeerOptionContract      *)

(* The status is judged before the settlement look-up: a replay against a  *)
(* fully settled reservation is rejected, not answered as done.            *)
SettleAccepts(r, q) ==
    res[r].status = "active" /\ Settled(r) + q <= res[r].quantity /\ r \notin severed

(* Fault: a replayed settlement takes the shares again. *)
SettleRowAgain(r, s, q) ==
    /\ SettleAccepts(r, q)
    /\ stl' = [stl EXCEPT ![s] = [row |-> r, quantity |-> q]]
    /\ hold' = [hold EXCEPT ![res[r].holding] =
                   [quantity |-> @.quantity - q, reserved |-> FloorZero(@.reserved - q)]]
    /\ res' = [res EXCEPT ![r].status =
                  IF Settled(r) + q = res[r].quantity THEN "settled" ELSE @]
    /\ UNCHANGED <<link, credit, cutVars>>

SettleRow(r, s, q) ==
    /\ SettleAccepts(r, q)
    /\ stl[s] = NoSettlement
    /\ stl' = [stl EXCEPT ![s] = [row |-> r, quantity |-> q]]
    /\ hold' = [hold EXCEPT ![res[r].holding] =
                   [quantity |-> @.quantity - q, reserved |-> FloorZero(@.reserved - q)]]
    /\ res' = [res EXCEPT ![r].status =
                  IF Settled(r) + q = res[r].quantity THEN "settled" ELSE @]
    /\ UNCHANGED <<link, credit, cutVars>>

PartialSettle(o, t, q) ==
    o \in OrderKeys /\ t \in Txns /\ \E r \in RowsOf(o) : SettleRow(r, t, q)

(* A contract is consumed for the quantity it was reserved for. *)
ConsumeForOTCContract(c) ==
    c \in OtcKeys /\ \E r \in RowsOf(c) : SettleRow(r, c, res[r].quantity)

ConsumeForPeerOptionContract(p) ==
    p \in PeerKeys /\ \E r \in RowsOf(p) : SettleRow(r, p, res[r].quantity)

-----------------------------------------------------------------------------
(* RestoreForOTCContract: the compensation of a consume *)

(* Fault: the reservation stays settled although its shares are back. *)
RestoreStaysSettled(c) ==
    /\ stl[c] # NoSettlement
    /\ \E r \in RowsOf(c) :
          hold' = [hold EXCEPT ![res[r].holding] =
                      [quantity |-> @.quantity + stl[c].quantity,
                       reserved |-> @.reserved + stl[c].quantity]]
    /\ stl' = [stl EXCEPT ![c] = NoSettlement]
    /\ UNCHANGED <<res, link, credit, cutVars>>

RestoreForOTCContract(c) ==
    /\ stl[c] # NoSettlement
    /\ \E r \in RowsOf(c) \ severed :
        /\ hold' = [hold EXCEPT ![res[r].holding] =
                       [quantity |-> @.quantity + stl[c].quantity,
                        reserved |-> @.reserved + stl[c].quantity]]
        /\ res' = [res EXCEPT ![r].status = IF @ = "settled" THEN "active" ELSE @]
    /\ stl' = [stl EXCEPT ![c] = NoSettlement]
    /\ UNCHANGED <<link, credit, cutVars>>

-----------------------------------------------------------------------------
(* AttachCrossBankReservationToContract: whatever the status of the row; a *)
(* second row for the contract is refused by the unique index.             *)
AttachCrossBankReservation(x, p) ==
    /\ res[x].status # "none"
    /\ RowsOf(p) = {}
    /\ link' = [link EXCEPT ![x] = p]
    /\ UNCHANGED <<hold, res, stl, credit, cutVars>>

-----------------------------------------------------------------------------
(* Writers that do not look at reserved_quantity *)

(* UpsertIdempotent of both holding tables: a buy fill or an exercise      *)
(* credits shares once per idempotency key.  A row that was deleted is     *)
(* created anew, which is what [quantity |-> 0, reserved |-> 0] stands for. *)
UpsertIdempotent(c, h, q) ==
    /\ credit[c] = NoCredit
    /\ credit' = [credit EXCEPT ![c] = [holding |-> h, quantity |-> q]]
    /\ hold' = [hold EXCEPT ![h].quantity = @ + q]
    /\ UNCHANGED <<res, link, stl, cutVars>>

(* creditBuyerHoldingTx, the share leg of the transaction that exercises a *)
(* peer contract; only the contract's status keeps it from running twice.  *)
CreditBuyerHolding(p, h, q) ==
    /\ credit' = [credit EXCEPT ![p] = [holding |-> h, quantity |-> q]]
    /\ hold' = [hold EXCEPT ![h].quantity = @ + q]
    /\ UNCHANGED <<res, link, stl, cutVars>>

(* q shares leave row h, which is deleted when none is left.  The          *)
(* reservations that named the deleted row go on naming it.                *)
DeleteRow(h) ==
    /\ hold' = [hold EXCEPT ![h] = [quantity |-> 0, reserved |-> 0]]
    /\ severed' = severed \cup {r \in Keys : res[r].status # "none" /\ res[r].holding = h}

ReduceRow(h, q) ==
    /\ hold' = [hold EXCEPT ![h].quantity = @ - q]
    /\ UNCHANGED severed

Undercuts(h, q) == undercut' = undercut \cup IF Available(h) < q THEN {h} ELSE {}

(* DecrementForOwnerIdempotent, the compensation of an exercise's credit:  *)
(* once per marker.  The row is deleted at zero or below.                  *)
DecrementForOwner(c) ==
    LET h == credit[c].holding  q == credit[c].quantity IN
    /\ credit[c] # NoCredit /\ h \in Holdings
    /\ IF hold[h].quantity > q THEN ReduceRow(h, q) ELSE DeleteRow(h)
    /\ shortfall' = [shortfall EXCEPT ![h] = @ + FloorZero(q - hold[h].quantity)]
    /\ Undercuts(h, q)
    /\ credit' = [credit EXCEPT ![c] = NoCredit]
    /\ UNCHANGED <<res, link, stl, sold>>

(* DecrementForFundSecurityIdempotent: more than the row has is refused,   *)
(* and an empty row stays.                                                 *)
DecrementForFundSecurity(c) ==
    LET h == credit[c].holding  q == credit[c].quantity IN
    /\ credit[c] # NoCredit /\ h \in FundHoldings
    /\ hold[h].quantity >= q
    /\ ReduceRow(h, q)
    /\ Undercuts(h, q)
    /\ credit' = [credit EXCEPT ![c] = NoCredit]
    /\ UNCHANGED <<res, link, stl, sold, shortfall>>

(* ExerciseOption of a put sells q shares at the strike: the quantity is   *)
(* compared, not what is available.  The write is a compare-and-set on the *)
(* row's version.                                                          *)
ExercisePut(e, h, q) ==
    /\ sold[e] = NoCredit
    /\ hold[h].quantity > q
    /\ ReduceRow(h, q)
    /\ Undercuts(h, q)
    /\ sold' = [sold EXCEPT ![e] = [holding |-> h, quantity |-> q]]
    /\ UNCHANGED <<res, link, stl, credit, shortfall>>

(* ExerciseOption deletes a row: the stock's when a put sells the last     *)
(* share, and the option's own.  The delete looks at nothing.              *)
DeleteHolding(e, h) ==
    /\ sold[e] = NoCredit
    /\ hold[h].quantity > 0
    /\ DeleteRow(h)
    /\ Undercuts(h, hold[h].quantity)
    /\ sold' = [sold EXCEPT ![e] = [holding |-> h, quantity |-> hold[h].quantity]]
    /\ UNCHANGED <<res, link, stl, credit, shortfall>>

(* Every call that writes the row past its reservations. *)
Unreserved ==
    \/ \E c \in Credits, h \in Rows, q \in Quantities : UpsertIdempotent(c, h, q)
    \/ \E c \in Credits : DecrementForOwner(c) \/ DecrementForFundSecurity(c)
    \/ \E e \in Exercises, h \in Holdings :
          DeleteHolding(e, h) \/ \E q \in Quantities : ExercisePut(e, h, q)

-----------------------------------------------------------------------------
HoldingNext ==
    \/ \E o \in OrderKeys, h \in Rows, q \in Quantities : Reserve(o, h, q) \/ ReserveFund(o, h, q)
    \/ \E c \in OtcKeys, h \in Holdings, q \in Quantities : ReserveForOTCContract(c, h, q)
    \/ \E p \in PeerKeys, h \in Holdings, q \in Quantities : ReserveForPeerOptionContract(p, h, q)
    \/ \E x \in TxKeys, h \in Holdings, q \in Quantities : ReserveForCrossBankNewTx(x, h, q)
    \/ \E o \in OrderKeys : Release(o) \/ \E t \in Txns, q \in Quantities : PartialSettle(o, t, q)
    \/ \E c \in OtcKeys :
          ReleaseForOTCContract(c) \/ ConsumeForOTCContract(c) \/ RestoreForOTCContract(c)
    \/ \E p \in PeerKeys : ReleaseForPeerOptionContract(p) \/ ConsumeForPeerOptionContract(p)
    \/ \E x \in TxKeys :
          ReleaseForCrossBankNewTx(x) \/ \E p \in PeerKeys : AttachCrossBankReservation(x, p)
    \/ Unreserved

HoldingSpec == HoldingInit /\ [][HoldingNext]_holdingVars

-----------------------------------------------------------------------------
(* Properties *)

(* Type correctness of the holding, reservation and settlement rows. *)
HoldingTypeOK ==
    /\ hold \in [Rows -> [quantity : Int, reserved : Nat]]
    /\ res \in [Keys -> [status : {"none", "active", "released", "settled"},
                         holding : Rows \cup {None}, quantity : Nat]]
    /\ link \in [TxKeys -> PeerKeys \cup {None}]
    /\ stl \in [SettlementIds -> [row : Keys \cup {None}, quantity : Nat]]
    /\ credit \in [CreditIds -> [holding : Rows \cup {None}, quantity : Nat]]
    /\ sold \in [Exercises -> [holding : Rows \cup {None}, quantity : Nat]]
    /\ severed \subseteq Keys /\ undercut \subseteq Rows
    /\ shortfall \in [Rows -> Nat]

(* reserved_quantity of a holding is what the active reservations of that  *)
(* row still hold, through partial fills, releases, consumes, restores and *)
(* re-keyed vote-time holds, so that no call leaks a hold and no clamp     *)
(* hides one.  And no share is promised twice: unless a reversed credit or *)
(* an exercised option took shares that were held, no more is held than is *)
(* owned, and every reservation still has its row.                         *)
HeldBy(h) ==
    [r \in Keys |-> IF res[r].status = "active" /\ res[r].holding = h /\ r \notin severed
                    THEN Outstanding(r) ELSE 0]

ReservedMatchesRows ==
    \A h \in Rows :
        /\ hold[h].reserved = Total(HeldBy(h))
        /\ h \notin undercut =>
              /\ hold[h].reserved <= hold[h].quantity
              /\ \A r \in severed : res[r].holding = h => res[r].status # "active"

(* The shares of a holding are those it started with, plus each credit     *)
(* that stands once, less each settlement and each exercised option once:  *)
(* no replay moves shares again, and a reversal that does not find the     *)
(* shares it gave leaves them as a shortfall.  And a reservation is        *)
(* settled exactly when its settlements add up to it.                      *)
TakenFrom(h) ==
    [s \in SettlementIds |-> IF stl[s] # NoSettlement /\ res[stl[s].row].holding = h
                             THEN stl[s].quantity ELSE 0]
CreditedTo(h) == [c \in CreditIds |-> IF credit[c].holding = h THEN credit[c].quantity ELSE 0]
SoldFrom(h) == [e \in Exercises |-> IF sold[e].holding = h THEN sold[e].quantity ELSE 0]

SharesConserved ==
    /\ \A h \in Rows :
          hold[h].quantity + Total(TakenFrom(h)) + Total(SoldFrom(h))
             = InitialQuantity[h] + Total(CreditedTo(h)) + shortfall[h]
    /\ \A r \in Keys :
          CASE res[r].status = "none" -> Settled(r) = 0
            [] res[r].status = "settled" -> Settled(r) = res[r].quantity
            [] OTHER -> Settled(r) < res[r].quantity
=============================================================================
