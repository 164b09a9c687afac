-------------------------- MODULE FundReservation --------------------------
(***************************************************************************)
(* account-service's ReservationService: the reserve / partial-settle /    *)
(* release life cycle of the funds held for stock-service orders and OTC   *)
(* sagas, next to the direct balance updates (UpdateBalance) and the bank  *)
(* sentinel operations that move money on the same rows.                   *)
(*                                                                         *)
(* Every operation is one database transaction that locks the account row  *)
(* (and, for settle and release, first the reservation row), so each is    *)
(* one action.  Answers that change nothing (replays, rejections) are      *)
(* stuttering steps; where the answer itself is promised by the code it    *)
(* has an operator of its own (ReserveAccepts, SettleAccepts).             *)
(***************************************************************************)
EXTENDS AccountRow, FiniteSets

CONSTANTS
    Orders,         \* reservation identities: (order_id, order_kind)
    AccountOf,      \* the account an order was placed on, fixed per order
    Txns,           \* order_transaction_id values, unique over all orders
    Keys,           \* idempotency keys of UpdateBalance / bank references
    Amounts,        \* amounts callers use
    NoSettlement    \* an order_transaction_id with no settlement row

ASSUME ReservationAssumption ==
    /\ IsFiniteSet(Orders)
    /\ AccountOf \in [Orders -> Accounts]
    /\ Amounts \subseteq Nat \ {0}

ASSUME NoSettlementAssumption == NoSettlement \notin [order : Orders, amount : Nat]

VARIABLES
    resv,           \* account_reservations, by order
    stl,            \* account_reservation_settlements, by order_transaction_id
    ledger,         \* per account: credits minus debits written to ledger_entries
    applied         \* <<operation, key>> pairs already recorded as done

vars == <<acct, resv, stl, ledger, applied>>

Statuses == {"none", "active", "released", "settled"}

Reservation == [status : Statuses, amount : Nat, settled : Nat]
NoReservation == [status |-> "none", amount |-> 0, settled |-> 0]

Init ==
    /\ acct = [a \in Accounts |-> OpeningRow(InitialBalance[a])]
    /\ resv = [o \in Orders |-> NoReservation]
    /\ stl = [t \in Txns |-> NoSettlement]
    /\ ledger = [a \in Accounts |-> 0]
    /\ applied = {}

-----------------------------------------------------------------------------
(* Row arithmetic of the reservation life cycle *)

ClampZero(n) == IF n < 0 THEN 0 ELSE n

Held(row, n) == [row EXCEPT !.reserved = @ + n, !.available = @ - n]

(* Fault: the release lowers the total but forgets to return the money. *)
ReturnedNowhere(row, n) == [row EXCEPT !.reserved = ClampZero(@ - n)]

Returned(row, n) ==
    [row EXCEPT !.reserved = ClampZero(@ - n), !.available = @ + n]

(* Fault: a fill leaves the reserved total as it was. *)
SpentStillReserved(row, n) == [row EXCEPT !.balance = @ - n]

Spent(row, n) ==
    [row EXCEPT !.reserved = ClampZero(@ - n), !.balance = @ - n]

(* What a hold still owes: its amount less the fills settled against it.   *)
Remaining(o) == ClampZero(resv[o].amount - resv[o].settled)

-----------------------------------------------------------------------------
(* ReserveFunds *)

(* The sufficiency check comes before the look-up of an existing row, so a *)
(* retry of a reserve that already landed is judged by it as well.         *)
ReserveAccepts(o, amt) == acct[AccountOf[o]].available >= amt

InsertReservation(o, amt) ==
    /\ resv[o].status = "none"
    /\ acct' = [acct EXCEPT ![AccountOf[o]] = Held(@, amt)]
    /\ resv' = [resv EXCEPT ![o] =
                    [status |-> "active", amount |-> amt, settled |-> 0]]
    /\ UNCHANGED stl

(* Fault: re-activation trusts the check made for the requested amount. *)
ReactivateUnchecked(o) ==
    /\ resv[o].status \in {"released", "settled"}
    /\ acct' = [acct EXCEPT ![AccountOf[o]] = Held(@, resv[o].amount)]
    /\ resv' = [resv EXCEPT ![o] =
                    [status |-> "active", amount |-> @.amount, settled |-> 0]]
    /\ stl' = [t \in Txns |-> IF stl[t] # NoSettlement /\ stl[t].order = o
                              THEN NoSettlement ELSE stl[t]]

(* Fault: the settlement rows of the earlier attempt stay behind. *)
ReactivateKeepingRows(o) ==
    /\ resv[o].status \in {"released", "settled"}
    /\ acct[AccountOf[o]].available >= resv[o].amount
    /\ acct' = [acct EXCEPT ![AccountOf[o]] = Held(@, resv[o].amount)]
    /\ resv' = [resv EXCEPT ![o] =
                    [status |-> "active", amount |-> @.amount, settled |-> 0]]
    /\ UNCHANGED stl

(* A released or settled reservation is taken up again for its original    *)
(* amount, with its settlement rows deleted: a compensated flow is retried. *)
ReactivateReservation(o) ==
    /\ resv[o].status \in {"released", "settled"}
    /\ acct[AccountOf[o]].available >= resv[o].amount
    /\ acct' = [acct EXCEPT ![AccountOf[o]] = Held(@, resv[o].amount)]
    /\ resv' = [resv EXCEPT ![o] =
                    [status |-> "active", amount |-> @.amount, settled |-> 0]]
    /\ stl' = [t \in Txns |-> IF stl[t] # NoSettlement /\ stl[t].order = o
                              THEN NoSettlement ELSE stl[t]]

ReserveFunds(o, amt) ==
    /\ ReserveAccepts(o, amt)
    /\ InsertReservation(o, amt) \/ ReactivateReservation(o)
    /\ UNCHANGED <<ledger, applied>>

-----------------------------------------------------------------------------
(* ReleaseReservation: a no-op unless the reservation is active *)

ReleaseReservation(o) ==
    /\ resv[o].status = "active"
    /\ acct' = [acct EXCEPT ![AccountOf[o]] = Returned(@, Remaining(o))]
    /\ resv' = [resv EXCEPT ![o].status = "released"]
    /\ UNCHANGED <<stl, ledger, applied>>

-----------------------------------------------------------------------------
(* PartialSettleReservation *)

(* Checked before the ON CONFLICT insert that recognises a replay. *)
SettleAccepts(o, amt) ==
    /\ resv[o].status = "active"
    /\ resv[o].settled + amt <= resv[o].amount

(* One more fill counted; the last one closes the reservation. *)
Filled(r, amt) ==
    [status  |-> IF r.settled + amt = r.amount THEN "settled" ELSE r.status,
     amount  |-> r.amount,
     settled |-> r.settled + amt]

PartialSettleReservation(o, t, amt) ==
    /\ SettleAccepts(o, amt)
    /\ stl[t] = NoSettlement
    /\ stl' = [stl EXCEPT ![t] = [order |-> o, amount |-> amt]]
    /\ acct' = [acct EXCEPT ![AccountOf[o]] = Spent(@, amt)]
    /\ ledger' = [ledger EXCEPT ![AccountOf[o]] = @ - amt]
    /\ resv' = [resv EXCEPT ![o] = Filled(@, amt)]
    /\ UNCHANGED applied

-----------------------------------------------------------------------------
(* UpdateBalance: credits and debits keyed by the ledger's unique          *)
(* idempotency_key, so a key moves money once.                             *)

UpdateBalance(k, a, delta) ==
    /\ <<"update", k>> \notin applied
    /\ CanUpdate(a, acct[a], delta)
    /\ acct' = [acct EXCEPT ![a] = Updated(a, @, delta)]
    /\ ledger' = [ledger EXCEPT ![a] = @ + delta]
    /\ applied' = applied \cup {<<"update", k>>}
    /\ UNCHANGED <<resv, stl>>

(* DebitBank / CreditBank on a bank sentinel account, idempotent by        *)
(* (reference, direction).  The debit compares with Balance, not with      *)
(* AvailableBalance.                                                       *)
DebitBank(k, a, amt) ==
    /\ a \in BankAccounts
    /\ <<"debit", k>> \notin applied
    /\ acct[a].balance >= amt
    /\ acct' = [acct EXCEPT ![a] = Shifted(@, -amt)]
    /\ ledger' = [ledger EXCEPT ![a] = @ - amt]
    /\ applied' = applied \cup {<<"debit", k>>}
    /\ UNCHANGED <<resv, stl>>

(* Fault: the bank credit is applied without its ledger entry. *)
CreditBankUnlogged(k, a, amt) ==
    /\ a \in BankAccounts
    /\ <<"credit", k>> \notin applied
    /\ acct' = [acct EXCEPT ![a] = Shifted(@, amt)]
    /\ applied' = applied \cup {<<"credit", k>>}
    /\ UNCHANGED <<resv, stl, ledger>>

CreditBank(k, a, amt) ==
    /\ a \in BankAccounts
    /\ <<"credit", k>> \notin applied
    /\ acct' = [acct EXCEPT ![a] = Shifted(@, amt)]
    /\ ledger' = [ledger EXCEPT ![a] = @ + amt]
    /\ applied' = applied \cup {<<"credit", k>>}
    /\ UNCHANGED <<resv, stl>>

(* SpendingCron: the counters of one period restart on every account. *)
ResetSpending(p) ==
    /\ acct' = [a \in Accounts |-> [acct[a] EXCEPT !.spent[p] = 0]]
    /\ UNCHANGED <<resv, stl, ledger, applied>>

-----------------------------------------------------------------------------
ReservationStep ==
    \/ \E o \in Orders, amt \in Amounts : ReserveFunds(o, amt)
    \/ \E o \in Orders : ReleaseReservation(o)
    \/ \E o \in Orders, t \in Txns, amt \in Amounts :
          PartialSettleReservation(o, t, amt)

BalanceStep ==
    \/ \E k \in Keys, a \in Accounts, amt \in Amounts :
          \/ UpdateBalance(k, a, amt)
          \/ UpdateBalance(k, a, -amt)
          \/ DebitBank(k, a, amt)
          \/ CreditBank(k, a, amt)
    \/ \E p \in Periods : ResetSpending(p)

Next == ReservationStep \/ BalanceStep

Spec == Init /\ [][Next]_vars

-----------------------------------------------------------------------------
(* Properties *)

Settlement == [order : Orders, amount : Nat]

(* Every column keeps the type of its schema; a settlement row belongs to  *)
(* an order.                                                               *)
TypeOK ==
    /\ acct \in [Accounts -> Row]
    /\ resv \in [Orders -> Reservation]
    /\ stl \in [Txns -> Settlement \cup {NoSettlement}]
    /\ ledger \in [Accounts -> Int]
    /\ applied \subseteq {"update", "debit", "credit"} \X Keys

(* The units of money an account's active reservations still hold, named   *)
(* apart so that counting them adds the holds up.                          *)
UnitsOf(rs, o) ==
    IF rs[o].status = "active"
    THEN {o} \X ((rs[o].settled + 1) .. rs[o].amount)
    ELSE {}

OrdersOn(a) == {o \in Orders : AccountOf[o] = a}

HeldUnits(rs, a) == UNION {UnitsOf(rs, o) : o \in OrdersOn(a)}

(* ReservedBalance is a running total kept on the account row; the table   *)
(* of reservations is "the source of truth".  After any sequence of        *)
(* reserves, partial fills, releases and re-activations the total equals   *)
(* what the active reservations still hold, and the clamp at zero in       *)
(* settle and release never hides a difference.                            *)
ReservedIsOutstanding ==
    \A a \in Accounts : acct[a].reserved = Cardinality(HeldUnits(resv, a))

(* "Invariant maintained at all times: AvailableBalance = Balance -        *)
(* ReservedBalance", for the operations of this module together.           *)
AvailableIdentity ==
    \A a \in Accounts : acct[a].available = acct[a].balance - acct[a].reserved

(* A client account never spends money it has not got, nor money held for  *)
(* an order: not even when holds, fills and direct debits interleave.      *)
ClientNeverOverdrawn ==
    \A a \in Accounts \ BankAccounts : acct[a].available >= 0

(* The ledger is complete: replaying it from the opening balance gives the *)
(* balance, whatever mixture of settles and updates produced it.           *)
LedgerReconciles ==
    \A a \in Accounts : acct[a].balance = InitialBalance[a] + ledger[a]

(* SumSettlements: the settled total each check uses is the sum of the     *)
(* settlement rows, also across a re-activation that deletes them; it      *)
(* never passes the reserved amount, and reaches it exactly when the       *)
(* reservation is settled.                                                 *)
RowsOf(o) == {t \in Txns : stl[t] # NoSettlement /\ stl[t].order = o}

SettledUnits(o) == UNION {{t} \X (1 .. stl[t].amount) : t \in RowsOf(o)}

SettledTotalsAgree ==
    \A o \in Orders :
        /\ resv[o].settled = Cardinality(SettledUnits(o))
        /\ resv[o].settled <= resv[o].amount
        /\ resv[o].status # "none" =>
              (resv[o].status = "settled" <=> resv[o].settled = resv[o].amount)

=============================================================================
