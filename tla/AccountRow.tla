----------------------------- MODULE AccountRow -----------------------------
(***************************************************************************)
(* The rows of account-service's `accounts` table and the arithmetic that  *)
(* every money operation applies to one.  A row is only ever changed       *)
(* inside a database transaction that holds SELECT ... FOR UPDATE on it,   *)
(* so the operators below map the locked row to the row that is saved.     *)
(*                                                                         *)
(* Amounts are integers: decimals scaled to their smallest unit.           *)
(***************************************************************************)
EXTENDS Integers

CONSTANTS
    Accounts,       \* account numbers
    BankAccounts,   \* those with IsBankAccount set: no limits, no spending
    Periods,        \* "daily" and "monthly" spending windows
    Limit,          \* Limit[a][p]: DailyLimit / MonthlyLimit, 0 = no limit
    InitialBalance  \* what each account opens with

ASSUME AccountAssumption ==
    /\ BankAccounts \subseteq Accounts
    /\ Limit \in [Accounts -> [Periods -> Nat]]
    /\ InitialBalance \in [Accounts -> Nat]

VARIABLE
    acct            \* account rows

Row == [balance   : Int,
        available : Int,
        reserved  : Int,
        spent     : [Periods -> Nat]]

(* A fresh account: everything it owns is spendable. *)
OpeningRow(b) == [balance   |-> b,
                  available |-> b,
                  reserved  |-> 0,
                  spent     |-> [p \in Periods |-> 0]]

-----------------------------------------------------------------------------
(* Spending limits and counters of client accounts *)

WithinLimits(a, row, amt) ==
    \/ a \in BankAccounts
    \/ \A p \in Periods : Limit[a][p] = 0 \/ row.spent[p] + amt <= Limit[a][p]

(* Fault: a debit lowers the counters. *)
AccruedBackwards(a, row, amt) ==
    IF a \in BankAccounts THEN row.spent
                          ELSE [p \in Periods |-> row.spent[p] - amt]

Accrued(a, row, amt) ==
    IF a \in BankAccounts THEN row.spent
                          ELSE [p \in Periods |-> row.spent[p] + amt]

-----------------------------------------------------------------------------
(* Money arrives or leaves: both balances move together. *)
Shifted(row, delta) == [row EXCEPT !.balance = @ + delta, !.available = @ + delta]

(* AccountRepository.UpdateBalance with UpdateAvailable set, as every      *)
(* caller sets it: a signed delta on both balances.                        *)

CanUpdate(a, row, delta) ==
    delta < 0 => /\ WithinLimits(a, row, -delta)
                 /\ row.available + delta >= 0

Updated(a, row, delta) ==
    IF delta < 0
    THEN [Shifted(row, delta) EXCEPT !.spent = Accrued(a, row, -delta)]
    ELSE Shifted(row, delta)
=============================================================================
