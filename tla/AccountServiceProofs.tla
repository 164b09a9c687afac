------------------------ MODULE AccountServiceProofs ------------------------
(***************************************************************************)
(* Proofs about the two ways in which account-service holds money:         *)
(* FundReservation, for every set of accounts, orders, settlement ids,     *)
(* keys and amounts, and InterbankHolds, for any accounts, keys, amounts,  *)
(* limits, idempotency keys and number of calls in flight at once.         *)
(***************************************************************************)
EXTENDS FundReservation, InterbankHolds, FiniteSetTheorems, TLAPS

-----------------------------------------------------------------------------
(*                             FundReservation                             *)

-----------------------------------------------------------------------------
(* Type correctness *)

(* Writing integers into the columns of a row, and natural numbers into    *)
(* its counters, gives a row.                                              *)
LEMMA RowColumns ==
    ASSUME NEW row \in Row, NEW x \in Int, NEW y \in Int,
           NEW c \in [Periods -> Nat]
    PROVE  /\ [row EXCEPT !.reserved = x, !.available = y] \in Row
           /\ [row EXCEPT !.reserved = x, !.balance = y] \in Row
           /\ [row EXCEPT !.balance = x, !.available = y] \in Row
           /\ [row EXCEPT !.spent = c] \in Row
BY DEF Row

(* The row operators column by column: a hold is placed ... *)
LEMMA HeldRow ==
    ASSUME NEW row \in Row, NEW n \in Nat
    PROVE  /\ Held(row, n) \in Row
           /\ Held(row, n).balance = row.balance
           /\ Held(row, n).available = row.available - n
           /\ Held(row, n).reserved = row.reserved + n
<1>1. /\ Held(row, n).balance = row.balance
      /\ Held(row, n).available = row.available - n
      /\ Held(row, n).reserved = row.reserved + n
  BY DEF Row, Held
<1>2. /\ row.reserved + n \in Int
      /\ row.available - n \in Int
      /\ row.spent \in [Periods -> Nat]
  BY DEF Row
<1> QED BY <1>1, <1>2, RowColumns DEF Held

(* ... and returned, ... *)
LEMMA ReturnedRow ==
    ASSUME NEW row \in Row, NEW n \in Nat
    PROVE  /\ Returned(row, n) \in Row
           /\ Returned(row, n).balance = row.balance
           /\ Returned(row, n).available = row.available + n
           /\ row.reserved >= n => Returned(row, n).reserved = row.reserved - n
<1>1. /\ ClampZero(row.reserved - n) \in Int
      /\ row.available + n \in Int
      /\ row.spent \in [Periods -> Nat]
  BY DEF Row, ClampZero
<1>2. Returned(row, n) \in Row
  BY <1>1, RowColumns DEF Returned
<1> QED BY <1>2 DEF Row, Returned, ClampZero

(* ... or spent; ... *)
LEMMA SpentRow ==
    ASSUME NEW row \in Row, NEW n \in Nat
    PROVE  /\ Spent(row, n) \in Row
           /\ Spent(row, n).balance = row.balance - n
           /\ Spent(row, n).available = row.available
           /\ row.reserved >= n => Spent(row, n).reserved = row.reserved - n
<1>1. /\ ClampZero(row.reserved - n) \in Int
      /\ row.balance - n \in Int
      /\ row.spent \in [Periods -> Nat]
  BY DEF Row, ClampZero
<1>2. Spent(row, n) \in Row
  BY <1>1, RowColumns DEF Spent
<1> QED BY <1>2 DEF Row, Spent, ClampZero

(* ... money arrives or leaves, ... *)
LEMMA ShiftedRow ==
    ASSUME NEW row \in Row, NEW d \in Int
    PROVE  /\ Shifted(row, d) \in Row
           /\ Shifted(row, d).balance = row.balance + d
           /\ Shifted(row, d).available = row.available + d
           /\ Shifted(row, d).reserved = row.reserved
<1>1. /\ row.balance + d \in Int
      /\ row.available + d \in Int
      /\ row.spent \in [Periods -> Nat]
  BY DEF Row
<1>2. Shifted(row, d) \in Row
  BY <1>1, RowColumns DEF Shifted
<1> QED BY <1>2 DEF Row, Shifted

(* ... with the spending counters in step. *)
LEMMA UpdatedRow ==
    ASSUME NEW row \in Row, NEW d \in Int, NEW a \in Accounts
    PROVE  /\ Updated(a, row, d) \in Row
           /\ Updated(a, row, d).balance = row.balance + d
           /\ Updated(a, row, d).available = row.available + d
           /\ Updated(a, row, d).reserved = row.reserved
<1> DEFINE m == Shifted(row, d)
<1>1. /\ m \in Row
      /\ m.balance = row.balance + d
      /\ m.available = row.available + d
      /\ m.reserved = row.reserved
  BY ShiftedRow
<1>2. ASSUME d < 0 PROVE Accrued(a, row, -d) \in [Periods -> Nat]
  <2>1. row.spent \in [Periods -> Nat]
    BY DEF Row
  <2> QED BY <1>2, <2>1 DEF Accrued
<1>3. CASE d < 0
  <2>1. PICK c \in [Periods -> Nat] : c = Accrued(a, row, -d)
    BY <1>2, <1>3
  <2>2. Updated(a, row, d) = [m EXCEPT !.spent = c]
    BY <1>3, <2>1 DEF Updated
  <2> HIDE DEF m
  <2> QED BY <1>1, <2>2 DEF Row
<1>4. CASE d >= 0
  BY <1>1, <1>4 DEF Updated
<1> QED BY <1>3, <1>4

(* The opening rows are rows. *)
LEMMA OpeningRowType ==
    \A b \in Nat : OpeningRow(b) \in Row
BY DEF OpeningRow, Row

(* One step of any operation keeps every column's type. *)
LEMMA TypeStep == TypeOK /\ [Next]_vars => TypeOK'
<1> SUFFICES ASSUME TypeOK, [Next]_vars PROVE TypeOK'
  OBVIOUS
<1> USE AccountAssumption, ReservationAssumption
<1>1. ASSUME NEW o \in Orders, NEW amt \in Amounts, ReserveFunds(o, amt)
      PROVE  TypeOK'
  <2>1. CASE InsertReservation(o, amt)
    <3>1. acct' \in [Accounts -> Row]
      BY <2>1, HeldRow DEF InsertReservation, TypeOK
    <3>2. resv' \in [Orders -> Reservation]
      BY <2>1 DEF InsertReservation, TypeOK, Reservation, Statuses
    <3> QED BY <1>1, <2>1, <3>1, <3>2 DEF ReserveFunds, InsertReservation, TypeOK
  <2>2. CASE ReactivateReservation(o)
    <3>1. acct' \in [Accounts -> Row]
      <4>1. resv[o].amount \in Nat
        BY DEF TypeOK, Reservation
      <4> QED BY <4>1, <2>2, HeldRow DEF ReactivateReservation, TypeOK
    <3>2. resv' \in [Orders -> Reservation]
      BY <2>2 DEF ReactivateReservation, TypeOK, Reservation, Statuses
    <3>3. stl' \in [Txns -> Settlement \cup {NoSettlement}]
      BY <2>2 DEF ReactivateReservation, TypeOK
    <3> QED BY <1>1, <3>1, <3>2, <3>3 DEF ReserveFunds, TypeOK
  <2> QED BY <1>1, <2>1, <2>2 DEF ReserveFunds
<1>2. ASSUME NEW o \in Orders, ReleaseReservation(o)
      PROVE  TypeOK'
  <2>1. Remaining(o) \in Nat
    BY DEF Remaining, ClampZero, TypeOK, Reservation
  <2>2. acct' \in [Accounts -> Row]
    BY <1>2, <2>1, ReturnedRow DEF ReleaseReservation, TypeOK
  <2>3. resv' \in [Orders -> Reservation]
    BY ZenonT(40), <1>2 DEF ReleaseReservation, TypeOK, Reservation, Statuses
  <2> QED BY <1>2, <2>2, <2>3 DEF ReleaseReservation, TypeOK
<1>3. ASSUME NEW o \in Orders, NEW t \in Txns, NEW amt \in Amounts,
             PartialSettleReservation(o, t, amt)
      PROVE  TypeOK'
  <2>1. acct' \in [Accounts -> Row]
    BY <1>3, SpentRow DEF PartialSettleReservation, TypeOK
  <2>2. resv' \in [Orders -> Reservation]
    BY <1>3 DEF PartialSettleReservation, Filled, TypeOK, Reservation, Statuses
  <2>3. stl' \in [Txns -> Settlement \cup {NoSettlement}]
    BY <1>3 DEF PartialSettleReservation, TypeOK, Settlement
  <2>4. ledger' \in [Accounts -> Int]
    BY <1>3 DEF PartialSettleReservation, TypeOK
  <2> QED BY <1>3, <2>1, <2>2, <2>3, <2>4 DEF PartialSettleReservation, TypeOK
<1>4. ASSUME NEW k \in Keys, NEW a \in Accounts, NEW d \in Int,
             UpdateBalance(k, a, d)
      PROVE  TypeOK'
  <2>1. acct' \in [Accounts -> Row]
    BY <1>4, UpdatedRow DEF UpdateBalance, TypeOK
  <2> QED BY <1>4, <2>1 DEF UpdateBalance, TypeOK
<1>5. ASSUME NEW k \in Keys, NEW a \in Accounts, NEW amt \in Amounts,
             DebitBank(k, a, amt) \/ CreditBank(k, a, amt)
      PROVE  TypeOK'
  <2>1. acct' \in [Accounts -> Row]
    <3>1. amt \in Nat /\ amt \in Int /\ -amt \in Int /\ acct[a] \in Row
      BY DEF TypeOK
    <3>2. Shifted(acct[a], -amt) \in Row /\ Shifted(acct[a], amt) \in Row
      BY <3>1, ShiftedRow
    <3>3. acct \in [Accounts -> Row]
      BY DEF TypeOK
    <3>4. CASE DebitBank(k, a, amt)
      BY <3>2, <3>3, <3>4 DEF DebitBank
    <3>5. CASE CreditBank(k, a, amt)
      BY <3>2, <3>3, <3>5 DEF CreditBank
    <3> QED BY <1>5, <3>4, <3>5
  <2>2. ledger' \in [Accounts -> Int]
    BY <1>5 DEF DebitBank, CreditBank, TypeOK
  <2> QED BY <1>5, <2>1, <2>2 DEF DebitBank, CreditBank, TypeOK
<1>6. ASSUME NEW p \in Periods, ResetSpending(p)
      PROVE  TypeOK'
  BY <1>6 DEF ResetSpending, TypeOK, Row
<1>7. CASE UNCHANGED vars
  BY <1>7 DEF vars, TypeOK
<1>8. \A amt \in Amounts : amt \in Int /\ -amt \in Int
  OBVIOUS
<1> QED
  BY <1>1, <1>2, <1>3, <1>4, <1>5, <1>6, <1>7, <1>8
     DEF Next, ReservationStep, BalanceStep

(* Every reachable state of the account tables is well typed. *)
THEOREM TypeCorrect == Spec => []TypeOK
<1>1. Init => TypeOK
  BY AccountAssumption, ReservationAssumption, OpeningRowType
     DEF Init, TypeOK, NoReservation, Reservation, Statuses
<1> QED BY <1>1, TypeStep, PTL DEF Spec

-----------------------------------------------------------------------------
(* Counting the money the active reservations hold *)

(* What one reservation still holds. *)
OwedBy(r) == IF r.status = "active" THEN r.amount - r.settled ELSE 0

WithinAmount(rs) == \A o \in Orders : rs[o].settled <= rs[o].amount

(* The units of one reservation are finitely many: as many as it owes. *)
LEMMA UnitsCount ==
    ASSUME NEW rs \in [Orders -> Reservation], NEW o \in Orders,
           rs[o].settled <= rs[o].amount
    PROVE  /\ IsFiniteSet(UnitsOf(rs, o))
           /\ Cardinality(UnitsOf(rs, o)) = OwedBy(rs[o])
           /\ OwedBy(rs[o]) \in Nat
<1>1. rs[o].amount \in Nat /\ rs[o].settled \in Nat
  BY DEF Reservation
<1>2. CASE rs[o].status = "active"
  <2> DEFINE I == (rs[o].settled + 1) .. rs[o].amount
  <2>1. IsFiniteSet(I) /\ Cardinality(I) = rs[o].amount - rs[o].settled
    <3> DEFINE lo == rs[o].settled + 1
               hi == rs[o].amount
    <3>1. lo \in Int /\ hi \in Int
      BY <1>1
    <3>2. /\ IsFiniteSet(lo .. hi)
          /\ Cardinality(lo .. hi) = IF lo > hi THEN 0 ELSE hi - lo + 1
      <4> HIDE DEF lo, hi
      <4> QED BY <3>1, FS_Interval
    <3> QED BY <1>1, <3>2
  <2>2. IsFiniteSet({o}) /\ Cardinality({o}) = 1
    BY FS_Singleton
  <2>3. UnitsOf(rs, o) = {o} \X I
    BY <1>2 DEF UnitsOf
  <2> HIDE DEF I
  <2>4. IsFiniteSet({o} \X I) /\ Cardinality({o} \X I) = 1 * Cardinality(I)
    BY <2>1, <2>2, FS_Product
  <2> QED BY <1>1, <1>2, <2>1, <2>3, <2>4 DEF OwedBy
<1>3. CASE rs[o].status # "active"
  BY <1>3, FS_EmptySet DEF UnitsOf, OwedBy
<1> QED BY <1>2, <1>3

(* The units of any set of orders together are finitely many. *)
LEMMA UnitsFinite ==
    ASSUME NEW rs \in [Orders -> Reservation], WithinAmount(rs),
           NEW S \in SUBSET Orders
    PROVE  IsFiniteSet(UNION {UnitsOf(rs, o) : o \in S})
<1> DEFINE T == {UnitsOf(rs, o) : o \in S}
           f == [o \in S |-> UnitsOf(rs, o)]
<1>1. IsFiniteSet(S)
  BY ReservationAssumption, FS_Subset
<1>2. f \in Surjection(S, T)
  BY DEF Surjection
<1>3. \A u \in T : IsFiniteSet(u)
  BY UnitsCount DEF WithinAmount
<1> HIDE DEF f, T
<1>4. IsFiniteSet(T)
  BY <1>1, <1>2, FS_Surjection
<1>5. IsFiniteSet(UNION T)
  BY <1>3, <1>4, FS_UNION
<1> QED BY <1>5 DEF T

(* The total on an account is what one of its orders holds plus a rest     *)
(* that does not depend on that order's row.                               *)
LEMMA HeldSplit ==
    ASSUME NEW rs \in [Orders -> Reservation], WithinAmount(rs),
           NEW o \in Orders
    PROVE  LET rest == UNION {UnitsOf(rs, x) : x \in OrdersOn(AccountOf[o]) \ {o}}
           IN  /\ Cardinality(HeldUnits(rs, AccountOf[o]))
                     = Cardinality(rest) + OwedBy(rs[o])
               /\ Cardinality(rest) \in Nat
               /\ OwedBy(rs[o]) \in Nat
<1> DEFINE others == OrdersOn(AccountOf[o]) \ {o}
           rest   == UNION {UnitsOf(rs, x) : x \in others}
           own    == UnitsOf(rs, o)
<1>1. IsFiniteSet(own) /\ Cardinality(own) = OwedBy(rs[o]) /\ OwedBy(rs[o]) \in Nat
  BY UnitsCount DEF WithinAmount
<1>2. IsFiniteSet(rest)
  <2>1. others \in SUBSET Orders
    BY DEF OrdersOn
  <2> QED BY <2>1, UnitsFinite
<1>3. own \cap rest = {}
  <2>1. \A u \in own : u[1] = o
    BY DEF UnitsOf
  <2>2. \A x \in others : \A u \in UnitsOf(rs, x) : u[1] # o
    BY DEF UnitsOf
  <2> QED BY <2>1, <2>2
<1>4. HeldUnits(rs, AccountOf[o]) = own \cup rest
  <2>1. OrdersOn(AccountOf[o]) = others \cup {o}
    BY DEF OrdersOn
  <2> QED BY <2>1 DEF HeldUnits
<1> HIDE DEF own, rest
<1>5. Cardinality(rest) \in Nat
  BY <1>2, FS_CardinalityType
<1>6. Cardinality(own \cup rest) = Cardinality(own) + Cardinality(rest) - Cardinality({})
  BY <1>1, <1>2, <1>3, FS_Union
<1>7. Cardinality({}) = 0
  BY FS_EmptySet
<1>8. Cardinality(HeldUnits(rs, AccountOf[o])) = Cardinality(rest) + OwedBy(rs[o])
  BY <1>1, <1>4, <1>5, <1>6, <1>7
<1> QED BY <1>1, <1>5, <1>8 DEF rest

(* Changing the row of one order changes the total of its account by what  *)
(* that order holds more or less, and no other account's.                  *)
LEMMA HeldChange ==
    ASSUME NEW rs \in [Orders -> Reservation], WithinAmount(rs),
           NEW o \in Orders, NEW r \in Reservation, r.settled <= r.amount
    PROVE  LET new == [rs EXCEPT ![o] = r]
           IN  /\ new \in [Orders -> Reservation]
               /\ WithinAmount(new)
               /\ Cardinality(HeldUnits(new, AccountOf[o]))
                     = Cardinality(HeldUnits(rs, AccountOf[o])) + OwedBy(r) - OwedBy(rs[o])
               /\ OwedBy(r) \in Nat /\ OwedBy(rs[o]) \in Nat
               /\ Cardinality(HeldUnits(rs, AccountOf[o])) \in Nat
               /\ Cardinality(HeldUnits(rs, AccountOf[o])) >= OwedBy(rs[o])
               /\ \A a \in Accounts \ {AccountOf[o]} :
                     HeldUnits(new, a) = HeldUnits(rs, a)
<1> DEFINE new == [rs EXCEPT ![o] = r]
           others == OrdersOn(AccountOf[o]) \ {o}
           restOld == UNION {UnitsOf(rs, x) : x \in others}
           restNew == UNION {UnitsOf(new, x) : x \in others}
<1>1. new \in [Orders -> Reservation] /\ new[o] = r
  OBVIOUS
<1>2. WithinAmount(new)
  BY DEF WithinAmount
<1>3. \A x \in Orders \ {o} : UnitsOf(new, x) = UnitsOf(rs, x)
  BY DEF UnitsOf
<1>4. restNew = restOld
  <2>1. others \subseteq Orders \ {o}
    BY DEF OrdersOn
  <2> HIDE DEF others, new
  <2> QED BY <1>3, <2>1
<1>5. \A a \in Accounts \ {AccountOf[o]} : HeldUnits(new, a) = HeldUnits(rs, a)
  <2>1. ASSUME NEW a \in Accounts \ {AccountOf[o]}
        PROVE  OrdersOn(a) \subseteq Orders \ {o}
    BY DEF OrdersOn
  <2> HIDE DEF new
  <2> QED BY <1>3, <2>1 DEF HeldUnits
<1>6. /\ Cardinality(HeldUnits(rs, AccountOf[o])) = Cardinality(restOld) + OwedBy(rs[o])
      /\ Cardinality(restOld) \in Nat
      /\ OwedBy(rs[o]) \in Nat
  BY HeldSplit
<1> HIDE DEF new
<1>7. /\ Cardinality(HeldUnits(new, AccountOf[o])) = Cardinality(restNew) + OwedBy(new[o])
      /\ OwedBy(new[o]) \in Nat
  BY <1>1, <1>2, HeldSplit
<1> HIDE DEF restOld, restNew
<1>8. /\ Cardinality(HeldUnits(new, AccountOf[o]))
            = Cardinality(HeldUnits(rs, AccountOf[o])) + OwedBy(r) - OwedBy(rs[o])
      /\ Cardinality(HeldUnits(rs, AccountOf[o])) \in Nat
      /\ Cardinality(HeldUnits(rs, AccountOf[o])) >= OwedBy(rs[o])
  BY <1>1, <1>4, <1>6, <1>7
<1> QED BY <1>1, <1>2, <1>5, <1>6, <1>7, <1>8 DEF new

-----------------------------------------------------------------------------
(* The inductive invariant *)

(* The running totals agree with the tables they summarise.  No part is    *)
(* inductive alone: that the clamps never bite needs ReservedIsOutstanding *)
(* and the bound on settled totals, and so does AvailableIdentity.         *)
Totals ==
    /\ TypeOK
    /\ WithinAmount(resv)
    /\ ReservedIsOutstanding
    /\ AvailableIdentity
    /\ LedgerReconciles
    /\ ClientNeverOverdrawn

(* A step that changes one order's row and its account's row, keeping the  *)
(* row in line with what the order now holds, keeps the totals.            *)
LEMMA TotalsKept ==
    ASSUME Totals, TypeOK',
           NEW o \in Orders, NEW r \in Reservation, r.settled <= r.amount,
           NEW row \in Row, NEW paid \in Nat,
           resv' = [resv EXCEPT ![o] = r],
           acct' = [acct EXCEPT ![AccountOf[o]] = row],
           ledger' = [ledger EXCEPT ![AccountOf[o]] = @ - paid],
           row.reserved = acct[AccountOf[o]].reserved + OwedBy(r) - OwedBy(resv[o]),
           row.balance = acct[AccountOf[o]].balance - paid,
           row.available = row.balance - row.reserved,
           row.available >= 0 \/ AccountOf[o] \in BankAccounts
    PROVE  Totals'
<1> DEFINE A == AccountOf[o]
<1>1. resv \in [Orders -> Reservation] /\ acct \in [Accounts -> Row]
      /\ ledger \in [Accounts -> Int] /\ A \in Accounts
  BY ReservationAssumption DEF Totals, TypeOK
<1>2. /\ WithinAmount(resv')
      /\ Cardinality(HeldUnits(resv', A))
            = Cardinality(HeldUnits(resv, A)) + OwedBy(r) - OwedBy(resv[o])
      /\ \A a \in Accounts \ {A} : HeldUnits(resv', a) = HeldUnits(resv, a)
  <2> DEFINE new == [resv EXCEPT ![o] = r]
  <2>1. WithinAmount(resv)
    BY DEF Totals
  <2>2. /\ WithinAmount(new)
        /\ Cardinality(HeldUnits(new, A))
              = Cardinality(HeldUnits(resv, A)) + OwedBy(r) - OwedBy(resv[o])
        /\ \A a \in Accounts \ {A} : HeldUnits(new, a) = HeldUnits(resv, a)
    BY ZenonT(40), <1>1, <2>1, HeldChange
  <2>3. resv' = new
    OBVIOUS
  <2> HIDE DEF new
  <2> QED BY <2>2, <2>3
<1>3. /\ acct'[A] = row
      /\ \A a \in Accounts \ {A} : acct'[a] = acct[a] /\ ledger'[a] = ledger[a]
      /\ ledger'[A] = ledger[A] - paid
  BY <1>1
<1>4. ReservedIsOutstanding'
  BY <1>2, <1>3 DEF Totals, ReservedIsOutstanding
<1>5. AvailableIdentity'
  BY <1>3 DEF Totals, AvailableIdentity
<1>6. LedgerReconciles'
  <2>1. acct[A].balance = InitialBalance[A] + ledger[A]
    BY <1>1 DEF Totals, LedgerReconciles
  <2>2. InitialBalance[A] \in Int /\ ledger[A] \in Int
    BY <1>1, AccountAssumption
  <2>3. acct'[A].balance = InitialBalance[A] + ledger'[A]
    BY <1>3, <2>1, <2>2
  <2> QED BY <1>3, <2>3 DEF Totals, LedgerReconciles
<1>7. ClientNeverOverdrawn'
  BY <1>3 DEF Totals, ClientNeverOverdrawn
<1> QED BY <1>2, <1>4, <1>5, <1>6, <1>7 DEF Totals

(* What TotalsKept needs to know of the account an order is placed on. *)
LEMMA OrderFacts ==
    ASSUME Totals, NEW o \in Orders
    PROVE  /\ AccountOf[o] \in Accounts
           /\ acct[AccountOf[o]] \in Row
           /\ resv[o] \in Reservation
           /\ resv[o].settled <= resv[o].amount
           /\ OwedBy(resv[o]) \in Nat
           /\ acct[AccountOf[o]].reserved \in Nat
           /\ acct[AccountOf[o]].reserved >= OwedBy(resv[o])
           /\ acct[AccountOf[o]].available
                = acct[AccountOf[o]].balance - acct[AccountOf[o]].reserved
           /\ \/ acct[AccountOf[o]].available >= 0
              \/ AccountOf[o] \in BankAccounts
           /\ ledger = [ledger EXCEPT ![AccountOf[o]] = @ - 0]
<1>1. /\ resv \in [Orders -> Reservation] /\ AccountOf[o] \in Accounts
      /\ acct \in [Accounts -> Row] /\ ledger \in [Accounts -> Int]
  BY ReservationAssumption DEF Totals, TypeOK
<1>2. WithinAmount(resv) /\ resv[o].settled <= resv[o].amount
  BY DEF Totals, WithinAmount
<1>3. acct[AccountOf[o]].reserved = Cardinality(HeldUnits(resv, AccountOf[o]))
  BY <1>1 DEF Totals, ReservedIsOutstanding
<1>4. /\ Cardinality(HeldUnits(resv, AccountOf[o])) \in Nat
      /\ Cardinality(HeldUnits(resv, AccountOf[o])) >= OwedBy(resv[o])
      /\ OwedBy(resv[o]) \in Nat
  BY <1>1, <1>2, HeldChange
<1>5. ledger = [ledger EXCEPT ![AccountOf[o]] = @ - 0]
  BY <1>1
<1> QED
  BY <1>1, <1>2, <1>3, <1>4, <1>5
     DEF Totals, AvailableIdentity, ClientNeverOverdrawn

(* A step that leaves the reservations alone and shifts both balances of   *)
(* one account by what it writes to the ledger keeps the totals.           *)
LEMMA ShiftKept ==
    ASSUME Totals, TypeOK', NEW a \in Accounts, NEW d \in Int, NEW row \in Row,
           row.balance = acct[a].balance + d,
           row.available = acct[a].available + d,
           row.reserved = acct[a].reserved,
           acct' = [acct EXCEPT ![a] = row],
           ledger' = [ledger EXCEPT ![a] = @ + d],
           UNCHANGED resv,
           acct[a].available + d >= 0 \/ a \in BankAccounts
    PROVE  Totals'
<1>1. acct \in [Accounts -> Row] /\ ledger \in [Accounts -> Int]
  BY DEF Totals, TypeOK
<1>0. InitialBalance[a] \in Int
  BY AccountAssumption
<1>2. /\ acct'[a] = row /\ ledger'[a] = ledger[a] + d
      /\ \A x \in Accounts \ {a} : acct'[x] = acct[x] /\ ledger'[x] = ledger[x]
  BY <1>1
<1>3. acct[a].balance \in Int /\ acct[a].available \in Int /\ acct[a].reserved \in Int
  BY <1>1 DEF Row
<1>4. ReservedIsOutstanding'
  BY <1>2 DEF Totals, ReservedIsOutstanding
<1>5. AvailableIdentity'
  BY <1>2, <1>3 DEF Totals, AvailableIdentity
<1>6. LedgerReconciles'
  BY <1>0, <1>1, <1>2, <1>3 DEF Totals, LedgerReconciles
<1>7. ClientNeverOverdrawn'
  BY <1>2 DEF Totals, ClientNeverOverdrawn
<1>8. WithinAmount(resv')
  BY DEF Totals
<1> QED BY <1>4, <1>5, <1>6, <1>7, <1>8 DEF Totals

(* Every operation keeps the totals. *)
LEMMA TotalsStep == Totals /\ [Next]_vars => Totals'
<1> SUFFICES ASSUME Totals, [Next]_vars PROVE Totals'
  OBVIOUS
<1> USE ReservationAssumption
<1>0. TypeOK'
  BY TypeStep DEF Totals
<1>1. ASSUME NEW o \in Orders, NEW amt \in Amounts, ReserveFunds(o, amt)
      PROVE  Totals'
  <2> DEFINE row == acct[AccountOf[o]]
  <2>1. CASE InsertReservation(o, amt)
    <3> DEFINE r == [status |-> "active", amount |-> amt, settled |-> 0]
    <3>1. r \in Reservation /\ r.settled <= r.amount /\ OwedBy(r) = amt /\ amt \in Nat
      BY DEF Reservation, Statuses, OwedBy
    <3>2. OwedBy(resv[o]) = 0
      BY <2>1 DEF InsertReservation, OwedBy
    <3>3. row.available >= amt
      BY <1>1 DEF ReserveFunds, ReserveAccepts
    <3>4. /\ Held(row, amt) \in Row
          /\ Held(row, amt).balance = row.balance
          /\ Held(row, amt).available = row.available - amt
          /\ Held(row, amt).reserved = row.reserved + amt
      BY <3>1, OrderFacts, HeldRow
    <3>5. row.reserved \in Int /\ row.balance \in Int /\ row.available \in Int
      BY OrderFacts DEF Row
    <3>6. /\ resv' = [resv EXCEPT ![o] = r]
          /\ acct' = [acct EXCEPT ![AccountOf[o]] = Held(row, amt)]
          /\ ledger' = [ledger EXCEPT ![AccountOf[o]] = @ - 0]
      BY <1>1, <2>1, OrderFacts DEF InsertReservation, ReserveFunds
    <3> HIDE DEF r
    <3>7. /\ Held(row, amt).reserved = row.reserved + OwedBy(r) - OwedBy(resv[o])
          /\ Held(row, amt).balance = row.balance - 0
          /\ Held(row, amt).available
               = Held(row, amt).balance - Held(row, amt).reserved
          /\ Held(row, amt).available >= 0
      BY <3>1, <3>2, <3>3, <3>4, <3>5, OrderFacts
    <3> QED BY <1>0, <3>1, <3>4, <3>6, <3>7, TotalsKept
  <2>2. CASE ReactivateReservation(o)
    <3> DEFINE n == resv[o].amount
               r == [status |-> "active", amount |-> n, settled |-> 0]
    <3>1. r \in Reservation /\ r.settled <= r.amount /\ OwedBy(r) = n /\ n \in Nat
      BY OrderFacts DEF Reservation, Statuses, OwedBy
    <3>2. OwedBy(resv[o]) = 0 /\ row.available >= n
      BY <2>2 DEF ReactivateReservation, OwedBy
    <3>3. /\ resv' = [resv EXCEPT ![o] = r]
          /\ acct' = [acct EXCEPT ![AccountOf[o]] = Held(row, n)]
          /\ ledger' = [ledger EXCEPT ![AccountOf[o]] = @ - 0]
      BY <1>1, <2>2, OrderFacts DEF ReactivateReservation, ReserveFunds
    <3> HIDE DEF r, n
    <3>4. /\ Held(row, n) \in Row
          /\ Held(row, n).balance = row.balance
          /\ Held(row, n).available = row.available - n
          /\ Held(row, n).reserved = row.reserved + n
      BY <3>1, OrderFacts, HeldRow
    <3>5. row.reserved \in Int /\ row.balance \in Int /\ row.available \in Int
      BY OrderFacts DEF Row
    <3>6. /\ Held(row, n).reserved = row.reserved + OwedBy(r) - OwedBy(resv[o])
          /\ Held(row, n).balance = row.balance - 0
          /\ Held(row, n).available = Held(row, n).balance - Held(row, n).reserved
          /\ Held(row, n).available >= 0
      BY <3>1, <3>2, <3>4, <3>5, OrderFacts
    <3> QED BY <1>0, <3>1, <3>3, <3>4, <3>6, TotalsKept
  <2> QED BY <1>1, <2>1, <2>2 DEF ReserveFunds
<1>2. ASSUME NEW o \in Orders, ReleaseReservation(o)
      PROVE  Totals'
  <2> DEFINE row == acct[AccountOf[o]]
             n == Remaining(o)
             r == [resv[o] EXCEPT !.status = "released"]
  <2>1. n = OwedBy(resv[o]) /\ n \in Nat
    BY <1>2, OrderFacts DEF ReleaseReservation, Remaining, ClampZero, OwedBy,
          Reservation
  <2>2. r \in Reservation /\ r.settled <= r.amount /\ OwedBy(r) = 0
    BY OrderFacts DEF Reservation, Statuses, OwedBy
  <2>3. /\ resv' = [resv EXCEPT ![o] = r]
        /\ acct' = [acct EXCEPT ![AccountOf[o]] = Returned(row, n)]
        /\ ledger' = [ledger EXCEPT ![AccountOf[o]] = @ - 0]
    BY <1>2, OrderFacts DEF ReleaseReservation
  <2> HIDE DEF n, r
  <2>4. /\ Returned(row, n) \in Row
        /\ Returned(row, n).balance = row.balance
        /\ Returned(row, n).available = row.available + n
        /\ Returned(row, n).reserved = row.reserved - n
    BY <2>1, OrderFacts, ReturnedRow
  <2>5. row.reserved \in Int /\ row.balance \in Int /\ row.available \in Int
    BY OrderFacts DEF Row
  <2>6. /\ Returned(row, n).reserved = row.reserved + OwedBy(r) - OwedBy(resv[o])
        /\ Returned(row, n).balance = row.balance - 0
        /\ Returned(row, n).available
             = Returned(row, n).balance - Returned(row, n).reserved
        /\ Returned(row, n).available >= 0 \/ AccountOf[o] \in BankAccounts
    BY <2>1, <2>2, <2>4, <2>5, OrderFacts
  <2>7. PICK w \in Row : w = Returned(row, n)
    BY <2>4
  <2>8. /\ acct' = [acct EXCEPT ![AccountOf[o]] = w]
        /\ w.reserved = acct[AccountOf[o]].reserved + OwedBy(r) - OwedBy(resv[o])
        /\ w.balance = acct[AccountOf[o]].balance - 0
        /\ w.available = w.balance - w.reserved
        /\ w.available >= 0 \/ AccountOf[o] \in BankAccounts
    BY <2>3, <2>6, <2>7
  <2>9. 0 \in Nat
    OBVIOUS
  <2> QED BY <1>0, <2>2, <2>3, <2>8, <2>9, TotalsKept
<1>3. ASSUME NEW o \in Orders, NEW t \in Txns, NEW amt \in Amounts,
             PartialSettleReservation(o, t, amt)
      PROVE  Totals'
  <2> DEFINE row == acct[AccountOf[o]]
             r == Filled(resv[o], amt)
  <2>1. /\ resv[o].status = "active" /\ resv[o].settled + amt <= resv[o].amount
        /\ amt \in Nat /\ resv[o].settled \in Nat /\ resv[o].amount \in Nat
    BY <1>3, OrderFacts DEF PartialSettleReservation, SettleAccepts, Reservation
  <2>2. r \in Reservation /\ r.settled <= r.amount
    BY <2>1 DEF Filled, Reservation, Statuses
  <2>3. OwedBy(r) = OwedBy(resv[o]) - amt /\ OwedBy(resv[o]) >= amt
    BY <2>1 DEF Filled, OwedBy
  <2>4. /\ resv' = [resv EXCEPT ![o] = r]
        /\ acct' = [acct EXCEPT ![AccountOf[o]] = Spent(row, amt)]
        /\ ledger' = [ledger EXCEPT ![AccountOf[o]] = @ - amt]
    BY <1>3 DEF PartialSettleReservation
  <2> HIDE DEF r
  <2>5. /\ Spent(row, amt) \in Row
        /\ Spent(row, amt).balance = row.balance - amt
        /\ Spent(row, amt).available = row.available
        /\ Spent(row, amt).reserved = row.reserved - amt
    <3>1. row \in Row /\ row.reserved >= amt
      BY <2>1, <2>3, OrderFacts
    <3> QED BY <2>1, <3>1, SpentRow
  <2>6. row.reserved \in Int /\ row.balance \in Int /\ row.available \in Int
    BY OrderFacts DEF Row
  <2>7. /\ Spent(row, amt).reserved = row.reserved + OwedBy(r) - OwedBy(resv[o])
        /\ Spent(row, amt).available
             = Spent(row, amt).balance - Spent(row, amt).reserved
        /\ Spent(row, amt).available >= 0 \/ AccountOf[o] \in BankAccounts
    BY <2>1, <2>3, <2>5, <2>6, OrderFacts
  <2> QED BY <1>0, <2>1, <2>2, <2>4, <2>5, <2>7, TotalsKept
<1>4. ASSUME NEW k \in Keys, NEW a \in Accounts, NEW d \in Int,
             UpdateBalance(k, a, d)
      PROVE  Totals'
  <2>1. acct[a] \in Row /\ acct[a].available \in Int
    BY DEF Totals, TypeOK, Row
  <2>2. acct[a].available + d >= 0 \/ a \in BankAccounts
    BY <1>4, <2>1 DEF UpdateBalance, CanUpdate, Totals, ClientNeverOverdrawn
  <2>3. /\ Updated(a, acct[a], d) \in Row
        /\ Updated(a, acct[a], d).balance = acct[a].balance + d
        /\ Updated(a, acct[a], d).available = acct[a].available + d
        /\ Updated(a, acct[a], d).reserved = acct[a].reserved
    BY <2>1, UpdatedRow
  <2> QED BY <1>0, <1>4, <2>2, <2>3, ShiftKept DEF UpdateBalance
<1>5. ASSUME NEW k \in Keys, NEW a \in Accounts, NEW amt \in Amounts,
             DebitBank(k, a, amt) \/ CreditBank(k, a, amt)
      PROVE  Totals'
  <2>1. acct[a] \in Row /\ amt \in Int /\ -amt \in Int /\ a \in BankAccounts
    BY <1>5 DEF Totals, TypeOK, DebitBank, CreditBank
  <2>2. \A d \in Int :
           /\ Shifted(acct[a], d) \in Row
           /\ Shifted(acct[a], d).balance = acct[a].balance + d
           /\ Shifted(acct[a], d).available = acct[a].available + d
           /\ Shifted(acct[a], d).reserved = acct[a].reserved
    BY <2>1, ShiftedRow
  <2>3. CASE DebitBank(k, a, amt)
    <3>1. /\ acct' = [acct EXCEPT ![a] = Shifted(acct[a], -amt)]
          /\ ledger' = [ledger EXCEPT ![a] = @ + (-amt)]
          /\ UNCHANGED resv
      BY <2>1, <2>3 DEF DebitBank, Totals, TypeOK
    <3> QED BY <1>0, <2>1, <2>2, <3>1, ShiftKept
  <2>4. CASE CreditBank(k, a, amt)
    <3>1. /\ acct' = [acct EXCEPT ![a] = Shifted(acct[a], amt)]
          /\ ledger' = [ledger EXCEPT ![a] = @ + amt]
          /\ UNCHANGED resv
      BY <2>4 DEF CreditBank
    <3> QED BY <1>0, <2>1, <2>2, <3>1, ShiftKept
  <2> QED BY <1>5, <2>3, <2>4
<1>6. ASSUME NEW p \in Periods, ResetSpending(p)
      PROVE  Totals'
  <2>1. \A a \in Accounts : /\ acct'[a].balance = acct[a].balance
                            /\ acct'[a].available = acct[a].available
                            /\ acct'[a].reserved = acct[a].reserved
    BY <1>6 DEF ResetSpending, Totals, TypeOK, Row
  <2>2. resv' = resv /\ ledger' = ledger
    BY <1>6 DEF ResetSpending
  <2> QED
    BY <1>0, <2>1, <2>2 DEF Totals, WithinAmount, ReservedIsOutstanding,
       AvailableIdentity, LedgerReconciles, ClientNeverOverdrawn
<1>7. CASE UNCHANGED vars
  BY <1>0, <1>7 DEF vars, Totals, WithinAmount, ReservedIsOutstanding,
     AvailableIdentity, LedgerReconciles, ClientNeverOverdrawn
<1>8. \A amt \in Amounts : amt \in Int /\ -amt \in Int
  OBVIOUS
<1> QED
  BY <1>1, <1>2, <1>3, <1>4, <1>5, <1>6, <1>7, <1>8
     DEF Next, ReservationStep, BalanceStep

(* The tables start in agreement: nothing is reserved and nothing logged. *)
LEMMA TotalsInit == Init => Totals
<1> SUFFICES ASSUME Init PROVE Totals
  OBVIOUS
<1>1. TypeOK
  BY AccountAssumption, ReservationAssumption, OpeningRowType
     DEF Init, TypeOK, NoReservation, Reservation, Statuses
<1>2. WithinAmount(resv)
  BY DEF Init, WithinAmount, NoReservation
<1>3. \A a \in Accounts : HeldUnits(resv, a) = {}
  <2>1. \A o \in Orders : UnitsOf(resv, o) = {}
    BY DEF Init, NoReservation, UnitsOf
  <2> QED BY <2>1 DEF HeldUnits, OrdersOn
<1>4. \A a \in Accounts : /\ acct[a].balance = InitialBalance[a]
                          /\ acct[a].available = InitialBalance[a]
                          /\ acct[a].reserved = 0
                          /\ ledger[a] = 0
                          /\ InitialBalance[a] \in Nat
  BY AccountAssumption DEF Init, OpeningRow
<1>5. ReservedIsOutstanding
  BY <1>3, <1>4, FS_EmptySet DEF ReservedIsOutstanding
<1>6. AvailableIdentity /\ LedgerReconciles /\ ClientNeverOverdrawn
  BY <1>4 DEF AvailableIdentity, LedgerReconciles, ClientNeverOverdrawn
<1> QED BY <1>1, <1>2, <1>5, <1>6 DEF Totals

(* The totals agree in every reachable state. *)
THEOREM TotalsAlways == Spec => []Totals
BY TotalsInit, TotalsStep, PTL DEF Spec

(* ReservedBalance is always exactly what the active reservations hold,    *)
(* after any sequence of reserves, fills, releases and re-activations.     *)
THEOREM ReservedIsOutstandingAlways == Spec => []ReservedIsOutstanding
<1>1. Totals => ReservedIsOutstanding
  BY DEF Totals
<1> QED BY <1>1, TotalsAlways, PTL

(* The invariant ReservationService documents: AvailableBalance =          *)
(* Balance - ReservedBalance.                                              *)
THEOREM AvailableIdentityAlways == Spec => []AvailableIdentity
<1>1. Totals => AvailableIdentity
  BY DEF Totals
<1> QED BY <1>1, TotalsAlways, PTL

(* No interleaving of holds, fills and debits overdraws a client account. *)
THEOREM ClientNeverOverdrawnAlways == Spec => []ClientNeverOverdrawn
<1>1. Totals => ClientNeverOverdrawn
  BY DEF Totals
<1> QED BY <1>1, TotalsAlways, PTL

(* The ledger accounts for every movement of every balance. *)
THEOREM LedgerReconcilesAlways == Spec => []LedgerReconciles
<1>1. Totals => LedgerReconciles
  BY DEF Totals
<1> QED BY <1>1, TotalsAlways, PTL

-----------------------------------------------------------------------------
(* Settlement rows *)

(* What SettledTotalsAgree needs besides: the rows of an order are         *)
(* finitely many, and a reservation is for a positive amount.              *)
SettledOf(o) ==
    /\ IsFiniteSet(SettledUnits(o)) /\ resv[o].settled = Cardinality(SettledUnits(o))
    /\ resv[o].settled <= resv[o].amount
    /\ resv[o].status # "none" =>
          /\ resv[o].amount > 0
          /\ resv[o].status = "settled" <=> resv[o].settled = resv[o].amount
    /\ resv[o].status = "none" => resv[o].settled = 0

SettledInv == TypeOK /\ \A o \in Orders : SettledOf(o)

(* An order whose reservation and rows no step touches. *)
LEMMA SettledFrame ==
    ASSUME NEW o \in Orders, SettledOf(o), resv'[o] = resv[o],
           SettledUnits(o)' = SettledUnits(o)
    PROVE  SettledOf(o)'
BY DEF SettledOf

(* Rows that stay give the same total. *)
LEMMA SameRows ==
    ASSUME NEW o \in Orders, RowsOf(o)' = RowsOf(o), \A t \in RowsOf(o) : stl'[t] = stl[t]
    PROVE  SettledUnits(o)' = SettledUnits(o)
BY DEF SettledUnits

(* One more row adds its amount. *)
LEMMA RowAdded ==
    ASSUME NEW o \in Orders, NEW t \in Txns, NEW n \in Nat, n > 0, t \notin RowsOf(o),
           IsFiniteSet(SettledUnits(o)),
           RowsOf(o)' = RowsOf(o) \cup {t}, stl'[t].amount = n,
           \A u \in RowsOf(o) : stl'[u] = stl[u]
    PROVE  /\ IsFiniteSet(SettledUnits(o)')
           /\ Cardinality(SettledUnits(o)') = Cardinality(SettledUnits(o)) + n
<1> DEFINE own == {t} \X (1 .. n)
           rest == SettledUnits(o)
<1>1. SettledUnits(o)' = rest \cup own
  BY DEF SettledUnits
<1>2. rest \cap own = {}
  BY DEF SettledUnits
<1>3. IsFiniteSet(own) /\ Cardinality(own) = n
  <2>1. 1 \in Int /\ n \in Int
    OBVIOUS
  <2>2. IsFiniteSet(1 .. n) /\ Cardinality(1 .. n) = n
    BY <2>1, FS_Interval
  <2>3. IsFiniteSet({t}) /\ Cardinality({t}) = 1
    BY FS_Singleton
  <2>4. IsFiniteSet(own) /\ Cardinality(own) = 1 * Cardinality(1 .. n)
    BY ZenonT(40), <2>2, <2>3, FS_Product
  <2> QED BY <2>2, <2>4
<1>4. IsFiniteSet(rest) /\ rest = SettledUnits(o)
  OBVIOUS
<1> HIDE DEF own, rest
<1>5. /\ IsFiniteSet(rest \cup own)
      /\ Cardinality(rest \cup own) = Cardinality(rest) + Cardinality(own) - Cardinality({})
  BY <1>2, <1>3, <1>4, FS_Union
<1>6. Cardinality({}) = 0 /\ Cardinality(rest) \in Nat
  BY <1>4, FS_EmptySet, FS_CardinalityType
<1>7. Cardinality(rest \cup own) = Cardinality(rest) + n
  BY <1>3, <1>5, <1>6
<1> QED BY <1>1, <1>4, <1>5, <1>7

(* Every operation keeps the settled totals in step with the rows. *)
LEMMA SettledStep == SettledInv /\ [Next]_vars => SettledInv'
<1> SUFFICES ASSUME SettledInv, [Next]_vars PROVE SettledInv'
  OBVIOUS
<1> USE ReservationAssumption
<1>1. TypeOK /\ TypeOK' /\ \A o \in Orders : SettledOf(o)
  BY TypeStep DEF SettledInv
<1>2. \A o \in Orders : /\ resv[o].settled \in Nat /\ resv[o].amount \in Nat
                        /\ resv[o].status \in Statuses
  BY <1>1 DEF TypeOK, Reservation
<1>3. ASSUME UNCHANGED <<resv, stl>> PROVE SettledInv'
  <2>1. ASSUME NEW o \in Orders PROVE SettledOf(o)'
    <3>1. SettledUnits(o)' = SettledUnits(o)
      BY <1>3 DEF SettledUnits, RowsOf
    <3> QED BY <1>1, <1>3, <3>1, SettledFrame
  <2> QED BY <1>1, <2>1 DEF SettledInv
<1>4. ASSUME NEW o \in Orders, NEW amt \in Amounts, InsertReservation(o, amt) PROVE SettledInv'
  <2>1. /\ resv[o].status = "none" /\ UNCHANGED stl
        /\ resv' = [resv EXCEPT ![o] = [status |-> "active", amount |-> amt, settled |-> 0]]
    BY <1>4 DEF InsertReservation
  <2>2. \A x \in Orders : SettledUnits(x)' = SettledUnits(x)
    BY <2>1 DEF SettledUnits, RowsOf
  <2>3. SettledOf(o)'
    <3>1. resv'[o] = [status |-> "active", amount |-> amt, settled |-> 0]
      BY <1>1, <2>1 DEF TypeOK
    <3>2. resv'[o].status = "active" /\ resv'[o].amount = amt /\ resv'[o].settled = 0
      BY <3>1
    <3>3. IsFiniteSet(SettledUnits(o)) /\ Cardinality(SettledUnits(o)) = 0
      BY <1>1, <2>1 DEF SettledOf
    <3>4. amt \in Nat /\ amt > 0
      OBVIOUS
    <3> QED BY <2>2, <3>2, <3>3, <3>4 DEF SettledOf
  <2>4. ASSUME NEW x \in Orders, x # o PROVE SettledOf(x)'
    <3>1. resv'[x] = resv[x]
      BY <1>1, <2>1, <2>4 DEF TypeOK
    <3> QED BY <1>1, <2>2, <3>1, SettledFrame
  <2> QED BY <1>1, <2>3, <2>4 DEF SettledInv
<1>5. ASSUME NEW o \in Orders, ReactivateReservation(o) PROVE SettledInv'
  <2>1. /\ resv[o].status \in {"released", "settled"}
        /\ resv' = [resv EXCEPT ![o] = [status |-> "active", amount |-> resv[o].amount, settled |-> 0]]
        /\ stl' = [t \in Txns |-> IF stl[t] # NoSettlement /\ stl[t].order = o
                                  THEN NoSettlement ELSE stl[t]]
    BY <1>1, <1>5 DEF ReactivateReservation, TypeOK
  <2>2. SettledOf(o)'
    <3>1. RowsOf(o)' = {}
      BY <2>1 DEF RowsOf
    <3>2. SettledUnits(o)' = {}
      BY <3>1 DEF SettledUnits
    <3>3. resv'[o] = [status |-> "active", amount |-> resv[o].amount, settled |-> 0]
      BY <1>1, <2>1 DEF TypeOK
    <3>4. resv'[o].status = "active" /\ resv'[o].amount = resv[o].amount /\ resv'[o].settled = 0
      BY <3>3
    <3>5. resv[o].amount > 0
      BY <1>1, <2>1 DEF SettledOf
    <3> QED BY <1>2, <3>2, <3>4, <3>5, FS_EmptySet DEF SettledOf
  <2>3. ASSUME NEW x \in Orders, x # o PROVE SettledOf(x)'
    <3>1. resv'[x] = resv[x]
      BY <1>1, <2>1, <2>3 DEF TypeOK
    <3>2. RowsOf(x)' = RowsOf(x) /\ \A t \in RowsOf(x) : stl'[t] = stl[t]
      BY <2>1, <2>3 DEF RowsOf
    <3>3. SettledUnits(x)' = SettledUnits(x)
      BY <3>2, SameRows
    <3> QED BY <1>1, <3>1, <3>3, SettledFrame
  <2> QED BY <1>1, <2>2, <2>3 DEF SettledInv
<1>6. ASSUME NEW o \in Orders, ReleaseReservation(o) PROVE SettledInv'
  <2>1. /\ resv[o].status = "active" /\ UNCHANGED stl
        /\ resv' = [resv EXCEPT ![o].status = "released"]
    BY <1>6 DEF ReleaseReservation
  <2>2. \A x \in Orders : SettledUnits(x)' = SettledUnits(x)
    BY <2>1 DEF SettledUnits, RowsOf
  <2>3. /\ resv'[o].status = "released" /\ resv'[o].amount = resv[o].amount
        /\ resv'[o].settled = resv[o].settled
        /\ \A x \in Orders : x # o => resv'[x] = resv[x]
    BY <1>1, <2>1 DEF TypeOK, Reservation
  <2>4. SettledOf(o)'
    <3>1. SettledOf(o)
      BY <1>1
    <3> QED BY <2>1, <2>2, <2>3, <3>1 DEF SettledOf
  <2>5. ASSUME NEW x \in Orders, x # o PROVE SettledOf(x)'
    BY <1>1, <2>2, <2>3, <2>5, SettledFrame
  <2> QED BY <1>1, <2>4, <2>5 DEF SettledInv
<1>7. ASSUME NEW o \in Orders, NEW t \in Txns, NEW amt \in Amounts,
             PartialSettleReservation(o, t, amt)
      PROVE  SettledInv'
  <2>1. /\ resv[o].status = "active" /\ resv[o].settled + amt <= resv[o].amount
        /\ stl[t] = NoSettlement /\ stl' = [stl EXCEPT ![t] = [order |-> o, amount |-> amt]]
        /\ resv' = [resv EXCEPT ![o] = Filled(resv[o], amt)]
    BY <1>1, <1>7 DEF PartialSettleReservation, SettleAccepts, TypeOK
  <2>2. amt \in Nat /\ amt > 0
    OBVIOUS
  <2>3. /\ stl'[t] = [order |-> o, amount |-> amt] /\ stl'[t] # NoSettlement
        /\ \A u \in Txns : u # t => stl'[u] = stl[u]
    BY <1>1, <2>1, <2>2, NoSettlementAssumption DEF TypeOK
  <2>4. t \notin RowsOf(o) /\ RowsOf(o)' = RowsOf(o) \cup {t}
        /\ stl'[t].amount = amt /\ \A u \in RowsOf(o) : stl'[u] = stl[u]
    BY <2>1, <2>3 DEF RowsOf
  <2>5. /\ resv'[o].amount = resv[o].amount /\ resv'[o].settled = resv[o].settled + amt
        /\ resv'[o].status = IF resv[o].settled + amt = resv[o].amount THEN "settled" ELSE "active"
        /\ \A x \in Orders : x # o => resv'[x] = resv[x]
    BY <1>1, <2>1 DEF Filled, TypeOK
  <2>6. SettledOf(o)'
    <3>1. SettledOf(o)
      BY <1>1
    <3>2. IsFiniteSet(SettledUnits(o))
      BY <3>1 DEF SettledOf
    <3>3. /\ IsFiniteSet(SettledUnits(o)')
          /\ Cardinality(SettledUnits(o)') = Cardinality(SettledUnits(o)) + amt
      BY <2>2, <2>4, <3>2, RowAdded
    <3>4. resv'[o].settled = Cardinality(SettledUnits(o)')
      BY <2>5, <3>1, <3>3 DEF SettledOf
    <3> QED BY <1>2, <2>1, <2>2, <2>5, <3>1, <3>3, <3>4 DEF SettledOf
  <2>7. ASSUME NEW x \in Orders, x # o PROVE SettledOf(x)'
    <3>1. RowsOf(x)' = RowsOf(x) /\ \A u \in RowsOf(x) : stl'[u] = stl[u]
      BY <2>1, <2>3, <2>7 DEF RowsOf
    <3>2. SettledUnits(x)' = SettledUnits(x)
      BY <3>1, SameRows
    <3> QED BY <1>1, <2>5, <2>7, <3>2, SettledFrame
  <2> QED BY <1>1, <2>6, <2>7 DEF SettledInv
<1>8. BalanceStep => UNCHANGED <<resv, stl>>
  BY ZenonT(40) DEF BalanceStep, UpdateBalance, DebitBank, CreditBank, ResetSpending
<1>9. UNCHANGED vars => UNCHANGED <<resv, stl>>
  BY DEF vars
<1> QED BY <1>3, <1>4, <1>5, <1>6, <1>7, <1>8, <1>9 DEF Next, ReservationStep,
      ReserveFunds

(* SumSettlements: the settled total each check of                         *)
(* PartialSettleReservation uses is the sum of the settlement rows, also   *)
(* across a re-activation that deletes them; it never passes the reserved  *)
(* amount, and reaches it exactly when the reservation is settled.         *)
THEOREM SettledTotalsAgreeAlways == Spec => []SettledTotalsAgree
<1>1. Init => SettledInv
  <2> SUFFICES ASSUME Init PROVE SettledInv
    OBVIOUS
  <2>1. TypeOK
    BY TotalsInit DEF Totals
  <2>2. \A o \in Orders : SettledUnits(o) = {}
    BY DEF Init, SettledUnits, RowsOf
  <2>3. \A o \in Orders : resv[o].status = "none" /\ resv[o].settled = 0 /\ resv[o].amount = 0
    BY DEF Init, NoReservation
  <2> QED BY <2>1, <2>2, <2>3, FS_EmptySet DEF SettledInv, SettledOf
<1>2. SettledInv => SettledTotalsAgree
  BY DEF SettledInv, SettledOf, SettledTotalsAgree
<1> QED BY <1>1, <1>2, SettledStep, PTL DEF Spec

-----------------------------------------------------------------------------
(*                              InterbankHolds                             *)

-----------------------------------------------------------------------------
(* Counting money *)

(* Finitely many units, and a sum is a number. *)
LEMMA HoldUnitsFinite ==
    ASSUME NEW T \in SUBSET HoldKeys, NEW a \in Accounts
    PROVE  IsFiniteSet(Units(a, T)) /\ Money(a, T) \in Nat
<1> USE HoldsAssumption
<1> DEFINE P == {x \in T : KeyAccount[x] = a}
           U == {{x} \X (1 .. KeyAmount[x]) : x \in P}
           f == [x \in P |-> {x} \X (1 .. KeyAmount[x])]
<1>1. IsFiniteSet(P)
  <2>1. P \subseteq HoldKeys
    OBVIOUS
  <2> HIDE DEF P
  <2> QED BY <2>1, FS_Subset
<1>2. f \in Surjection(P, U)
  BY DEF Surjection
<1>3. ASSUME NEW x \in P PROVE IsFiniteSet({x} \X (1 .. KeyAmount[x]))
  <2>1. KeyAmount[x] \in Int /\ 1 \in Int
    OBVIOUS
  <2>2. IsFiniteSet(1 .. KeyAmount[x]) /\ IsFiniteSet({x})
    BY <2>1, FS_Interval, FS_Singleton
  <2> QED BY <2>2, FS_Product
<1>4. \A u \in U : IsFiniteSet(u)
  BY <1>3
<1>5. Units(a, T) = UNION U
  BY DEF Units
<1> HIDE DEF P, U, f
<1>6. IsFiniteSet(U)
  BY <1>1, <1>2, FS_Surjection
<1>7. IsFiniteSet(UNION U)
  BY <1>4, <1>6, FS_UNION
<1> QED BY <1>5, <1>7, FS_CardinalityType DEF Money

(* One more key counts for its amount on its own account, and for nothing  *)
(* on the others.                                                          *)
LEMMA MoneyAdded ==
    ASSUME NEW S \in SUBSET HoldKeys, NEW k \in HoldKeys, k \notin S, NEW a \in Accounts
    PROVE  /\ Money(a, S) \in Nat /\ Money(a, S \cup {k}) \in Nat
           /\ KeyAccount[k] = a => Money(a, S \cup {k}) = Money(a, S) + KeyAmount[k]
           /\ KeyAccount[k] # a => Money(a, S \cup {k}) = Money(a, S)
<1> USE HoldsAssumption
<1>2. IsFiniteSet(Units(a, S)) /\ Money(a, S) \in Nat
  BY HoldUnitsFinite
<1>3. CASE KeyAccount[k] # a
  <2>1. Units(a, S \cup {k}) = Units(a, S)
    BY <1>3 DEF Units
  <2> QED BY <1>2, <1>3, <2>1 DEF Money
<1>4. CASE KeyAccount[k] = a
  <2> DEFINE own == {k} \X (1 .. KeyAmount[k])
             rest == Units(a, S)
  <2>1. Units(a, S \cup {k}) = rest \cup own
    BY <1>4 DEF Units
  <2>2. rest \cap own = {}
    BY DEF Units
  <2>3. IsFiniteSet(own) /\ Cardinality(own) = KeyAmount[k]
    <3>1. KeyAmount[k] \in Nat /\ KeyAmount[k] > 0 /\ 1 \in Int /\ KeyAmount[k] \in Int
      OBVIOUS
    <3>2. IsFiniteSet(1 .. KeyAmount[k]) /\ Cardinality(1 .. KeyAmount[k]) = KeyAmount[k]
      BY <3>1, FS_Interval
    <3>3. IsFiniteSet({k}) /\ Cardinality({k}) = 1
      BY FS_Singleton
    <3>4. IsFiniteSet(own) /\ Cardinality(own) = 1 * Cardinality(1 .. KeyAmount[k])
      BY <3>2, <3>3, FS_Product
    <3> QED BY <3>1, <3>2, <3>4
  <2>0. rest = Units(a, S)
    OBVIOUS
  <2> HIDE DEF own, rest
  <2>4. Cardinality(rest \cup own) = Cardinality(rest) + Cardinality(own) - Cardinality({})
    BY <1>2, <2>2, <2>3, <2>0, FS_Union
  <2>5. Cardinality({}) = 0
    BY FS_EmptySet
  <2>6. Cardinality(rest) \in Nat /\ KeyAmount[k] \in Nat
    BY <1>2, <2>0 DEF Money
  <2>7. Money(a, S \cup {k}) = Money(a, S) + KeyAmount[k]
    <3>1. Money(a, S \cup {k}) = Cardinality(rest \cup own)
      BY <2>1 DEF Money
    <3>2. Money(a, S) = Cardinality(rest)
      BY <2>0 DEF Money
    <3>3. Cardinality(rest \cup own) = Cardinality(rest) + KeyAmount[k]
      BY <2>3, <2>4, <2>5, <2>6
    <3> QED BY <3>1, <3>2, <3>3
  <2> QED BY <1>2, <1>4, <2>6, <2>7
<1> QED BY <1>2, <1>3, <1>4

-----------------------------------------------------------------------------
(* Rows *)

(* The counters of a debit are natural numbers. *)
LEMMA AccruedType ==
    ASSUME NEW row \in Row, NEW n \in Nat, NEW a \in Accounts
    PROVE  Accrued(a, row, n) \in [Periods -> Nat]
<1>1. row.spent \in [Periods -> Nat]
  BY DEF Row
<1> QED BY <1>1 DEF Accrued

(* What a debit makes of a row. *)
LEMMA DebitedRow ==
    ASSUME NEW row \in Row, NEW n \in Nat, n > 0, NEW a \in Accounts
    PROVE  /\ Updated(a, row, -n) \in Row
           /\ Updated(a, row, -n).balance = row.balance - n
           /\ Updated(a, row, -n).available = row.available - n
<1>1. -n \in Int /\ -n < 0 /\ -(-n) = n
  OBVIOUS
<1>2. PICK m : m = Shifted(row, -n)
  OBVIOUS
<1>3. m \in Row /\ m.balance = row.balance + (-n) /\ m.available = row.available + (-n)
  BY <1>1, <1>2, ShiftedRow
<1>4. PICK c \in [Periods -> Nat] : c = Accrued(a, row, n)
  BY AccruedType
<1>5. Updated(a, row, -n) = [m EXCEPT !.spent = c]
  BY <1>1, <1>2, <1>4 DEF Updated
<1>6. row.balance \in Int /\ row.available \in Int
  BY DEF Row
<1>7. /\ [m EXCEPT !.spent = c] \in Row
      /\ [m EXCEPT !.spent = c].balance = m.balance
      /\ [m EXCEPT !.spent = c].available = m.available
  BY <1>3, <1>4 DEF Row
<1> QED BY <1>3, <1>5, <1>6, <1>7

-----------------------------------------------------------------------------
(* The invariant *)

(* Both sums at once: each is inductive, given the types. *)
HoldsInv == HoldsTypeOK /\ EachKeyMovesOnce /\ NothingHeldTwice

(* What a key is. *)
LEMMA KeyFacts ==
    ASSUME HoldsTypeOK, NEW k \in HoldKeys
    PROVE  /\ KeyAccount[k] \in Accounts /\ KeyAmount[k] \in Nat /\ KeyAmount[k] > 0
           /\ acct[KeyAccount[k]] \in Row
           /\ acct[KeyAccount[k]].balance \in Int /\ acct[KeyAccount[k]].available \in Int
           /\ acct[KeyAccount[k]].spent \in [Periods -> Nat]
BY HoldsAssumption DEF HoldsTypeOK, Row

(* A new ledger entry counts once, on its account and its side. *)
LEMMA EntryAdded ==
    ASSUME HoldsTypeOK, NEW k \in HoldKeys, k \notin entries, entries' = entries \cup {k}, NEW a \in Accounts
    PROVE  /\ k \in InKeys =>
                /\ Debited(a)' = Debited(a)
                /\ KeyAccount[k] = a => Credited(a)' = Credited(a) + KeyAmount[k]
                /\ KeyAccount[k] # a => Credited(a)' = Credited(a)
           /\ k \notin InKeys =>
                /\ Credited(a)' = Credited(a)
                /\ KeyAccount[k] = a => Debited(a)' = Debited(a) + KeyAmount[k]
                /\ KeyAccount[k] # a => Debited(a)' = Debited(a)
<1>1. /\ InKeys \cap entries \in SUBSET HoldKeys /\ k \notin InKeys \cap entries
      /\ (OutKeys \cup DebitKeys) \cap entries \in SUBSET HoldKeys
      /\ k \notin (OutKeys \cup DebitKeys) \cap entries
  BY DEF HoldsTypeOK
<1>2. CASE k \in InKeys
  <2>1. /\ InKeys \cap entries' = (InKeys \cap entries) \cup {k}
        /\ (OutKeys \cup DebitKeys) \cap entries' = (OutKeys \cup DebitKeys) \cap entries
    BY <1>2, HoldsAssumption
  <2>2. Credited(a)' = Money(a, (InKeys \cap entries) \cup {k}) /\ Debited(a)' = Debited(a)
    BY <2>1 DEF Credited, Debited
  <2> QED BY <1>1, <1>2, <2>2, MoneyAdded DEF Credited
<1>3. CASE k \notin InKeys
  <2>1. /\ (OutKeys \cup DebitKeys) \cap entries' = ((OutKeys \cup DebitKeys) \cap entries) \cup {k}
        /\ InKeys \cap entries' = InKeys \cap entries
    BY <1>3 DEF HoldKeys
  <2>2. /\ Debited(a)' = Money(a, ((OutKeys \cup DebitKeys) \cap entries) \cup {k})
        /\ Credited(a)' = Credited(a)
    BY <2>1 DEF Credited, Debited
  <2> QED BY <1>1, <1>3, <2>2, MoneyAdded DEF Debited
<1> QED BY <1>2, <1>3

(* A hold that ends frees its amount if it was pending. *)
LEMMA HoldEnds ==
    ASSUME HoldsTypeOK, NEW k \in OutKeys, NEW st \in {"settled", "released"},
           out' = Mark(out, k, st), NEW a \in Accounts
    PROVE  /\ Money(a, Pending) \in Nat /\ Money(a, Pending)' \in Nat
           /\ KeyAccount[k] # a => Money(a, Pending)' = Money(a, Pending)
           /\ Money(a, Pending) <= Money(a, Pending)' + KeyAmount[k]
<1>1. k \in HoldKeys /\ Pending \in SUBSET HoldKeys /\ Pending' \in SUBSET HoldKeys
  BY DEF HoldKeys, Pending
<1>2. Pending' = Pending \ {k}
  BY DEF Mark, Pending, HoldsTypeOK
<1>3. KeyAmount[k] \in Nat
  BY <1>1, HoldsAssumption
<1>4. CASE k \in Pending
  <2>1. Pending = Pending' \cup {k} /\ k \notin Pending'
    BY <1>2, <1>4
  <2>2. /\ Money(a, Pending') \in Nat /\ Money(a, Pending' \cup {k}) \in Nat
        /\ KeyAccount[k] = a => Money(a, Pending' \cup {k}) = Money(a, Pending') + KeyAmount[k]
        /\ KeyAccount[k] # a => Money(a, Pending' \cup {k}) = Money(a, Pending')
    BY <1>1, <2>1, MoneyAdded
  <2>3. Money(a, Pending)' = Money(a, Pending')
    BY DEF Money, Units
  <2> QED BY <1>3, <2>1, <2>2, <2>3
<1>5. CASE k \notin Pending
  <2>1. Pending' = Pending
    BY <1>2, <1>5
  <2>2. Money(a, Pending)' = Money(a, Pending) /\ Money(a, Pending) \in Nat
    BY <1>1, <2>1, HoldUnitsFinite DEF Money, Units
  <2> QED BY <1>3, <2>2
<1> QED BY <1>4, <1>5

(* A row written to one account. *)
LEMMA Written ==
    ASSUME HoldsTypeOK, NEW a \in Accounts, NEW row \in Row, acct' = [acct EXCEPT ![a] = row]
    PROVE  /\ acct' \in [Accounts -> Row] /\ acct'[a] = row
           /\ \A x \in Accounts : x # a => acct'[x] = acct[x]
BY DEF HoldsTypeOK

(* Every step keeps it. *)
LEMMA HoldsStep == HoldsInv /\ [HoldsNext]_holdsVars => HoldsInv'
<1> SUFFICES ASSUME HoldsInv, [HoldsNext]_holdsVars PROVE HoldsInv'
  OBVIOUS
<1>1. HoldsTypeOK /\ EachKeyMovesOnce /\ NothingHeldTwice
  BY DEF HoldsInv
<1>2. \A a \in Accounts : acct[a].balance \in Int /\ acct[a].available \in Int
                          /\ InitialBalance[a] \in Int
  BY <1>1, AccountAssumption DEF HoldsTypeOK, Row
<1>3. OutKeys \cup DebitKeys \in SUBSET HoldKeys /\ InKeys \in SUBSET HoldKeys /\ Pending \in SUBSET HoldKeys
  BY DEF HoldKeys, Pending
<1>4. \A a \in Accounts : /\ Credited(a) \in Nat /\ Debited(a) \in Nat
                          /\ Money(a, Pending) \in Nat
  <2>1. InKeys \cap entries \in SUBSET HoldKeys /\ (OutKeys \cup DebitKeys) \cap entries \in SUBSET HoldKeys
    BY <1>3
  <2> QED BY <1>3, <2>1, HoldUnitsFinite DEF Credited, Debited
<1>5. ASSUME NEW k \in OutKeys, ReserveOutgoing(k) PROVE HoldsInv'
  <2> DEFINE A == KeyAccount[k]
             n == KeyAmount[k]
             row == [acct[A] EXCEPT !.available = acct[A].available - n]
  <2>1. k \in HoldKeys
    BY DEF HoldKeys
  <2>2. A \in Accounts /\ n \in Nat /\ acct[A] \in Row /\ acct[A].balance \in Int
        /\ acct[A].available \in Int /\ acct[A].spent \in [Periods -> Nat]
    BY <1>1, <2>1, KeyFacts
  <2>3. row \in Row /\ row.balance = acct[A].balance /\ row.available = acct[A].available - n
    BY <2>2 DEF Row
  <2>4. acct' = [acct EXCEPT ![A] = row] /\ UNCHANGED <<inc, entries, calls>>
        /\ out[k] = "none" /\ out' = [out EXCEPT ![k] = "pending"]
    BY <1>5 DEF ReserveOutgoing
  <2> HIDE DEF row
  <2>5. acct' \in [Accounts -> Row] /\ acct'[A] = row /\ \A x \in Accounts : x # A => acct'[x] = acct[x]
    BY <1>1, <2>2, <2>3, <2>4, Written
  <2>6. HoldsTypeOK'
    BY <1>1, <2>4, <2>5 DEF HoldsTypeOK
  <2>7. EachKeyMovesOnce'
    <3>1. \A a \in Accounts : acct'[a].balance = acct[a].balance
      BY <2>3, <2>5
    <3> QED BY <1>1, <2>4, <3>1 DEF EachKeyMovesOnce, Credited, Debited, Money, Units,
          HoldsTypeOK
  <2>8. Pending' = Pending \cup {k} /\ k \notin Pending
    BY <1>1, <2>4 DEF Pending, HoldsTypeOK
  <2>9. ASSUME NEW a \in Accounts PROVE acct'[a].available >= acct'[a].balance - Money(a, Pending)'
    <3>1. Money(a, Pending)' = Money(a, Pending \cup {k})
      BY <2>8 DEF Money, Units
    <3>2. acct[a].available >= acct[a].balance - Money(a, Pending)
      BY <1>1 DEF NothingHeldTwice
    <3>3. /\ A = a => Money(a, Pending \cup {k}) = Money(a, Pending) + n
          /\ A # a => Money(a, Pending \cup {k}) = Money(a, Pending)
      BY <1>3, <2>1, <2>8, MoneyAdded
    <3>4. CASE A = a
      BY <1>2, <1>4, <2>2, <2>3, <2>5, <3>1, <3>2, <3>3, <3>4
    <3>5. CASE A # a
      BY <2>5, <3>1, <3>2, <3>3, <3>5
    <3> QED BY <3>4, <3>5
  <2> QED BY <2>6, <2>7, <2>9 DEF HoldsInv, NothingHeldTwice
<1>6. ASSUME UNCHANGED <<acct, out, entries>>, HoldsTypeOK',
             \A k \in InKeys : inc'[k] = "committed" => inc[k] = "committed"
      PROVE  HoldsInv'
  <2>1. EachKeyMovesOnce'
    BY <1>1, <1>6 DEF EachKeyMovesOnce, Credited, Debited, Money, Units
  <2>2. NothingHeldTwice'
    BY <1>1, <1>6 DEF NothingHeldTwice, Pending, Money, Units
  <2> QED BY <1>6, <2>1, <2>2 DEF HoldsInv
<1>7. ASSUME NEW k \in InKeys, ReserveIncoming(k) PROVE HoldsInv'
  <2>1. HoldsTypeOK'
    BY <1>1, <1>7 DEF ReserveIncoming, HoldsTypeOK
  <2> QED BY <1>1, <1>6, <1>7, <2>1 DEF ReserveIncoming, HoldsTypeOK
<1>8. ASSUME NEW r \in Rpcs, NEW k \in OutKeys, SweepRead(r, k) \/ SettleRead(r, k) \/ ReleaseRead(r, k)
      PROVE  HoldsInv'
  <2>1. PICK op \in {"settle", "release", "sweep"} : CallRead(op, r, k, out[k])
    BY <1>8 DEF SweepRead, SettleRead, ReleaseRead
  <2>2. <<op, r, k>> \in OutCalls
    BY DEF OutCalls
  <2>3. calls' \subseteq OutCalls \cup InCalls
    BY <1>1, <2>1, <2>2 DEF CallRead, HoldsTypeOK
  <2> QED BY <1>1, <1>6, <2>1, <2>3 DEF CallRead, HoldsTypeOK
<1>9. ASSUME NEW r \in Rpcs, NEW k \in InKeys, CommitRead(r, k) \/ ReleaseIncomingRead(r, k)
      PROVE  HoldsInv'
  <2>1. PICK op \in {"commit", "releaseIncoming"} : CallRead(op, r, k, inc[k])
    BY <1>9 DEF CommitRead, ReleaseIncomingRead
  <2>2. <<op, r, k>> \in InCalls
    BY DEF InCalls
  <2>3. calls' \subseteq OutCalls \cup InCalls
    BY <1>1, <2>1, <2>2 DEF CallRead, HoldsTypeOK
  <2> QED BY <1>1, <1>6, <2>1, <2>3 DEF CallRead, HoldsTypeOK
<1>10. ASSUME NEW r \in Rpcs, NEW k \in OutKeys, SettleTx(r, k) PROVE HoldsInv'
  <2> DEFINE A == KeyAccount[k]
             n == KeyAmount[k]
             row == [acct[A] EXCEPT !.balance = acct[A].balance - n, !.spent = Accrued(A, acct[A], n)]
  <2>1. k \in HoldKeys /\ k \in OutKeys \cup DebitKeys /\ k \notin InKeys
    BY HoldsAssumption DEF HoldKeys
  <2>2. A \in Accounts /\ n \in Nat /\ acct[A] \in Row /\ acct[A].balance \in Int
        /\ acct[A].available \in Int
    BY <1>1, <2>1, KeyFacts
  <2>3. row \in Row /\ row.balance = acct[A].balance - n /\ row.available = acct[A].available
    <3>1. Accrued(A, acct[A], n) \in [Periods -> Nat] /\ acct[A].balance - n \in Int
      BY <2>2, AccruedType
    <3>2. PICK c \in [Periods -> Nat], x \in Int :
             c = Accrued(A, acct[A], n) /\ x = acct[A].balance - n
      BY <3>1
    <3>3. row = [acct[A] EXCEPT !.balance = x, !.spent = c]
      BY <3>2
    <3> HIDE DEF row
    <3> QED BY <2>2, <3>2, <3>3 DEF Row
  <2>4. acct' = [acct EXCEPT ![A] = row] /\ entries' = entries \cup {k} /\ k \notin entries
        /\ out' = Mark(out, k, "settled") /\ UNCHANGED inc /\ calls' \subseteq calls
    BY <1>10 DEF SettleTx, Done
  <2> HIDE DEF row
  <2>5. acct' \in [Accounts -> Row] /\ acct'[A] = row /\ \A x \in Accounts : x # A => acct'[x] = acct[x]
    BY <1>1, <2>2, <2>3, <2>4, Written
  <2>6. HoldsTypeOK'
    BY <1>1, <2>1, <2>4, <2>5 DEF HoldsTypeOK, Mark
  <2>7. EachKeyMovesOnce'
    <3>1. ASSUME NEW a \in Accounts
          PROVE  acct'[a].balance = InitialBalance[a] + Credited(a)' - Debited(a)'
      <4>1. /\ A = a => Debited(a)' = Debited(a) + n
            /\ A # a => Debited(a)' = Debited(a)
        BY <1>1, <1>3, <2>1, <2>4, EntryAdded
      <4>2. Credited(a)' = Credited(a)
        BY <1>1, <1>3, <2>1, <2>4, EntryAdded
      <4>3. acct[a].balance = InitialBalance[a] + Credited(a) - Debited(a)
        BY <1>1 DEF EachKeyMovesOnce
      <4>4. CASE A = a
        <5>1. acct'[a].balance = acct[a].balance - n
          BY <2>3, <2>5, <4>4
        <5>2. /\ InitialBalance[a] \in Int /\ n \in Int
              /\ Credited(a) \in Int /\ Debited(a) \in Int
          BY <1>2, <1>4, <2>2
        <5>3. Debited(a)' = Debited(a) + n
          BY <4>1, <4>4
        <5> HIDE DEF n
        <5> QED BY <4>2, <4>3, <5>1, <5>2, <5>3
      <4>5. CASE A # a
        BY <2>5, <4>1, <4>2, <4>3, <4>5
      <4> QED BY <4>4, <4>5
    <3>2. \A x \in OutKeys : out'[x] = "settled" => x \in entries'
      BY <1>1, <2>4 DEF EachKeyMovesOnce, Mark, HoldsTypeOK
    <3>3. \A x \in InKeys : inc'[x] = "committed" => x \in entries'
      BY <1>1, <2>4 DEF EachKeyMovesOnce
    <3> QED BY <3>1, <3>2, <3>3 DEF EachKeyMovesOnce
  <2>8. ASSUME NEW a \in Accounts PROVE acct'[a].available >= acct'[a].balance - Money(a, Pending)'
    <3>1. /\ Money(a, Pending)' \in Nat /\ (A # a => Money(a, Pending)' = Money(a, Pending))
          /\ Money(a, Pending) <= Money(a, Pending)' + n
      BY <1>1, <2>4, HoldEnds
    <3>2. acct[a].available >= acct[a].balance - Money(a, Pending)
      BY <1>1 DEF NothingHeldTwice
    <3>3. CASE A = a
      BY <1>2, <1>4, <2>2, <2>3, <2>5, <3>1, <3>2, <3>3
    <3>4. CASE A # a
      BY <2>5, <3>1, <3>2, <3>4
    <3> QED BY <3>3, <3>4
  <2> QED BY <2>6, <2>7, <2>8 DEF HoldsInv, NothingHeldTwice
<1>11. ASSUME NEW op, NEW r \in Rpcs, NEW k \in OutKeys, ReleaseTx(op, r, k) PROVE HoldsInv'
  <2> DEFINE A == KeyAccount[k]
             n == KeyAmount[k]
             row == [acct[A] EXCEPT !.available = acct[A].available + n]
  <2>1. k \in HoldKeys
    BY DEF HoldKeys
  <2>2. A \in Accounts /\ n \in Nat /\ acct[A] \in Row /\ acct[A].balance \in Int
        /\ acct[A].available \in Int
    BY <1>1, <2>1, KeyFacts
  <2>3. row \in Row /\ row.balance = acct[A].balance /\ row.available = acct[A].available + n
    BY <2>2 DEF Row
  <2>4. acct' = [acct EXCEPT ![A] = row] /\ UNCHANGED <<inc, entries>>
        /\ out' = Mark(out, k, "released") /\ calls' \subseteq calls
    BY <1>11 DEF ReleaseTx, Done
  <2> HIDE DEF row
  <2>5. acct' \in [Accounts -> Row] /\ acct'[A] = row /\ \A x \in Accounts : x # A => acct'[x] = acct[x]
    BY <1>1, <2>2, <2>3, <2>4, Written
  <2>6. HoldsTypeOK'
    BY <1>1, <2>4, <2>5 DEF HoldsTypeOK, Mark
  <2>7. EachKeyMovesOnce'
    <3>1. \A a \in Accounts : acct'[a].balance = acct[a].balance
      BY <2>3, <2>5
    <3>2. \A x \in OutKeys : out'[x] = "settled" => out[x] = "settled"
      BY <1>1, <2>4 DEF Mark, HoldsTypeOK
    <3> QED BY <1>1, <2>4, <3>1, <3>2 DEF EachKeyMovesOnce, Credited, Debited, Money,
          Units
  <2>8. ASSUME NEW a \in Accounts PROVE acct'[a].available >= acct'[a].balance - Money(a, Pending)'
    <3>1. /\ Money(a, Pending)' \in Nat /\ (A # a => Money(a, Pending)' = Money(a, Pending))
          /\ Money(a, Pending) <= Money(a, Pending)' + n
      BY <1>1, <2>4, HoldEnds
    <3>2. acct[a].available >= acct[a].balance - Money(a, Pending)
      BY <1>1 DEF NothingHeldTwice
    <3>3. CASE A = a
      BY <1>2, <1>4, <2>2, <2>3, <2>5, <3>1, <3>2, <3>3
    <3>4. CASE A # a
      BY <2>5, <3>1, <3>2, <3>4
    <3> QED BY <3>3, <3>4
  <2> QED BY <2>6, <2>7, <2>8 DEF HoldsInv, NothingHeldTwice
<1>12. ASSUME NEW k \in HoldKeys, k \notin entries, entries' = entries \cup {k}, UNCHANGED out,
              NEW d \in Int, NEW row \in Row, acct' = [acct EXCEPT ![KeyAccount[k]] = row],
              row.balance = acct[KeyAccount[k]].balance + d,
              row.available = acct[KeyAccount[k]].available + d,
              (k \in InKeys /\ d = KeyAmount[k]) \/ (k \in DebitKeys /\ d = -KeyAmount[k]),
              \A x \in InKeys : inc'[x] = "committed" => inc[x] = "committed" \/ x = k,
              inc' \in [InKeys -> {"none", "pending", "committed", "released"}], calls' \subseteq calls
       PROVE  HoldsInv'
  <2> DEFINE A == KeyAccount[k]
  <2>1. A \in Accounts /\ KeyAmount[k] \in Nat /\ acct[A].balance \in Int /\ acct[A].available \in Int
    BY <1>1, KeyFacts
  <2>2. acct' \in [Accounts -> Row] /\ acct'[A] = row /\ \A x \in Accounts : x # A => acct'[x] = acct[x]
    BY <1>1, <1>12, <2>1, Written
  <2>3. HoldsTypeOK'
    BY <1>1, <1>12, <2>2 DEF HoldsTypeOK
  <2>4. ASSUME NEW a \in Accounts
        PROVE  acct'[a].balance = InitialBalance[a] + Credited(a)' - Debited(a)'
    <3>1. acct[a].balance = InitialBalance[a] + Credited(a) - Debited(a)
      BY <1>1 DEF EachKeyMovesOnce
    <3>2. CASE A # a
      <4>1. /\ Debited(a)' = Debited(a)
            /\ Credited(a)' = Credited(a)
        BY <1>1, <1>3, <1>12, <3>2, EntryAdded
      <4> QED BY <2>2, <3>1, <3>2, <4>1
    <3>3. CASE A = a /\ k \in InKeys
      <4>1. k \notin OutKeys \cup DebitKeys /\ k \notin DebitKeys
        BY <3>3, HoldsAssumption
      <4>2. /\ Debited(a)' = Debited(a)
            /\ Credited(a)' = Credited(a) + KeyAmount[k]
        BY <1>1, <1>3, <1>12, <3>3, <4>1, EntryAdded
      <4>3. d = KeyAmount[k]
        BY <1>12, <4>1
      <4>4. acct'[a].balance = acct[a].balance + d
        BY <1>12, <2>2, <3>3
      <4>5. /\ InitialBalance[a] \in Int /\ KeyAmount[k] \in Int
            /\ Credited(a) \in Int /\ Debited(a) \in Int
        BY <1>2, <1>4, <2>1
      <4> QED BY <3>1, <4>2, <4>3, <4>4, <4>5
    <3>4. CASE A = a /\ k \in DebitKeys
      <4>1. k \in OutKeys \cup DebitKeys /\ k \notin InKeys
        BY <3>4, HoldsAssumption
      <4>2. /\ Debited(a)' = Debited(a) + KeyAmount[k]
            /\ Credited(a)' = Credited(a)
        BY <1>1, <1>3, <1>12, <3>4, <4>1, EntryAdded
      <4>3. d = -KeyAmount[k]
        BY <1>12, <4>1
      <4>4. acct'[a].balance = acct[a].balance + d
        BY <1>12, <2>2, <3>4
      <4>5. /\ InitialBalance[a] \in Int /\ KeyAmount[k] \in Int
            /\ Credited(a) \in Int /\ Debited(a) \in Int
        BY <1>2, <1>4, <2>1
      <4> QED BY <3>1, <4>2, <4>3, <4>4, <4>5
    <3> QED BY <1>12, <3>2, <3>3, <3>4
  <2>5. EachKeyMovesOnce'
    BY <1>1, <1>12, <2>4 DEF EachKeyMovesOnce
  <2>6. ASSUME NEW a \in Accounts PROVE acct'[a].available >= acct'[a].balance - Money(a, Pending)'
    <3>1. Money(a, Pending)' = Money(a, Pending)
      BY <1>12 DEF Money, Units, Pending
    <3>2. acct[a].available >= acct[a].balance - Money(a, Pending)
      BY <1>1 DEF NothingHeldTwice
    <3>3. CASE A = a
      BY <1>2, <1>4, <1>12, <2>1, <2>2, <3>1, <3>2, <3>3
    <3> QED BY <2>2, <3>1, <3>2, <3>3
  <2> QED BY <2>3, <2>5, <2>6 DEF HoldsInv, NothingHeldTwice
<1>13. ASSUME NEW r \in Rpcs, NEW k \in InKeys, CommitTx(r, k) PROVE HoldsInv'
  <2>1. k \in HoldKeys
    BY DEF HoldKeys
  <2>2. KeyAmount[k] \in Int /\ acct[KeyAccount[k]] \in Row
    BY <1>1, <2>1, KeyFacts
  <2>3. PICK row \in Row : /\ row = Shifted(acct[KeyAccount[k]], KeyAmount[k])
                           /\ row.balance = acct[KeyAccount[k]].balance + KeyAmount[k]
                           /\ row.available = acct[KeyAccount[k]].available + KeyAmount[k]
    BY <2>2, ShiftedRow
  <2>4. /\ k \notin entries /\ entries' = entries \cup {k} /\ UNCHANGED out
        /\ acct' = [acct EXCEPT ![KeyAccount[k]] = row] /\ calls' \subseteq calls
        /\ inc' = Mark(inc, k, "committed")
    BY <1>13, <2>3 DEF CommitTx, Done
  <2>5. /\ inc' \in [InKeys -> {"none", "pending", "committed", "released"}]
        /\ \A x \in InKeys : inc'[x] = "committed" => inc[x] = "committed" \/ x = k
    BY <1>1, <2>4 DEF Mark, HoldsTypeOK
  <2> QED BY <1>12, <2>1, <2>2, <2>3, <2>4, <2>5
<1>14. ASSUME NEW k \in DebitKeys, DomesticDebit(k) PROVE HoldsInv'
  <2>1. k \in HoldKeys
    BY DEF HoldKeys
  <2>2. KeyAccount[k] \in Accounts /\ KeyAmount[k] \in Nat /\ KeyAmount[k] > 0
        /\ acct[KeyAccount[k]] \in Row
        /\ acct[KeyAccount[k]].balance \in Int /\ acct[KeyAccount[k]].available \in Int
    BY <1>1, <2>1, KeyFacts
  <2>3. PICK row \in Row : /\ row = Updated(KeyAccount[k], acct[KeyAccount[k]], -KeyAmount[k])
                           /\ row.balance = acct[KeyAccount[k]].balance - KeyAmount[k]
                           /\ row.available = acct[KeyAccount[k]].available - KeyAmount[k]
    BY <2>2, DebitedRow
  <2>4. PICK d \in Int : d = -KeyAmount[k]
    BY <2>2
  <2>5. /\ row.balance = acct[KeyAccount[k]].balance + d
        /\ row.available = acct[KeyAccount[k]].available + d
    BY <2>2, <2>3, <2>4
  <2>6. /\ k \notin entries /\ entries' = entries \cup {k} /\ UNCHANGED <<out, inc, calls>>
        /\ acct' = [acct EXCEPT ![KeyAccount[k]] = row]
    BY <1>14, <2>3 DEF DomesticDebit
  <2>7. inc' \in [InKeys -> {"none", "pending", "committed", "released"}]
    BY <1>1, <2>6 DEF HoldsTypeOK
  <2> QED BY <1>12, <2>1, <2>4, <2>5, <2>6, <2>7
<1>15. ASSUME NEW r \in Rpcs, NEW k \in InKeys, ReleaseIncomingTx(r, k) PROVE HoldsInv'
  <2>1. HoldsTypeOK' /\ UNCHANGED <<acct, out, entries>>
    BY <1>1, <1>15 DEF ReleaseIncomingTx, Done, Mark, HoldsTypeOK
  <2>2. \A x \in InKeys : inc'[x] = "committed" => inc[x] = "committed"
    BY <1>1, <1>15 DEF ReleaseIncomingTx, Mark, HoldsTypeOK
  <2> QED BY <1>6, <2>1, <2>2
<1>16. ASSUME NEW c \in calls, CallFails(c[1], c[2], c[3]) PROVE HoldsInv'
  <2>1. HoldsTypeOK' /\ UNCHANGED <<acct, out, inc, entries>>
    BY <1>1, <1>16 DEF CallFails, Done, HoldsTypeOK
  <2> QED BY <1>6, <2>1
<1>17. CASE UNCHANGED holdsVars
  <2>1. HoldsTypeOK' /\ UNCHANGED <<acct, out, inc, entries>>
    BY <1>1, <1>17 DEF holdsVars, HoldsTypeOK
  <2> QED BY <1>6, <2>1
<1> QED BY <1>5, <1>7, <1>8, <1>9, <1>10, <1>11, <1>13, <1>14, <1>15, <1>16, <1>17
       DEF HoldsNext, Outgoing, Incoming

(* It holds of accounts nobody has touched. *)
LEMMA InitHolds == HoldsInit => HoldsInv
<1> SUFFICES ASSUME HoldsInit PROVE HoldsInv
  OBVIOUS
<1>1. HoldsTypeOK
  <2>1. \A b \in Nat : OpeningRow(b) \in Row
    BY DEF OpeningRow, Row
  <2> QED BY <2>1, AccountAssumption DEF HoldsInit, HoldsTypeOK
<1>2. \A a \in Accounts : acct[a].balance = InitialBalance[a] /\ acct[a].available = InitialBalance[a]
  BY DEF HoldsInit, OpeningRow
<1>3. entries = {} /\ Pending = {}
  BY DEF HoldsInit, Pending
<1>4. \A a \in Accounts : Money(a, {}) = 0
  <2>1. \A a \in Accounts : Units(a, {}) = {}
    BY DEF Units
  <2> QED BY <2>1, FS_EmptySet DEF Money
<1>5. \A a \in Accounts : /\ Credited(a) = 0 /\ Debited(a) = 0
                          /\ Money(a, Pending) = 0
  <2>1. InKeys \cap entries = {} /\ (OutKeys \cup DebitKeys) \cap entries = {}
    BY <1>3
  <2> QED BY <1>3, <1>4, <2>1 DEF Credited, Debited
<1>6. \A a \in Accounts : InitialBalance[a] \in Int
  BY AccountAssumption
<1>7. EachKeyMovesOnce
  BY <1>2, <1>5, <1>6 DEF EachKeyMovesOnce, HoldsInit
<1>8. ASSUME NEW a \in Accounts PROVE acct[a].available >= acct[a].balance - Money(a, Pending)
  <2>1. acct[a].balance = InitialBalance[a] /\ acct[a].available = InitialBalance[a]
    BY <1>2
  <2>2. Money(a, Pending) = 0 /\ InitialBalance[a] \in Int
    BY <1>5, <1>6
  <2> QED BY <2>1, <2>2
<1> QED BY <1>1, <1>7, <1>8 DEF HoldsInv, NothingHeldTwice

(* In every reachable state. *)
LEMMA HoldsInvariant == HoldsSpec => []HoldsInv
<1>1. HoldsInit => HoldsInv
  BY InitHolds
<1>2. HoldsInv /\ [HoldsNext]_holdsVars => HoldsInv'
  BY HoldsStep
<1> QED BY <1>1, <1>2, PTL DEF HoldsSpec

-----------------------------------------------------------------------------
(* Theorems *)

(* Statuses, entries and calls in flight are of their kinds. *)
THEOREM HoldsTypeCorrect == HoldsSpec => []HoldsTypeOK
<1>1. HoldsInv => HoldsTypeOK
  BY DEF HoldsInv
<1> QED BY <1>1, HoldsInvariant, PTL

(* SettleOutgoing, CommitIncoming and UpdateBalance: whatever calls        *)
(* overlap, under however many idempotency keys, no reservation key moves  *)
(* an account's Balance twice, none moves it without a ledger entry, and a *)
(* row says settled or committed only when the money has moved.            *)
THEOREM EachKeyMovesOnceHolds == HoldsSpec => []EachKeyMovesOnce
<1>1. HoldsInv => EachKeyMovesOnce
  BY DEF HoldsInv
<1> QED BY <1>1, HoldsInvariant, PTL

(* ReserveOutgoing, SettleOutgoing, ReleaseOutgoing and the timeout cron:  *)
(* no hold is taken twice or kept after its end, however they overlap.     *)
THEOREM NothingHeldTwiceHolds == HoldsSpec => []NothingHeldTwice
<1>1. HoldsInv => NothingHeldTwice
  BY DEF HoldsInv
<1> QED BY <1>1, HoldsInvariant, PTL
=============================================================================
