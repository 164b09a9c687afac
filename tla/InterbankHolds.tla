--------------------------- MODULE InterbankHolds ---------------------------
(***************************************************************************)
(* account-service's two services for cross-bank (SI-TX) money legs.       *)
(* OutgoingReservationService holds a debit: reserve lowers                *)
(* AvailableBalance, settle lowers Balance, release gives the hold back.   *)
(* IncomingReservationService defers a credit: only commit moves money.    *)
(* The timeout cron releases outgoing holds nobody decided.                *)
(*                                                                         *)
(* Settle, commit and release read the reservation row first, OUTSIDE the  *)
(* transaction that then locks the account and moves the money, so each is *)
(* two steps: a Read action that joins `calls` when the row was pending,   *)
(* and the transaction.  A call waits for one in flight that has the same  *)
(* RPC idempotency key (IdempotencyRepository.Run claims it first); calls  *)
(* under another key, and the cron, which calls the service directly, do   *)
(* not.  MaxCalls bounds how many calls run at once.                       *)
(***************************************************************************)
EXTENDS AccountRow, FiniteSets

CONSTANTS
    OutKeys,        \* reservation keys of outgoing holds
    InKeys,         \* reservation keys of incoming credits
    DebitKeys,      \* idempotency keys of domestic debits (UpdateBalance)
    KeyAccount,     \* the account each key moves money on
    KeyAmount,      \* and how much
    Rpcs,           \* idempotency keys under which a decision may be sent
    MaxCalls        \* calls between their read and their transaction

HoldKeys == OutKeys \cup InKeys \cup DebitKeys

ASSUME HoldsAssumption ==
    /\ IsFiniteSet(HoldKeys)
    /\ OutKeys \cap InKeys = {}
    /\ OutKeys \cap DebitKeys = {}
    /\ InKeys \cap DebitKeys = {}
    /\ KeyAccount \in [HoldKeys -> Accounts]
    /\ KeyAmount \in [HoldKeys -> Nat \ {0}]
    /\ MaxCalls \in Nat

VARIABLES
    out,            \* outgoing_reservations: status by key
    inc,            \* incoming_reservations: status by key
    entries,        \* keys with a ledger entry (unique idempotency_key)
    calls           \* <<operation, rpc, key>>: read "pending", tx to come

holdsVars == <<acct, out, inc, entries, calls>>

OutCalls == {"settle", "release", "sweep"} \X Rpcs \X OutKeys
InCalls  == {"commit", "releaseIncoming"} \X Rpcs \X InKeys

HoldsInit ==
    /\ acct = [a \in Accounts |-> OpeningRow(InitialBalance[a])]
    /\ out = [k \in OutKeys |-> "none"]
    /\ inc = [k \in InKeys |-> "none"]
    /\ entries = {}
    /\ calls = {}

-----------------------------------------------------------------------------
(* Placing reservations *)

(* ReserveOutgoing: limits against the spending committed so far, then     *)
(* sufficiency, both under the account's row lock; a replay of a known key *)
(* returns the existing row.                                               *)
ReserveOutgoing(k) ==
    LET a == KeyAccount[k] IN
    /\ out[k] = "none"
    /\ WithinLimits(a, acct[a], KeyAmount[k])
    /\ acct[a].available >= KeyAmount[k]
    /\ acct' = [acct EXCEPT ![a].available = @ - KeyAmount[k]]
    /\ out' = [out EXCEPT ![k] = "pending"]
    /\ UNCHANGED <<inc, entries, calls>>

ReserveIncoming(k) ==
    /\ inc[k] = "none"
    /\ inc' = [inc EXCEPT ![k] = "pending"]
    /\ UNCHANGED <<acct, out, entries, calls>>

-----------------------------------------------------------------------------
(* The read that precedes a transaction *)

CallRead(op, r, k, status) ==
    /\ status = "pending"
    /\ <<op, r, k>> \notin calls
    /\ Cardinality(calls) < MaxCalls
    /\ calls' = calls \cup {<<op, r, k>>}
    /\ UNCHANGED <<acct, out, inc, entries>>

SettleRead(r, k)          == CallRead("settle", r, k, out[k])
ReleaseRead(r, k)         == CallRead("release", r, k, out[k])
CommitRead(r, k)          == CallRead("commit", r, k, inc[k])
ReleaseIncomingRead(r, k) == CallRead("releaseIncoming", r, k, inc[k])

(* Fault: the cron lists rows that are settled already. *)
SweepReadSettled(r, k) ==
    CallRead("sweep", r, k, IF out[k] = "settled" THEN "pending" ELSE "none")

(* The timeout cron: one sweep at a time (BeginRun). *)
SweepRead(r, k) ==
    /\ \A c \in calls : c[1] # "sweep"
    /\ CallRead("sweep", r, k, out[k])

-----------------------------------------------------------------------------
(* The transactions *)

(* UPDATE ... WHERE status = 'pending': zero rows is not an error. *)
Mark(rows, k, status) ==
    [rows EXCEPT ![k] = IF @ = "pending" THEN status ELSE @]

Done(op, r, k) == calls' = calls \ {<<op, r, k>>}

(* Fault: the ledger's idempotency_key is not unique. *)
SettleTxTwice(r, k) ==
    LET a == KeyAccount[k]
        n == KeyAmount[k] IN
    /\ <<"settle", r, k>> \in calls
    /\ acct' = [acct EXCEPT ![a].balance = @ - n,
                            ![a].spent = Accrued(a, acct[a], n)]
    /\ entries' = entries \cup {k}
    /\ out' = Mark(out, k, "settled")
    /\ Done("settle", r, k)
    /\ UNCHANGED inc

(* SettleOutgoing's transaction.  A ledger entry that exists already makes *)
(* the insert fail and the whole transaction roll back.                    *)
SettleTx(r, k) ==
    LET a == KeyAccount[k]
        n == KeyAmount[k] IN
    /\ <<"settle", r, k>> \in calls
    /\ k \notin entries
    /\ acct' = [acct EXCEPT ![a].balance = @ - n,
                            ![a].spent = Accrued(a, acct[a], n)]
    /\ entries' = entries \cup {k}
    /\ out' = Mark(out, k, "settled")
    /\ Done("settle", r, k)
    /\ UNCHANGED inc

(* Fault: the row is marked but the hold stays on the account. *)
ReleaseTxKept(op, r, k) ==
    /\ <<op, r, k>> \in calls
    /\ out' = Mark(out, k, "released")
    /\ Done(op, r, k)
    /\ UNCHANGED <<acct, inc, entries>>

(* ReleaseOutgoing's transaction, for an RPC or for the timeout cron. *)
ReleaseTx(op, r, k) ==
    /\ <<op, r, k>> \in calls
    /\ acct' = [acct EXCEPT ![KeyAccount[k]].available = @ + KeyAmount[k]]
    /\ out' = Mark(out, k, "released")
    /\ Done(op, r, k)
    /\ UNCHANGED <<inc, entries>>

(* CommitIncoming's transaction. *)
CommitTx(r, k) ==
    LET a == KeyAccount[k] IN
    /\ <<"commit", r, k>> \in calls
    /\ k \notin entries
    /\ acct' = [acct EXCEPT ![a] = Shifted(@, KeyAmount[k])]
    /\ entries' = entries \cup {k}
    /\ inc' = Mark(inc, k, "committed")
    /\ Done("commit", r, k)
    /\ UNCHANGED out

ReleaseIncomingTx(r, k) ==
    /\ <<"releaseIncoming", r, k>> \in calls
    /\ inc' = Mark(inc, k, "released")
    /\ Done("releaseIncoming", r, k)
    /\ UNCHANGED <<acct, out, entries>>

(* A transaction that rolls back (duplicate ledger key, lost connection,   *)
(* crash of the service) leaves nothing behind.                            *)
CallFails(op, r, k) ==
    /\ <<op, r, k>> \in calls
    /\ Done(op, r, k)
    /\ UNCHANGED <<acct, out, inc, entries>>

(* A domestic debit competes for the same money. *)
DomesticDebit(k) ==
    LET a == KeyAccount[k] IN
    /\ k \notin entries
    /\ CanUpdate(a, acct[a], -KeyAmount[k])
    /\ acct' = [acct EXCEPT ![a] = Updated(a, @, -KeyAmount[k])]
    /\ entries' = entries \cup {k}
    /\ UNCHANGED <<out, inc, calls>>

-----------------------------------------------------------------------------
Outgoing(r, k) ==
    \/ SweepRead(r, k) \/ ReleaseTx("sweep", r, k)
    \/ SettleRead(r, k) \/ SettleTx(r, k)
    \/ ReleaseRead(r, k) \/ ReleaseTx("release", r, k)

Incoming(r, k) ==
    \/ CommitRead(r, k) \/ CommitTx(r, k)
    \/ ReleaseIncomingRead(r, k) \/ ReleaseIncomingTx(r, k)

HoldsNext ==
    \/ \E k \in OutKeys : ReserveOutgoing(k)
    \/ \E k \in InKeys : ReserveIncoming(k)
    \/ \E k \in DebitKeys : DomesticDebit(k)
    \/ \E r \in Rpcs, k \in OutKeys : Outgoing(r, k)
    \/ \E r \in Rpcs, k \in InKeys : Incoming(r, k)
    \/ \E c \in calls : CallFails(c[1], c[2], c[3])

HoldsSpec == HoldsInit /\ [][HoldsNext]_holdsVars

(* The cron ticks for ever and lists every stale pending row, so a sweep   *)
(* is tried again and again, and a database that is up infinitely often    *)
(* lets one of the tries through.  No call stays in flight for ever.       *)
SweepStep(k) == \E r \in Rpcs : SweepRead(r, k)
SweepDone(k) == \E r \in Rpcs : ReleaseTx("sweep", r, k)

CallEnds(r) ==
    \/ \E k \in OutKeys : SettleTx(r, k) \/ ReleaseTx("release", r, k)
    \/ \E k \in InKeys : CommitTx(r, k) \/ ReleaseIncomingTx(r, k)
    \/ \E c \in calls : c[2] = r /\ CallFails(c[1], c[2], c[3])

HoldsFairness ==
    /\ \A k \in OutKeys : SF_holdsVars(SweepStep(k)) /\ SF_holdsVars(SweepDone(k))
    /\ \A r \in Rpcs : WF_holdsVars(CallEnds(r))

HoldsFairSpec == HoldsSpec /\ HoldsFairness

-----------------------------------------------------------------------------
(* Properties *)

(* Statuses, entries and calls in flight are of their kinds. *)
HoldsTypeOK ==
    /\ acct \in [Accounts -> Row]
    /\ out \in [OutKeys -> {"none", "pending", "settled", "released"}]
    /\ inc \in [InKeys -> {"none", "pending", "committed", "released"}]
    /\ entries \subseteq HoldKeys
    /\ calls \subseteq OutCalls \cup InCalls

(* The units of money of some keys on one account, named apart so that     *)
(* counting them adds the amounts up.                                      *)
Units(a, S) ==
    UNION {{k} \X (1 .. KeyAmount[k]) : k \in {x \in S : KeyAccount[x] = a}}

Money(a, S) == Cardinality(Units(a, S))

Credited(a) == Money(a, InKeys \cap entries)
Debited(a)  == Money(a, (OutKeys \cup DebitKeys) \cap entries)

(* Counting each key with a ledger entry once gives the balance: whatever  *)
(* calls overlap, no key moves Balance twice and none without an entry;    *)
(* and a row says settled or committed only when the money has moved.      *)
EachKeyMovesOnce ==
    /\ \A a \in Accounts :
          acct[a].balance = InitialBalance[a] + Credited(a) - Debited(a)
    /\ \A k \in OutKeys : out[k] = "settled" => k \in entries
    /\ \A k \in InKeys : inc[k] = "committed" => k \in entries

(* No hold is taken twice or kept after its end: whatever calls overlap,   *)
(* the payer has at least Balance less the pending holds available.  (More *)
(* when a settle and a release both read the row as pending and act.)      *)
Pending == {k \in OutKeys : out[k] = "pending"}

NothingHeldTwice ==
    \A a \in Accounts :
        acct[a].available >= acct[a].balance - Money(a, Pending)

(* A hold nobody decides is released in the end. *)
HoldsEnd == \A k \in OutKeys : out[k] = "pending" ~> out[k] # "pending"
=============================================================================
