---------------------------- MODULE PeerOption ----------------------------
(***************************************************************************)
(* The option contracts one bank shares with a peer: stock-service's       *)
(* PeerOTCGRPCHandler (minting at COMMIT_TX, exercise on either side, the  *)
(* buyer's claim) and the expiry cron, over the share reservations of      *)
(* HoldingReservation.  The SI-TX transaction that pays the strike is      *)
(* external: it is open until it commits or aborts.                        *)
(*                                                                         *)
(* A handler of several transactions is split where another can interleave *)
(* or a crash can stop it; what it has still to do is an element of work.  *)
(***************************************************************************)
EXTENDS HoldingReservation

CONSTANTS
    SellerContracts,    \* rows with direction DEBIT: this bank hosts the seller
    BuyerContracts,     \* rows with direction CREDIT: this bank hosts the buyer
    TxOf,               \* the crossbank_tx_id that mints a seller contract, one
                        \* contract per transaction: an accept sends a NEW_TX of its own
    HoldingOf,          \* the holding of the party this bank hosts
    Qty,                \* shares of one contract
    MaxLost             \* bound: answers lost of the strike payments of one contract

ASSUME PeerOptionAssumption ==
    /\ PeerKeys = SellerContracts \cup BuyerContracts
    /\ SellerContracts \cap BuyerContracts = {}
    /\ TxOf \in [SellerContracts -> TxKeys]
    /\ \A p, q \in SellerContracts : TxOf[p] = TxOf[q] => p = q
    /\ HoldingOf \in [PeerKeys -> Holdings]
    /\ Qty \in Quantities /\ MaxLost \in Nat

VARIABLES
    contract,       \* status of the remote option_contracts row
    date,           \* settlement_date against today
    work,           \* handlers between two of their transactions
    deal,           \* the buyer's latest strike payment
    older,          \* earlier payments of the buyer that are still open
    strikes,        \* strike payments that committed
    lost            \* answers lost so far, per contract

peerVars == <<contract, date, work, deal, older, strikes, lost>>
vars == <<holdingVars, peerVars>>

Init ==
    /\ HoldingInit
    /\ contract = [p \in PeerKeys |-> "none"]
    /\ date = [p \in PeerKeys |-> "ahead"]
    /\ work = {}
    /\ deal = [p \in BuyerContracts |-> "none"]
    /\ older = [p \in BuyerContracts |-> 0]
    /\ strikes = [p \in BuyerContracts |-> 0]
    /\ lost = [p \in BuyerContracts |-> 0]

SetStatus(p, s) == contract' = [contract EXCEPT ![p] = s]
Continue(w, W) == work' = (work \ {w}) \cup W

-----------------------------------------------------------------------------
(* Minting a contract: vote, ROLLBACK_TX, COMMIT_TX *)

(* ReserveCrossBankShares: the YES vote of a seller's bank holds the shares. *)
VoteHolds(p) ==
    /\ contract[p] = "none"
    /\ ReserveForCrossBankNewTx(TxOf[p], HoldingOf[p], Qty)
    /\ UNCHANGED peerVars

(* ReleaseCrossBankShares: ROLLBACK_TX never follows a COMMIT_TX. *)
VoteReleased(p) ==
    /\ contract[p] = "none"
    /\ ReleaseForCrossBankNewTx(TxOf[p])
    /\ UNCHANGED peerVars

(* RecordOptionContract, intent accept; a re-sent COMMIT_TX runs it again. *)
RecordOptionContract(p) ==
    /\ \/ contract[p] = "none" /\ SetStatus(p, "active")
       \/ contract[p] # "none" /\ UNCHANGED contract
    /\ p \in SellerContracts => (contract[p] = "none" => res[TxOf[p]].status # "released")
    /\ work' = work \cup (IF p \in SellerContracts THEN {<<"attach", p>>} ELSE {})
    /\ UNCHANGED <<holdingVars, date, deal, older, strikes, lost>>

(* Re-key the vote-time hold to the contract; without one, reserve now. *)
AttachHold(p) ==
    /\ <<"attach", p>> \in work
    /\ \/ /\ AttachCrossBankReservation(TxOf[p], p)
          /\ Continue(<<"attach", p>>, {})
       \/ /\ res[TxOf[p]].status # "none" /\ RowsOf(p) # {}
          /\ Continue(<<"attach", p>>, {})
          /\ UNCHANGED holdingVars
       \/ /\ res[TxOf[p]].status = "none"
          /\ Continue(<<"attach", p>>, {<<"reserve", p>>})
          /\ UNCHANGED holdingVars
    /\ UNCHANGED <<contract, date, deal, older, strikes, lost>>

ReserveAtCommit(p) ==
    /\ <<"reserve", p>> \in work
    /\ \/ ReserveForPeerOptionContract(p, HoldingOf[p], Qty)
       \/ (Available(HoldingOf[p]) < Qty \/ RowsOf(p) # {}) /\ UNCHANGED holdingVars
    /\ Continue(<<"reserve", p>>, {})
    /\ UNCHANGED <<contract, date, deal, older, strikes, lost>>

-----------------------------------------------------------------------------
(* Exercise *)

Exercisable(p) == contract[p] \in {"active", "exercising"}

(* recordOptionExercise on the seller's side: the peer's exercise          *)
(* transaction commits here, or its COMMIT_TX is re-sent.                  *)
ExerciseSeller(p) ==
    /\ p \in SellerContracts
    /\ Exercisable(p)
    /\ work' = work \cup {<<"consume", p>>}
    /\ UNCHANGED <<holdingVars, contract, date, deal, older, strikes, lost>>

(* The consume moves the shares, or is rejected and the handler fails. *)
ConsumeShares(p) ==
    /\ <<"consume", p>> \in work
    /\ \/ /\ ConsumeForPeerOptionContract(p)
          /\ Continue(<<"consume", p>>, {<<"mark", p>>})
       \/ /\ \A r \in RowsOf(p) : ~SettleAccepts(r, res[r].quantity)
          /\ Continue(<<"consume", p>>, {})
          /\ UNCHANGED holdingVars
    /\ UNCHANGED <<contract, date, deal, older, strikes, lost>>

MarkExercised(p) ==
    /\ <<"mark", p>> \in work
    /\ SetStatus(p, "exercised")
    /\ Continue(<<"mark", p>>, {})
    /\ UNCHANGED <<holdingVars, date, deal, older, strikes, lost>>

(* Fault: the claim reads the status but does not set it. *)
InitiateOptionExerciseUnclaimed(p) ==
    /\ contract[p] = "active" /\ date[p] = "ahead"
    /\ deal' = [deal EXCEPT ![p] = "open"]
    /\ work' = work \cup {<<"await", p>>}
    /\ older' = [older EXCEPT ![p] = @ + IF deal[p] = "open" THEN 1 ELSE 0]
    /\ UNCHANGED <<holdingVars, contract, date, strikes, lost>>

(* The buyer claims the contract by compare-and-set and pays the strike.   *)
(* A payment given up for lost may be open still.                          *)
InitiateOptionExercise(p) ==
    /\ contract[p] = "active" /\ date[p] = "ahead"
    /\ SetStatus(p, "exercising")
    /\ deal' = [deal EXCEPT ![p] = "open"]
    /\ older' = [older EXCEPT ![p] = @ + IF deal[p] = "open" THEN 1 ELSE 0]
    /\ work' = work \cup {<<"await", p>>}
    /\ UNCHANGED <<holdingVars, date, strikes, lost>>

(* The SI-TX transaction ends (external). *)
DealCommits(p) ==
    /\ deal[p] = "open"
    /\ deal' = [deal EXCEPT ![p] = "committed"]
    /\ strikes' = [strikes EXCEPT ![p] = @ + 1]
    /\ UNCHANGED <<holdingVars, contract, date, work, older, lost>>

DealAborts(p) ==
    /\ deal[p] = "open"
    /\ deal' = [deal EXCEPT ![p] = "aborted"]
    /\ UNCHANGED <<holdingVars, contract, date, work, older, strikes, lost>>

(* So does an earlier one. *)
OlderEnds(p) ==
    /\ older[p] > 0
    /\ older' = [older EXCEPT ![p] = @ - 1]
    /\ \/ strikes' = [strikes EXCEPT ![p] = @ + 1]
       \/ UNCHANGED strikes
    /\ UNCHANGED <<holdingVars, contract, date, work, deal, lost>>

RevertClaim(p) ==
    IF contract[p] = "exercising" THEN SetStatus(p, "active") ELSE UNCHANGED contract

(* The initiator hears how the payment stands: the claim is given up when  *)
(* it did not commit; a payment still open keeps it.  An answer that is    *)
(* lost (a deadline, a broken connection) counts as a failed dispatch.     *)
HearOutcome(p) ==
    /\ <<"await", p>> \in work
    /\ \/ deal[p] = "aborted" /\ RevertClaim(p) /\ UNCHANGED lost
       \/ deal[p] \in {"open", "committed"} /\ UNCHANGED <<contract, lost>>
       \/ lost[p] < MaxLost /\ lost' = [lost EXCEPT ![p] = @ + 1] /\ RevertClaim(p)
    /\ Continue(<<"await", p>>, {})
    /\ UNCHANGED <<holdingVars, date, deal, older, strikes>>

(* ExerciseBuyerCreditForPeerOption, when a payment has committed: shares  *)
(* and status in one transaction.                                          *)
ExerciseBuyer(p) ==
    /\ strikes[p] > 0
    /\ Exercisable(p)
    /\ CreditBuyerHolding(p, HoldingOf[p], Qty)
    /\ SetStatus(p, "exercised")
    /\ UNCHANGED <<date, work, deal, older, strikes, lost>>

-----------------------------------------------------------------------------
(* Expiry *)

(* A contract is exercised before its settlement date and expired after    *)
(* it; the hold of a minted contract is in place long before.              *)
DayPasses(p) ==
    /\ contract[p] # "none"
    /\ p \in SellerContracts => RowsOf(p) # {}
    /\ \/ date[p] = "ahead" /\ date' = [date EXCEPT ![p] = "today"]
       \/ date[p] = "today" /\ date' = [date EXCEPT ![p] = "past"]
    /\ UNCHANGED <<holdingVars, contract, work, deal, older, strikes, lost>>

(* Fault: the seller's shares are never released. *)
ExpireListedUnreleased(p) ==
    /\ contract[p] = "active" /\ date[p] = "past"
    /\ work' = work \cup {<<"expire", p>>}
    /\ UNCHANGED <<holdingVars, contract, date, deal, older, strikes, lost>>

(* ListRemoteContractsExpiring hands the cron an active row. *)
ExpireListed(p) ==
    /\ contract[p] = "active" /\ date[p] = "past"
    /\ work' = work \cup {IF p \in SellerContracts THEN <<"release", p>> ELSE <<"expire", p>>}
    /\ UNCHANGED <<holdingVars, contract, date, deal, older, strikes, lost>>

(* A release that fails leaves the contract to the next tick. *)
ExpireRelease(p) ==
    /\ <<"release", p>> \in work
    /\ \/ /\ ReleaseForPeerOptionContract(p)
          /\ Continue(<<"release", p>>, {<<"expire", p>>})
       \/ /\ \A r \in RowsOf(p) : res[r].status # "active"
          /\ Continue(<<"release", p>>, {<<"expire", p>>})
          /\ UNCHANGED holdingVars
       \/ /\ \E r \in RowsOf(p) \cap severed : res[r].status = "active"
          /\ Continue(<<"release", p>>, {})
          /\ UNCHANGED holdingVars
    /\ UNCHANGED <<contract, date, deal, older, strikes, lost>>

(* SetRemoteContractStatus does not look at the status it replaces. *)
MarkExpired(p) ==
    /\ <<"expire", p>> \in work
    /\ SetStatus(p, "expired")
    /\ Continue(<<"expire", p>>, {})
    /\ UNCHANGED <<holdingVars, date, deal, older, strikes, lost>>

(* stock-service stops between two transactions of a handler. *)
Crash ==
    /\ work # {}
    /\ work' = {}
    /\ UNCHANGED <<holdingVars, contract, date, deal, older, strikes, lost>>

-----------------------------------------------------------------------------
(* The operations of HoldingReservation that do not go through a contract. *)
OrdersAndOtc ==
    /\ \/ \E o \in OrderKeys, h \in Rows, q \in Quantities : Reserve(o, h, q) \/ ReserveFund(o, h, q)
       \/ \E o \in OrderKeys : Release(o) \/ \E t \in Txns, q \in Quantities : PartialSettle(o, t, q)
       \/ \E c \in OtcKeys, h \in Holdings, q \in Quantities : ReserveForOTCContract(c, h, q)
       \/ \E c \in OtcKeys :
             ReleaseForOTCContract(c) \/ ConsumeForOTCContract(c) \/ RestoreForOTCContract(c)
       \/ Unreserved
    /\ UNCHANGED peerVars

SellerNext(p) ==
    \/ VoteHolds(p) \/ VoteReleased(p) \/ AttachHold(p) \/ ReserveAtCommit(p)
    \/ ExerciseSeller(p) \/ ConsumeShares(p) \/ MarkExercised(p) \/ ExpireRelease(p)

BuyerNext(p) ==
    \/ InitiateOptionExercise(p) \/ DealCommits(p) \/ DealAborts(p) \/ OlderEnds(p)
    \/ HearOutcome(p) \/ ExerciseBuyer(p)

Next ==
    \/ OrdersAndOtc
    \/ \E p \in SellerContracts : SellerNext(p)
    \/ \E p \in BuyerContracts : BuyerNext(p)
    \/ \E p \in PeerKeys :
          RecordOptionContract(p) \/ DayPasses(p) \/ ExpireListed(p) \/ MarkExpired(p)
    \/ Crash

Spec == Init /\ [][Next]_vars

-----------------------------------------------------------------------------
(* Properties *)

(* A contract marked exercised has moved its shares: out of the seller's   *)
(* holding on the seller's side, into the buyer's on the buyer's.  One     *)
(* that expired holds no shares of the seller, whatever the crash, the     *)
(* re-sent COMMIT_TX or the exercise that raced the cron.                  *)
EndedIsSettled ==
    \A p \in PeerKeys :
        /\ contract[p] = "exercised" =>
              IF p \in SellerContracts THEN stl[p] # NoSettlement ELSE credit[p] # NoCredit
        /\ contract[p] = "expired" /\ p \in SellerContracts =>
              \A r \in RowsOf(p) : res[r].status # "active"

(* The buyer pays the strike of a contract once, and once more for each    *)
(* payment whose answer was lost, which gives the claim back while the     *)
(* payment may commit; and receives shares only when a strike was paid     *)
(* (the claim active -> exercising).                                       *)
StrikePaidOnce ==
    \A p \in BuyerContracts :
        /\ strikes[p] <= 1 + lost[p]
        /\ credit[p] # NoCredit => strikes[p] >= 1
=============================================================================
