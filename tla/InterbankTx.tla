----------------------------- MODULE InterbankTx -----------------------------
(***************************************************************************)
(* One cross-bank (SI-TX) payment, at both banks.  The sending bank keeps  *)
(* an outbound_peer_txs row and a hold on the payer's money; the receiving *)
(* bank keeps an idempotence record and an incoming reservation.  Three    *)
(* goroutines of the sender drive the row: the request itself (inline),    *)
(* OutboundReplayCron (cron) and PeerTxReconciler (reconciler).            *)
(*                                                                         *)
(* `todo` is what is left of each driver's program; every database write,  *)
(* every call to account-service and every HTTP request is one step, so a  *)
(* driver acts on what it read earlier.  `reqs` are the HTTP requests the  *)
(* receiver has not answered; one whose caller timed out belongs to nobody *)
(* and may still be handled.  Two such requests at the same point are one  *)
(* element: their effects are the same.                                    *)
(*                                                                         *)
(* The hold and the incoming reservation move in one step here; the read   *)
(* that precedes each transaction is in InterbankHolds.                    *)
(***************************************************************************)
EXTENDS Naturals, Sequences

CONSTANTS
    MaxAttempts,    \* prepare-phase attempts before the cron gives up
    MaxCrashes,     \* crashes of the sending interbank-service
    Faults          \* what the environment does, see FaultKinds

(* "early"  a cron lists a row whose inline call is still running (its     *)
(*          last_attempt_at is NULL, so no age is required);               *)
(* "outage" the row stays undecided past the hold's TTL;                   *)
(* "flaky"  the recipient's account changes what it accepts, or a call     *)
(*          that decides the vote fails, between two evaluations.          *)
FaultKinds == {"early", "outage", "flaky"}

ASSUME TxAssumption ==
    /\ MaxAttempts \in Nat
    /\ MaxCrashes \in Nat
    /\ Faults \subseteq FaultKinds

VARIABLES
    row,        \* outbound_peer_txs: [status, attempts]
    hold,       \* outgoing reservation "peer-out:<idem>"
    rec,        \* peer_idempotence_records: [vote, stamps]
    inc,        \* incoming reservation "<peer>:<idem>"
    worker,     \* the receiver's reserve worker for the key
    accepts,    \* whether the recipient's account can take the credit
    todo,       \* what is left of each driver's program
    reqs,       \* requests the receiver has yet to answer
    crashes

vars == <<row, hold, rec, inc, worker, accepts, todo, reqs, crashes>>
sender == <<row, hold>>
receiver == <<rec, inc, worker>>

Drivers == {"inline", "cron", "reconciler"}
Kinds   == {"NEW_TX", "COMMIT_TX", "ROLLBACK_TX"}
Stages  == {"sent", "missed", "waiting", "read", "applied"}
Nobody  == "nobody"

Steps ==
    {"reserve", "newtx", "vote", "pivot", "settle", "commit", "ack", "close",
     "release", "abort", "rollback", "fail", "check", "abandon"}

Init ==
    /\ row = [status |-> "none", attempts |-> 0]
    /\ hold = "none"
    /\ rec = [vote |-> "none", stamps |-> {}]
    /\ inc = "none"
    /\ worker = "idle"
    /\ accepts \in BOOLEAN
    /\ todo = [d \in Drivers |-> <<>>]
    /\ reqs = {}
    /\ crashes = 0

-----------------------------------------------------------------------------
(* The drivers' programs *)

(* Fault: nobody settles the hold. *)
CommitPathUnsettled(d) ==
    IF d = "reconciler" THEN <<"close">> ELSE <<"commit", "close">>

(* After the pivot the inline call commits at the peer and then settles;   *)
(* the crons settle first.                                                 *)
CommitPath(d) ==
    CASE d = "inline"     -> <<"commit", "settle", "close">>
      [] d = "cron"       -> <<"settle", "commit", "close">>
      [] d = "reconciler" -> <<"settle", "close">>

(* Fault: the vote is acted on before the row has crossed the pivot. *)
VotePathUnpivoted(d) == CommitPath(d)

VotePath(d) == <<"pivot">> \o CommitPath(d)

(* On a NO the inline call releases and then marks; the crons mark first,  *)
(* so that only the one whose mark took effect releases.                   *)
AbortPath(d) ==
    IF d = "inline" THEN <<"release", "abort", "rollback">>
                    ELSE <<"abort", "release", "rollback">>

GiveUpPath == <<"release", "rollback", "fail">>

At(d, s)  == todo[d] # <<>> /\ Head(todo[d]) = s
Goes(d, p) == todo' = [todo EXCEPT ![d] = p]
Advance(d) == Goes(d, Tail(todo[d]))
Stop(d)    == Goes(d, <<>>)

(* MarkAttempt leaves the status alone.  The count is only compared with   *)
(* the cap, so it saturates there.  The reconciler does not count.         *)
Attempted(d) ==
    IF d = "reconciler" \/ row.attempts = MaxAttempts THEN row
    ELSE [row EXCEPT !.attempts = @ + 1]

Send(kind, to) == reqs' = reqs \cup {[kind |-> kind, stage |-> "sent", to |-> to]}

-----------------------------------------------------------------------------
(* The sending bank *)

InitiateOutboundTx ==
    /\ row.status = "none"
    /\ row' = [row EXCEPT !.status = "pending"]
    /\ Goes("inline", <<"reserve", "newtx">>)
    /\ UNCHANGED <<hold, receiver, accepts, reqs, crashes>>

ReserveOutgoing ==
    /\ At("inline", "reserve")
    /\ hold' = "pending"
    /\ Advance("inline")
    /\ UNCHANGED <<row, receiver, accepts, reqs, crashes>>

(* Refused, or applied with the answer lost: the row is given up. *)
ReserveFails ==
    /\ At("inline", "reserve")
    /\ hold' \in {"none", "pending"}
    /\ Goes("inline", <<"abandon">>)
    /\ UNCHANGED <<row, receiver, accepts, reqs, crashes>>

Abandon ==
    /\ At("inline", "abandon")
    /\ row' = IF row.status = "pending" THEN [row EXCEPT !.status = "rolled_back"] ELSE row
    /\ Stop("inline")
    /\ UNCHANGED <<hold, receiver, accepts, reqs, crashes>>

PostNewTx(d) ==
    /\ At(d, "newtx")
    /\ Send("NEW_TX", d)
    /\ Goes(d, <<"vote">>)
    /\ UNCHANGED <<sender, receiver, accepts, crashes>>

PostCommitTx(d) ==
    /\ At(d, "commit")
    /\ Send("COMMIT_TX", d)
    /\ Goes(d, <<"ack">> \o Tail(todo[d]))
    /\ UNCHANGED <<sender, receiver, accepts, crashes>>

(* Whatever the peer answers is only logged. *)
PostRollbackTx(d) ==
    /\ At(d, "rollback")
    /\ Send("ROLLBACK_TX", Nobody)
    /\ Advance(d)
    /\ UNCHANGED <<sender, receiver, accepts, crashes>>

(* The HTTP client gives up; the request may still be on its way. *)
Timeout(d) ==
    /\ At(d, "vote") \/ At(d, "ack")
    /\ reqs' = {[q EXCEPT !.to = IF @ = d THEN Nobody ELSE @] : q \in reqs}
    /\ row' = Attempted(d)
    /\ Stop(d)
    /\ UNCHANGED <<hold, receiver, accepts, crashes>>

(* MarkCommitting; a row that is committing already is no conflict. *)
MarkCommitting(d) ==
    /\ At(d, "pivot")
    /\ IF row.status \in {"pending", "committing"}
       THEN row' = [row EXCEPT !.status = "committing"] /\ Advance(d)
       ELSE row' = row /\ Stop(d)
    /\ UNCHANGED <<hold, receiver, accepts, reqs, crashes>>

(* NotFound and already settled count as success. *)
SettleOutgoing(d) ==
    /\ At(d, "settle")
    /\ hold # "released"
    /\ hold' = IF hold = "none" THEN "none" ELSE "settled"
    /\ Advance(d)
    /\ UNCHANGED <<row, receiver, accepts, reqs, crashes>>

(* A released hold, or a failed call whose transaction may have committed, *)
(* leaves the row for a later tick.                                        *)
SettleFails(d) ==
    /\ At(d, "settle")
    /\ hold' \in {hold, IF hold = "pending" THEN "settled" ELSE hold}
    /\ row' = Attempted(d)
    /\ Stop(d)
    /\ UNCHANGED <<receiver, accepts, reqs, crashes>>

MarkCommitted(d) ==
    /\ At(d, "close")
    /\ row' = IF row.status \in {"pending", "committing"}
              THEN [row EXCEPT !.status = "committed"] ELSE row
    /\ Advance(d)
    /\ UNCHANGED <<hold, receiver, accepts, reqs, crashes>>

(* A failed release stops the inline call; the crons log it and go on. *)
ReleaseOutgoing(d) ==
    /\ At(d, "release")
    /\ \/ /\ hold' = IF hold = "pending" THEN "released" ELSE hold
          /\ row' = row
          /\ Advance(d)
       \/ /\ hold' = hold
          /\ IF d = "inline" THEN row' = Attempted(d) /\ Stop(d)
                             ELSE row' = row /\ Advance(d)
    /\ UNCHANGED <<receiver, accepts, reqs, crashes>>

(* A cron whose mark found no pending row skips the reversal; the inline   *)
(* call ignores the result.                                                *)
MarkRolledBack(d) ==
    /\ At(d, "abort")
    /\ IF row.status = "pending"
       THEN row' = [row EXCEPT !.status = "rolled_back"] /\ Advance(d)
       ELSE row' = row /\ IF d = "inline" THEN Advance(d) ELSE Stop(d)
    /\ UNCHANGED <<hold, receiver, accepts, reqs, crashes>>

MarkFailed(d) ==
    /\ At(d, "fail")
    /\ row' = [row EXCEPT !.status = "failed"]
    /\ Advance(d)
    /\ UNCHANGED <<hold, receiver, accepts, reqs, crashes>>

(* Fault: committing rows are not listed. *)
ResumablePendingOnly(d) ==
    /\ todo[d] = <<>>
    /\ row.status = "pending"
    /\ "early" \in Faults \/ todo["inline"] = <<>>

(* ListResumableOlderThan, once per tick; one run at a time. *)
Resumable(d) ==
    /\ todo[d] = <<>>
    /\ row.status \in {"pending", "committing"}
    /\ "early" \in Faults \/ todo["inline"] = <<>>

(* Fault: the row of a tick that found it committing is retried as if it   *)
(* were still in the prepare phase.                                        *)
CronPlanUnphased ==
    IF row.attempts >= MaxAttempts THEN GiveUpPath ELSE <<"newtx">>

CronPlan ==
    IF row.status = "committing" THEN CommitPath("cron")
    ELSE IF row.attempts >= MaxAttempts THEN GiveUpPath
    ELSE <<"newtx">>

(* Attempts are minRetryGap (60 s) apart and the HTTP client times out     *)
(* after 30 s, so the inline call has ended when they are used up.         *)
CronTick ==
    /\ Resumable("cron")
    /\ CronPlan = GiveUpPath => todo["inline"] = <<>>
    /\ Goes("cron", CronPlan)
    /\ UNCHANGED <<sender, receiver, accepts, reqs, crashes>>

ReconcilerTick ==
    /\ Resumable("reconciler")
    /\ Goes("reconciler", <<"check">>)
    /\ UNCHANGED <<sender, receiver, accepts, reqs, crashes>>

(* Fault: a YES vote is reported as committed. *)
ReceiverStatePremature ==
    CASE rec.vote = "none"              -> "unknown"
      [] "rolled_back" \in rec.stamps   -> "rolled_back"
      [] rec.vote = "yes"               -> "committed"
      [] rec.vote = "no"                -> "rolled_back"
      [] OTHER                          -> "prepared"

(* receiverState: what CHECK_STATUS reports of the record. *)
ReceiverState ==
    CASE rec.vote = "none"              -> "unknown"
      [] "rolled_back" \in rec.stamps   -> "rolled_back"
      [] "committed" \in rec.stamps     -> "committed"
      [] rec.vote = "no"                -> "rolled_back"
      [] OTHER                          -> "prepared"

(* The answer, or an unreachable peer: then the row waits for a later tick. *)
CheckStatus ==
    /\ At("reconciler", "check")
    /\ \/ Goes("reconciler",
               CASE ReceiverState = "committed" -> CommitPath("reconciler")
                 [] ReceiverState \in {"rolled_back", "unknown"} -> AbortPath("reconciler")
                 [] ReceiverState = "prepared" -> <<>>)
       \/ Stop("reconciler")
    /\ UNCHANGED <<sender, receiver, accepts, reqs, crashes>>

(* account-service's timeout cron.  The TTL (10 min) outlasts the inline   *)
(* call always, and the whole payment unless there is an outage.           *)
SweepHold ==
    /\ hold = "pending"
    /\ todo["inline"] = <<>>
    /\ "outage" \in Faults \/ row.status \in {"committed", "rolled_back", "failed"}
    /\ hold' = "released"
    /\ UNCHANGED <<row, receiver, accepts, todo, reqs, crashes>>

(* The sender's process dies: the drivers forget what they were doing and  *)
(* nothing resumes the inline call.                                        *)
Crash ==
    /\ crashes < MaxCrashes
    /\ crashes' = crashes + 1
    /\ todo' = [d \in Drivers |-> <<>>]
    /\ reqs' = {[q EXCEPT !.to = Nobody] : q \in reqs}
    /\ UNCHANGED <<sender, receiver, accepts>>

-----------------------------------------------------------------------------
(* The receiving bank *)

MovesTo(q, stage) == reqs' = (reqs \ {q}) \cup {[q EXCEPT !.stage = stage]}

(* The response reaches the driver that waits for it, if one still does.   *)
Answer(q, response) ==
    /\ reqs' = reqs \ {q}
    /\ IF q.to = Nobody THEN UNCHANGED <<row, todo>>
       ELSE CASE response = "yes" -> Goes(q.to, VotePath(q.to)) /\ row' = row
              [] response = "no"  -> Goes(q.to, AbortPath(q.to)) /\ row' = row
              [] response = "ok"  -> Advance(q.to) /\ row' = row
              [] response \in {"retry", "error"} -> Stop(q.to) /\ row' = Attempted(q.to)

Voted == rec.vote \in {"yes", "no"}

(* The lookup that opens HandleNewTx; it is outside the mutex under which  *)
(* startWorker shares one worker per key.                                  *)
HandleNewTx(q) ==
    /\ q.kind = "NEW_TX" /\ q.stage = "sent"
    /\ \/ Voted /\ Answer(q, rec.vote) /\ worker' = worker
       \/ /\ rec.vote = "pending"
          /\ worker' = IF worker = "idle" THEN "running" ELSE worker
          /\ Answer(q, "retry")
       \/ /\ rec.vote = "none"
          /\ MovesTo(q, "missed")
          /\ UNCHANGED <<row, todo, worker>>
    /\ UNCHANGED <<hold, rec, inc, accepts, crashes>>

StartWorker(q) ==
    /\ q.kind = "NEW_TX" /\ q.stage = "missed"
    /\ worker' = IF worker = "idle" THEN "running" ELSE worker
    /\ MovesTo(q, "waiting")
    /\ UNCHANGED <<sender, rec, inc, accepts, todo, crashes>>

(* Reserve: an existing incoming reservation of the key is returned. *)
WorkerReserve ==
    /\ worker = "running"
    /\ worker' = IF accepts THEN "yes" ELSE "no"
    /\ inc' = IF accepts /\ inc = "none" THEN "pending" ELSE inc
    /\ UNCHANGED <<sender, rec, accepts, todo, reqs, crashes>>

(* UpsertDone overwrites the vote and keeps the stamps. *)
WorkerCache ==
    /\ worker \in {"yes", "no"}
    /\ rec' = [rec EXCEPT !.vote = worker]
    /\ worker' = "idle"
    /\ UNCHANGED <<sender, inc, accepts, todo, reqs, crashes>>

(* The worker's timeout, or a restart of the receiver: nothing is cached. *)
WorkerAborts ==
    /\ worker # "idle"
    /\ worker' = "idle"
    /\ UNCHANGED <<sender, rec, inc, accepts, todo, reqs, crashes>>

(* The worker has finished: the vote if it cached one, else "pending". *)
AnswerNewTx(q) ==
    /\ q.kind = "NEW_TX" /\ q.stage = "waiting"
    /\ worker = "idle"
    /\ Answer(q, IF Voted THEN rec.vote ELSE "retry")
    /\ UNCHANGED <<hold, receiver, accepts, crashes>>

(* receiveSyncDeadline: UpsertPending never replaces a record. *)
SyncDeadline(q) ==
    /\ q.kind = "NEW_TX" /\ q.stage = "waiting"
    /\ rec' = IF rec.vote = "none" THEN [rec EXCEPT !.vote = "pending"] ELSE rec
    /\ Answer(q, "retry")
    /\ UNCHANGED <<hold, inc, worker, accepts, crashes>>

HandleCommitTx(q) ==
    /\ q.kind = "COMMIT_TX" /\ q.stage = "sent"
    /\ IF rec.vote = "yes" /\ rec.stamps = {}
       THEN MovesTo(q, "read") /\ UNCHANGED <<row, todo>>
       ELSE Answer(q, IF rec.vote = "yes" THEN "ok" ELSE "error")
    /\ UNCHANGED <<hold, receiver, accepts, crashes>>

CommitIncoming(q) ==
    /\ q.kind = "COMMIT_TX" /\ q.stage = "read"
    /\ IF inc = "released"
       THEN inc' = inc /\ Answer(q, "error")
       ELSE /\ inc' = IF inc = "pending" THEN "committed" ELSE inc
            /\ MovesTo(q, "applied")
            /\ UNCHANGED <<row, todo>>
    /\ UNCHANGED <<hold, rec, worker, accepts, crashes>>

HandleRollbackTx(q) ==
    /\ q.kind = "ROLLBACK_TX" /\ q.stage = "sent"
    /\ IF rec.vote # "none" /\ rec.stamps = {}
       THEN MovesTo(q, "read") /\ UNCHANGED <<row, todo>>
       ELSE Answer(q, "ok")
    /\ UNCHANGED <<hold, receiver, accepts, crashes>>

ReleaseIncoming(q) ==
    /\ q.kind = "ROLLBACK_TX" /\ q.stage = "read"
    /\ inc' = IF inc = "pending" THEN "released" ELSE inc
    /\ MovesTo(q, "applied")
    /\ UNCHANGED <<sender, rec, worker, accepts, todo, crashes>>

(* The stamp that closes either handler, and its answer. *)
Stamp(q) ==
    /\ q.stage = "applied"
    /\ rec' = [rec EXCEPT !.stamps = @ \cup
                 {IF q.kind = "COMMIT_TX" THEN "committed" ELSE "rolled_back"}]
    /\ Answer(q, "ok")
    /\ UNCHANGED <<hold, inc, worker, accepts, crashes>>

(* The request is lost, its handler fails, or the receiver restarts. *)
RequestFails(q) ==
    /\ Answer(q, "error")
    /\ UNCHANGED <<hold, receiver, accepts, crashes>>

AccountChanges ==
    /\ "flaky" \in Faults
    /\ accepts' = ~accepts
    /\ UNCHANGED <<sender, receiver, todo, reqs, crashes>>

-----------------------------------------------------------------------------
Inline == InitiateOutboundTx \/ ReserveOutgoing \/ ReserveFails \/ Abandon

Drive(d) ==
    \/ PostNewTx(d) \/ PostCommitTx(d) \/ PostRollbackTx(d) \/ Timeout(d)
    \/ MarkCommitting(d) \/ SettleOutgoing(d) \/ SettleFails(d) \/ MarkCommitted(d)
    \/ ReleaseOutgoing(d) \/ MarkRolledBack(d) \/ MarkFailed(d)

Crons == CronTick \/ ReconcilerTick \/ CheckStatus \/ SweepHold

Worker == WorkerReserve \/ WorkerCache \/ WorkerAborts

Handle(q) ==
    \/ HandleNewTx(q) \/ StartWorker(q) \/ AnswerNewTx(q) \/ SyncDeadline(q)
    \/ HandleCommitTx(q) \/ CommitIncoming(q)
    \/ HandleRollbackTx(q) \/ ReleaseIncoming(q)
    \/ Stamp(q) \/ RequestFails(q)

Next ==
    \/ Inline \/ Crons \/ Worker \/ Crash \/ AccountChanges
    \/ \E d \in Drivers : Drive(d)
    \/ \E q \in reqs : Handle(q)

Spec == Init /\ [][Next]_vars

(* The crons tick for ever and a goroutine that can run does.  The peer    *)
(* and account-service are reachable again and again, so the calls of the  *)
(* cron, which retries a committing row for ever, succeed in the end.      *)
ForCron == {q \in reqs : q.to = "cron"}

Fairness ==
    /\ WF_vars(Inline) /\ WF_vars(CronTick) /\ WF_vars(SweepHold)
    /\ \A d \in Drivers : WF_vars(Drive(d))
    /\ SF_vars(SettleOutgoing("cron"))
    /\ SF_vars(\E q \in ForCron : HandleCommitTx(q))
    /\ SF_vars(\E q \in ForCron : CommitIncoming(q))
    /\ SF_vars(\E q \in ForCron : Stamp(q))

FairSpec == Spec /\ Fairness

-----------------------------------------------------------------------------
(* Properties *)

Ended == {"committed", "rolled_back", "failed"}

(* Rows, records, requests and programs are of their kinds. *)
TypeOK ==
    /\ row \in [status : {"none", "pending", "committing"} \cup Ended,
               attempts : 0..MaxAttempts]
    /\ hold \in {"none", "pending", "settled", "released"}
    /\ rec \in [vote : {"none", "pending", "yes", "no"},
               stamps : SUBSET {"committed", "rolled_back"}]
    /\ inc \in {"none", "pending", "committed", "released"}
    /\ worker \in {"idle", "running", "yes", "no"}
    /\ accepts \in BOOLEAN
    /\ \A d \in Drivers : \A i \in 1..Len(todo[d]) : todo[d][i] \in Steps
    /\ reqs \subseteq [kind : Kinds, stage : Stages, to : Drivers \cup {Nobody}]
    /\ crashes \in 0..MaxCrashes

(* What the sender's row reports is what happened.  A payment reported as  *)
(* failed or rolled back is never credited by the peer and the payer's     *)
(* money has not left, whatever request of it is still on its way; "Both   *)
(* sides committed -> close the saga": a committed one has its credit.     *)
ReportedIsDone ==
    /\ row.status \in {"rolled_back", "failed"} => inc # "committed" /\ hold # "settled"
    /\ row.status = "committed" => inc = "committed"

(* The recipient is credited only against money of the payer that is held  *)
(* or gone, and a committed payment was debited: no retry, lost answer or  *)
(* late message creates money.  (A crash before the hold is placed can.)   *)
CreditIsBacked ==
    /\ inc = "committed" => hold \in {"pending", "settled"}
    /\ row.status = "committed" => hold = "settled"

(* Every payment comes to an end, whatever its drivers lose or repeat,     *)
(* unless the sweep released its hold in an outage past the TTL: such a    *)
(* payment can no longer be settled and stays committing.  The payer's     *)
(* money does not stay held, also when no driver knows of the hold.        *)
PaymentEnds ==
    /\ row.status = "pending" ~> row.status \in Ended \/ hold = "released"
    /\ hold = "pending" ~> hold # "pending"

-----------------------------------------------------------------------------
(* The payment implements AtomicCommit: the row decides, the incoming      *)
(* reservation is the credit, the hold the debit.                          *)
CONSTANT Parties    \* {"credit"} or {"credit", "debit"}

Decision ==
    CASE row.status \in {"committing", "committed"}   -> "committed"
      [] row.status \in {"rolled_back", "failed"}     -> "aborted"
      [] OTHER                                        -> "undecided"

Outcome(p) ==
    LET status == IF p = "credit" THEN inc ELSE hold IN
    CASE status \in {"committed", "settled"} -> "committed"
      [] status = "released"                 -> "aborted"
      [] OTHER                               -> "undecided"

Atomic == INSTANCE AtomicCommit WITH
    decision <- Decision, outcome <- [p \in Parties |-> Outcome(p)]

(* All or nothing, decided once by the sender; a row past the pivot "is    *)
(* NEVER compensated".                                                     *)
ImplementsAtomicCommit == Atomic!Spec
=============================================================================
