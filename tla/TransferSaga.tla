---------------------------- MODULE TransferSaga ----------------------------
(***************************************************************************)
(* Execution of one verified transfer (or payment) by transaction-service: *)
(* ExecuteTransfer runs the balance updates as a saga, the saga log keeps  *)
(* a row per forward step and per compensation, and the recovery loop      *)
(* retries compensations left "compensating".                              *)
(*                                                                         *)
(* Forward idempotency keys are derived from the transfer, so `applied` is *)
(* a set of steps.  A compensation's key is derived from the execution's   *)
(* saga id, or, in the recovery loop, from the log row: `refunds` holds    *)
(* <<who, execution, step>>.  What account-service does with a key it      *)
(* knows, or with an account it refuses, is AccountRow's business; here an *)
(* UpdateBalance call applies, is refused, or its answer is lost after the *)
(* last retry.                                                             *)
(***************************************************************************)
EXTENDS Naturals

CONSTANTS
    Steps,          \* number of balance updates: 2 same-currency, 4 cross
    Runs,           \* calls of ExecuteTransfer for the transfer
    MaxRetries,     \* maxSagaCompensationRetries
    MaxCrashes,
    Faults          \* see FaultKinds

(* "lost"    an update is applied and its answer lost, three times;        *)
(* "overlap" a recovery tick lists a row while its execution is running;   *)
(* "db"      a write to the transfer or to the saga log fails.             *)
FaultKinds == {"lost", "overlap", "db"}

ASSUME SagaAssumption ==
    /\ Steps \in Nat \ {0}
    /\ MaxRetries \in Nat \ {0}
    /\ MaxCrashes \in Nat
    /\ Faults \subseteq FaultKinds

VARIABLES
    status,         \* transfers.status
    applied,        \* forward steps in the ledger
    refunds,        \* compensations in the ledger, by key
    fwd,            \* saga_logs: forward rows
    comp,           \* saga_logs: compensation rows
    retries,        \* their retry_count
    pc,             \* where each execution is, and at which step
    recovering,     \* rows the current recovery tick has listed, not yet done
    crashes,
    exposed         \* history: rows whose step may be given back twice

vars == <<status, applied, refunds, fwd, comp, retries, pc, recovering, crashes,
          exposed>>
ledger == <<applied, refunds>>

Step == 1..Steps
Rows == Runs \X Step

Init ==
    /\ status = "pending_verification"
    /\ applied = {}
    /\ refunds = {}
    /\ fwd = [x \in Rows |-> "none"]
    /\ comp = [x \in Rows |-> "none"]
    /\ retries = [x \in Rows |-> 0]
    /\ pc = [r \in Runs |-> [at |-> "idle", step |-> 1]]
    /\ recovering = {}
    /\ crashes = 0
    /\ exposed = {}

At(r, l) == pc[r].at = l
Row(r) == <<r, pc[r].step>>
Goto(r, l, i) == pc' = [pc EXCEPT ![r] = [at |-> l, step |-> i]]
Ends(r) == Goto(r, "ended", pc[r].step)

(* A write that the code lets fail: f' is the new value, or is unchanged. *)
Writes(new, old) == {new} \cup IF "db" \in Faults THEN {old} ELSE {}

(* A call with effect `new` that reports an error: it had none, or the     *)
(* answer was lost.                                                        *)
Unanswered(new, old) == {old} \cup IF "lost" \in Faults THEN {new} ELSE {}

(* Fault: rollback leaves the last completed step out. *)
RollbackOneShort(r, i) ==
    IF i > 2 THEN Goto(r, "undo", i - 2) ELSE Goto(r, "fail", 1)

(* rollback walks the completed steps, those below i, downwards; after it  *)
(* the transfer is marked failed.                                          *)
RollbackBelow(r, i) ==
    IF i > 1 THEN Goto(r, "undo", i - 1) ELSE Goto(r, "fail", 1)

-----------------------------------------------------------------------------
(* ExecuteTransfer *)

(* The status check and the write of "processing" are separate.  A         *)
(* transfer in any other status ends the call at once.                     *)
ExecuteTransfer(r) ==
    /\ At(r, "idle")
    /\ IF status = "pending_verification" THEN Goto(r, "mark", 1) ELSE Ends(r)
    /\ UNCHANGED <<status, ledger, fwd, comp, retries, recovering, crashes, exposed>>

(* UpdateStatus re-reads the row, so it succeeds for a second execution,   *)
(* whose refunds have keys of their own: its rows are exposed.             *)
MarkProcessing(r) ==
    /\ At(r, "mark")
    /\ status' = "processing"
    /\ Goto(r, "record", 1)
    /\ exposed' = exposed \cup IF status = "pending_verification" THEN {} ELSE {r} \X Step
    /\ UNCHANGED <<ledger, fwd, comp, retries, recovering, crashes>>

(* The status write fails and the execution returns the error. *)
MarkProcessingFails(r) ==
    /\ "db" \in Faults
    /\ At(r, "mark")
    /\ Ends(r)
    /\ UNCHANGED <<status, ledger, fwd, comp, retries, recovering, crashes, exposed>>

(* Limits exceeded, or no bank account to go through: nothing has moved. *)
Refuse(r) ==
    /\ At(r, "record") /\ pc[r].step = 1
    /\ status' \in Writes("failed", status)
    /\ Ends(r)
    /\ UNCHANGED <<ledger, fwd, comp, retries, recovering, crashes, exposed>>

MarkTransfer(r) ==
    /\ pc[r].at \in {"complete", "fail"}
    /\ status' \in Writes(IF At(r, "complete") THEN "completed" ELSE "failed", status)
    /\ Ends(r)
    /\ UNCHANGED <<ledger, fwd, comp, retries, recovering, crashes, exposed>>

-----------------------------------------------------------------------------
(* Saga.Execute: the saga id is fresh, so IsCompleted never skips a step *)

RecordForward(r) ==
    /\ At(r, "record")
    /\ fwd' = [fwd EXCEPT ![Row(r)] = "pending"]
    /\ Goto(r, "forward", pc[r].step)
    /\ UNCHANGED <<status, ledger, comp, retries, recovering, crashes, exposed>>

(* The caller's context is cancelled, or the row cannot be written. *)
RecordForwardFails(r) ==
    /\ At(r, "record")
    /\ RollbackBelow(r, pc[r].step)
    /\ UNCHANGED <<status, ledger, fwd, comp, retries, recovering, crashes, exposed>>

Forward(r) ==
    /\ At(r, "forward")
    /\ applied' = applied \cup {pc[r].step}
    /\ Goto(r, "completed", pc[r].step)
    /\ UNCHANGED <<status, refunds, fwd, comp, retries, recovering, crashes, exposed>>

(* The step failed, or only its answer was lost; its row is marked failed  *)
(* and the steps before it are rolled back.                                *)
ForwardFails(r) ==
    /\ At(r, "forward")
    /\ applied' \in Unanswered(applied \cup {pc[r].step}, applied)
    /\ fwd' \in Writes([fwd EXCEPT ![Row(r)] = "failed"], fwd)
    /\ RollbackBelow(r, pc[r].step)
    /\ UNCHANGED <<status, refunds, comp, retries, recovering, crashes, exposed>>

(* A failure to record the completion is only logged. *)
MarkCompleted(r) ==
    /\ At(r, "completed")
    /\ fwd' \in Writes([fwd EXCEPT ![Row(r)] = "completed"], fwd)
    /\ IF pc[r].step < Steps THEN Goto(r, "record", pc[r].step + 1)
                             ELSE Goto(r, "complete", Steps)
    /\ UNCHANGED <<status, ledger, comp, retries, recovering, crashes, exposed>>

-----------------------------------------------------------------------------
(* Saga.rollback *)

RecordCompensation(r) ==
    /\ At(r, "undo")
    /\ comp' = [comp EXCEPT ![Row(r)] = "compensating"]
    /\ Goto(r, "backward", pc[r].step)
    /\ UNCHANGED <<status, ledger, fwd, retries, recovering, crashes, exposed>>

(* A compensation that cannot be recorded is skipped. *)
RecordCompensationFails(r) ==
    /\ "db" \in Faults
    /\ At(r, "undo")
    /\ RollbackBelow(r, pc[r].step)
    /\ UNCHANGED <<status, ledger, fwd, comp, retries, recovering, crashes, exposed>>

Backward(r) ==
    /\ At(r, "backward")
    /\ refunds' = refunds \cup {<<"inline", r, pc[r].step>>}
    /\ Goto(r, "compensated", pc[r].step)
    /\ UNCHANGED <<status, applied, fwd, comp, retries, recovering, crashes, exposed>>

(* The row stays "compensating" and the walk goes on: a row whose refund   *)
(* was made and not answered is exposed.                                   *)
BackwardFails(r) ==
    /\ At(r, "backward")
    /\ refunds' \in Unanswered(refunds \cup {<<"inline", r, pc[r].step>>}, refunds)
    /\ exposed' = exposed \cup IF refunds' = refunds THEN {} ELSE {Row(r)}
    /\ RollbackBelow(r, pc[r].step)
    /\ UNCHANGED <<status, applied, fwd, comp, retries, recovering, crashes>>

(* Fault: the row of a finished compensation is left as it is. *)
MarkCompensatedNot(r) ==
    /\ At(r, "compensated")
    /\ RollbackBelow(r, pc[r].step)
    /\ UNCHANGED <<status, ledger, fwd, comp, retries, recovering, crashes, exposed>>

(* A failure to write it is only logged, and the row is exposed. *)
MarkCompensated(r) ==
    /\ At(r, "compensated")
    /\ comp' \in Writes([comp EXCEPT ![Row(r)] = "completed"], comp)
    /\ exposed' = exposed \cup IF comp' = comp THEN {Row(r)} ELSE {}
    /\ RollbackBelow(r, pc[r].step)
    /\ UNCHANGED <<status, ledger, fwd, retries, recovering, crashes>>

-----------------------------------------------------------------------------
(* runRecoveryTick *)

(* The row an execution is compensating, from the record of the            *)
(* compensation to the mark that it is done.                               *)
UnderWay == {Row(r) : r \in {q \in Runs : pc[q].at \in {"backward", "compensated"}}}

(* FindPendingCompensations asks for no age; without "overlap" the tick    *)
(* falls when no execution is under way.  A row listed while it is being   *)
(* compensated is exposed.                                                 *)
RecoveryTick ==
    /\ recovering = {}
    /\ "overlap" \in Faults \/ \A r \in Runs : pc[r].at \in {"idle", "ended"}
    /\ recovering' = {x \in Rows : comp[x] = "compensating"}
    /\ recovering' # {}
    /\ exposed' = exposed \cup (recovering' \cap UnderWay)
    /\ UNCHANGED <<status, ledger, fwd, comp, retries, pc, crashes>>

(* The update goes out under "compensate-<row id>"; the outcome of         *)
(* CompleteStep is not looked at.                                          *)
RecoverySucceeds(x) ==
    /\ refunds' = refunds \cup {<<"recovery", x[1], x[2]>>}
    /\ comp' \in Writes([comp EXCEPT ![x] = "completed"], comp)
    /\ recovering' = recovering \ {x}
    /\ UNCHANGED <<status, applied, fwd, retries, pc, crashes, exposed>>

(* Fault: the row is closed without a look at the call's result. *)
RecoveryFailsClosed(x) ==
    /\ comp' = [comp EXCEPT ![x] = "completed"]
    /\ recovering' = recovering \ {x}
    /\ UNCHANGED <<status, ledger, fwd, retries, pc, crashes, exposed>>

(* Fault: the retry count is not compared with the cap. *)
RecoveryFailsForever(x) ==
    /\ retries' = [retries EXCEPT ![x] = IF @ < MaxRetries THEN @ + 1 ELSE @]
    /\ recovering' = recovering \ {x}
    /\ UNCHANGED <<status, ledger, fwd, comp, pc, crashes, exposed>>

(* The count goes up and at the cap the row is dead-lettered.  When the    *)
(* count cannot be written the cap is not looked at; the count of a row    *)
(* whose dead-lettering failed grows on, here it stops at the cap.         *)
RecoveryFails(x) ==
    /\ refunds' \in Unanswered(refunds \cup {<<"recovery", x[1], x[2]>>}, refunds)
    /\ \/ /\ retries' = [retries EXCEPT ![x] = IF @ < MaxRetries THEN @ + 1 ELSE @]
          /\ IF retries[x] + 1 >= MaxRetries
             THEN comp' \in Writes([comp EXCEPT ![x] = "dead_letter"], comp)
             ELSE comp' = comp
       \/ "db" \in Faults /\ UNCHANGED <<retries, comp>>
    /\ recovering' = recovering \ {x}
    /\ UNCHANGED <<status, applied, fwd, pc, crashes, exposed>>

(* Executions and the recovery loop forget where they were: a row refunded *)
(* and not yet marked is exposed.                                          *)
Crash ==
    /\ crashes < MaxCrashes
    /\ crashes' = crashes + 1
    /\ pc' = [r \in Runs |-> IF At(r, "idle") THEN pc[r] ELSE [pc[r] EXCEPT !.at = "ended"]]
    /\ recovering' = {}
    /\ exposed' = exposed \cup {Row(r) : r \in {q \in Runs : At(q, "compensated")}}
    /\ UNCHANGED <<status, ledger, fwd, comp, retries>>

-----------------------------------------------------------------------------
Execution(r) ==
    \/ MarkProcessing(r) \/ MarkProcessingFails(r) \/ Refuse(r) \/ MarkTransfer(r)
    \/ RecordForward(r) \/ RecordForwardFails(r)
    \/ Forward(r) \/ ForwardFails(r) \/ MarkCompleted(r)
    \/ RecordCompensation(r) \/ RecordCompensationFails(r)
    \/ Backward(r) \/ BackwardFails(r) \/ MarkCompensated(r)

Recovery(x) == RecoverySucceeds(x) \/ RecoveryFails(x)

Next ==
    \/ \E r \in Runs : ExecuteTransfer(r) \/ Execution(r)
    \/ RecoveryTick
    \/ \E x \in recovering : Recovery(x)
    \/ Crash

Spec == Init /\ [][Next]_vars

(* An execution that has started goes on (no client decides when), and the *)
(* recovery loop ticks for ever.                                           *)
Fairness ==
    /\ \A r \in Runs : WF_vars(Execution(r))
    /\ SF_vars(RecoveryTick)
    /\ WF_vars(\E x \in recovering : Recovery(x))

FairSpec == Spec /\ Fairness

-----------------------------------------------------------------------------
(* Properties *)

Labels ==
    {"idle", "mark", "record", "forward", "completed", "undo", "backward",
     "compensated", "complete", "fail", "ended"}

(* Statuses, keys and positions are of their kinds. *)
TypeOK ==
    /\ status \in {"pending_verification", "processing", "completed", "failed"}
    /\ applied \subseteq Step
    /\ refunds \subseteq {"inline", "recovery"} \X Runs \X Step
    /\ fwd \in [Rows -> {"none", "pending", "completed", "failed"}]
    /\ comp \in [Rows -> {"none", "compensating", "completed", "dead_letter"}]
    /\ retries \in [Rows -> 0..MaxRetries]
    /\ pc \in [Runs -> [at : Labels, step : Step]]
    /\ recovering \subseteq Rows
    /\ crashes \in 0..MaxCrashes
    /\ exposed \subseteq Rows

RefundsOf(s) == {k \in refunds : k[3] = s}

(* "the account-side ledger idempotency_key index keeps double-execution   *)
(* out" does not hold between the inline key and the recovery loop's, nor  *)
(* between two executions.  A step is given back twice only through an     *)
(* exposed row: its execution passed the status check beside another, its  *)
(* refund was not answered or not marked, the process stopped between the  *)
(* refund and the mark, or a tick listed the row in between.               *)
NoDoubleRefund ==
    \A k, l \in refunds :
        (k # l /\ k[3] = l[3]) => \E m \in {k, l} : <<m[2], m[3]>> \in exposed

(* Refunds and the log agree, also with two executions of one transfer and *)
(* the recovery loop next to them: money is given back only for a step     *)
(* that took it, every refund has a row recorded before the call, and a    *)
(* row says completed only when the money is back.                         *)
RefundsMatchLog ==
    /\ \A k \in refunds : k[3] \in applied /\ comp[<<k[2], k[3]>>] # "none"
    /\ \A x \in Rows : comp[x] = "completed" =>
          \E who \in {"inline", "recovery"} : <<who, x[1], x[2]>> \in refunds

Owed(s) == \E r \in Runs : comp[<<r, s>>] \in {"compensating", "dead_letter"}

(* A completed transfer moved every leg and gave none back.  "Steps that   *)
(* never completed are skipped - their Forward did not apply, so there is  *)
(* nothing to undo": of a failed one every leg that moved was given back,  *)
(* or a log row says that it is still to be.                               *)
AllOrNothing ==
    /\ status = "completed" => applied = Step /\ refunds = {}
    /\ status = "failed" => \A s \in applied : RefundsOf(s) # {} \/ Owed(s)

(* An execution that marked the transfer brings it to an end, and each of  *)
(* its compensations is done or dead-lettered.                             *)
TransferEnds ==
    /\ status = "processing" ~> status \in {"completed", "failed"}
    /\ \A x \in Rows : comp[x] = "compensating" ~> comp[x] # "compensating"
=============================================================================
