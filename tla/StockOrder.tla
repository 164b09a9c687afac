---------------------------- MODULE StockOrder ----------------------------
(***************************************************************************)
(* One stock order: the placement saga that persists it and takes its      *)
(* hold, the supervisor's and the owner's calls, the execution engine's    *)
(* goroutine with one fill saga per order transaction, and the recovery    *)
(* cron, all next to each other.                                           *)
(*                                                                         *)
(* A unit costs 1.  A buy holds money on the account (with Buffer for      *)
(* slippage and commission) and settles it portion by portion; a sell      *)
(* holds the shares.  The order row is under an optimistic lock: seen is   *)
(* the copy a caller has read.  A Forward may be refused, or acted on and  *)
(* its answer lost; releasing a hold is assumed to be answered.            *)
(***************************************************************************)
EXTENDS SagaExecutor

CONSTANTS
    Placement,      \* the placement saga
    Txns,           \* order transactions; the fill saga of each bears its name
    Quantity, Buffer,
    MaxFailures     \* maxConsecutiveFillFailures

AuditStep == 1      \* record_transaction and convert_amount: audit fields only
MoneyStep == 2      \* settle_reservation of a buy, credit_proceeds of a sell
SharesStep == 3     \* update_holding of a buy, decrement_holding of a sell

PersistOrder == 1
ReserveStep == 2
FinalizeStep == 3

ASSUME OrderAssumption ==
    /\ Placement \notin Txns /\ Sagas = {Placement} \cup Txns /\ None \notin Sagas
    /\ Quantity \in Nat \ {0} /\ Buffer \in Nat /\ MaxFailures \in Nat \ {0}
    /\ Length = [s \in Sagas |-> IF s = Placement THEN FinalizeStep ELSE SharesStep]
    /\ NoBackward = {<<Placement, FinalizeStep>>} \cup (Txns \X {AuditStep, SharesStep})

VARIABLES
    direction,      \* "buy" or "sell"
    order,          \* the row: status ("none" if there is none), done, left, version
    planned,        \* version of the copy the placement run works on
    hold,           \* reservation of money or shares: status, left
    fill,           \* per transaction: quantity, row, money, refund, shares
    job,            \* the engine's goroutine
    call,           \* ApproveOrder or DeclineOrder, and CancelOrder, under way
    lost            \* sagas whose step was done by a call with its answer lost

orderVars == <<direction, order, planned, hold, fill, lost>>
vars == <<sagaVars, orderVars, job, call>>

NoRow == [status |-> "none", done |-> FALSE, left |-> 0, version |-> 0]
NoFill == [qty |-> 0, row |-> FALSE, money |-> FALSE, refund |-> FALSE, shares |-> FALSE]
NoJob == [pc |-> "none", seen |-> NoRow, txn |-> None, failures |-> 0]
NoCall == [pc |-> "none", seen |-> NoRow]
Callers == {"supervisor", "owner"}

Init ==
    /\ SagaInit
    /\ direction \in {"buy", "sell"}
    /\ order = NoRow /\ planned = 0
    /\ hold = [status |-> "none", left |-> 0]
    /\ fill = [t \in Txns |-> NoFill]
    /\ job = NoJob
    /\ call = [c \in Callers |-> NoCall]
    /\ lost = {}

Exists == order.status # "none"

-----------------------------------------------------------------------------
(* The order row and the hold *)

(* Fault: saved without the version in the WHERE clause. *)
FreshAlways(copy) == Exists

(* OrderRepository.Update of a copy: refused when the row has moved on. *)
Fresh(copy) == Exists /\ copy.version = order.version

Saved(copy) == [copy EXCEPT !.version = @ + 1]
Update(copy) == order' = IF Fresh(copy) THEN Saved(copy) ELSE order

Needed == IF direction = "buy" THEN Quantity + Buffer ELSE Quantity

(* ReserveFunds, Reserve: a replay finds the reservation. *)
Reserve == hold' = IF hold.status = "none" THEN [status |-> "active", left |-> Needed] ELSE hold

(* ReleaseReservation, Release *)
ReleaseHold == hold' = IF hold.status = "active" THEN [status |-> "released", left |-> 0] ELSE hold

(* A replay finds its settlement.  PartialSettle refuses one that meets a  *)
(* used-up hold, which fails a recovery run with nothing of its own to     *)
(* undo: the fill is left as it was either way.                            *)
CanSettle(applied, q) == applied \/ (hold.status = "active" /\ q <= hold.left)

(* PartialSettleReservation, PartialSettle: once per transaction *)
SettleHold(applied, q) ==
    hold' = IF applied THEN hold
            ELSE [status |-> IF hold.left = q THEN "settled" ELSE "active",
                  left |-> hold.left - q]

-----------------------------------------------------------------------------
(* The placement saga *)

CreateOrder ==
    /\ Execute(Placement)
    /\ UNCHANGED <<orderVars, job, call>>

CanPlace(i) == i = FinalizeStep => Fresh([order EXCEPT !.version = planned])

(* An actuary over the limit leaves a buy pending for a supervisor. *)
PlacementForward(i) ==
    CASE i = PersistOrder ->
            /\ order' = IF Exists THEN order
                        ELSE [NoRow EXCEPT !.status = "pending", !.left = Quantity]
            /\ UNCHANGED <<hold, fill>>
      [] i = ReserveStep -> Reserve /\ UNCHANGED <<order, fill>>
      [] i = FinalizeStep ->
            /\ \/ order' = Saved([order EXCEPT !.status = "approved"])
               \/ direction = "buy" /\ order' = Saved(order)
            /\ UNCHANGED <<hold, fill>>

PlacementBackward(i) ==
    CASE i = PersistOrder -> order' = NoRow /\ UNCHANGED <<hold, fill>>
      [] i = ReserveStep -> ReleaseHold /\ UNCHANGED <<order, fill>>

-----------------------------------------------------------------------------
(* A fill saga *)

(* The step that takes from the hold: the money of a buy, the shares of a sell *)
Consumes(i) == i = (IF direction = "buy" THEN MoneyStep ELSE SharesStep)

Applied(t, i) == IF i = MoneyStep THEN fill[t].money ELSE fill[t].shares

(* buildBuyFillSaga settles reserved money, buildSellFillSaga shares. *)
CanFill(t, i) == Consumes(i) => CanSettle(Applied(t, i), fill[t].qty)

FillForward(t, i) ==
    /\ fill' = [fill EXCEPT ![t].money = @ \/ i = MoneyStep,
                            ![t].shares = @ \/ i = SharesStep]
    /\ IF Consumes(i) THEN SettleHold(Applied(t, i), fill[t].qty) ELSE UNCHANGED hold
    /\ UNCHANGED order

(* The money leg is reversed under a key of the transaction: a buy is      *)
(* credited, a sell debited.  The hold it came from stays settled.         *)
FillBackward(t) ==
    /\ fill' = [fill EXCEPT ![t].refund = TRUE]
    /\ UNCHANGED <<order, hold>>

-----------------------------------------------------------------------------
(* The steps as actions *)

CanForward(s) ==
    IF s = Placement THEN CanPlace(run[s].at) ELSE CanFill(s, run[s].at)

(* The call of the step succeeds. *)
StepForward(s) ==
    /\ CanForward(s)
    /\ IF s = Placement THEN PlacementForward(run[s].at) ELSE FillForward(s, run[s].at)

Forward(s) ==
    /\ ForwardDone(s)
    /\ StepForward(s)
    /\ UNCHANGED <<direction, planned, job, call, lost>>

ForwardRefused(s) ==
    /\ ForwardFailed(s)
    /\ IF CanForward(s)
       THEN faults.refusal < MaxRefusals /\ faults' = [faults EXCEPT !.refusal = @ + 1]
       ELSE UNCHANGED faults
    /\ UNCHANGED <<orderVars, job, call>>

(* Calls of account-service: ReserveFunds of a buy, the money of a fill. *)
RemoteStep(s) ==
    IF s = Placement THEN run[s].at = ReserveStep /\ direction = "buy"
    ELSE run[s].at = MoneyStep

(* The call is acted on and its answer lost: for Execute it has failed, and *)
(* the step is not among those that rollback undoes.                       *)
ForwardLost(s) ==
    /\ ForwardFailed(s)
    /\ RemoteStep(s)
    /\ StepForward(s)
    /\ faults.refusal < MaxRefusals /\ faults' = [faults EXCEPT !.refusal = @ + 1]
    /\ lost' = lost \cup {s}
    /\ UNCHANGED <<direction, planned, job, call>>

Backward(s) ==
    /\ BackwardDone(s)
    /\ IF s = Placement THEN PlacementBackward(run[s].at) ELSE FillBackward(s)
    /\ UNCHANGED <<direction, planned, job, call, lost>>

BackwardRefused(s) ==
    /\ BackwardFailed(s)
    /\ faults.back < MaxBackFails /\ faults' = [faults EXCEPT !.back = @ + 1]
    /\ UNCHANGED <<orderVars, job, call>>

(* The run of the engine's own fill returns to it. *)
Returns(s) ==
    /\ Return(s)
    /\ job' = IF job.txn = s /\ run[s].row = None
              THEN [job EXCEPT !.pc = IF run[s].error THEN "failed" ELSE "save"]
              ELSE job
    /\ UNCHANGED <<orderVars, call>>

ExecutorStep(s) ==
    /\ \/ SkipCompleted(s) \/ RecordForward(s) \/ MarkCompleted(s) \/ MarkCompletedFails(s)
       \/ SkipIrreversible(s) \/ RecordCompensation(s) \/ MarkCompensated(s)
       \/ \E row \in Stuck(s) : MarkDeadLetter(s, row)
    /\ UNCHANGED <<orderVars, job, call>>

-----------------------------------------------------------------------------
(* The recovery cron *)

(* RecoverPlacementSaga loads the order as it is now. *)
RecoverPlacement ==
    /\ \E row \in Stuck(Placement) :
        IF Exists THEN Recover(Placement, row) ELSE RecoverNothing(Placement, row)
    /\ planned' = order.version
    /\ UNCHANGED <<direction, order, hold, fill, lost, job, call>>

(* Fault: a fill that was rolling back is driven forward. *)
RecoverFillForward(t) ==
    /\ \E row \in Stuck(t) :
        /\ row[2] = AuditStep
        /\ Recoverable(t, row) /\ retry[t] < MaxRetries
        /\ run' = [run EXCEPT ![t] = [Idle EXCEPT !.pc = "record", !.at = 1, !.row = row]]
    /\ UNCHANGED <<fwd, comp, retry, faults, orderVars, job, call>>

(* reconcileFill re-drives the saga while its order and transaction exist. *)
RecoverFill(t) ==
    /\ \E row \in Stuck(t) :
        /\ row[2] = AuditStep
        /\ IF Exists /\ fill[t].row THEN Recover(t, row) ELSE RecoverRefused(t, row)
    /\ UNCHANGED <<orderVars, job, call>>

(* reconcileSettle of a buy catches up with account-service, and leaves a  *)
(* settlement that did not happen alone: a forward row has no amount to    *)
(* retry with.  reconcileCreditDebit of a sell repeats credit_proceeds for *)
(* a compensation row, which its key makes a no-op.  Both judge a row by   *)
(* its step only, so that a refund still owed is closed too.               *)
ReconcileMoney(t) ==
    /\ \E row \in Stuck(t) :
        /\ row[2] = MoneyStep /\ fill[t].money
        /\ direction = "buy" \/ row[1] = "comp"
        /\ RecoverNothing(t, row)
    /\ UNCHANGED <<orderVars, job, call>>

(* update_holding, decrement_holding: marked completed as they are *)
ReconcileShares(t) ==
    /\ \E row \in Stuck(t) : row[2] = SharesStep /\ RecoverNothing(t, row)
    /\ UNCHANGED <<orderVars, job, call>>

-----------------------------------------------------------------------------
(* The execution engine *)

Active == order.status = "approved" /\ ~order.done

(* Fault: only an order without a fill is started. *)
StartOrderExecutionUnfilled ==
    /\ job.pc = "none" /\ Active /\ order.left = Quantity
    /\ job' = [NoJob EXCEPT !.pc = "loop"]
    /\ UNCHANGED <<sagaVars, orderVars, call>>

(* StartOrderExecution: from the handlers, from Start at boot, from        *)
(* WakeAll.  An order approved by recovery, and one whose goroutine gave up *)
(* on a failed read, waits for the next of these.                          *)
StartOrderExecution ==
    /\ job.pc = "none" /\ Active
    /\ job' = [NoJob EXCEPT !.pc = "loop"]
    /\ UNCHANGED <<sagaVars, orderVars, call>>

(* The head of the loop returns when there is nothing left to do. *)
LoopReturns ==
    /\ job.pc = "loop" /\ ~Active
    /\ job' = NoJob
    /\ UNCHANGED <<sagaVars, orderVars, call>>

(* After the wait: the portion's transaction row is written, and filled. *)
FillPortion ==
    /\ job.pc = "loop" /\ Active
    /\ \E t \in Txns : fill[t].qty = 0
    /\ \E q \in 1..order.left :
        LET t == CHOOSE u \in Txns : fill[u].qty = 0 IN
        /\ fill' = [fill EXCEPT ![t].qty = q, ![t].row = TRUE]
        /\ job' = [job EXCEPT !.pc = "wait", !.seen = order, !.txn = t]
    /\ UNCHANGED <<sagaVars, direction, planned, lost, order, hold, call>>

(* ProcessBuyFill, ProcessSellFill *)
ProcessFill ==
    /\ job.pc = "wait"
    /\ Execute(job.txn)
    /\ job' = [job EXCEPT !.pc = "fill"]
    /\ UNCHANGED <<orderVars, call>>

(* A failed fill deletes its transaction; too many in a row abort. *)
FillFailed ==
    /\ job.pc = "failed"
    /\ fill' = [fill EXCEPT ![job.txn].row = FALSE]
    /\ job' = IF job.failures + 1 >= MaxFailures THEN [job EXCEPT !.pc = "abort"]
              ELSE [NoJob EXCEPT !.pc = "loop", !.failures = job.failures + 1]
    /\ UNCHANGED <<sagaVars, direction, planned, lost, order, hold, call>>

EndOfJob(done) ==
    job' = IF ~done THEN [NoJob EXCEPT !.pc = "loop"]
           ELSE IF direction = "buy" THEN [NoJob EXCEPT !.pc = "release"] ELSE NoJob

(* Fault: the portion is not taken off the order. *)
SaveFillUncounted ==
    /\ job.pc = "save"
    /\ Update(job.seen)
    /\ EndOfJob(FALSE)
    /\ UNCHANGED <<sagaVars, direction, planned, lost, hold, fill, call>>

(* The order row after a fill; that a concurrent call changed the row      *)
(* first is logged and nothing more.                                       *)
SaveFill ==
    /\ job.pc = "save"
    /\ LET left == job.seen.left - fill[job.txn].qty IN
        /\ Update([job.seen EXCEPT !.left = left, !.done = (left = 0)])
        /\ EndOfJob(left = 0)
    /\ UNCHANGED <<sagaVars, direction, planned, lost, hold, fill, call>>

(* A write of the order row that fails in the database is logged, too; it  *)
(* counts with the lost writes of the log.                                 *)
SaveFails ==
    /\ job.pc \in {"save", "abort"}
    /\ faults.mark < MaxMarkFails /\ faults' = [faults EXCEPT !.mark = @ + 1]
    /\ EndOfJob(job.pc = "abort" \/ job.seen.left = fill[job.txn].qty)
    /\ UNCHANGED <<run, fwd, comp, retry, orderVars, call>>

AbortOrder ==
    /\ job.pc = "abort"
    /\ Update([job.seen EXCEPT !.done = TRUE, !.status = "cancelled"])
    /\ EndOfJob(TRUE)
    /\ UNCHANGED <<sagaVars, direction, planned, lost, hold, fill, call>>

(* Fault: the hold is left on the account. *)
ReleaseResidualNothing ==
    /\ job.pc = "release"
    /\ job' = NoJob
    /\ UNCHANGED <<sagaVars, direction, planned, lost, order, hold, fill, call>>

ReleaseResidualReservation ==
    /\ job.pc = "release"
    /\ ReleaseHold
    /\ job' = NoJob
    /\ UNCHANGED <<sagaVars, direction, planned, lost, order, fill, call>>

-----------------------------------------------------------------------------
(* Calls that read the order, then save it *)

Read(c) ==
    /\ call[c].pc = "none"
    /\ IF c = "supervisor" THEN order.status = "pending"
       ELSE Exists /\ ~order.done /\ order.status \notin {"declined", "cancelled"}
    /\ call' = [call EXCEPT ![c] = [pc |-> "update", seen |-> order]]
    /\ UNCHANGED <<sagaVars, orderVars, job>>

(* ApproveOrder, DeclineOrder *)
Supervise ==
    /\ call["supervisor"].pc = "update"
    /\ \E verdict \in {"approved", "declined"} :
        Update([call["supervisor"].seen EXCEPT !.status = verdict])
    /\ call' = [call EXCEPT !["supervisor"] = NoCall]
    /\ UNCHANGED <<sagaVars, direction, planned, lost, hold, fill, job>>

(* CancelOrder: the row first, then the hold *)
CancelOrder ==
    /\ call["owner"].pc = "update"
    /\ Update([call["owner"].seen EXCEPT !.status = "cancelled", !.done = TRUE])
    /\ call' = [call EXCEPT !["owner"] = IF Fresh(@.seen) THEN [@ EXCEPT !.pc = "release"] ELSE NoCall]
    /\ UNCHANGED <<sagaVars, direction, planned, lost, hold, fill, job>>

CancelRelease ==
    /\ call["owner"].pc = "release"
    /\ ReleaseHold
    /\ call' = [call EXCEPT !["owner"] = NoCall]
    /\ UNCHANGED <<sagaVars, direction, planned, lost, order, fill, job>>

(* stock-service dies with its goroutine and its calls. *)
ServiceCrash ==
    /\ Crash
    /\ \/ job.pc # "none" \/ \E c \in Callers : call[c].pc # "none"
       \/ \E s \in Sagas : run[s].pc # "idle"
    /\ job' = NoJob
    /\ call' = [c \in Callers |-> NoCall]
    /\ UNCHANGED orderVars

-----------------------------------------------------------------------------
SagaStep(s) ==
    \/ Forward(s) \/ ForwardRefused(s) \/ ForwardLost(s)
    \/ Backward(s) \/ BackwardRefused(s) \/ ExecutorStep(s) \/ Returns(s)
Reconcile ==
    \/ RecoverPlacement
    \/ \E t \in Txns : RecoverFill(t) \/ ReconcileMoney(t) \/ ReconcileShares(t)
Engine ==
    \/ StartOrderExecution \/ LoopReturns \/ FillPortion \/ ProcessFill \/ FillFailed
    \/ SaveFill \/ AbortOrder \/ ReleaseResidualReservation

Next ==
    \/ CreateOrder \/ \E s \in Sagas : SagaStep(s)
    \/ Reconcile \/ Engine
    \/ \E c \in Callers : Read(c)
    \/ Supervise \/ CancelOrder \/ CancelRelease \/ SaveFails \/ ServiceCrash

Spec == Init /\ [][Next]_vars

(* Somebody goes on: a run until it returns, the cron at its next tick,    *)
(* the engine, which is started again after a crash, a call to its end.    *)
Progress ==
    \/ \E s \in Sagas : SagaStep(s)
    \/ Reconcile \/ Engine \/ Supervise \/ CancelOrder \/ CancelRelease

FairSpec == Spec /\ WF_vars(Progress)

-----------------------------------------------------------------------------
(* Properties *)

(* Type correctness of the order, its hold and its fills. *)
OrderTypeOK ==
    /\ SagaTypeOK
    /\ direction \in {"buy", "sell"}
    /\ order \in [status : {"none", "pending", "approved", "declined", "cancelled"},
                  done : BOOLEAN, left : 0..Quantity, version : Nat]
    /\ hold \in [status : {"none", "active", "released", "settled"}, left : 0..Needed]
    /\ fill \in [Txns -> [qty : 0..Quantity, row : BOOLEAN, money : BOOLEAN,
                          refund : BOOLEAN, shares : BOOLEAN]]
    /\ job.pc \in {"none", "loop", "wait", "fill", "failed", "save", "abort", "release"}
    /\ job.failures \in 0..MaxFailures
    /\ lost \subseteq Sagas

Units(T) == Cardinality(UNION {{t} \X (1 .. fill[t].qty) : t \in T})
Delivered == {t \in Txns : fill[t].shares}
Paid == {t \in Txns : fill[t].money /\ ~fill[t].refund}

(* Nobody is working on the order: no goroutine, call, saga or stuck row. *)
Quiet ==
    /\ job.pc = "none" /\ \A c \in Callers : call[c].pc = "none"
    /\ \A s \in Sagas : Settled(s)

(* No crash, and no write of the log or of a filled order lost: recovery   *)
(* has nothing to re-drive on an order that has moved on, and the engine   *)
(* does not fill the same portion again.                                   *)
Undisturbed == faults.crash = 0 /\ faults.mark = 0

(* Few enough writes of the log are lost that recovery does not repeat a    *)
(* delivered fill: none, or, without a crash, fewer than a fill has steps. *)
LogKept == faults.mark = 0 \/ (faults.crash = 0 /\ faults.mark < SharesStep)

(* Shares move only in a fill whose money moved and was not given back,    *)
(* whichever step a crash, a refusal or a recovery run interrupts; without *)
(* a crash or a failed reversal a fill that ended moved both or neither:   *)
(* "the fill saga compensated its own steps, so this txn row represents    *)
(* nothing that happened" (order_execution.go:338).  What may stay is the  *)
(* money of a fill whose own call of account-service was acted on and its  *)
(* answer lost: the run had nothing to undo (saga.go:399).                 *)
FillIsWhole ==
    LogKept =>
        /\ Delivered \subseteq Paid
        /\ faults.crash = 0 /\ faults.back = 0 =>
              \A t \in Txns : Settled(t) /\ job.txn # t /\ t \in Paid =>
                                 t \in Delivered \/ t \in lost

(* An order never buys or sells more than it was placed for, whatever call *)
(* changes its row during a fill, and one that is "approved AND done"      *)
(* (order_repository.go:134) moved its whole quantity.                     *)
FilledExactly ==
    Undisturbed =>
        /\ Units(Delivered) <= Quantity
        /\ order.status = "approved" /\ order.done => Units(Delivered) = Quantity

(* Nothing stays held for an order that is over: filled, cancelled by its  *)
(* owner, aborted by the engine while buying, or undone at placement,      *)
(* unless the answer of the placement's own ReserveFunds was lost.         *)
ClosedHoldsNothing ==
    (Undisturbed /\ faults.back = 0 /\ Quiet /\ Started(Placement) /\ Placement \notin lost) =>
        (hold.status = "active" =>
            \/ Exists /\ ~order.done
            \/ direction = "sell" /\ order.status = "cancelled")

(* "A declined order cannot be approved and vice-versa"                    *)
(* (docs/test-plan/celina-3-securities.md:606), as long as no crash leaves *)
(* a placement to be resumed after the verdict.                            *)
VerdictStandsUndisturbed ==
    [][Undisturbed /\ order.status = "declined" => order'.status \in {"declined", "none"}]_order

(* An approved order is filled or given up: the engine does not leave it.  *)
OrderEnds == (order.status = "approved") ~> (order.done \/ ~Exists)
=============================================================================
