--------------------------- MODULE SagaExecutor ---------------------------
(***************************************************************************)
(* The saga executor of contract/shared over stock-service's saga log, and *)
(* the recovery cron that re-drives what a crash left behind.  A module    *)
(* that composes it gives Forward and Backward of each step their effect.  *)
(*                                                                         *)
(* A run works on one step at a time.  The forward row it has just written *)
(* is implied by its pc; fwd holds the statuses of every other forward row *)
(* of the step (a resumed step gets a row of its own), comp that of the    *)
(* one compensation row RecordCompensation reuses.  Rows of one saga share *)
(* their retry count: each tick re-drives the saga once for each of them.  *)
(***************************************************************************)
EXTENDS Integers, FiniteSets, FiniteSetsExt

CONSTANTS
    Sagas,          \* saga ids
    Length,         \* number of steps of each saga
    NoBackward,     \* <<saga, step>> of the steps declared non-compensatable
    MaxRetries,     \* maxSagaRecoveryRetries
    MaxCrashes, MaxRefusals, MaxBackFails, MaxMarkFails,   \* bounds on faults
    None

ASSUME SagaAssumption ==
    /\ IsFiniteSet(Sagas)
    /\ Length \in [Sagas -> Nat \ {0}]
    /\ MaxRetries \in Nat /\ None \notin {"fwd", "comp"} \X Nat
    /\ {MaxCrashes, MaxRefusals, MaxBackFails, MaxMarkFails} \subseteq Nat

VARIABLES
    run,            \* the run of each saga: pc, step, steps done, outcome
    fwd,            \* statuses of forward rows
    comp,           \* status of the compensation row
    retry,          \* retry_count
    faults          \* faults so far

sagaVars == <<run, fwd, comp, retry, faults>>

Steps(s) == 1..Length[s]

NoFaults == [crash |-> 0, refusal |-> 0, back |-> 0, mark |-> 0]
Idle == [pc |-> "idle", at |-> 0, done |-> {}, error |-> FALSE, row |-> None]

SagaInit ==
    /\ run = [s \in Sagas |-> Idle]
    /\ fwd = [s \in Sagas |-> [i \in Steps(s) |-> {}]]
    /\ comp = [s \in Sagas |-> [i \in Steps(s) |-> "none"]]
    /\ retry = [s \in Sagas |-> 0]
    /\ faults = NoFaults

IsCompleted(s, i) == "completed" \in fwd[s][i]

HasCompensations(s) == \E i \in Steps(s) : comp[s][i] # "none"

Stuck(s) == {<<"fwd", i>> : i \in {j \in Steps(s) : "pending" \in fwd[s][j]}}
              \cup {<<"comp", i>> : i \in {j \in Steps(s) : comp[s][j] = "compensating"}}
Started(s) == run[s].pc # "idle" \/ \E i \in Steps(s) : fwd[s][i] # {}
DeadLettered(s) ==
    \E i \in Steps(s) : "dead_letter" \in fwd[s][i] \/ comp[s][i] = "dead_letter"

(* Nothing of the saga is running or waits for the recovery cron. *)
Settled(s) == run[s].pc = "idle" /\ Stuck(s) = {}

(* After step i Execute goes on to the next step or returns. *)
Advance(s, i, done) ==
    run' = [run EXCEPT ![s] =
               [@ EXCEPT !.pc = IF i = Length[s] THEN "return" ELSE "record",
                         !.at = IF i = Length[s] THEN 0 ELSE i + 1,
                         !.done = done]]

-----------------------------------------------------------------------------
(* Execute *)

Execute(s) ==
    /\ ~Started(s)
    /\ run' = [run EXCEPT ![s] = [Idle EXCEPT !.pc = "record", !.at = 1]]
    /\ UNCHANGED <<fwd, comp, retry, faults>>

SkipCompleted(s) ==
    /\ run[s].pc = "record" /\ IsCompleted(s, run[s].at)
    /\ Advance(s, run[s].at, run[s].done)
    /\ UNCHANGED <<fwd, comp, retry, faults>>

RecordForward(s) ==
    /\ run[s].pc = "record" /\ ~IsCompleted(s, run[s].at)
    /\ run' = [run EXCEPT ![s].pc = "call"]
    /\ UNCHANGED <<fwd, comp, retry, faults>>

(* Forward returned nil; its effect is the composing module's. *)
ForwardDone(s) ==
    /\ run[s].pc = "call"
    /\ run' = [run EXCEPT ![s].pc = "mark"]
    /\ UNCHANGED <<fwd, comp, retry, faults>>

(* Forward returned an error: MarkFailed, then rollback. *)
ForwardFailed(s) ==
    /\ run[s].pc = "call"
    /\ run' = [run EXCEPT ![s].pc = "undo", ![s].error = TRUE]
    /\ fwd' = [fwd EXCEPT ![s][run[s].at] = @ \cup {"failed"}]
    /\ UNCHANGED <<comp, retry>>

MarkCompleted(s) ==
    /\ run[s].pc = "mark"
    /\ fwd' = [fwd EXCEPT ![s][run[s].at] = @ \cup {"completed"}]
    /\ Advance(s, run[s].at, run[s].done \cup {run[s].at})
    /\ UNCHANGED <<comp, retry, faults>>

(* The effect is there, the row stays pending, and the run goes on. *)
MarkCompletedFails(s) ==
    /\ run[s].pc = "mark" /\ faults.mark < MaxMarkFails
    /\ fwd' = [fwd EXCEPT ![s][run[s].at] = @ \cup {"pending"}]
    /\ Advance(s, run[s].at, run[s].done \cup {run[s].at})
    /\ faults' = [faults EXCEPT !.mark = @ + 1]
    /\ UNCHANGED <<comp, retry>>

-----------------------------------------------------------------------------
(* rollback: the steps of this run in reverse *)

Last(s) == Max(run[s].done)

SkipIrreversible(s) ==
    /\ run[s].pc = "undo" /\ run[s].done # {} /\ <<s, Last(s)>> \in NoBackward
    /\ run' = [run EXCEPT ![s].done = @ \ {Last(s)}]
    /\ UNCHANGED <<fwd, comp, retry, faults>>

RecordCompensation(s) ==
    /\ run[s].pc = "undo" /\ run[s].done # {} /\ <<s, Last(s)>> \notin NoBackward
    /\ run' = [run EXCEPT ![s].pc = "back", ![s].at = Last(s)]
    /\ comp' = [comp EXCEPT ![s][Last(s)] = IF @ = "none" THEN "compensating" ELSE @]
    /\ UNCHANGED <<fwd, retry, faults>>

(* Backward returned nil; its effect is the composing module's. *)
BackwardDone(s) ==
    /\ run[s].pc = "back"
    /\ run' = [run EXCEPT ![s].pc = "unmark"]
    /\ UNCHANGED <<fwd, comp, retry, faults>>

MarkCompensated(s) ==
    /\ run[s].pc = "unmark"
    /\ comp' = [comp EXCEPT ![s][run[s].at] = "compensated"]
    /\ run' = [run EXCEPT ![s].pc = "undo", ![s].done = @ \ {run[s].at}]
    /\ UNCHANGED <<fwd, retry, faults>>

(* Fault: a failed Backward is taken for a done one. *)
BackwardFailedClosed(s) ==
    /\ run[s].pc = "back"
    /\ comp' = [comp EXCEPT ![s][run[s].at] = "compensated"]
    /\ run' = [run EXCEPT ![s].pc = "undo", ![s].done = @ \ {run[s].at}]
    /\ UNCHANGED <<fwd, retry>>

(* MarkCompensationFailed; the walk goes on with the steps before it. *)
BackwardFailed(s) ==
    /\ run[s].pc = "back"
    /\ comp' = [comp EXCEPT ![s][run[s].at] = "compensating"]
    /\ run' = [run EXCEPT ![s].pc = "undo", ![s].done = @ \ {run[s].at}, ![s].error = TRUE]
    /\ UNCHANGED <<fwd, retry>>

-----------------------------------------------------------------------------
(* The end of a run; a recovery run closes the row it was started for. *)

Closed(s, row) ==
    IF row[1] = "fwd"
    THEN /\ fwd' = [fwd EXCEPT ![s][row[2]] = (@ \ {"pending"}) \cup {"completed"}]
         /\ UNCHANGED comp
    ELSE /\ comp' = [comp EXCEPT ![s][row[2]] = "compensated"]
         /\ UNCHANGED fwd

Return(s) ==
    /\ run[s].pc = "return" \/ (run[s].pc = "undo" /\ run[s].done = {})
    /\ run' = [run EXCEPT ![s] = Idle]
    /\ IF run[s].row = None \/ run[s].error
       THEN UNCHANGED <<fwd, comp>>
       ELSE Closed(s, run[s].row)
    /\ retry' = [retry EXCEPT ![s] = IF run[s].row # None /\ run[s].error THEN @ + 1 ELSE @]
    /\ UNCHANGED faults

-----------------------------------------------------------------------------
(* Reconcile *)

(* Reconcile works through the stuck rows one after the other. *)
Recoverable(s, row) ==
    /\ run[s].pc = "idle" /\ row \in Stuck(s)
    /\ \A u \in Sagas : run[u].row = None

(* A saga that was rolling back is compensated, any other one resumed. *)
Recover(s, row) ==
    /\ Recoverable(s, row) /\ retry[s] < MaxRetries
    /\ run' = [run EXCEPT ![s] =
                  IF HasCompensations(s)
                  THEN [Idle EXCEPT !.pc = "undo", !.row = row,
                                    !.done = {i \in Steps(s) : IsCompleted(s, i)}]
                  ELSE [Idle EXCEPT !.pc = "record", !.at = 1, !.row = row]]
    /\ UNCHANGED <<fwd, comp, retry, faults>>

(* Nothing to rebuild the saga from: the row is closed as it is. *)
RecoverNothing(s, row) ==
    /\ Recoverable(s, row) /\ retry[s] < MaxRetries
    /\ Closed(s, row)
    /\ UNCHANGED <<run, retry, faults>>

(* The saga cannot be rebuilt: counted as a failed retry. *)
RecoverRefused(s, row) ==
    /\ Recoverable(s, row) /\ retry[s] < MaxRetries
    /\ retry' = [retry EXCEPT ![s] = @ + 1]
    /\ UNCHANGED <<run, fwd, comp, faults>>

(* Fault: a row that exhausted its retries is left as it is. *)
MarkDeadLetterNever(s, row) ==
    /\ Recoverable(s, row) /\ retry[s] >= MaxRetries
    /\ UNCHANGED sagaVars

MarkDeadLetter(s, row) ==
    /\ Recoverable(s, row) /\ retry[s] >= MaxRetries
    /\ IF row[1] = "fwd"
       THEN /\ fwd' = [fwd EXCEPT ![s][row[2]] = (@ \ {"pending"}) \cup {"dead_letter"}]
            /\ UNCHANGED comp
       ELSE /\ comp' = [comp EXCEPT ![s][row[2]] = "dead_letter"]
            /\ UNCHANGED fwd
    /\ UNCHANGED <<run, retry, faults>>

(* stock-service dies: a step that was running leaves a pending row. *)
Crash ==
    /\ faults.crash < MaxCrashes
    /\ faults' = [faults EXCEPT !.crash = @ + 1]
    /\ fwd' = [s \in Sagas |-> [i \in Steps(s) |->
                  fwd[s][i] \cup (IF run[s].pc \in {"call", "mark"} /\ run[s].at = i
                                  THEN {"pending"} ELSE {})]]
    /\ run' = [s \in Sagas |-> Idle]
    /\ UNCHANGED <<comp, retry>>

-----------------------------------------------------------------------------
(* Type correctness of the log and of the runs. *)
SagaTypeOK ==
    /\ run \in [Sagas -> [pc : {"idle", "record", "call", "mark", "undo", "back",
                                "unmark", "return"},
                          at : Nat, done : SUBSET Nat, error : BOOLEAN,
                          row : {None} \cup ({"fwd", "comp"} \X Nat)]]
    /\ \A s \in Sagas :
        /\ run[s].at \in {0} \cup Steps(s) /\ run[s].done \subseteq Steps(s)
        /\ fwd[s] \in [Steps(s) -> SUBSET {"pending", "completed", "failed", "dead_letter"}]
        /\ comp[s] \in [Steps(s) -> {"none", "compensating", "compensated", "dead_letter"}]
        /\ retry[s] \in 0..MaxRetries
=============================================================================
