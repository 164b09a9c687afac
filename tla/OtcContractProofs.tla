------------------------- MODULE OtcContractProofs -------------------------
(***************************************************************************)
(* Proofs about OtcContract: for every number of retries and of faults,    *)
(* and as long as Restricted holds, the accept saga forms the contract or  *)
(* undoes it (any number of exercises next to it), and the one exercise of *)
(* a contract is paid for and delivered, or taken back.                    *)
(***************************************************************************)
EXTENDS OtcContract, FiniteSetTheorems, TLAPS

Pcs == {"idle", "record", "call", "mark", "undo", "back", "unmark", "return"}
LogRow == {"fwd", "comp"} \X Nat
Run == [pc : Pcs, at : Nat, done : SUBSET Nat, error : BOOLEAN, row : {None} \cup LogRow]
FwdStatuses == {"pending", "completed", "failed", "dead_letter"}
CompStatuses == {"none", "compensating", "compensated", "dead_letter"}

-----------------------------------------------------------------------------
(* The steps of the two kinds of saga *)

(* The accept saga has the steps 1..4, an exercise the steps 1..8.         *)
LEMMA StepNumbers ==
    ASSUME NEW s \in Sagas
    PROVE  /\ Steps(s) \subseteq Nat /\ 1 \in Steps(s) /\ Length[s] \in Steps(s)
           /\ Steps(s) = 1..Length[s] /\ Length[s] = (IF s = AcceptSaga THEN 4 ELSE 8)
           /\ \A i : i \in Steps(s) <=> i \in Nat /\ 1 <= i /\ i <= Length[s]
<1>1. Len(AcceptSteps) = 4 /\ Len(ExerciseSteps) = 8
  BY DEF AcceptSteps, ExerciseSteps
<1>2. Length[s] = IF s = AcceptSaga THEN 4 ELSE 8
  BY <1>1, OtcAssumption
<1>3. Length[s] \in Nat /\ Length[s] >= 1
  BY <1>2
<1> QED BY <1>2, <1>3 DEF Steps

(* rollback works on a step of the run, the last one of those left.        *)
LEMMA LastStep ==
    ASSUME NEW s \in Sagas, NEW D \in SUBSET Steps(s), D # {}
    PROVE  Max(D) \in D /\ \A y \in D : y <= Max(D)
<1>1. \A y \in D : y \in Nat /\ 1 <= y /\ y <= 8
  BY StepNumbers
<1>2. \E x \in D : \A y \in D : x >= y
  <2>1. PICK x \in D : TRUE
    OBVIOUS
  <2>2. CASE 8 \in D
    BY <1>1, <2>2
  <2>3. CASE 8 \notin D /\ 7 \in D
    BY <1>1, <2>3
  <2>4. CASE 8 \notin D /\ 7 \notin D /\ 6 \in D
    BY <1>1, <2>4
  <2>5. CASE 8 \notin D /\ 7 \notin D /\ 6 \notin D /\ 5 \in D
    BY <1>1, <2>5
  <2>6. CASE 8 \notin D /\ 7 \notin D /\ 6 \notin D /\ 5 \notin D /\ 4 \in D
    BY <1>1, <2>6
  <2>7. CASE 8 \notin D /\ 7 \notin D /\ 6 \notin D /\ 5 \notin D /\ 4 \notin D /\ 3 \in D
    BY <1>1, <2>7
  <2>8. CASE /\ 8 \notin D /\ 7 \notin D /\ 6 \notin D /\ 5 \notin D /\ 4 \notin D
             /\ 3 \notin D /\ 2 \in D
    BY <1>1, <2>8
  <2>9. CASE /\ 8 \notin D /\ 7 \notin D /\ 6 \notin D /\ 5 \notin D /\ 4 \notin D
             /\ 3 \notin D /\ 2 \notin D
    <3>1. \A y \in D : y = 1
      BY <1>1, <2>9
    <3> QED BY <2>1, <3>1
  <2> QED BY <2>2, <2>3, <2>4, <2>5, <2>6, <2>7, <2>8, <2>9
<1> QED BY <1>1, <1>2 DEF Max

-----------------------------------------------------------------------------
(* What a step of the executor does to its run *)

RunTyped == run \in [Sagas -> Run]

(* The run of s gets the given fields, the other runs stay. *)
Becomes(s, p, a, d, e, w) ==
    /\ run' \in [Sagas -> Run]
    /\ run'[s].pc = p /\ run'[s].at = a /\ run'[s].done = d
    /\ run'[s].error = e /\ run'[s].row = w
    /\ \A u \in Sagas \ {s} : run'[u] = run[u]

Onward(s) == IF run[s].at = Length[s] THEN "return" ELSE "record"
Beyond(s) == IF run[s].at = Length[s] THEN 0 ELSE run[s].at + 1

(* Every step of the executor, by the fields of the run it leaves.  The    *)
(* steps after a mark or a skip, or of rollback, work on a step of the run.*)
LEMMA RunEffects ==
    ASSUME RunTyped, NEW s \in Sagas,
           run[s].pc = "undo" /\ run[s].done # {} => Last(s) \in Nat
    PROVE  /\ Execute(s) =>
                Becomes(s, "record", 1, {}, FALSE, None)
           /\ SkipCompleted(s) =>
                Becomes(s, Onward(s), Beyond(s), run[s].done, run[s].error, run[s].row)
           /\ RecordForward(s) =>
                Becomes(s, "call", run[s].at, run[s].done, run[s].error, run[s].row)
           /\ ForwardDone(s) =>
                Becomes(s, "mark", run[s].at, run[s].done, run[s].error, run[s].row)
           /\ ForwardFailed(s) =>
                Becomes(s, "undo", run[s].at, run[s].done, TRUE, run[s].row)
           /\ MarkCompleted(s) \/ MarkCompletedFails(s) =>
                Becomes(s, Onward(s), Beyond(s), run[s].done \cup {run[s].at},
                        run[s].error, run[s].row)
           /\ RecordCompensation(s) =>
                Becomes(s, "back", Last(s), run[s].done, run[s].error, run[s].row)
           /\ BackwardDone(s) =>
                Becomes(s, "unmark", run[s].at, run[s].done, run[s].error, run[s].row)
           /\ MarkCompensated(s) =>
                Becomes(s, "undo", run[s].at, run[s].done \ {run[s].at},
                        run[s].error, run[s].row)
           /\ BackwardFailed(s) =>
                Becomes(s, "undo", run[s].at, run[s].done \ {run[s].at}, TRUE,
                        run[s].row)
           /\ Return(s) =>
                Becomes(s, "idle", 0, {}, FALSE, None)
<1>1. run[s] \in Run
  BY DEF RunTyped
<1>2. run[s].at \in Nat /\ run[s].done \in SUBSET Nat /\ run[s].error \in BOOLEAN
      /\ run[s].row \in {None} \cup LogRow
  BY <1>1 DEF Run
<1>0. Onward(s) \in Pcs /\ Beyond(s) \in Nat
  BY <1>2 DEF Onward, Beyond, Pcs
<1>3. ASSUME NEW r \in Run, run' = [run EXCEPT ![s] = r]
      PROVE  /\ run' \in [Sagas -> Run] /\ run'[s] = r
             /\ \A u \in Sagas \ {s} : run'[u] = run[u]
  BY <1>3 DEF RunTyped
<1>4. Execute(s) =>
        Becomes(s, "record", 1, {}, FALSE, None)
  <2> SUFFICES ASSUME Execute(s)
               PROVE  Becomes(s, "record", 1, {}, FALSE, None)
    OBVIOUS
  <2>1. PICK r : r = [Idle EXCEPT !.pc = "record", !.at = 1]
    OBVIOUS
  <2>2. r \in Run
    BY <1>1, <1>2, <2>1 DEF Run, Pcs, Idle
  <2>3. run' = [run EXCEPT ![s] = r]
    BY <1>1, <2>1 DEF RunTyped, Execute, Idle
  <2> QED BY <1>1, <1>3, <2>1, <2>2, <2>3 DEF Becomes, Run, Idle
<1>5. SkipCompleted(s) =>
        Becomes(s, Onward(s), Beyond(s), run[s].done, run[s].error, run[s].row)
  <2> SUFFICES ASSUME SkipCompleted(s)
               PROVE  Becomes(s, Onward(s), Beyond(s), run[s].done, run[s].error, run[s].row)
    OBVIOUS
  <2>1. PICK r : r = [run[s] EXCEPT !.pc = Onward(s), !.at = Beyond(s), !.done = run[s].done]
    OBVIOUS
  <2>2. r \in Run
    BY <1>0, <1>1, <1>2, <2>1 DEF Run
  <2>3. run' = [run EXCEPT ![s] = r]
    BY <1>1, <2>1 DEF RunTyped, SkipCompleted, Advance, Onward, Beyond
  <2> QED BY <1>1, <1>3, <2>1, <2>2, <2>3 DEF Becomes, Run
<1>6. RecordForward(s) =>
        Becomes(s, "call", run[s].at, run[s].done, run[s].error, run[s].row)
  <2> SUFFICES ASSUME RecordForward(s)
               PROVE  Becomes(s, "call", run[s].at, run[s].done, run[s].error, run[s].row)
    OBVIOUS
  <2>1. PICK r : r = [run[s] EXCEPT !.pc = "call"]
    OBVIOUS
  <2>2. r \in Run
    BY <1>1, <1>2, <2>1 DEF Run, Pcs
  <2>3. run' = [run EXCEPT ![s] = r]
    BY <1>1, <2>1 DEF RunTyped, RecordForward
  <2> QED BY <1>1, <1>3, <2>1, <2>2, <2>3 DEF Becomes, Run
<1>7. ForwardDone(s) =>
        Becomes(s, "mark", run[s].at, run[s].done, run[s].error, run[s].row)
  <2> SUFFICES ASSUME ForwardDone(s)
               PROVE  Becomes(s, "mark", run[s].at, run[s].done, run[s].error, run[s].row)
    OBVIOUS
  <2>1. PICK r : r = [run[s] EXCEPT !.pc = "mark"]
    OBVIOUS
  <2>2. r \in Run
    BY <1>1, <1>2, <2>1 DEF Run, Pcs
  <2>3. run' = [run EXCEPT ![s] = r]
    BY <1>1, <2>1 DEF RunTyped, ForwardDone
  <2> QED BY <1>1, <1>3, <2>1, <2>2, <2>3 DEF Becomes, Run
<1>8. ForwardFailed(s) =>
        Becomes(s, "undo", run[s].at, run[s].done, TRUE, run[s].row)
  <2> SUFFICES ASSUME ForwardFailed(s)
               PROVE  Becomes(s, "undo", run[s].at, run[s].done, TRUE, run[s].row)
    OBVIOUS
  <2>1. PICK r : r = [run[s] EXCEPT !.pc = "undo", !.error = TRUE]
    OBVIOUS
  <2>2. r \in Run
    BY <1>1, <1>2, <2>1 DEF Run, Pcs
  <2>3. run' = [run EXCEPT ![s] = r]
    BY <1>1, <2>1 DEF RunTyped, ForwardFailed
  <2> QED BY <1>1, <1>3, <2>1, <2>2, <2>3 DEF Becomes, Run
<1>9. MarkCompleted(s) \/ MarkCompletedFails(s) =>
        Becomes(s, Onward(s), Beyond(s), run[s].done \cup {run[s].at},
                run[s].error, run[s].row)
  <2> SUFFICES ASSUME MarkCompleted(s) \/ MarkCompletedFails(s)
               PROVE  Becomes(s, Onward(s), Beyond(s), run[s].done \cup {run[s].at},
                              run[s].error, run[s].row)
    OBVIOUS
  <2>1. PICK r : r = [run[s] EXCEPT !.pc = Onward(s), !.at = Beyond(s),
                                 !.done = run[s].done \cup {run[s].at}]
    OBVIOUS
  <2>2. r \in Run
    BY <1>0, <1>1, <1>2, <2>1 DEF Run
  <2>3. run' = [run EXCEPT ![s] = r]
    BY <1>1, <2>1 DEF RunTyped, MarkCompleted, MarkCompletedFails, Advance, Onward,
          Beyond
  <2> QED BY <1>1, <1>3, <2>1, <2>2, <2>3 DEF Becomes, Run
<1>11. RecordCompensation(s) =>
        Becomes(s, "back", Last(s), run[s].done, run[s].error, run[s].row)
  <2> SUFFICES ASSUME RecordCompensation(s)
               PROVE  Becomes(s, "back", Last(s), run[s].done, run[s].error, run[s].row)
    OBVIOUS
  <2>1. PICK r : r = [run[s] EXCEPT !.pc = "back", !.at = Last(s)]
    OBVIOUS
  <2>2. r \in Run
    BY <1>1, <1>2, <2>1 DEF Run, Pcs, RecordCompensation
  <2>3. run' = [run EXCEPT ![s] = r]
    BY <1>1, <2>1 DEF RunTyped, RecordCompensation
  <2> QED BY <1>1, <1>3, <2>1, <2>2, <2>3 DEF Becomes, Run
<1>12. BackwardDone(s) =>
        Becomes(s, "unmark", run[s].at, run[s].done, run[s].error, run[s].row)
  <2> SUFFICES ASSUME BackwardDone(s)
               PROVE  Becomes(s, "unmark", run[s].at, run[s].done, run[s].error, run[s].row)
    OBVIOUS
  <2>1. PICK r : r = [run[s] EXCEPT !.pc = "unmark"]
    OBVIOUS
  <2>2. r \in Run
    BY <1>1, <1>2, <2>1 DEF Run, Pcs
  <2>3. run' = [run EXCEPT ![s] = r]
    BY <1>1, <2>1 DEF RunTyped, BackwardDone
  <2> QED BY <1>1, <1>3, <2>1, <2>2, <2>3 DEF Becomes, Run
<1>13. MarkCompensated(s) =>
        Becomes(s, "undo", run[s].at, run[s].done \ {run[s].at},
                run[s].error, run[s].row)
  <2> SUFFICES ASSUME MarkCompensated(s)
               PROVE  Becomes(s, "undo", run[s].at, run[s].done \ {run[s].at},
                              run[s].error, run[s].row)
    OBVIOUS
  <2>1. PICK r : r = [run[s] EXCEPT !.pc = "undo", !.done = run[s].done \ {run[s].at}]
    OBVIOUS
  <2>2. r \in Run
    BY <1>1, <1>2, <2>1 DEF Run, Pcs
  <2>3. run' = [run EXCEPT ![s] = r]
    BY <1>1, <2>1 DEF RunTyped, MarkCompensated
  <2> QED BY <1>1, <1>3, <2>1, <2>2, <2>3 DEF Becomes, Run
<1>14. BackwardFailed(s) =>
        Becomes(s, "undo", run[s].at, run[s].done \ {run[s].at}, TRUE, run[s].row)
  <2> SUFFICES ASSUME BackwardFailed(s)
               PROVE  Becomes(s, "undo", run[s].at, run[s].done \ {run[s].at}, TRUE, run[s].row)
    OBVIOUS
  <2>1. PICK r : r = [run[s] EXCEPT !.pc = "undo", !.done = run[s].done \ {run[s].at},
                                 !.error = TRUE]
    OBVIOUS
  <2>2. r \in Run
    BY <1>1, <1>2, <2>1 DEF Run, Pcs
  <2>3. run' = [run EXCEPT ![s] = r]
    BY <1>1, <2>1 DEF RunTyped, BackwardFailed
  <2> QED BY <1>1, <1>3, <2>1, <2>2, <2>3 DEF Becomes, Run
<1>15. Return(s) =>
        Becomes(s, "idle", 0, {}, FALSE, None)
  <2> SUFFICES ASSUME Return(s)
               PROVE  Becomes(s, "idle", 0, {}, FALSE, None)
    OBVIOUS
  <2>1. PICK r : r = Idle
    OBVIOUS
  <2>2. r \in Run
    BY <1>1, <1>2, <2>1 DEF Run, Pcs, Idle
  <2>3. run' = [run EXCEPT ![s] = r]
    BY <1>1, <2>1 DEF RunTyped, Return, Idle
  <2> QED BY <1>1, <1>3, <2>1, <2>2, <2>3 DEF Becomes, Run, Idle
<1> QED
  BY <1>4, <1>5, <1>6, <1>7, <1>8, <1>9, <1>11, <1>12, <1>13, <1>14, <1>15

-----------------------------------------------------------------------------
(* What a step does to the log *)

Faults == [crash : Nat, refusal : Nat, back : Nat, mark : Nat]
FwdTyped == /\ DOMAIN fwd = Sagas
            /\ \A s \in Sagas : fwd[s] \in [Steps(s) -> SUBSET FwdStatuses]
CompTyped == /\ DOMAIN comp = Sagas
             /\ \A s \in Sagas : comp[s] \in [Steps(s) -> CompStatuses]
LogTyped ==
    /\ FwdTyped /\ CompTyped
    /\ retry \in [Sagas -> 0..MaxRetries]
    /\ faults \in Faults

(* The forward rows of one step become X, the others stay. *)
FwdSet(s, i, X) ==
    /\ DOMAIN fwd' = Sagas /\ fwd'[s] \in [Steps(s) -> SUBSET FwdStatuses]
    /\ fwd'[s][i] = X
    /\ \A j \in Steps(s) \ {i} : fwd'[s][j] = fwd[s][j]
    /\ \A u \in Sagas \ {s} : fwd'[u] = fwd[u]

(* The compensation row of one step becomes x, the others stay. *)
CompSet(s, i, x) ==
    /\ DOMAIN comp' = Sagas /\ comp'[s] \in [Steps(s) -> CompStatuses]
    /\ comp'[s][i] = x
    /\ \A j \in Steps(s) \ {i} : comp'[s][j] = comp[s][j]
    /\ \A u \in Sagas \ {s} : comp'[u] = comp[u]

(* Saving one forward row, and one compensation row.                       *)
LEMMA LogUpdates ==
    ASSUME LogTyped, NEW s \in Sagas, NEW i \in Steps(s)
    PROVE  /\ \A X \in SUBSET FwdStatuses :
                fwd' = [fwd EXCEPT ![s][i] = X] => FwdSet(s, i, X)
           /\ \A x \in CompStatuses :
                comp' = [comp EXCEPT ![s][i] = x] => CompSet(s, i, x)
<1>1. /\ DOMAIN fwd = Sagas /\ DOMAIN comp = Sagas
      /\ fwd[s] \in [Steps(s) -> SUBSET FwdStatuses] /\ comp[s] \in [Steps(s) -> CompStatuses]
  BY DEF LogTyped, FwdTyped, CompTyped
<1>2. ASSUME NEW X \in SUBSET FwdStatuses, fwd' = [fwd EXCEPT ![s][i] = X]
      PROVE  FwdSet(s, i, X)
  <2>1. fwd[s] \in [Steps(s) -> SUBSET FwdStatuses]
    BY <1>1
  <2>2. PICK g : g = [fwd[s] EXCEPT ![i] = X]
    OBVIOUS
  <2>3. g \in [Steps(s) -> SUBSET FwdStatuses] /\ g[i] = X
        /\ \A j \in Steps(s) \ {i} : g[j] = fwd[s][j]
    BY <2>1, <2>2
  <2>4. fwd' = [fwd EXCEPT ![s] = g]
    BY <1>2, <2>2
  <2>5. DOMAIN fwd' = Sagas /\ fwd'[s] = g
        /\ \A u \in Sagas \ {s} : fwd'[u] = fwd[u]
    BY <1>1, <2>3, <2>4
  <2> QED BY <2>3, <2>5 DEF FwdSet
<1>3. ASSUME NEW x \in CompStatuses, comp' = [comp EXCEPT ![s][i] = x]
      PROVE  CompSet(s, i, x)
  <2>1. comp[s] \in [Steps(s) -> CompStatuses]
    BY <1>1
  <2>2. PICK g : g = [comp[s] EXCEPT ![i] = x]
    OBVIOUS
  <2>3. g \in [Steps(s) -> CompStatuses] /\ g[i] = x
        /\ \A j \in Steps(s) \ {i} : g[j] = comp[s][j]
    BY <2>1, <2>2
  <2>4. comp' = [comp EXCEPT ![s] = g]
    BY <1>3, <2>2
  <2>5. DOMAIN comp' = Sagas /\ comp'[s] = g
        /\ \A u \in Sagas \ {s} : comp'[u] = comp[u]
    BY <1>1, <2>3, <2>4
  <2> QED BY <2>3, <2>5 DEF CompSet
<1> QED BY <1>2, <1>3

Busy == {"record", "call", "mark", "back", "unmark"}

(* A run works on a step of its saga and rolls back only what can be; a    *)
(* recovery run has a retry left and was started for a row of the log.     *)
OnStep(s) ==
    /\ run[s].at \in {0} \cup Steps(s) /\ run[s].done \subseteq Steps(s)
    /\ run[s].pc \in Busy => run[s].at \in Steps(s)
    /\ run[s].pc \in {"back", "unmark"} => <<s, run[s].at>> \notin NoBackward
    /\ run[s].row # None => run[s].row[2] \in Steps(s) /\ retry[s] < MaxRetries

SagaInv == RunTyped /\ LogTyped /\ \A s \in Sagas : OnStep(s)

(* A stuck row is pending in the forward log or a compensation under way.  *)
LEMMA StuckRows ==
    ASSUME NEW s \in Sagas
    PROVE  /\ \A row \in Stuck(s) :
                /\ row \in LogRow /\ row[2] \in Steps(s)
                /\ \/ row[1] = "fwd" /\ "pending" \in fwd[s][row[2]]
                   \/ row[1] = "comp" /\ comp[s][row[2]] = "compensating"
           /\ Stuck(s) = {} =>
                \A i \in Steps(s) : "pending" \notin fwd[s][i] /\ comp[s][i] # "compensating"
<1>1. Steps(s) \subseteq Nat
  BY StepNumbers
<1>2. ASSUME NEW row \in Stuck(s)
      PROVE  /\ row \in LogRow /\ row[2] \in Steps(s)
             /\ \/ row[1] = "fwd" /\ "pending" \in fwd[s][row[2]]
                \/ row[1] = "comp" /\ comp[s][row[2]] = "compensating"
  <2>1. CASE \E i \in Steps(s) : "pending" \in fwd[s][i] /\ row = <<"fwd", i>>
    BY <1>1, <2>1 DEF LogRow
  <2>2. CASE \E i \in Steps(s) : comp[s][i] = "compensating" /\ row = <<"comp", i>>
    BY <1>1, <2>2 DEF LogRow
  <2> QED BY <1>1, <2>1, <2>2 DEF Stuck
<1>3. ASSUME Stuck(s) = {}, NEW i \in Steps(s)
      PROVE  "pending" \notin fwd[s][i] /\ comp[s][i] # "compensating"
  <2>1. "pending" \in fwd[s][i] => <<"fwd", i>> \in Stuck(s)
    BY <1>1 DEF Stuck
  <2>2. comp[s][i] = "compensating" => <<"comp", i>> \in Stuck(s)
    BY <1>1 DEF Stuck
  <2> QED BY <1>3, <2>1, <2>2
<1> QED BY <1>2, <1>3

(* The step a rollback works on is one of the run.                         *)
LEMMA LastOfRun ==
    ASSUME SagaInv, NEW s \in Sagas, run[s].done # {}
    PROVE  Last(s) \in run[s].done /\ Last(s) \in Steps(s)
  BY LastStep DEF SagaInv, OnStep, Last

(* Every step that writes the log, by the row it leaves.                   *)
LEMMA LogEffects ==
    ASSUME SagaInv, NEW s \in Sagas
    PROVE  /\ ForwardFailed(s) =>
                FwdSet(s, run[s].at, fwd[s][run[s].at] \cup {"failed"})
           /\ MarkCompleted(s) =>
                FwdSet(s, run[s].at, fwd[s][run[s].at] \cup {"completed"})
           /\ MarkCompletedFails(s) =>
                FwdSet(s, run[s].at, fwd[s][run[s].at] \cup {"pending"})
           /\ RecordCompensation(s) =>
                CompSet(s, Last(s), IF comp[s][Last(s)] = "none" THEN "compensating"
                                    ELSE comp[s][Last(s)])
           /\ MarkCompensated(s) => CompSet(s, run[s].at, "compensated")
           /\ BackwardFailed(s) => CompSet(s, run[s].at, "compensating")
           /\ \A row : row[2] \in Steps(s) /\ Closed(s, row) =>
                \/ /\ row[1] = "fwd" /\ UNCHANGED comp
                   /\ FwdSet(s, row[2], (fwd[s][row[2]] \ {"pending"}) \cup {"completed"})
                \/ /\ row[1] # "fwd" /\ UNCHANGED fwd
                   /\ CompSet(s, row[2], "compensated")
           /\ \A row : row[2] \in Steps(s) /\ MarkDeadLetter(s, row) =>
                \/ /\ row[1] = "fwd" /\ UNCHANGED comp
                   /\ FwdSet(s, row[2], (fwd[s][row[2]] \ {"pending"}) \cup {"dead_letter"})
                \/ /\ row[1] # "fwd" /\ UNCHANGED fwd
                   /\ CompSet(s, row[2], "dead_letter")
<1>1. LogTyped /\ (run[s].pc \in Busy => run[s].at \in Steps(s))
  BY DEF SagaInv, OnStep
<1>2. \A i \in Steps(s) : fwd[s][i] \in SUBSET FwdStatuses /\ comp[s][i] \in CompStatuses
  BY <1>1 DEF LogTyped, FwdTyped, CompTyped
<1>3. \A i \in Steps(s) : \A x \in FwdStatuses :
        /\ fwd[s][i] \cup {x} \in SUBSET FwdStatuses
        /\ (fwd[s][i] \ {"pending"}) \cup {x} \in SUBSET FwdStatuses
  BY <1>2
<1>4. {"pending", "completed", "failed", "dead_letter"} \subseteq FwdStatuses
      /\ {"compensating", "compensated", "dead_letter"} \subseteq CompStatuses
  BY DEF FwdStatuses, CompStatuses
<1>5. ForwardFailed(s) => FwdSet(s, run[s].at, fwd[s][run[s].at] \cup {"failed"})
  <2> SUFFICES ASSUME ForwardFailed(s)
               PROVE  FwdSet(s, run[s].at, fwd[s][run[s].at] \cup {"failed"})
    OBVIOUS
  <2>1. PICK X : X = fwd[s][run[s].at] \cup {"failed"}
    OBVIOUS
  <2>2. run[s].at \in Steps(s) /\ X \in SUBSET FwdStatuses
    BY <1>1, <1>3, <1>4, <2>1 DEF ForwardFailed, Busy
  <2>3. fwd' = [fwd EXCEPT ![s][run[s].at] = X]
    BY <2>1 DEF ForwardFailed
  <2> QED BY <1>1, <2>1, <2>2, <2>3, LogUpdates
<1>6. MarkCompleted(s) => FwdSet(s, run[s].at, fwd[s][run[s].at] \cup {"completed"})
  <2> SUFFICES ASSUME MarkCompleted(s)
               PROVE  FwdSet(s, run[s].at, fwd[s][run[s].at] \cup {"completed"})
    OBVIOUS
  <2>1. PICK X : X = fwd[s][run[s].at] \cup {"completed"}
    OBVIOUS
  <2>2. run[s].at \in Steps(s) /\ X \in SUBSET FwdStatuses
    BY <1>1, <1>3, <1>4, <2>1 DEF MarkCompleted, Busy
  <2>3. fwd' = [fwd EXCEPT ![s][run[s].at] = X]
    BY <2>1 DEF MarkCompleted
  <2> QED BY <1>1, <2>1, <2>2, <2>3, LogUpdates
<1>7. MarkCompletedFails(s) => FwdSet(s, run[s].at, fwd[s][run[s].at] \cup {"pending"})
  <2> SUFFICES ASSUME MarkCompletedFails(s)
               PROVE  FwdSet(s, run[s].at, fwd[s][run[s].at] \cup {"pending"})
    OBVIOUS
  <2>1. PICK X : X = fwd[s][run[s].at] \cup {"pending"}
    OBVIOUS
  <2>2. run[s].at \in Steps(s) /\ X \in SUBSET FwdStatuses
    BY <1>1, <1>3, <1>4, <2>1 DEF MarkCompletedFails, Busy
  <2>3. fwd' = [fwd EXCEPT ![s][run[s].at] = X]
    BY <2>1 DEF MarkCompletedFails
  <2> QED BY <1>1, <2>1, <2>2, <2>3, LogUpdates
<1>8. RecordCompensation(s) =>
        CompSet(s, Last(s), IF comp[s][Last(s)] = "none" THEN "compensating"
                            ELSE comp[s][Last(s)])
  BY <1>1, <1>2, <1>4, LogUpdates, LastOfRun DEF RecordCompensation
<1>9. MarkCompensated(s) => CompSet(s, run[s].at, "compensated")
  BY <1>1, <1>4, LogUpdates DEF MarkCompensated, Busy
<1>10. BackwardFailed(s) => CompSet(s, run[s].at, "compensating")
  BY <1>1, <1>4, LogUpdates DEF BackwardFailed, Busy
<1>11. ASSUME NEW row, row[2] \in Steps(s), Closed(s, row)
       PROVE  \/ /\ row[1] = "fwd" /\ UNCHANGED comp
                 /\ FwdSet(s, row[2], (fwd[s][row[2]] \ {"pending"}) \cup {"completed"})
              \/ /\ row[1] # "fwd" /\ UNCHANGED fwd
                 /\ CompSet(s, row[2], "compensated")
  BY <1>1, <1>3, <1>4, <1>11, LogUpdates DEF Closed
<1>12. ASSUME NEW row, row[2] \in Steps(s), MarkDeadLetter(s, row)
       PROVE  \/ /\ row[1] = "fwd" /\ UNCHANGED comp
                 /\ FwdSet(s, row[2], (fwd[s][row[2]] \ {"pending"}) \cup {"dead_letter"})
              \/ /\ row[1] # "fwd" /\ UNCHANGED fwd
                 /\ CompSet(s, row[2], "dead_letter")
  BY <1>1, <1>3, <1>4, <1>12, LogUpdates DEF MarkDeadLetter
<1> QED
  BY <1>5, <1>6, <1>7, <1>8, <1>9, <1>10, <1>11, <1>12

-----------------------------------------------------------------------------
(* The steps of the executor keep the log and the runs well formed *)

Refused(s) ==
    /\ ForwardFailed(s)
    /\ UNCHANGED faults \/ faults' = [faults EXCEPT !.refusal = @ + 1]
NotUndone(s) ==
    /\ BackwardFailed(s)
    /\ UNCHANGED faults \/ faults' = [faults EXCEPT !.back = @ + 1]

RunStep(s) ==
    \/ Execute(s) \/ SkipCompleted(s) \/ RecordForward(s) \/ ForwardDone(s) \/ Refused(s)
    \/ MarkCompleted(s) \/ MarkCompletedFails(s)
    \/ RecordCompensation(s) \/ BackwardDone(s)
    \/ MarkCompensated(s) \/ NotUndone(s) \/ Return(s)
CronStep(s) ==
    \E row \in Stuck(s) : \/ Recover(s, row) \/ RecoverNothing(s, row)
                          \/ RecoverRefused(s, row) \/ MarkDeadLetter(s, row)
SagaMove ==
    \/ \E s \in Sagas : RunStep(s) \/ CronStep(s)
    \/ Crash \/ UNCHANGED sagaVars

(* A recovery run starts with the row it was started for.                  *)
LEMMA RecoverEffect ==
    ASSUME SagaInv, NEW s \in Sagas, NEW row \in Stuck(s), Recover(s, row)
    PROVE  \/ /\ HasCompensations(s)
              /\ Becomes(s, "undo", 0, {i \in Steps(s) : IsCompleted(s, i)}, FALSE, row)
           \/ /\ ~HasCompensations(s)
              /\ Becomes(s, "record", 1, {}, FALSE, row)
<1>1. run \in [Sagas -> Run] /\ Steps(s) \subseteq Nat
  BY StepNumbers DEF SagaInv, RunTyped
<1>2. row \in LogRow
  BY StuckRows
<1>3. PICK D : D = {i \in Steps(s) : IsCompleted(s, i)}
  OBVIOUS
<1>4. D \in SUBSET Nat
  BY <1>1, <1>3
<1>5. PICK r : r = [Idle EXCEPT !.pc = "undo", !.row = row, !.done = D]
  OBVIOUS
<1>6. PICK q : q = [Idle EXCEPT !.pc = "record", !.at = 1, !.row = row]
  OBVIOUS
<1>7. /\ r \in Run /\ r.pc = "undo" /\ r.at = 0 /\ r.done = D /\ r.error = FALSE
      /\ r.row = row
  BY <1>2, <1>4, <1>5 DEF Run, Pcs, Idle
<1>8. /\ q \in Run /\ q.pc = "record" /\ q.at = 1 /\ q.done = {} /\ q.error = FALSE
      /\ q.row = row
  BY <1>2, <1>6 DEF Run, Pcs, Idle
<1>9. run' = [run EXCEPT ![s] = IF HasCompensations(s) THEN r ELSE q]
  BY <1>3, <1>5, <1>6 DEF Recover
<1>10. CASE HasCompensations(s)
  <2>1. run' \in [Sagas -> Run] /\ run'[s] = r /\ \A u \in Sagas \ {s} : run'[u] = run[u]
    BY <1>1, <1>7, <1>9, <1>10
  <2> QED BY <1>3, <1>7, <1>10, <2>1 DEF Becomes
<1>11. CASE ~HasCompensations(s)
  <2>1. run' \in [Sagas -> Run] /\ run'[s] = q /\ \A u \in Sagas \ {s} : run'[u] = run[u]
    BY <1>1, <1>8, <1>9, <1>11
  <2> QED BY <1>8, <1>11, <2>1 DEF Becomes
<1> QED BY <1>10, <1>11

(* A crash leaves no run, and a pending row where one was called.          *)
LEMMA CrashEffect ==
    ASSUME SagaInv, Crash
    PROVE  /\ run' \in [Sagas -> Run]
           /\ \A s \in Sagas : run'[s].pc = "idle" /\ run'[s].at = 0 /\ run'[s].done = {}
                               /\ run'[s].error = FALSE /\ run'[s].row = None
           /\ DOMAIN fwd' = Sagas
           /\ \A s \in Sagas :
                /\ fwd'[s] \in [Steps(s) -> SUBSET FwdStatuses]
                /\ \A i \in Steps(s) :
                     IF run[s].pc \in {"call", "mark"} /\ run[s].at = i
                     THEN fwd'[s][i] = fwd[s][i] \cup {"pending"}
                     ELSE fwd'[s][i] = fwd[s][i]
           /\ UNCHANGED <<comp, retry>> /\ faults' = [faults EXCEPT !.crash = @ + 1]
<1>1. PICK r : r = Idle
  OBVIOUS
<1>2. /\ r \in Run /\ r.pc = "idle" /\ r.at = 0 /\ r.done = {} /\ r.error = FALSE
      /\ r.row = None
  BY <1>1 DEF Run, Pcs, Idle
<1>3. run' = [s \in Sagas |-> r]
  BY <1>1 DEF Crash
<1>4. run' \in [Sagas -> Run] /\ \A s \in Sagas : run'[s] = r
  BY <1>2, <1>3
<1>5. /\ DOMAIN fwd' = Sagas
      /\ \A s \in Sagas : fwd'[s] = [i \in Steps(s) |->
                  fwd[s][i] \cup (IF run[s].pc \in {"call", "mark"} /\ run[s].at = i
                                  THEN {"pending"} ELSE {})]
  BY DEF Crash
<1>6. ASSUME NEW s \in Sagas
      PROVE  /\ fwd'[s] \in [Steps(s) -> SUBSET FwdStatuses]
             /\ \A i \in Steps(s) :
                  IF run[s].pc \in {"call", "mark"} /\ run[s].at = i
                  THEN fwd'[s][i] = fwd[s][i] \cup {"pending"}
                  ELSE fwd'[s][i] = fwd[s][i]
  <2>1. fwd[s] \in [Steps(s) -> SUBSET FwdStatuses]
    BY DEF SagaInv, LogTyped, FwdTyped, CompTyped
  <2>2. \A i \in Steps(s) :
          IF run[s].pc \in {"call", "mark"} /\ run[s].at = i
          THEN fwd'[s][i] = fwd[s][i] \cup {"pending"}
          ELSE fwd'[s][i] = fwd[s][i]
    <3>1. ASSUME NEW i \in Steps(s)
          PROVE  fwd'[s][i] = fwd[s][i] \cup (IF run[s].pc \in {"call", "mark"} /\ run[s].at = i
                                              THEN {"pending"} ELSE {})
      BY <1>5
    <3> QED BY <3>1
  <2>3. \A i \in Steps(s) : fwd'[s][i] \in SUBSET FwdStatuses
    BY <2>1, <2>2 DEF FwdStatuses
  <2> QED BY <1>5, <2>2, <2>3
<1> QED BY <1>2, <1>4, <1>5, <1>6 DEF Crash

(* No fault is forgotten, and each step meets at most the faults it names. *)
FaultsGrow ==
    /\ faults' \in Faults
    /\ faults.crash <= faults'.crash /\ faults.refusal <= faults'.refusal
    /\ faults.back <= faults'.back /\ faults.mark <= faults'.mark

(* The count of faults stays typed and grows.                              *)
LEMMA FaultsCounted ==
    ASSUME faults \in Faults
    PROVE  /\ UNCHANGED faults => FaultsGrow
           /\ faults' = [faults EXCEPT !.refusal = @ + 1] => FaultsGrow
           /\ faults' = [faults EXCEPT !.back = @ + 1] =>
                FaultsGrow /\ faults'.back > faults.back
           /\ faults' = [faults EXCEPT !.mark = @ + 1] =>
                FaultsGrow /\ faults'.mark > faults.mark
           /\ faults' = [faults EXCEPT !.crash = @ + 1] =>
                FaultsGrow /\ faults'.crash > faults.crash
  BY DEF Faults, FaultsGrow

-----------------------------------------------------------------------------
(* What a step of the executor keeps *)

(* A run that becomes one with a legal position keeps the invariant, and   *)
(* with it the log.                                                        *)
LEMMA KeepsOnStep ==
    ASSUME SagaInv, NEW s \in Sagas, NEW p, NEW a, NEW d, NEW e, NEW w,
           Becomes(s, p, a, d, e, w), UNCHANGED retry,
           a \in {0} \cup Steps(s), d \subseteq Steps(s), p \in Busy => a \in Steps(s),
           p \in {"back", "unmark"} => <<s, a>> \notin NoBackward,
           w # None => w[2] \in Steps(s) /\ retry[s] < MaxRetries
    PROVE  RunTyped' /\ \A u \in Sagas : OnStep(u)'
  BY DEF SagaInv, RunTyped, OnStep, Becomes

(* Saving a row keeps the log typed.                                       *)
LEMMA RowsTyped ==
    ASSUME LogTyped, NEW s \in Sagas, NEW i, NEW X
    PROVE  (FwdSet(s, i, X) => FwdTyped') /\ (CompSet(s, i, X) => CompTyped')
  BY DEF LogTyped, FwdTyped, CompTyped, FwdSet, CompSet

(* RunStep keeps the runs and the log well formed.                         *)
LEMMA RunStepKeeps ==
    ASSUME SagaInv, NEW s \in Sagas, RunStep(s)
    PROVE  SagaInv' /\ FaultsGrow
<1>1. /\ RunTyped /\ LogTyped /\ faults \in Faults /\ OnStep(s)
      /\ FwdTyped
      /\ CompTyped /\ retry \in [Sagas -> 0..MaxRetries]
  BY DEF SagaInv, LogTyped, FwdTyped, CompTyped
<1>2. /\ run[s].at \in {0} \cup Steps(s) /\ run[s].done \subseteq Steps(s)
      /\ run[s].pc \in Busy => run[s].at \in Steps(s)
      /\ run[s].pc \in {"back", "unmark"} => <<s, run[s].at>> \notin NoBackward
      /\ run[s].row # None => run[s].row[2] \in Steps(s) /\ retry[s] < MaxRetries
  BY <1>1 DEF OnStep
<1>3. Steps(s) \subseteq Nat /\ 1 \in Steps(s) /\ MaxRetries \in Nat
  BY SagaAssumption, StepNumbers
<1>4. run[s].done # {} => Last(s) \in Steps(s) /\ Last(s) \in Nat
  BY <1>3, LastOfRun
<1>5. run[s].at \in Steps(s) =>
        /\ Beyond(s) \in {0} \cup Steps(s)
        /\ Onward(s) \in Busy => Beyond(s) \in Steps(s)
        /\ Onward(s) \notin {"back", "unmark"}
  BY StepNumbers DEF Beyond, Onward, Busy
<1> DEFINE Runs == RunTyped' /\ \A u \in Sagas : OnStep(u)'
<1> SUFFICES Runs /\ LogTyped' /\ FaultsGrow
  BY DEF SagaInv
<1>6. CASE Execute(s)
  <2>1. Becomes(s, "record", 1, {}, FALSE, None)
    BY <1>1, <1>4, <1>6, RunEffects
  <2>2. Runs
    BY <1>3, <1>6, <2>1 DEF Becomes, SagaInv, RunTyped, OnStep, Execute
  <2> QED BY <1>1, <1>6, <2>2, FaultsCounted DEF Execute, LogTyped, FwdTyped, CompTyped
<1>7. CASE SkipCompleted(s)
  <2>1. Becomes(s, Onward(s), Beyond(s), run[s].done, run[s].error, run[s].row)
    BY <1>1, <1>4, <1>7, RunEffects
  <2>2. Runs
    <3>1. /\ Beyond(s) \in {0} \cup Steps(s) /\ (Onward(s) \in Busy => Beyond(s) \in Steps(s))
          /\ Onward(s) \notin {"back", "unmark"} /\ UNCHANGED retry
          /\ run[s].done \cup {run[s].at} \subseteq Steps(s)
      <4>1. run[s].at \in Steps(s) /\ UNCHANGED retry
        BY <1>2, <1>7 DEF SkipCompleted, Busy
      <4> QED BY <1>2, <1>5, <4>1
    <3> QED BY <1>2, <2>1, <3>1, KeepsOnStep
  <2> QED BY <1>1, <1>7, <2>2, FaultsCounted DEF SkipCompleted, LogTyped, FwdTyped,
        CompTyped
<1>8. CASE RecordForward(s)
  <2>1. Becomes(s, "call", run[s].at, run[s].done, run[s].error, run[s].row)
    BY <1>1, <1>4, <1>8, RunEffects
  <2>2. Runs
    BY <1>2, <1>8, <2>1, KeepsOnStep DEF RecordForward, Busy
  <2> QED BY <1>1, <1>8, <2>2, FaultsCounted DEF RecordForward, LogTyped, FwdTyped,
        CompTyped
<1>9. CASE ForwardDone(s)
  <2>1. Becomes(s, "mark", run[s].at, run[s].done, run[s].error, run[s].row)
    BY <1>1, <1>4, <1>9, RunEffects
  <2>2. Runs
    BY <1>2, <1>9, <2>1, KeepsOnStep DEF ForwardDone, Busy
  <2> QED BY <1>1, <1>9, <2>2, FaultsCounted DEF ForwardDone, LogTyped, FwdTyped,
        CompTyped
<1>10. CASE Refused(s)
  <2>1. Becomes(s, "undo", run[s].at, run[s].done, TRUE, run[s].row)
    BY <1>1, <1>4, <1>10, RunEffects DEF Refused
  <2>2. Runs
    BY <1>2, <1>10, <2>1, KeepsOnStep DEF Refused, ForwardFailed, Busy
  <2>3. FwdTyped'
    BY <1>1, <1>10, LogEffects, RowsTyped DEF Refused
  <2>4. FaultsGrow
    BY <1>1, <1>10, FaultsCounted DEF Refused
  <2> QED BY <1>1, <1>10, <2>2, <2>3, <2>4 DEF Refused, ForwardFailed, LogTyped,
        FwdTyped, CompTyped,
        FaultsGrow
<1>11. CASE MarkCompleted(s)
  <2>1. Becomes(s, Onward(s), Beyond(s), run[s].done \cup {run[s].at}, run[s].error,
                run[s].row)
    BY <1>1, <1>4, <1>11, RunEffects
  <2>2. Runs
    <3>1. /\ Beyond(s) \in {0} \cup Steps(s) /\ (Onward(s) \in Busy => Beyond(s) \in Steps(s))
          /\ Onward(s) \notin {"back", "unmark"} /\ UNCHANGED retry
          /\ run[s].done \cup {run[s].at} \subseteq Steps(s)
      <4>1. run[s].at \in Steps(s) /\ UNCHANGED retry
        BY <1>2, <1>11 DEF MarkCompleted, Busy
      <4> QED BY <1>2, <1>5, <4>1
    <3> QED BY <1>2, <2>1, <3>1, KeepsOnStep
  <2>3. FwdTyped'
    BY <1>1, <1>11, LogEffects, RowsTyped
  <2> QED BY <1>1, <1>11, <2>2, <2>3, FaultsCounted DEF MarkCompleted, LogTyped,
        FwdTyped, CompTyped
<1>12. CASE MarkCompletedFails(s)
  <2>1. Becomes(s, Onward(s), Beyond(s), run[s].done \cup {run[s].at}, run[s].error,
                run[s].row)
    BY <1>1, <1>4, <1>12, RunEffects
  <2>2. Runs
    <3>1. /\ Beyond(s) \in {0} \cup Steps(s) /\ (Onward(s) \in Busy => Beyond(s) \in Steps(s))
          /\ Onward(s) \notin {"back", "unmark"} /\ UNCHANGED retry
          /\ run[s].done \cup {run[s].at} \subseteq Steps(s)
      <4>1. run[s].at \in Steps(s) /\ UNCHANGED retry
        BY <1>2, <1>12 DEF MarkCompletedFails, Busy
      <4> QED BY <1>2, <1>5, <4>1
    <3> QED BY <1>2, <2>1, <3>1, KeepsOnStep
  <2>3. FwdTyped'
    BY <1>1, <1>12, LogEffects, RowsTyped
  <2>4. FaultsGrow
    BY <1>1, <1>12, FaultsCounted DEF MarkCompletedFails
  <2> QED BY <1>1, <1>12, <2>2, <2>3, <2>4 DEF MarkCompletedFails, LogTyped, FwdTyped,
        CompTyped, FaultsGrow
<1>14. CASE RecordCompensation(s)
  <2>1. Becomes(s, "back", Last(s), run[s].done, run[s].error, run[s].row)
    BY <1>1, <1>4, <1>14, RunEffects
  <2>2. Runs
    BY <1>2, <1>4, <1>14, <2>1, KeepsOnStep DEF RecordCompensation, Busy
  <2>3. CompTyped'
    BY <1>1, <1>14, LogEffects, RowsTyped
  <2> QED BY <1>1, <1>14, <2>2, <2>3, FaultsCounted DEF RecordCompensation, LogTyped,
        FwdTyped, CompTyped
<1>15. CASE BackwardDone(s)
  <2>1. Becomes(s, "unmark", run[s].at, run[s].done, run[s].error, run[s].row)
    BY <1>1, <1>4, <1>15, RunEffects
  <2>2. Runs
    BY <1>2, <1>15, <2>1, KeepsOnStep DEF BackwardDone, Busy
  <2> QED BY <1>1, <1>15, <2>2, FaultsCounted DEF BackwardDone, LogTyped, FwdTyped,
        CompTyped
<1>16. CASE MarkCompensated(s)
  <2>1. Becomes(s, "undo", run[s].at, run[s].done \ {run[s].at}, run[s].error,
                run[s].row)
    BY <1>1, <1>4, <1>16, RunEffects
  <2>2. Runs
    BY <1>2, <1>16, <2>1, KeepsOnStep DEF MarkCompensated, Busy
  <2>3. CompTyped'
    BY <1>1, <1>16, LogEffects, RowsTyped
  <2> QED BY <1>1, <1>16, <2>2, <2>3, FaultsCounted DEF MarkCompensated, LogTyped,
        FwdTyped, CompTyped
<1>17. CASE NotUndone(s)
  <2>1. Becomes(s, "undo", run[s].at, run[s].done \ {run[s].at}, TRUE, run[s].row)
    BY <1>1, <1>4, <1>17, RunEffects DEF NotUndone
  <2>2. Runs
    <3>1. run[s].done \ {run[s].at} \subseteq Steps(s) /\ UNCHANGED retry
      BY <1>2, <1>17 DEF NotUndone, BackwardFailed
    <3> QED BY <1>2, <2>1, <3>1, KeepsOnStep DEF Busy
  <2>3. CompTyped'
    BY <1>1, <1>17, LogEffects, RowsTyped DEF NotUndone
  <2>4. FaultsGrow
    BY <1>1, <1>17, FaultsCounted DEF NotUndone
  <2> QED BY <1>1, <1>17, <2>2, <2>3, <2>4 DEF NotUndone, BackwardFailed, LogTyped,
        FwdTyped, CompTyped,
            FaultsGrow
<1>18. CASE Return(s)
  <2>1. Becomes(s, "idle", 0, {}, FALSE, None)
    BY <1>1, <1>4, <1>18, RunEffects
  <2>2. FwdTyped'
        /\ CompTyped'
    <3>1. CASE run[s].row = None \/ run[s].error
      BY <1>1, <1>18, <3>1 DEF Return, FwdTyped, CompTyped
    <3>2. CASE ~(run[s].row = None \/ run[s].error)
      <4>1. Closed(s, run[s].row) /\ run[s].row[2] \in Steps(s)
        BY <1>1, <1>2, <1>18, <3>2 DEF Return, OnStep
      <4>2. \/ /\ UNCHANGED comp
               /\ FwdSet(s, run[s].row[2],
                         (fwd[s][run[s].row[2]] \ {"pending"}) \cup {"completed"})
            \/ UNCHANGED fwd /\ CompSet(s, run[s].row[2], "compensated")
        BY <4>1, LogEffects
      <4>3. UNCHANGED fwd => FwdTyped'
        BY <1>1 DEF FwdTyped
      <4>4. UNCHANGED comp => CompTyped'
        BY <1>1 DEF CompTyped
      <4> QED BY <1>1, <4>2, <4>3, <4>4, RowsTyped
    <3> QED BY <3>1, <3>2
  <2>3. retry' \in [Sagas -> 0..MaxRetries] /\ \A u \in Sagas \ {s} : retry'[u] = retry[u]
    BY <1>1, <1>2, <1>3, <1>18 DEF Return
  <2>4. Runs
    BY <2>1, <2>3 DEF Becomes, SagaInv, RunTyped, OnStep, Busy
  <2> QED BY <1>1, <1>18, <2>2, <2>3, <2>4, FaultsCounted DEF Return, LogTyped,
        FwdTyped, CompTyped
<1> QED
  BY <1>6, <1>7, <1>8, <1>9, <1>10, <1>11, <1>12, <1>14, <1>15, <1>16, <1>17,
     <1>18 DEF RunStep

(* A step of the recovery cron keeps the runs and the log well formed.     *)
LEMMA CronStepKeeps ==
    ASSUME SagaInv, NEW s \in Sagas, CronStep(s)
    PROVE  SagaInv' /\ FaultsGrow
<1>1. /\ RunTyped /\ LogTyped /\ faults \in Faults
      /\ FwdTyped
      /\ CompTyped /\ retry \in [Sagas -> 0..MaxRetries]
  BY DEF SagaInv, LogTyped, FwdTyped, CompTyped
<1>2. PICK row \in Stuck(s) : \/ Recover(s, row) \/ RecoverNothing(s, row)
                              \/ RecoverRefused(s, row) \/ MarkDeadLetter(s, row)
  BY DEF CronStep
<1>3. row[2] \in Steps(s) /\ 1 \in Steps(s) /\ MaxRetries \in Nat
  BY StuckRows, SagaAssumption, StepNumbers
<1>4. CASE Recover(s, row)
  <2>1. UNCHANGED <<fwd, comp, retry, faults>> /\ retry[s] < MaxRetries
    BY <1>4 DEF Recover
  <2>2. RunTyped' /\ \A u \in Sagas : OnStep(u)'
    <3>1. CASE Becomes(s, "undo", 0, {i \in Steps(s) : IsCompleted(s, i)}, FALSE, row)
      <4>1. {i \in Steps(s) : IsCompleted(s, i)} \subseteq Steps(s)
        OBVIOUS
      <4> QED BY <1>3, <2>1, <3>1, <4>1, KeepsOnStep DEF Busy
    <3>2. CASE Becomes(s, "record", 1, {}, FALSE, row)
      BY <1>3, <2>1, <3>2 DEF Becomes, SagaInv, RunTyped, OnStep
    <3> QED BY <1>4, <3>1, <3>2, RecoverEffect
  <2> QED BY <1>1, <2>1, <2>2, FaultsCounted DEF SagaInv, LogTyped, FwdTyped, CompTyped
<1>5. CASE RecoverNothing(s, row)
  <2>1. FwdTyped'
        /\ CompTyped'
    BY <1>1, <1>3, <1>5, LogEffects DEF RecoverNothing, FwdSet, CompSet, FwdTyped,
          CompTyped
  <2>2. UNCHANGED <<run, retry, faults>>
    BY <1>5 DEF RecoverNothing
  <2> QED BY <1>1, <2>1, <2>2, FaultsCounted DEF SagaInv, RunTyped, LogTyped,
        FwdTyped, CompTyped, OnStep
<1>6. CASE RecoverRefused(s, row)
  <2>1. retry' \in [Sagas -> 0..MaxRetries] /\ \A u \in Sagas \ {s} : retry'[u] = retry[u]
    BY <1>1, <1>3, <1>6 DEF RecoverRefused
  <2>2. UNCHANGED <<run, fwd, comp, faults>> /\ run[s].row = None
    BY <1>6 DEF RecoverRefused, Recoverable
  <2> QED BY <1>1, <2>1, <2>2, FaultsCounted DEF SagaInv, RunTyped, LogTyped,
        FwdTyped, CompTyped, OnStep
<1>7. CASE MarkDeadLetter(s, row)
  <2>1. FwdTyped'
        /\ CompTyped'
    BY <1>1, <1>3, <1>7, LogEffects DEF FwdSet, CompSet, FwdTyped, CompTyped
  <2>2. UNCHANGED <<run, retry, faults>>
    BY <1>7 DEF MarkDeadLetter
  <2> QED BY <1>1, <2>1, <2>2, FaultsCounted DEF SagaInv, RunTyped, LogTyped,
        FwdTyped, CompTyped, OnStep
<1> QED BY <1>2, <1>4, <1>5, <1>6, <1>7

(* Every step of the sagas keeps the runs and the log well formed.         *)
LEMMA SagaMoves ==
    ASSUME SagaInv, SagaMove
    PROVE  SagaInv' /\ FaultsGrow
<1>1. CASE Crash
  <2>1. FaultsGrow
    BY <1>1, CrashEffect, FaultsCounted DEF SagaInv, LogTyped, FwdTyped, CompTyped
  <2>2. RunTyped' /\ LogTyped'
    BY <1>1, <2>1, CrashEffect DEF SagaInv, LogTyped, FwdTyped, CompTyped, RunTyped,
          FaultsGrow
  <2>3. \A s \in Sagas : OnStep(s)'
    BY <1>1, CrashEffect DEF OnStep, Busy
  <2> QED BY <2>1, <2>2, <2>3 DEF SagaInv
<1>2. CASE UNCHANGED sagaVars
  <2>1. UNCHANGED <<run, fwd, comp, retry, faults>>
    BY <1>2 DEF sagaVars
  <2> QED BY <2>1, FaultsCounted DEF SagaInv, RunTyped, LogTyped, FwdTyped, CompTyped,
        OnStep
<1> QED BY <1>1, <1>2, RunStepKeeps, CronStepKeeps DEF SagaMove

(* What Forward and Backward of each step do, by the step's number *)

AcceptDoes(i) ==
    \/ /\ i = 1
       /\ Exists
       /\ shares' = (IF shares = "none" THEN "active" ELSE shares)
       /\ UNCHANGED <<contract, version, seen, premium, strike, keys, delivered, gains>>
    \/ /\ i = 2
       /\ premium' = (IF Key("reserve", AcceptSaga) \in keys THEN premium ELSE "active")
       /\ keys' = keys \cup {Key("reserve", AcceptSaga)}
       /\ UNCHANGED <<contract, version, seen, strike, shares, delivered, gains>>
    \/ /\ i = 3
       /\ CanSettle(premium, Key("settle", AcceptSaga))
       /\ premium' = (IF Key("settle", AcceptSaga) \in keys THEN premium ELSE "settled")
       /\ keys' = keys \cup {Key("settle", AcceptSaga)}
       /\ UNCHANGED <<contract, version, seen, strike, shares, delivered, gains>>
    \/ /\ i = 4
       /\ keys' = keys \cup {Key("premium-seller", Contract)}
       /\ UNCHANGED <<contract, version, seen, premium, strike, shares, delivered, gains>>

AcceptUndoes(i) ==
    \/ /\ i = 1
       /\ shares' = (IF shares = "active" THEN "released" ELSE shares)
       /\ contract' = "deleted"
       /\ UNCHANGED <<version, seen, premium, strike, keys, delivered, gains>>
    \/ /\ i = 2
       /\ premium' = (IF Key("release", AcceptSaga) \notin keys /\ premium = "active"
                      THEN "released" ELSE premium)
       /\ keys' = keys \cup {Key("release", AcceptSaga)}
       /\ UNCHANGED <<contract, version, seen, strike, shares, delivered, gains>>
    \/ /\ i = 3
       /\ keys' = keys \cup {Key("premium-comp-buyer", Contract)}
       /\ UNCHANGED <<contract, version, seen, premium, strike, shares, delivered, gains>>

ExerciseDoes(e, i) ==
    \/ /\ i = 1
       /\ strike' = (IF Key("reserve", e) \in keys THEN strike ELSE "active")
       /\ keys' = keys \cup {Key("reserve", e)}
       /\ UNCHANGED <<contract, version, seen, premium, shares, delivered, gains>>
    \/ /\ i = 2
       /\ CanSettle(strike, Key("settle", e))
       /\ strike' = (IF Key("settle", e) \in keys THEN strike ELSE "settled")
       /\ keys' = keys \cup {Key("settle", e)}
       /\ UNCHANGED <<contract, version, seen, premium, shares, delivered, gains>>
    \/ /\ i = 3
       /\ keys' = keys \cup {Key("seller", Contract)}
       /\ UNCHANGED <<contract, version, seen, premium, strike, shares, delivered, gains>>
    \/ /\ i = 4
       /\ shares = "active"
       /\ shares' = "settled"
       /\ UNCHANGED <<contract, version, seen, premium, strike, keys, delivered, gains>>
    \/ /\ i = 5
       /\ delivered' = UpsertIdempotent
       /\ UNCHANGED <<contract, version, seen, premium, strike, keys, shares, gains>>
    \/ /\ i = 6
       /\ gains' = gains \cup {e}
       /\ UNCHANGED <<contract, version, seen, premium, strike, keys, shares, delivered>>
    \/ /\ i = 7
       /\ Exists
       /\ contract' = "exercised"
       /\ version' = version + 1
       /\ seen' = [seen EXCEPT ![e] = version + 1]
       /\ UNCHANGED <<premium, strike, keys, shares, delivered, gains>>
    \/ /\ i = 8
       /\ UNCHANGED <<contract, version, seen, premium, strike, keys, shares, delivered, gains>>

ExerciseUndoes(e, i) ==
    \/ /\ i = 1
       /\ strike' = (IF Key("release", e) \notin keys /\ strike = "active"
                     THEN "released" ELSE strike)
       /\ keys' = keys \cup {Key("release", e)}
       /\ UNCHANGED <<contract, version, seen, premium, shares, delivered, gains>>
    \/ /\ i = 2
       /\ keys' = keys \cup {Key("comp-buyer", Contract)}
       /\ UNCHANGED <<contract, version, seen, premium, strike, shares, delivered, gains>>
    \/ /\ i = 3
       /\ keys' = keys \cup {Key("comp-seller", Contract)}
       /\ UNCHANGED <<contract, version, seen, premium, strike, shares, delivered, gains>>
    \/ /\ i = 4
       /\ shares' = (IF shares = "settled" THEN "active" ELSE shares)
       /\ UNCHANGED <<contract, version, seen, premium, strike, keys, delivered, gains>>
    \/ /\ i = 5
       /\ delivered' = 0
       /\ UNCHANGED <<contract, version, seen, premium, strike, keys, shares, gains>>
    \/ /\ i = 6
       /\ gains' = gains \ {e}
       /\ UNCHANGED <<contract, version, seen, premium, strike, keys, shares, delivered>>
    \/ /\ i = 7
       /\ Exists
       /\ contract' = "active"
       /\ version' = version + 1
       /\ UNCHANGED <<seen, premium, strike, keys, shares, delivered, gains>>
    \/ /\ i = 8
       /\ UNCHANGED <<contract, version, seen, premium, strike, keys, shares, delivered, gains>>

(* Forward of the accept saga, step by step.                               *)
LEMMA AcceptForwards ==
    ASSUME SagaInv, Forward(AcceptSaga) \/ ForwardLost(AcceptSaga)
    PROVE  AcceptDoes(run[AcceptSaga].at) /\ UNCHANGED dateVars
<1>0. run[AcceptSaga].pc = "call" /\ Applied(AcceptSaga) /\ UNCHANGED dateVars
  BY DEF Forward, ForwardLost, ForwardDone, ForwardFailed
<1>1. AcceptSaga \in Sagas
  BY OtcAssumption
<1>2. run[AcceptSaga].at \in Steps(AcceptSaga) /\ Length[AcceptSaga] = 4
  BY <1>0, <1>1, StepNumbers DEF SagaInv, OnStep, Busy
<1>4. \/ run[AcceptSaga].at = 1 \/ run[AcceptSaga].at = 2
      \/ run[AcceptSaga].at = 3 \/ run[AcceptSaga].at = 4
  BY <1>1, <1>2, StepNumbers
<1>5. CASE run[AcceptSaga].at = 1
  <2>1. StepOf(AcceptSaga) = "reserve_and_contract"
    BY <1>1, <1>5 DEF StepOf, StepName, AcceptSteps
  <2> QED BY <1>0, <1>1, <1>5, <2>1 DEF Applied, AcceptForward, CanForward, AcceptDoes,
             contractVars, moneyVars, shareVars
<1>6. CASE run[AcceptSaga].at = 2
  <2>1. StepOf(AcceptSaga) = "reserve_premium"
    BY <1>1, <1>6 DEF StepOf, StepName, AcceptSteps
  <2> QED BY <1>0, <1>1, <1>6, <2>1 DEF Applied, AcceptForward, CanForward, AcceptDoes,
             contractVars, moneyVars, shareVars, OnPremium, ReserveFunds
<1>7. CASE run[AcceptSaga].at = 3
  <2>1. StepOf(AcceptSaga) = "settle_premium_buyer"
    BY <1>1, <1>7 DEF StepOf, StepName, AcceptSteps
  <2> QED BY <1>0, <1>1, <1>7, <2>1 DEF Applied, AcceptForward, CanForward, AcceptDoes,
             contractVars, moneyVars, shareVars, OnPremium, PartialSettle, SettleSeq
<1>8. CASE run[AcceptSaga].at = 4
  <2>1. StepOf(AcceptSaga) = "credit_premium_seller"
    BY <1>1, <1>8 DEF StepOf, StepName, AcceptSteps
  <2> QED BY <1>0, <1>1, <1>8, <2>1 DEF Applied, AcceptForward, CanForward, AcceptDoes,
             contractVars, moneyVars, shareVars, Move
<1> QED BY <1>0, <1>4, <1>5, <1>6, <1>7, <1>8

(* Backward of the accept saga; crediting the seller has none.             *)
LEMMA AcceptBackwards ==
    ASSUME SagaInv, Backward(AcceptSaga)
    PROVE  AcceptUndoes(run[AcceptSaga].at) /\ UNCHANGED dateVars
<1>1. AcceptSaga \in Sagas
  BY OtcAssumption
<1>2. /\ run[AcceptSaga].at \in Steps(AcceptSaga) /\ Length[AcceptSaga] = 4
      /\ <<AcceptSaga, run[AcceptSaga].at>> \notin NoBackward
  BY <1>1, StepNumbers DEF SagaInv, OnStep, Busy, Backward, BackwardDone
<1>3. run[AcceptSaga].at # 4
  <2>1. Len(AcceptSteps) = 4
    BY DEF AcceptSteps
  <2> QED BY <1>2, <2>1, OtcAssumption
<1>4. run[AcceptSaga].at = 1 \/ run[AcceptSaga].at = 2 \/ run[AcceptSaga].at = 3
  BY <1>1, <1>2, <1>3, StepNumbers
<1>5. CASE run[AcceptSaga].at = 1
  <2>1. StepOf(AcceptSaga) = "reserve_and_contract"
    BY <1>1, <1>5 DEF StepOf, StepName, AcceptSteps
  <2> QED BY <1>1, <1>5, <2>1 DEF Backward, AcceptBackward, CanBackward, AcceptUndoes,
             contractVars, moneyVars, shareVars
<1>6. CASE run[AcceptSaga].at = 2
  <2>1. StepOf(AcceptSaga) = "reserve_premium"
    BY <1>1, <1>6 DEF StepOf, StepName, AcceptSteps
  <2> QED BY <1>1, <1>6, <2>1 DEF Backward, AcceptBackward, CanBackward, AcceptUndoes,
             contractVars, moneyVars, shareVars, OnPremium, ReleaseReservation
<1>7. CASE run[AcceptSaga].at = 3
  <2>1. StepOf(AcceptSaga) = "settle_premium_buyer"
    BY <1>1, <1>7 DEF StepOf, StepName, AcceptSteps
  <2> QED BY <1>1, <1>7, <2>1 DEF Backward, AcceptBackward, CanBackward, AcceptUndoes,
             contractVars, moneyVars, shareVars, Move
<1> QED BY <1>4, <1>5, <1>6, <1>7

(* Forward of an exercise, step by step.                                   *)
LEMMA ExerciseForwards ==
    ASSUME SagaInv, NEW e \in Attempts, Forward(e) \/ ForwardLost(e)
    PROVE  ExerciseDoes(e, run[e].at) /\ UNCHANGED dateVars
<1>0. run[e].pc = "call" /\ Applied(e) /\ UNCHANGED dateVars
  BY DEF Forward, ForwardLost, ForwardDone, ForwardFailed
<1>1. e \in Sagas /\ e # AcceptSaga
  BY OtcAssumption
<1>2. run[e].at \in Steps(e) /\ Length[e] = 8
  BY <1>0, <1>1, StepNumbers DEF SagaInv, OnStep, Busy
<1>4. \/ run[e].at = 1 \/ run[e].at = 2 \/ run[e].at = 3 \/ run[e].at = 4
      \/ run[e].at = 5 \/ run[e].at = 6 \/ run[e].at = 7 \/ run[e].at = 8
  BY <1>1, <1>2, StepNumbers
<1>5. CASE run[e].at = 1
  <2>1. StepOf(e) = "reserve_strike"
    BY <1>1, <1>5 DEF StepOf, StepName, ExerciseSteps
  <2> QED BY <1>0, <1>1, <1>5, <2>1 DEF Applied, ExerciseForward, CanForward, ExerciseDoes,
             contractVars, moneyVars, shareVars, OnStrike, ReserveFunds
<1>6. CASE run[e].at = 2
  <2>1. StepOf(e) = "settle_strike_buyer"
    BY <1>1, <1>6 DEF StepOf, StepName, ExerciseSteps
  <2> QED BY <1>0, <1>1, <1>6, <2>1 DEF Applied, ExerciseForward, CanForward, ExerciseDoes,
             contractVars, moneyVars, shareVars, OnStrike, PartialSettle, SettleSeq
<1>7. CASE run[e].at = 3
  <2>1. StepOf(e) = "credit_strike_seller"
    BY <1>1, <1>7 DEF StepOf, StepName, ExerciseSteps
  <2> QED BY <1>0, <1>1, <1>7, <2>1 DEF Applied, ExerciseForward, CanForward, ExerciseDoes,
             contractVars, moneyVars, shareVars, Move
<1>8. CASE run[e].at = 4
  <2>1. StepOf(e) = "consume_seller_holding"
    BY <1>1, <1>8 DEF StepOf, StepName, ExerciseSteps
  <2> QED BY <1>0, <1>1, <1>8, <2>1 DEF Applied, ExerciseForward, CanForward, ExerciseDoes,
             contractVars, moneyVars, shareVars
<1>9. CASE run[e].at = 5
  <2>1. StepOf(e) = "upsert_buyer_holding"
    BY <1>1, <1>9 DEF StepOf, StepName, ExerciseSteps
  <2> QED BY <1>0, <1>1, <1>9, <2>1 DEF Applied, ExerciseForward, CanForward, ExerciseDoes,
             contractVars, moneyVars, shareVars
<1>10. CASE run[e].at = 6
  <2>1. StepOf(e) = "record_gains"
    BY <1>1, <1>10 DEF StepOf, StepName, ExerciseSteps
  <2> QED BY <1>0, <1>1, <1>10, <2>1 DEF Applied, ExerciseForward, CanForward, ExerciseDoes,
             contractVars, moneyVars, shareVars
<1>11. CASE run[e].at = 7
  <2>1. StepOf(e) = "mark_contract_exercised"
    BY <1>1, <1>11 DEF StepOf, StepName, ExerciseSteps
  <2> QED BY <1>0, <1>1, <1>11, <2>1 DEF Applied, ExerciseForward, CanForward, ExerciseDoes,
             contractVars, moneyVars, shareVars
<1>12. CASE run[e].at = 8
  <2>1. StepOf(e) = "publish"
    BY <1>1, <1>12 DEF StepOf, StepName, ExerciseSteps
  <2> QED BY <1>0, <1>1, <1>12, <2>1 DEF Applied, ExerciseForward, CanForward, ExerciseDoes,
             contractVars, moneyVars, shareVars
<1> QED BY <1>0, <1>4, <1>5, <1>6, <1>7, <1>8, <1>9, <1>10, <1>11, <1>12

(* Backward of an exercise, step by step.                                  *)
LEMMA ExerciseBackwards ==
    ASSUME SagaInv, NEW e \in Attempts, Backward(e)
    PROVE  ExerciseUndoes(e, run[e].at) /\ UNCHANGED dateVars
<1>1. e \in Sagas /\ e # AcceptSaga
  BY OtcAssumption
<1>2. run[e].at \in Steps(e) /\ Length[e] = 8
  BY <1>1, StepNumbers DEF SagaInv, OnStep, Busy, Backward, BackwardDone
<1>4. \/ run[e].at = 1 \/ run[e].at = 2 \/ run[e].at = 3 \/ run[e].at = 4
      \/ run[e].at = 5 \/ run[e].at = 6 \/ run[e].at = 7 \/ run[e].at = 8
  BY <1>1, <1>2, StepNumbers
<1>5. CASE run[e].at = 1
  <2>1. StepOf(e) = "reserve_strike"
    BY <1>1, <1>5 DEF StepOf, StepName, ExerciseSteps
  <2> QED BY <1>1, <1>5, <2>1 DEF Backward, ExerciseBackward, CanBackward,
             ExerciseUndoes, contractVars, moneyVars, shareVars, OnStrike,
             ReleaseReservation
<1>6. CASE run[e].at = 2
  <2>1. StepOf(e) = "settle_strike_buyer"
    BY <1>1, <1>6 DEF StepOf, StepName, ExerciseSteps
  <2> QED BY <1>1, <1>6, <2>1 DEF Backward, ExerciseBackward, CanBackward,
             ExerciseUndoes, contractVars, moneyVars, shareVars, Move
<1>7. CASE run[e].at = 3
  <2>1. StepOf(e) = "credit_strike_seller"
    BY <1>1, <1>7 DEF StepOf, StepName, ExerciseSteps
  <2> QED BY <1>1, <1>7, <2>1 DEF Backward, ExerciseBackward, CanBackward,
             ExerciseUndoes, contractVars, moneyVars, shareVars, Move
<1>8. CASE run[e].at = 4
  <2>1. StepOf(e) = "consume_seller_holding"
    BY <1>1, <1>8 DEF StepOf, StepName, ExerciseSteps
  <2> QED BY <1>1, <1>8, <2>1 DEF Backward, ExerciseBackward, CanBackward,
             ExerciseUndoes, contractVars, moneyVars, shareVars
<1>9. CASE run[e].at = 5
  <2>1. StepOf(e) = "upsert_buyer_holding"
    BY <1>1, <1>9 DEF StepOf, StepName, ExerciseSteps
  <2> QED BY <1>1, <1>9, <2>1 DEF Backward, ExerciseBackward, CanBackward,
             ExerciseUndoes, contractVars, moneyVars, shareVars
<1>10. CASE run[e].at = 6
  <2>1. StepOf(e) = "record_gains"
    BY <1>1, <1>10 DEF StepOf, StepName, ExerciseSteps
  <2> QED BY <1>1, <1>10, <2>1 DEF Backward, ExerciseBackward, CanBackward,
             ExerciseUndoes, contractVars, moneyVars, shareVars
<1>11. CASE run[e].at = 7
  <2>1. StepOf(e) = "mark_contract_exercised"
    BY <1>1, <1>11 DEF StepOf, StepName, ExerciseSteps
  <2> QED BY <1>1, <1>11, <2>1 DEF Backward, ExerciseBackward, CanBackward,
             ExerciseUndoes, contractVars, moneyVars, shareVars
<1>12. CASE run[e].at = 8
  <2>1. StepOf(e) = "publish"
    BY <1>1, <1>12 DEF StepOf, StepName, ExerciseSteps
  <2> QED BY <1>1, <1>12, <2>1 DEF Backward, ExerciseBackward, CanBackward,
             ExerciseUndoes, contractVars, moneyVars, shareVars
<1> QED BY <1>4, <1>5, <1>6, <1>7, <1>8, <1>9, <1>10, <1>11, <1>12

-----------------------------------------------------------------------------
(* Every step is one of the executor's *)

(* The sagas of a step of the system move as SagaMove says.                *)
LEMMA NextMoves ==
    ASSUME [Next]_vars
    PROVE  SagaMove
<1>1. ASSUME NEW s \in Sagas,
             \/ MintContract(s) \/ CreateContract(s) \/ ExerciseContract(s)
             \/ Forward(s) \/ ForwardRefused(s) \/ ForwardLost(s)
             \/ Backward(s) \/ BackwardRefused(s) \/ ExecutorStep(s) \/ RecoverSaga(s)
      PROVE  SagaMove
  <2>1. MintContract(s) \/ ExerciseContract(s) => RunStep(s)
    BY DEF MintContract, ExerciseContract, RunStep
  <2>2. CreateContract(s) => UNCHANGED sagaVars
    BY DEF CreateContract
  <2>3. Forward(s) \/ Backward(s) => RunStep(s)
    BY DEF Forward, Backward, RunStep
  <2>4. ForwardRefused(s) \/ ForwardLost(s) => RunStep(s)
    BY DEF ForwardRefused, ForwardLost, RunStep, Refused
  <2>5. BackwardRefused(s) => RunStep(s)
    BY DEF BackwardRefused, RunStep, NotUndone
  <2>6. ExecutorStep(s) => RunStep(s) \/ CronStep(s)
    BY DEF ExecutorStep, RunStep, CronStep
  <2>7. RecoverSaga(s) => CronStep(s)
    BY DEF RecoverSaga, CronStep
  <2> QED BY <1>1, <2>1, <2>2, <2>3, <2>4, <2>5, <2>6, <2>7 DEF SagaMove
<1>2. ServiceCrash => Crash
  BY DEF ServiceCrash
<1>3. DayPasses \/ ExpireRelease \/ ExpireSave \/ UNCHANGED vars => UNCHANGED sagaVars
  BY DEF DayPasses, ExpireRelease, ExpireSave, vars
<1> QED BY <1>1, <1>2, <1>3 DEF Next, SagaMove

-----------------------------------------------------------------------------
(* Type correctness *)

Lives == {"none", "active", "exercised", "expired", "deleted"}
Holds == {"none", "active", "released", "settled"}

ContractTyped ==
    /\ contract \in Lives /\ version \in Nat
    /\ seen \in [Sagas \cup {Cron} -> Nat] /\ \A u \in Sagas \cup {Cron} : seen[u] <= version
RowsAround ==
    /\ premium \in Holds /\ strike \in Holds /\ shares \in Holds
    /\ delivered \in Nat /\ gains \subseteq Sagas \cup {Cron}
HistoryTyped ==
    /\ lost \subseteq Sagas \X Nat /\ backErrors \subseteq Sagas \X Nat

TypeInv == SagaInv /\ ContractTyped /\ RowsAround /\ HistoryTyped

(* Loading a copy of the row, and saving one, keeps the versions ordered.  *)
LEMMA SeenTyped ==
    ASSUME ContractTyped, NEW u \in Sagas \cup {Cron}, contract' \in Lives
    PROVE  /\ UNCHANGED <<version, seen>> => ContractTyped'
           /\ UNCHANGED version /\ seen' = [seen EXCEPT ![u] = version] => ContractTyped'
           /\ version' = version + 1 /\ UNCHANGED seen => ContractTyped'
           /\ version' = version + 1 /\ seen' = [seen EXCEPT ![u] = version + 1] => ContractTyped'
<1>1. /\ version \in Nat /\ seen \in [Sagas \cup {Cron} -> Nat]
      /\ \A w \in Sagas \cup {Cron} : seen[w] \in Nat /\ seen[w] <= version
  BY DEF ContractTyped
<1>2. ASSUME UNCHANGED version, seen' = [seen EXCEPT ![u] = version] PROVE ContractTyped'
  BY <1>1, <1>2 DEF ContractTyped
<1>3. ASSUME version' = version + 1, UNCHANGED seen PROVE ContractTyped'
  BY <1>1, <1>3 DEF ContractTyped
<1>4. ASSUME version' = version + 1, seen' = [seen EXCEPT ![u] = version + 1] PROVE ContractTyped'
  BY <1>1, <1>4 DEF ContractTyped
<1> QED BY <1>1, <1>2, <1>3, <1>4 DEF ContractTyped

(* Forward and Backward of every step keep the rows typed.                 *)
LEMMA EffectsTyped ==
    ASSUME TypeInv, NEW s \in Sagas, Forward(s) \/ ForwardLost(s) \/ Backward(s)
    PROVE  ContractTyped' /\ RowsAround'
<1>1. /\ contract \in Lives /\ version \in Nat /\ premium \in Holds /\ strike \in Holds
      /\ shares \in Holds /\ delivered \in Nat /\ gains \subseteq Sagas \cup {Cron}
      /\ ContractTyped /\ SagaInv
  BY DEF TypeInv, ContractTyped, RowsAround
<1>2. s \in Sagas \cup {Cron}
  OBVIOUS
<1>3. CASE s = AcceptSaga
  <2>1. \E i : AcceptDoes(i) \/ AcceptUndoes(i)
    BY <1>1, <1>3, AcceptForwards, AcceptBackwards
  <2>2. RowsAround'
    BY <1>1, <2>1 DEF AcceptDoes, AcceptUndoes, RowsAround, Holds
  <2>3. contract' \in Lives /\ UNCHANGED <<version, seen>>
    BY <1>1, <2>1 DEF AcceptDoes, AcceptUndoes, Lives
  <2> QED BY <1>1, <1>2, <2>2, <2>3, SeenTyped
<1>4. CASE s # AcceptSaga
  <2>1. s \in Attempts
    BY <1>4, OtcAssumption
  <2>2. PICK i : ExerciseDoes(s, i) \/ ExerciseUndoes(s, i)
    BY <1>1, <2>1, ExerciseForwards, ExerciseBackwards
  <2>3. RowsAround'
    BY <1>1, <2>2 DEF ExerciseDoes, ExerciseUndoes, RowsAround, Holds, UpsertIdempotent
  <2>4. /\ contract' \in Lives
        /\ \/ UNCHANGED <<version, seen>>
           \/ version' = version + 1 /\ UNCHANGED seen
           \/ version' = version + 1 /\ seen' = [seen EXCEPT ![s] = version + 1]
    BY <1>1, <2>2 DEF ExerciseDoes, ExerciseUndoes, Lives
  <2> QED BY <1>1, <1>2, <2>3, <2>4, SeenTyped
<1> QED BY <1>3, <1>4

(* The histories only grow, and name steps of sagas.                       *)
LEMMA HistoryStep ==
    ASSUME SagaInv, HistoryTyped, [Next]_vars
    PROVE  /\ lost \subseteq lost' /\ backErrors \subseteq backErrors'
           /\ HistoryTyped'
<1>1. ASSUME NEW s \in Sagas,
             \/ MintContract(s) \/ CreateContract(s) \/ ExerciseContract(s)
             \/ Forward(s) \/ ForwardRefused(s) \/ ForwardLost(s)
             \/ Backward(s) \/ BackwardRefused(s) \/ ExecutorStep(s) \/ RecoverSaga(s)
      PROVE  /\ lost' \in {lost, lost \cup {<<s, run[s].at>>}}
             /\ backErrors' \in {backErrors, backErrors \cup {<<s, run[s].at>>}}
  BY <1>1 DEF MintContract, CreateContract, ExerciseContract, Forward, ForwardRefused,
     ForwardLost, Backward, BackwardRefused, ExecutorStep, RecoverSaga, historyVars
<1>2. CASE \E s \in Sagas :
             \/ MintContract(s) \/ CreateContract(s) \/ ExerciseContract(s)
             \/ Forward(s) \/ ForwardRefused(s) \/ ForwardLost(s)
             \/ Backward(s) \/ BackwardRefused(s) \/ ExecutorStep(s) \/ RecoverSaga(s)
  <2>1. PICK s \in Sagas : /\ lost' \in {lost, lost \cup {<<s, run[s].at>>}}
                          /\ backErrors' \in {backErrors, backErrors \cup {<<s, run[s].at>>}}
    BY <1>1, <1>2
  <2>2. run[s].at \in Nat
    BY DEF SagaInv, RunTyped, Run
  <2> QED BY <2>1, <2>2 DEF HistoryTyped
<1>3. CASE ServiceCrash \/ DayPasses \/ ExpireRelease \/ ExpireSave \/ UNCHANGED vars
  BY <1>3 DEF ServiceCrash, DayPasses, ExpireRelease, ExpireSave, vars, historyVars,
     HistoryTyped
<1> QED BY <1>2, <1>3 DEF Next

(* Every step of the system keeps the types.                               *)
LEMMA TypeStep ==
    ASSUME TypeInv, [Next]_vars
    PROVE  TypeInv'
<1>1. SagaInv'
  BY NextMoves, SagaMoves DEF TypeInv
<1>2. /\ contract \in Lives /\ ContractTyped /\ RowsAround
      /\ Cron \in Sagas \cup {Cron} /\ Sagas \subseteq Sagas \cup {Cron}
  BY DEF TypeInv, ContractTyped
<1> DEFINE Typed == ContractTyped' /\ RowsAround'
<1>3. UNCHANGED <<contractVars, moneyVars, shareVars>> => Typed
  BY <1>2 DEF contractVars, moneyVars, shareVars, ContractTyped, RowsAround
<1>4. ASSUME NEW s \in Sagas,
             \/ MintContract(s) \/ CreateContract(s) \/ ExerciseContract(s)
             \/ Forward(s) \/ ForwardRefused(s) \/ ForwardLost(s)
             \/ Backward(s) \/ BackwardRefused(s) \/ ExecutorStep(s) \/ RecoverSaga(s)
      PROVE  Typed
  <2>1. MintContract(s) \/ BackwardRefused(s) \/ ExecutorStep(s) => Typed
    BY <1>3 DEF MintContract, BackwardRefused, ExecutorStep
  <2>2. CreateContract(s) \/ ForwardRefused(s) => Typed
    <3>1. CreateContract(s) \/ ForwardRefused(s) =>
            /\ contract' \in Lives /\ UNCHANGED <<version, seen>>
            /\ UNCHANGED <<moneyVars, shareVars>>
      BY <1>2 DEF CreateContract, ForwardRefused, Lives
    <3> QED BY <1>2, <3>1, SeenTyped DEF moneyVars, shareVars, RowsAround
  <2>3. ExerciseContract(s) \/ RecoverSaga(s) => Typed
    <3>1. ExerciseContract(s) \/ RecoverSaga(s) =>
            /\ contract' \in Lives /\ UNCHANGED version /\ seen' = [seen EXCEPT ![s] = version]
            /\ UNCHANGED <<moneyVars, shareVars>>
      BY <1>2 DEF ExerciseContract, RecoverSaga
    <3> QED BY <1>2, <3>1, SeenTyped DEF moneyVars, shareVars, RowsAround
  <2> QED BY <1>4, <2>1, <2>2, <2>3, EffectsTyped
<1>5. ServiceCrash \/ DayPasses \/ UNCHANGED vars => Typed
  BY <1>3 DEF ServiceCrash, DayPasses, vars
<1>6. ExpireRelease => Typed
  <2> SUFFICES ASSUME ExpireRelease PROVE Typed
    OBVIOUS
  <2>1. contract' \in Lives /\ UNCHANGED version /\ seen' = [seen EXCEPT ![Cron] = version]
    BY <1>2 DEF ExpireRelease
  <2>2. RowsAround'
    BY <1>2 DEF ExpireRelease, RowsAround, Holds, moneyVars
  <2> QED BY <1>2, <2>1, <2>2, SeenTyped
<1>7. ExpireSave => Typed
  <2> SUFFICES ASSUME ExpireSave PROVE Typed
    OBVIOUS
  <2>1. /\ contract' \in Lives /\ UNCHANGED seen
        /\ version' = version + 1 \/ UNCHANGED version
    BY <1>2 DEF ExpireSave, Lives
  <2>2. RowsAround'
    BY <1>2 DEF ExpireSave, RowsAround, moneyVars, shareVars
  <2> QED BY <1>2, <2>1, <2>2, SeenTyped
<1>8. HistoryTyped'
  BY HistoryStep DEF TypeInv
<1> QED BY <1>1, <1>4, <1>5, <1>6, <1>7, <1>8 DEF Next, TypeInv

(* The types hold at the start.                                            *)
LEMMA TypeInit == ASSUME Init PROVE TypeInv
<1>1. PICK r : r = Idle
  OBVIOUS
<1>2. /\ r \in Run /\ r.pc = "idle" /\ r.at = 0 /\ r.done = {} /\ r.error = FALSE
      /\ r.row = None
  BY <1>1 DEF Run, Pcs, Idle
<1>3. run = [s \in Sagas |-> r]
  BY <1>1 DEF Init, SagaInit
<1>4. RunTyped /\ \A s \in Sagas : OnStep(s)
  BY <1>2, <1>3 DEF RunTyped, OnStep, Busy
<1>5. MaxRetries \in Nat /\ 0 \in 0..MaxRetries
  BY SagaAssumption
<1>6. LogTyped
  BY <1>5 DEF Init, SagaInit, NoFaults, Faults, LogTyped, FwdTyped, CompTyped,
        CompStatuses
<1>7. ContractTyped /\ RowsAround /\ HistoryTyped
  BY DEF Init, ContractTyped, RowsAround, HistoryTyped, Lives, Holds
<1> QED BY <1>4, <1>6, <1>7 DEF TypeInv, SagaInv

(* OtcTypeOK holds in every state, whatever the faults.                    *)
THEOREM TypeCorrect == Spec => []OtcTypeOK
<1>1. Init => TypeInv
  BY TypeInit
<1>2. TypeInv /\ [Next]_vars => TypeInv'
  BY TypeStep
<1>3. TypeInv => OtcTypeOK
  <2> SUFFICES ASSUME TypeInv PROVE OtcTypeOK
    OBVIOUS
  <2>1. SagaTypeOK
    BY DEF TypeInv, SagaInv, RunTyped, LogTyped, FwdTyped, CompTyped, OnStep,
          SagaTypeOK,
           Run, Pcs, LogRow, FwdStatuses, CompStatuses
  <2>2. /\ version \in Nat /\ seen \in [Sagas \cup {Cron} -> Nat]
        /\ \A u \in Sagas \cup {Cron} : seen[u] \in Nat /\ seen[u] <= version
    BY DEF TypeInv, ContractTyped
  <2>3. \A u \in Sagas \cup {Cron} : seen[u] \in 0..version
    BY <2>2
  <2>4. seen \in [Sagas \cup {Cron} -> 0..version]
    BY <2>2, <2>3
  <2> QED BY <2>1, <2>4 DEF TypeInv, ContractTyped, RowsAround, HistoryTyped, OtcTypeOK,
          Lives, Holds
<1> QED BY <1>1, <1>2, <1>3, PTL DEF Spec

-----------------------------------------------------------------------------
(* What the log of a saga says *)

Forwards == {"record", "call", "mark"}
Undoes == {"undo", "back", "unmark"}

IsPending(s, i) == "pending" \in fwd[s][i]
Evident(s, i) == IsCompleted(s, i) \/ IsPending(s, i) \/ "dead_letter" \in fwd[s][i]
Passed(s, k) == run[s].pc = "return" \/ (run[s].pc \in Forwards /\ k < run[s].at)

(* No run is left behind.                                                  *)
Rests(s) ==
    run[s].pc = "idle" => run[s].done = {} /\ run[s].row = None /\ ~run[s].error
(* A completed step is not called again.                                   *)
CallsOnce(s) ==
    run[s].pc \in {"call", "mark"} => ~IsCompleted(s, run[s].at)
(* A run that goes forward has nothing to compensate.                      *)
GoesOn(s) ==
    run[s].pc \in Forwards \cup {"return"} => ~HasCompensations(s) /\ ~run[s].error
(* The steps before the current one are completed, or their row stayed pending. *)
PassedKnown(s) ==
    \A k \in Steps(s) : Passed(s, k) =>
        IsCompleted(s, k) \/ (k \in run[s].done /\ IsPending(s, k) /\ faults.mark = 1)
(* So are the steps a run has done itself.                                 *)
DoneKnown(s) ==
    \A k \in run[s].done : IsCompleted(s, k) \/ (IsPending(s, k) /\ faults.mark = 1)
(* rollback works on the last of them.                                     *)
UndoesLast(s) ==
    run[s].pc \in {"back", "unmark"} =>
        /\ run[s].at \in run[s].done /\ comp[s][run[s].at] # "none"
        /\ \A k \in run[s].done : k <= run[s].at
(* A compensation row is re-driven by a run that rolls back.               *)
RowKnown(s) ==
    run[s].row # None /\ run[s].row[1] = "comp" =>
        /\ run[s].pc \in Undoes
        /\ ~run[s].error => comp[s][run[s].row[2]] \in {"compensating", "compensated"}
(* A forward row is re-driven while it is pending.                         *)
RowLogged(s) ==
    run[s].row # None /\ run[s].row[1] = "fwd" => IsPending(s, run[s].row[2])
(* A recovery run rolls back only what has compensations.                  *)
UndoesSome(s) ==
    run[s].pc \in Undoes /\ ~run[s].error => HasCompensations(s)
(* A rollback without errors comes to every compensation that is not done. *)
NoneLeft(s) ==
    run[s].pc \in Undoes /\ (~run[s].error \/ faults.back = 0) =>
        \A k \in Steps(s) : comp[s][k] = "compensating" => k \in run[s].done
(* Only a step of the log is compensated.                                  *)
CompEvident(s) ==
    \A k \in Steps(s) : comp[s][k] # "none" => Evident(s, k)
(* A compensation left behind is one of a completed step.                  *)
CompCompleted(s) ==
    \A k \in Steps(s) : comp[s][k] = "compensating" =>
        \/ IsCompleted(s, k)
        \/ run[s].pc \in {"back", "unmark"} /\ run[s].at = k /\ faults.mark = 1
(* A row left pending by a crash is the first one that is not completed.   *)
PendingFirst(s) ==
    \A k \in Steps(s) : IsPending(s, k) /\ ~IsCompleted(s, k) =>
        \/ faults.mark = 1
        \/ /\ ~HasCompensations(s) /\ run[s].done = {}
           /\ \A j \in Steps(s) : j < k => IsCompleted(s, j)
(* Without a crash, one row stays pending, that whose mark failed.         *)
PendingAlone(s) ==
    \A j, k \in Steps(s) : faults.crash = 0 /\ IsPending(s, j) =>
        faults.mark = 1 /\ (IsPending(s, k) => j = k)
(* Steps are taken in order.                                               *)
InOrder(s) ==
    \A k \in Steps(s) : fwd[s][k] # {} => \A j \in Steps(s) : j < k => Evident(s, j)

RunKnown(s) ==
    /\ Rests(s) /\ CallsOnce(s) /\ GoesOn(s) /\ PassedKnown(s) /\ DoneKnown(s)
    /\ UndoesLast(s) /\ RowKnown(s) /\ RowLogged(s) /\ UndoesSome(s) /\ NoneLeft(s)
LogKnown(s) ==
    /\ CompEvident(s) /\ CompCompleted(s) /\ PendingFirst(s) /\ PendingAlone(s)
    /\ InOrder(s)
SagaLog(s) == RunKnown(s) /\ LogKnown(s)

(* A call starts its saga once.                                            *)
LEMMA ExecuteLog ==
    ASSUME SagaInv, NEW s \in Sagas, SagaLog(s), Execute(s),
           LogWriteFailsAlone, LogWriteFailsAlone'
    PROVE  SagaLog(s)'
<1>0. /\ Rests(s) /\ CallsOnce(s) /\ GoesOn(s) /\ PassedKnown(s) /\ DoneKnown(s)
      /\ UndoesLast(s) /\ RowKnown(s) /\ RowLogged(s) /\ UndoesSome(s) /\ NoneLeft(s)
      /\ CompEvident(s) /\ CompCompleted(s) /\ PendingFirst(s) /\ PendingAlone(s)
      /\ InOrder(s)
  BY DEF SagaLog, RunKnown, LogKnown
<1>1. Becomes(s, "record", 1, {}, FALSE, None)
  BY LastOfRun, StepNumbers, RunEffects DEF SagaInv
<1>2. run[s].pc = "idle" /\ (\A k \in Steps(s) : fwd[s][k] = {}) /\ UNCHANGED <<fwd, comp, faults>>
  BY DEF Execute, Started
<1>3. /\ run[s].at \in {0} \cup Steps(s) /\ run[s].done \subseteq Steps(s)
      /\ Steps(s) \subseteq Nat
      /\ run[s].pc \in Busy => run[s].at \in Steps(s)
      /\ run[s].row # None => run[s].row[2] \in Steps(s)
      /\ \A k \in Steps(s) : k >= 1
  BY StepNumbers DEF SagaInv, OnStep
<1>4. RunKnown(s)'
  <2>1. Rests(s)'
    BY <1>0, <1>1, <1>2, <1>3 DEF Rests, Becomes, Busy, LogWriteFailsAlone
  <2>2. CallsOnce(s)'
    BY <1>0, <1>1, <1>2, <1>3 DEF CallsOnce, IsCompleted, Becomes, Busy,
           LogWriteFailsAlone
  <2>3. GoesOn(s)'
    BY <1>0, <1>1, <1>2, <1>3 DEF GoesOn, HasCompensations, Forwards, CompEvident,
           Evident, IsCompleted, IsPending, Becomes, Busy, LogWriteFailsAlone
  <2>4. PassedKnown(s)'
    BY <1>0, <1>1, <1>2, <1>3 DEF PassedKnown, Passed, Forwards, IsCompleted,
           IsPending, Becomes, Busy, LogWriteFailsAlone
  <2>5. DoneKnown(s)'
    BY <1>0, <1>1, <1>2, <1>3 DEF DoneKnown, IsCompleted, IsPending, Becomes, Busy,
           LogWriteFailsAlone
  <2>6. UndoesLast(s)'
    BY <1>0, <1>1, <1>2, <1>3 DEF UndoesLast, Becomes, Busy, LogWriteFailsAlone
  <2>7. RowKnown(s)'
    BY <1>0, <1>1, <1>2, <1>3 DEF RowKnown, GoesOn, Forwards, Undoes, Becomes, Busy,
           LogWriteFailsAlone
  <2>8. RowLogged(s)'
    BY <1>0, <1>1, <1>2, <1>3 DEF RowLogged, IsPending, Becomes, Busy,
           LogWriteFailsAlone
  <2>9. UndoesSome(s)'
    BY <1>0, <1>1, <1>2, <1>3 DEF UndoesSome, HasCompensations, Undoes, Becomes, Busy,
           LogWriteFailsAlone
  <2>10. NoneLeft(s)'
    BY <1>0, <1>1, <1>2, <1>3 DEF NoneLeft, GoesOn, Forwards, Undoes, HasCompensations,
           CompEvident, Evident, IsCompleted, IsPending, Becomes, Busy,
           LogWriteFailsAlone
  <2> QED BY <2>1, <2>2, <2>3, <2>4, <2>5, <2>6, <2>7, <2>8, <2>9, <2>10 DEF RunKnown
<1>5. LogKnown(s)'
  <2>1. CompEvident(s)'
    BY <1>0, <1>1, <1>2, <1>3 DEF CompEvident, DoneKnown, Evident, IsCompleted,
           IsPending, Becomes, Busy, LogWriteFailsAlone
  <2>2. CompCompleted(s)'
    BY <1>0, <1>1, <1>2, <1>3 DEF CompCompleted, DoneKnown, UndoesLast, IsCompleted,
           Becomes, Busy, LogWriteFailsAlone
  <2>3. PendingFirst(s)'
    BY <1>0, <1>1, <1>2, <1>3 DEF PendingFirst, CallsOnce, PassedKnown, Passed,
           DoneKnown, GoesOn, Forwards, HasCompensations, IsCompleted, IsPending,
           Becomes, Busy, LogWriteFailsAlone
  <2>4. PendingAlone(s)'
    BY <1>0, <1>1, <1>2, <1>3 DEF PendingAlone, IsPending, Becomes, Busy,
           LogWriteFailsAlone
  <2>5. InOrder(s)'
    BY <1>0, <1>1, <1>2, <1>3 DEF InOrder, PassedKnown, Passed, Forwards, Evident,
           IsCompleted, IsPending, Becomes, Busy, LogWriteFailsAlone
  <2> QED BY <2>1, <2>2, <2>3, <2>4, <2>5 DEF LogKnown
<1> QED BY <1>4, <1>5 DEF SagaLog

(* A completed step is passed over.                                        *)
LEMMA SkipLog ==
    ASSUME SagaInv, NEW s \in Sagas, SagaLog(s), SkipCompleted(s),
           LogWriteFailsAlone, LogWriteFailsAlone'
    PROVE  SagaLog(s)'
<1>0. /\ Rests(s) /\ CallsOnce(s) /\ GoesOn(s) /\ PassedKnown(s) /\ DoneKnown(s)
      /\ UndoesLast(s) /\ RowKnown(s) /\ RowLogged(s) /\ UndoesSome(s) /\ NoneLeft(s)
      /\ CompEvident(s) /\ CompCompleted(s) /\ PendingFirst(s) /\ PendingAlone(s)
      /\ InOrder(s)
  BY DEF SagaLog, RunKnown, LogKnown
<1>1. Becomes(s, Onward(s), Beyond(s), run[s].done, run[s].error, run[s].row)
  BY LastOfRun, StepNumbers, RunEffects DEF SagaInv
<1>2. run[s].pc = "record" /\ IsCompleted(s, run[s].at) /\ UNCHANGED <<fwd, comp, faults>>
  BY DEF SkipCompleted
<1>3. /\ run[s].at \in Steps(s) /\ run[s].done \subseteq Steps(s)
      /\ Steps(s) \subseteq Nat
      /\ \/ Onward(s) = "return" /\ \A k \in Steps(s) : k <= run[s].at
         \/ Onward(s) = "record" /\ Beyond(s) = run[s].at + 1
      /\ run[s].row # None => run[s].row[2] \in Steps(s)
  BY <1>2, StepNumbers DEF SagaInv, OnStep, Busy, Onward, Beyond
<1>4. RunKnown(s)'
  <2>1. Rests(s)'
    BY <1>0, <1>1, <1>2, <1>3 DEF Rests, Becomes, LogWriteFailsAlone
  <2>2. CallsOnce(s)'
    BY <1>0, <1>1, <1>2, <1>3 DEF CallsOnce, IsCompleted, Becomes, LogWriteFailsAlone
  <2>3. GoesOn(s)'
    BY <1>0, <1>1, <1>2, <1>3 DEF GoesOn, HasCompensations, Forwards, Becomes,
           LogWriteFailsAlone
  <2>4. PassedKnown(s)'
    BY <1>0, <1>1, <1>2, <1>3 DEF PassedKnown, Passed, Forwards, IsCompleted,
           IsPending, Becomes, LogWriteFailsAlone
  <2>5. DoneKnown(s)'
    BY <1>0, <1>1, <1>2, <1>3 DEF DoneKnown, IsCompleted, IsPending, Becomes,
           LogWriteFailsAlone
  <2>6. UndoesLast(s)'
    BY <1>0, <1>1, <1>2, <1>3 DEF UndoesLast, Becomes, LogWriteFailsAlone
  <2>7. RowKnown(s)'
    BY <1>0, <1>1, <1>2, <1>3 DEF RowKnown, GoesOn, Forwards, Undoes, Becomes,
           LogWriteFailsAlone
  <2>8. RowLogged(s)'
    BY <1>0, <1>1, <1>2, <1>3 DEF RowLogged, IsPending, Becomes, LogWriteFailsAlone
  <2>9. UndoesSome(s)'
    BY <1>0, <1>1, <1>2, <1>3 DEF UndoesSome, HasCompensations, Undoes, Becomes,
           LogWriteFailsAlone
  <2>10. NoneLeft(s)'
    BY <1>0, <1>1, <1>2, <1>3 DEF NoneLeft, GoesOn, Forwards, Undoes, HasCompensations,
           Becomes, LogWriteFailsAlone
  <2> QED BY <2>1, <2>2, <2>3, <2>4, <2>5, <2>6, <2>7, <2>8, <2>9, <2>10 DEF RunKnown
<1>5. LogKnown(s)'
  <2>1. CompEvident(s)'
    BY <1>0, <1>1, <1>2, <1>3 DEF CompEvident, DoneKnown, Evident, IsCompleted,
           IsPending, Becomes, LogWriteFailsAlone
  <2>2. CompCompleted(s)'
    BY <1>0, <1>1, <1>2, <1>3 DEF CompCompleted, DoneKnown, UndoesLast, IsCompleted,
           Becomes, LogWriteFailsAlone
  <2>3. PendingFirst(s)'
    BY <1>0, <1>1, <1>2, <1>3 DEF PendingFirst, CallsOnce, PassedKnown, Passed,
           DoneKnown, GoesOn, Forwards, HasCompensations, IsCompleted, IsPending,
           Becomes, LogWriteFailsAlone
  <2>4. PendingAlone(s)'
    BY <1>0, <1>1, <1>2, <1>3 DEF PendingAlone, IsPending, Becomes, LogWriteFailsAlone
  <2>5. InOrder(s)'
    BY <1>0, <1>1, <1>2, <1>3 DEF InOrder, PassedKnown, Passed, Forwards, Evident,
           IsCompleted, IsPending, Becomes, LogWriteFailsAlone
  <2> QED BY <2>1, <2>2, <2>3, <2>4, <2>5 DEF LogKnown
<1> QED BY <1>4, <1>5 DEF SagaLog

(* A step that is not completed is called.                                 *)
LEMMA RecordLog ==
    ASSUME SagaInv, NEW s \in Sagas, SagaLog(s), RecordForward(s),
           LogWriteFailsAlone, LogWriteFailsAlone'
    PROVE  SagaLog(s)'
<1>0. /\ Rests(s) /\ CallsOnce(s) /\ GoesOn(s) /\ PassedKnown(s) /\ DoneKnown(s)
      /\ UndoesLast(s) /\ RowKnown(s) /\ RowLogged(s) /\ UndoesSome(s) /\ NoneLeft(s)
      /\ CompEvident(s) /\ CompCompleted(s) /\ PendingFirst(s) /\ PendingAlone(s)
      /\ InOrder(s)
  BY DEF SagaLog, RunKnown, LogKnown
<1>1. Becomes(s, "call", run[s].at, run[s].done, run[s].error, run[s].row)
  BY LastOfRun, StepNumbers, RunEffects DEF SagaInv
<1>2. run[s].pc = "record" /\ ~IsCompleted(s, run[s].at) /\ UNCHANGED <<fwd, comp, faults>>
  BY DEF RecordForward
<1>3. /\ run[s].at \in {0} \cup Steps(s) /\ run[s].done \subseteq Steps(s)
      /\ Steps(s) \subseteq Nat
      /\ run[s].pc \in Busy => run[s].at \in Steps(s)
      /\ run[s].row # None => run[s].row[2] \in Steps(s)
      /\ \A k \in Steps(s) : k >= 1
  BY StepNumbers DEF SagaInv, OnStep
<1>4. RunKnown(s)'
  <2>1. Rests(s)'
    BY <1>0, <1>1, <1>2, <1>3 DEF Rests, Becomes, Busy, LogWriteFailsAlone
  <2>2. CallsOnce(s)'
    BY <1>0, <1>1, <1>2, <1>3 DEF CallsOnce, IsCompleted, Becomes, Busy,
           LogWriteFailsAlone
  <2>3. GoesOn(s)'
    BY <1>0, <1>1, <1>2, <1>3 DEF GoesOn, HasCompensations, Forwards, Becomes, Busy,
           LogWriteFailsAlone
  <2>4. PassedKnown(s)'
    BY <1>0, <1>1, <1>2, <1>3 DEF PassedKnown, Passed, Forwards, IsCompleted,
           IsPending, Becomes, Busy, LogWriteFailsAlone
  <2>5. DoneKnown(s)'
    BY <1>0, <1>1, <1>2, <1>3 DEF DoneKnown, IsCompleted, IsPending, Becomes, Busy,
           LogWriteFailsAlone
  <2>6. UndoesLast(s)'
    BY <1>0, <1>1, <1>2, <1>3 DEF UndoesLast, Becomes, Busy, LogWriteFailsAlone
  <2>7. RowKnown(s)'
    BY <1>0, <1>1, <1>2, <1>3 DEF RowKnown, GoesOn, Forwards, Undoes, Becomes, Busy,
           LogWriteFailsAlone
  <2>8. RowLogged(s)'
    BY <1>0, <1>1, <1>2, <1>3 DEF RowLogged, IsPending, Becomes, Busy,
           LogWriteFailsAlone
  <2>9. UndoesSome(s)'
    BY <1>0, <1>1, <1>2, <1>3 DEF UndoesSome, HasCompensations, Undoes, Becomes, Busy,
           LogWriteFailsAlone
  <2>10. NoneLeft(s)'
    BY <1>0, <1>1, <1>2, <1>3 DEF NoneLeft, GoesOn, Forwards, Undoes, HasCompensations,
           Becomes, Busy, LogWriteFailsAlone
  <2> QED BY <2>1, <2>2, <2>3, <2>4, <2>5, <2>6, <2>7, <2>8, <2>9, <2>10 DEF RunKnown
<1>5. LogKnown(s)'
  <2>1. CompEvident(s)'
    BY <1>0, <1>1, <1>2, <1>3 DEF CompEvident, DoneKnown, Evident, IsCompleted,
           IsPending, Becomes, Busy, LogWriteFailsAlone
  <2>2. CompCompleted(s)'
    BY <1>0, <1>1, <1>2, <1>3 DEF CompCompleted, DoneKnown, UndoesLast, IsCompleted,
           Becomes, Busy, LogWriteFailsAlone
  <2>3. PendingFirst(s)'
    BY <1>0, <1>1, <1>2, <1>3 DEF PendingFirst, CallsOnce, PassedKnown, Passed,
           DoneKnown, GoesOn, Forwards, HasCompensations, IsCompleted, IsPending,
           Becomes, Busy, LogWriteFailsAlone
  <2>4. PendingAlone(s)'
    BY <1>0, <1>1, <1>2, <1>3 DEF PendingAlone, IsPending, Becomes, Busy,
           LogWriteFailsAlone
  <2>5. InOrder(s)'
    BY <1>0, <1>1, <1>2, <1>3 DEF InOrder, PassedKnown, Passed, Forwards, Evident,
           IsCompleted, IsPending, Becomes, Busy, LogWriteFailsAlone
  <2> QED BY <2>1, <2>2, <2>3, <2>4, <2>5 DEF LogKnown
<1> QED BY <1>4, <1>5 DEF SagaLog

(* Forward was answered.                                                   *)
LEMMA ForwardLog ==
    ASSUME SagaInv, NEW s \in Sagas, SagaLog(s), ForwardDone(s),
           LogWriteFailsAlone, LogWriteFailsAlone'
    PROVE  SagaLog(s)'
<1>0. /\ Rests(s) /\ CallsOnce(s) /\ GoesOn(s) /\ PassedKnown(s) /\ DoneKnown(s)
      /\ UndoesLast(s) /\ RowKnown(s) /\ RowLogged(s) /\ UndoesSome(s) /\ NoneLeft(s)
      /\ CompEvident(s) /\ CompCompleted(s) /\ PendingFirst(s) /\ PendingAlone(s)
      /\ InOrder(s)
  BY DEF SagaLog, RunKnown, LogKnown
<1>1. Becomes(s, "mark", run[s].at, run[s].done, run[s].error, run[s].row)
  BY LastOfRun, StepNumbers, RunEffects DEF SagaInv
<1>2. run[s].pc = "call" /\ UNCHANGED <<fwd, comp, faults>>
  BY DEF ForwardDone
<1>3. /\ run[s].at \in {0} \cup Steps(s) /\ run[s].done \subseteq Steps(s)
      /\ Steps(s) \subseteq Nat
      /\ run[s].pc \in Busy => run[s].at \in Steps(s)
      /\ run[s].row # None => run[s].row[2] \in Steps(s)
      /\ \A k \in Steps(s) : k >= 1
  BY StepNumbers DEF SagaInv, OnStep
<1>4. RunKnown(s)'
  <2>1. Rests(s)'
    BY <1>0, <1>1, <1>2, <1>3 DEF Rests, Becomes, Busy, LogWriteFailsAlone
  <2>2. CallsOnce(s)'
    BY <1>0, <1>1, <1>2, <1>3 DEF CallsOnce, IsCompleted, Becomes, Busy,
           LogWriteFailsAlone
  <2>3. GoesOn(s)'
    BY <1>0, <1>1, <1>2, <1>3 DEF GoesOn, HasCompensations, Forwards, Becomes, Busy,
           LogWriteFailsAlone
  <2>4. PassedKnown(s)'
    BY <1>0, <1>1, <1>2, <1>3 DEF PassedKnown, Passed, Forwards, IsCompleted,
           IsPending, Becomes, Busy, LogWriteFailsAlone
  <2>5. DoneKnown(s)'
    BY <1>0, <1>1, <1>2, <1>3 DEF DoneKnown, IsCompleted, IsPending, Becomes, Busy,
           LogWriteFailsAlone
  <2>6. UndoesLast(s)'
    BY <1>0, <1>1, <1>2, <1>3 DEF UndoesLast, Becomes, Busy, LogWriteFailsAlone
  <2>7. RowKnown(s)'
    BY <1>0, <1>1, <1>2, <1>3 DEF RowKnown, GoesOn, Forwards, Undoes, Becomes, Busy,
           LogWriteFailsAlone
  <2>8. RowLogged(s)'
    BY <1>0, <1>1, <1>2, <1>3 DEF RowLogged, IsPending, Becomes, Busy,
           LogWriteFailsAlone
  <2>9. UndoesSome(s)'
    BY <1>0, <1>1, <1>2, <1>3 DEF UndoesSome, HasCompensations, Undoes, Becomes, Busy,
           LogWriteFailsAlone
  <2>10. NoneLeft(s)'
    BY <1>0, <1>1, <1>2, <1>3 DEF NoneLeft, GoesOn, Forwards, Undoes, HasCompensations,
           Becomes, Busy, LogWriteFailsAlone
  <2> QED BY <2>1, <2>2, <2>3, <2>4, <2>5, <2>6, <2>7, <2>8, <2>9, <2>10 DEF RunKnown
<1>5. LogKnown(s)'
  <2>1. CompEvident(s)'
    BY <1>0, <1>1, <1>2, <1>3 DEF CompEvident, DoneKnown, Evident, IsCompleted,
           IsPending, Becomes, Busy, LogWriteFailsAlone
  <2>2. CompCompleted(s)'
    BY <1>0, <1>1, <1>2, <1>3 DEF CompCompleted, DoneKnown, UndoesLast, IsCompleted,
           Becomes, Busy, LogWriteFailsAlone
  <2>3. PendingFirst(s)'
    BY <1>0, <1>1, <1>2, <1>3 DEF PendingFirst, CallsOnce, PassedKnown, Passed,
           DoneKnown, GoesOn, Forwards, HasCompensations, IsCompleted, IsPending,
           Becomes, Busy, LogWriteFailsAlone
  <2>4. PendingAlone(s)'
    BY <1>0, <1>1, <1>2, <1>3 DEF PendingAlone, IsPending, Becomes, Busy,
           LogWriteFailsAlone
  <2>5. InOrder(s)'
    BY <1>0, <1>1, <1>2, <1>3 DEF InOrder, PassedKnown, Passed, Forwards, Evident,
           IsCompleted, IsPending, Becomes, Busy, LogWriteFailsAlone
  <2> QED BY <2>1, <2>2, <2>3, <2>4, <2>5 DEF LogKnown
<1> QED BY <1>4, <1>5 DEF SagaLog

(* Forward was refused.                                                    *)
LEMMA RefusedLog ==
    ASSUME SagaInv, NEW s \in Sagas, SagaLog(s), Refused(s),
           LogWriteFailsAlone, LogWriteFailsAlone'
    PROVE  SagaLog(s)'
<1>0. /\ Rests(s) /\ CallsOnce(s) /\ GoesOn(s) /\ PassedKnown(s) /\ DoneKnown(s)
      /\ UndoesLast(s) /\ RowKnown(s) /\ RowLogged(s) /\ UndoesSome(s) /\ NoneLeft(s)
      /\ CompEvident(s) /\ CompCompleted(s) /\ PendingFirst(s) /\ PendingAlone(s)
      /\ InOrder(s)
  BY DEF SagaLog, RunKnown, LogKnown
<1>1. Becomes(s, "undo", run[s].at, run[s].done, TRUE, run[s].row)
  BY LastOfRun, StepNumbers, RunEffects DEF SagaInv, Refused
<1>2. /\ run[s].pc = "call" /\ UNCHANGED comp
      /\ faults'.mark = faults.mark /\ faults'.back = faults.back
      /\ faults'.crash = faults.crash
  BY DEF Refused, ForwardFailed, Faults, SagaInv, LogTyped
<1>3. /\ run[s].at \in {0} \cup Steps(s) /\ run[s].done \subseteq Steps(s)
      /\ Steps(s) \subseteq Nat
      /\ run[s].pc \in Busy => run[s].at \in Steps(s)
      /\ run[s].row # None => run[s].row[2] \in Steps(s)
      /\ \A k \in Steps(s) : k >= 1
  BY StepNumbers DEF SagaInv, OnStep
<1>4. FwdSet(s, run[s].at, fwd[s][run[s].at] \cup {"failed"})
  BY LogEffects DEF Refused
<1>5. RunKnown(s)'
  <2>1. Rests(s)'
    BY <1>0, <1>1, <1>2, <1>3, <1>4 DEF Rests, Becomes, Busy, FwdSet,
           LogWriteFailsAlone
  <2>2. CallsOnce(s)'
    BY <1>0, <1>1, <1>2, <1>3, <1>4 DEF CallsOnce, IsCompleted, Becomes, Busy, FwdSet,
           LogWriteFailsAlone
  <2>3. GoesOn(s)'
    BY <1>0, <1>1, <1>2, <1>3, <1>4 DEF GoesOn, HasCompensations, Forwards, Becomes,
           Busy, FwdSet, LogWriteFailsAlone
  <2>4. PassedKnown(s)'
    BY <1>0, <1>1, <1>2, <1>3, <1>4 DEF PassedKnown, Passed, Forwards, IsCompleted,
           IsPending, Becomes, Busy, FwdSet, LogWriteFailsAlone
  <2>5. DoneKnown(s)'
    BY <1>0, <1>1, <1>2, <1>3, <1>4 DEF DoneKnown, IsCompleted, IsPending, Becomes,
           Busy, FwdSet, LogWriteFailsAlone
  <2>6. UndoesLast(s)'
    BY <1>0, <1>1, <1>2, <1>3, <1>4 DEF UndoesLast, Becomes, Busy, FwdSet,
           LogWriteFailsAlone
  <2>7. RowKnown(s)'
    BY <1>0, <1>1, <1>2, <1>3, <1>4 DEF RowKnown, GoesOn, Forwards, Undoes, Becomes,
           Busy, FwdSet, LogWriteFailsAlone
  <2>8. RowLogged(s)'
    BY <1>0, <1>1, <1>2, <1>3, <1>4 DEF RowLogged, IsPending, Becomes, Busy, FwdSet,
           LogWriteFailsAlone
  <2>9. UndoesSome(s)'
    BY <1>0, <1>1, <1>2, <1>3, <1>4 DEF UndoesSome, HasCompensations, Undoes, Becomes,
           Busy, FwdSet, LogWriteFailsAlone
  <2>10. NoneLeft(s)'
    BY <1>0, <1>1, <1>2, <1>3, <1>4 DEF NoneLeft, GoesOn, Forwards, Undoes,
           HasCompensations, Becomes, Busy, FwdSet, LogWriteFailsAlone
  <2> QED BY <2>1, <2>2, <2>3, <2>4, <2>5, <2>6, <2>7, <2>8, <2>9, <2>10 DEF RunKnown
<1>6. LogKnown(s)'
  <2>1. CompEvident(s)'
    BY <1>0, <1>1, <1>2, <1>3, <1>4 DEF CompEvident, DoneKnown, Evident, IsCompleted,
           IsPending, Becomes, Busy, FwdSet, LogWriteFailsAlone
  <2>2. CompCompleted(s)'
    BY <1>0, <1>1, <1>2, <1>3, <1>4 DEF CompCompleted, DoneKnown, UndoesLast,
           IsCompleted, Becomes, Busy, FwdSet, LogWriteFailsAlone
  <2>3. PendingFirst(s)'
    BY <1>0, <1>1, <1>2, <1>3, <1>4 DEF PendingFirst, CallsOnce, PassedKnown, Passed,
           DoneKnown, GoesOn, Forwards, HasCompensations, IsCompleted, IsPending,
           Becomes, Busy, FwdSet, LogWriteFailsAlone
  <2>4. PendingAlone(s)'
    BY <1>0, <1>1, <1>2, <1>3, <1>4 DEF PendingAlone, IsPending, Becomes, Busy, FwdSet,
           LogWriteFailsAlone
  <2>5. InOrder(s)'
    BY <1>0, <1>1, <1>2, <1>3, <1>4 DEF InOrder, PassedKnown, Passed, Forwards,
           Evident, IsCompleted, IsPending, Becomes, Busy, FwdSet, LogWriteFailsAlone
  <2> QED BY <2>1, <2>2, <2>3, <2>4, <2>5 DEF LogKnown
<1> QED BY <1>5, <1>6 DEF SagaLog

(* A step is marked completed.                                             *)
LEMMA MarkedLog ==
    ASSUME SagaInv, NEW s \in Sagas, SagaLog(s), MarkCompleted(s),
           LogWriteFailsAlone, LogWriteFailsAlone'
    PROVE  SagaLog(s)'
<1>0. /\ Rests(s) /\ CallsOnce(s) /\ GoesOn(s) /\ PassedKnown(s) /\ DoneKnown(s)
      /\ UndoesLast(s) /\ RowKnown(s) /\ RowLogged(s) /\ UndoesSome(s) /\ NoneLeft(s)
      /\ CompEvident(s) /\ CompCompleted(s) /\ PendingFirst(s) /\ PendingAlone(s)
      /\ InOrder(s)
  BY DEF SagaLog, RunKnown, LogKnown
<1>1. Becomes(s, Onward(s), Beyond(s), run[s].done \cup {run[s].at},
              run[s].error, run[s].row)
  BY LastOfRun, StepNumbers, RunEffects DEF SagaInv
<1>2. run[s].pc = "mark" /\ UNCHANGED <<comp, faults>>
  BY DEF MarkCompleted
<1>3. /\ run[s].at \in Steps(s) /\ run[s].done \subseteq Steps(s)
      /\ Steps(s) \subseteq Nat
      /\ \/ Onward(s) = "return" /\ \A k \in Steps(s) : k <= run[s].at
         \/ Onward(s) = "record" /\ Beyond(s) = run[s].at + 1
      /\ run[s].row # None => run[s].row[2] \in Steps(s)
  BY <1>2, StepNumbers DEF SagaInv, OnStep, Busy, Onward, Beyond
<1>4. FwdSet(s, run[s].at, fwd[s][run[s].at] \cup {"completed"})
  BY LogEffects DEF Refused
<1>5. RunKnown(s)'
  <2>1. Rests(s)'
    BY <1>0, <1>1, <1>2, <1>3, <1>4 DEF Rests, Becomes, FwdSet, LogWriteFailsAlone
  <2>2. CallsOnce(s)'
    BY <1>0, <1>1, <1>2, <1>3, <1>4 DEF CallsOnce, IsCompleted, Becomes, FwdSet,
           LogWriteFailsAlone
  <2>3. GoesOn(s)'
    BY <1>0, <1>1, <1>2, <1>3, <1>4 DEF GoesOn, HasCompensations, Forwards, Becomes,
           FwdSet, LogWriteFailsAlone
  <2>4. PassedKnown(s)'
    BY <1>0, <1>1, <1>2, <1>3, <1>4 DEF PassedKnown, Passed, Forwards, IsCompleted,
           IsPending, Becomes, FwdSet, LogWriteFailsAlone
  <2>5. DoneKnown(s)'
    BY <1>0, <1>1, <1>2, <1>3, <1>4 DEF DoneKnown, IsCompleted, IsPending, Becomes,
           FwdSet, LogWriteFailsAlone
  <2>6. UndoesLast(s)'
    BY <1>0, <1>1, <1>2, <1>3, <1>4 DEF UndoesLast, Becomes, FwdSet, LogWriteFailsAlone
  <2>7. RowKnown(s)'
    BY <1>0, <1>1, <1>2, <1>3, <1>4 DEF RowKnown, GoesOn, Forwards, Undoes, Becomes,
           FwdSet, LogWriteFailsAlone
  <2>8. RowLogged(s)'
    BY <1>0, <1>1, <1>2, <1>3, <1>4 DEF RowLogged, IsPending, Becomes, FwdSet,
           LogWriteFailsAlone
  <2>9. UndoesSome(s)'
    BY <1>0, <1>1, <1>2, <1>3, <1>4 DEF UndoesSome, HasCompensations, Undoes, Becomes,
           FwdSet, LogWriteFailsAlone
  <2>10. NoneLeft(s)'
    BY <1>0, <1>1, <1>2, <1>3, <1>4 DEF NoneLeft, GoesOn, Forwards, Undoes,
           HasCompensations, Becomes, FwdSet, LogWriteFailsAlone
  <2> QED BY <2>1, <2>2, <2>3, <2>4, <2>5, <2>6, <2>7, <2>8, <2>9, <2>10 DEF RunKnown
<1>6. LogKnown(s)'
  <2>1. CompEvident(s)'
    BY <1>0, <1>1, <1>2, <1>3, <1>4 DEF CompEvident, DoneKnown, Evident, IsCompleted,
           IsPending, Becomes, FwdSet, LogWriteFailsAlone
  <2>2. CompCompleted(s)'
    BY <1>0, <1>1, <1>2, <1>3, <1>4 DEF CompCompleted, DoneKnown, UndoesLast,
           IsCompleted, Becomes, FwdSet, LogWriteFailsAlone
  <2>3. PendingFirst(s)'
    BY <1>0, <1>1, <1>2, <1>3, <1>4 DEF PendingFirst, CallsOnce, PassedKnown, Passed,
           DoneKnown, GoesOn, Forwards, HasCompensations, IsCompleted, IsPending,
           Becomes, FwdSet, LogWriteFailsAlone
  <2>4. PendingAlone(s)'
    BY <1>0, <1>1, <1>2, <1>3, <1>4 DEF PendingAlone, IsPending, Becomes, FwdSet,
           LogWriteFailsAlone
  <2>5. InOrder(s)'
    BY <1>0, <1>1, <1>2, <1>3, <1>4 DEF InOrder, PassedKnown, Passed, Forwards,
           Evident, IsCompleted, IsPending, Becomes, FwdSet, LogWriteFailsAlone
  <2> QED BY <2>1, <2>2, <2>3, <2>4, <2>5 DEF LogKnown
<1> QED BY <1>5, <1>6 DEF SagaLog

(* The mark of a step fails, and it stays pending.                         *)
LEMMA UnmarkedLog ==
    ASSUME SagaInv, NEW s \in Sagas, SagaLog(s), MarkCompletedFails(s),
           LogWriteFailsAlone, LogWriteFailsAlone'
    PROVE  SagaLog(s)'
<1>0. /\ Rests(s) /\ CallsOnce(s) /\ GoesOn(s) /\ PassedKnown(s) /\ DoneKnown(s)
      /\ UndoesLast(s) /\ RowKnown(s) /\ RowLogged(s) /\ UndoesSome(s) /\ NoneLeft(s)
      /\ CompEvident(s) /\ CompCompleted(s) /\ PendingFirst(s) /\ PendingAlone(s)
      /\ InOrder(s)
  BY DEF SagaLog, RunKnown, LogKnown
<1>1. Becomes(s, Onward(s), Beyond(s), run[s].done \cup {run[s].at},
              run[s].error, run[s].row)
  BY LastOfRun, StepNumbers, RunEffects DEF SagaInv
<1>2. /\ run[s].pc = "mark" /\ UNCHANGED comp
      /\ faults.mark + 1 = faults'.mark /\ faults'.back = faults.back
      /\ faults'.crash = faults.crash
  BY DEF MarkCompletedFails, Faults, SagaInv, LogTyped
<1>3. /\ run[s].at \in Steps(s) /\ run[s].done \subseteq Steps(s)
      /\ Steps(s) \subseteq Nat
      /\ \/ Onward(s) = "return" /\ \A k \in Steps(s) : k <= run[s].at
         \/ Onward(s) = "record" /\ Beyond(s) = run[s].at + 1
      /\ run[s].row # None => run[s].row[2] \in Steps(s)
  BY <1>2, StepNumbers DEF SagaInv, OnStep, Busy, Onward, Beyond
<1>4. FwdSet(s, run[s].at, fwd[s][run[s].at] \cup {"pending"})
  BY LogEffects DEF Refused
<1>5. RunKnown(s)'
  <2>1. Rests(s)'
    BY <1>0, <1>1, <1>2, <1>3, <1>4 DEF Rests, Becomes, FwdSet, LogWriteFailsAlone
  <2>2. CallsOnce(s)'
    BY <1>0, <1>1, <1>2, <1>3, <1>4 DEF CallsOnce, IsCompleted, Becomes, FwdSet,
           LogWriteFailsAlone
  <2>3. GoesOn(s)'
    BY <1>0, <1>1, <1>2, <1>3, <1>4 DEF GoesOn, HasCompensations, Forwards, Becomes,
           FwdSet, LogWriteFailsAlone
  <2>4. PassedKnown(s)'
    BY <1>0, <1>1, <1>2, <1>3, <1>4 DEF PassedKnown, Passed, Forwards, IsCompleted,
           IsPending, Becomes, FwdSet, LogWriteFailsAlone
  <2>5. DoneKnown(s)'
    BY <1>0, <1>1, <1>2, <1>3, <1>4 DEF DoneKnown, IsCompleted, IsPending, Becomes,
           FwdSet, LogWriteFailsAlone
  <2>6. UndoesLast(s)'
    BY <1>0, <1>1, <1>2, <1>3, <1>4 DEF UndoesLast, Becomes, FwdSet, LogWriteFailsAlone
  <2>7. RowKnown(s)'
    BY <1>0, <1>1, <1>2, <1>3, <1>4 DEF RowKnown, GoesOn, Forwards, Undoes, Becomes,
           FwdSet, LogWriteFailsAlone
  <2>8. RowLogged(s)'
    BY <1>0, <1>1, <1>2, <1>3, <1>4 DEF RowLogged, IsPending, Becomes, FwdSet,
           LogWriteFailsAlone
  <2>9. UndoesSome(s)'
    BY <1>0, <1>1, <1>2, <1>3, <1>4 DEF UndoesSome, HasCompensations, Undoes, Becomes,
           FwdSet, LogWriteFailsAlone
  <2>10. NoneLeft(s)'
    BY <1>0, <1>1, <1>2, <1>3, <1>4 DEF NoneLeft, GoesOn, Forwards, Undoes,
           HasCompensations, Becomes, FwdSet, LogWriteFailsAlone
  <2> QED BY <2>1, <2>2, <2>3, <2>4, <2>5, <2>6, <2>7, <2>8, <2>9, <2>10 DEF RunKnown
<1>6. LogKnown(s)'
  <2>1. CompEvident(s)'
    BY <1>0, <1>1, <1>2, <1>3, <1>4 DEF CompEvident, DoneKnown, Evident, IsCompleted,
           IsPending, Becomes, FwdSet, LogWriteFailsAlone
  <2>2. CompCompleted(s)'
    BY <1>0, <1>1, <1>2, <1>3, <1>4 DEF CompCompleted, DoneKnown, UndoesLast,
           IsCompleted, Becomes, FwdSet, LogWriteFailsAlone
  <2>3. PendingFirst(s)'
    BY <1>0, <1>1, <1>2, <1>3, <1>4 DEF PendingFirst, CallsOnce, PassedKnown, Passed,
           DoneKnown, GoesOn, Forwards, HasCompensations, IsCompleted, IsPending,
           Becomes, FwdSet, LogWriteFailsAlone
  <2>4. PendingAlone(s)'
    BY <1>0, <1>1, <1>2, <1>3, <1>4 DEF PendingAlone, IsPending, Becomes, FwdSet,
           LogWriteFailsAlone
  <2>5. InOrder(s)'
    BY <1>0, <1>1, <1>2, <1>3, <1>4 DEF InOrder, PassedKnown, Passed, Forwards,
           Evident, IsCompleted, IsPending, Becomes, FwdSet, LogWriteFailsAlone
  <2> QED BY <2>1, <2>2, <2>3, <2>4, <2>5 DEF LogKnown
<1> QED BY <1>5, <1>6 DEF SagaLog

(* rollback comes to the last step left.                                   *)
LEMMA CompensationLog ==
    ASSUME SagaInv, NEW s \in Sagas, SagaLog(s), RecordCompensation(s),
           LogWriteFailsAlone, LogWriteFailsAlone'
    PROVE  SagaLog(s)'
<1>0. /\ Rests(s) /\ CallsOnce(s) /\ GoesOn(s) /\ PassedKnown(s) /\ DoneKnown(s)
      /\ UndoesLast(s) /\ RowKnown(s) /\ RowLogged(s) /\ UndoesSome(s) /\ NoneLeft(s)
      /\ CompEvident(s) /\ CompCompleted(s) /\ PendingFirst(s) /\ PendingAlone(s)
      /\ InOrder(s)
  BY DEF SagaLog, RunKnown, LogKnown
<1>1. Becomes(s, "back", Last(s), run[s].done, run[s].error, run[s].row)
  BY LastOfRun, StepNumbers, RunEffects DEF SagaInv
<1>2. run[s].pc = "undo" /\ run[s].done # {} /\ UNCHANGED <<fwd, faults>>
  BY DEF RecordCompensation
<1>3. /\ Last(s) \in run[s].done /\ Last(s) \in Steps(s) /\ \A k \in run[s].done : k <= Last(s)
      /\ run[s].done \subseteq Steps(s) /\ (run[s].row # None => run[s].row[2] \in Steps(s))
  BY <1>2, LastOfRun, LastStep DEF SagaInv, OnStep, Last
<1>4. CompSet(s, Last(s), IF comp[s][Last(s)] = "none" THEN "compensating"
                           ELSE comp[s][Last(s)])
  BY LogEffects DEF Refused
<1>5. RunKnown(s)'
  <2>1. Rests(s)'
    BY <1>0, <1>1, <1>2, <1>3, <1>4 DEF Rests, Becomes, CompSet, LogWriteFailsAlone
  <2>2. CallsOnce(s)'
    BY <1>0, <1>1, <1>2, <1>3, <1>4 DEF CallsOnce, IsCompleted, Becomes, CompSet,
           LogWriteFailsAlone
  <2>3. GoesOn(s)'
    BY <1>0, <1>1, <1>2, <1>3, <1>4 DEF GoesOn, HasCompensations, Forwards, Becomes,
           CompSet, LogWriteFailsAlone
  <2>4. PassedKnown(s)'
    BY <1>0, <1>1, <1>2, <1>3, <1>4 DEF PassedKnown, Passed, Forwards, IsCompleted,
           IsPending, Becomes, CompSet, LogWriteFailsAlone
  <2>5. DoneKnown(s)'
    BY <1>0, <1>1, <1>2, <1>3, <1>4 DEF DoneKnown, IsCompleted, IsPending, Becomes,
           CompSet, LogWriteFailsAlone
  <2>6. UndoesLast(s)'
    BY <1>0, <1>1, <1>2, <1>3, <1>4 DEF UndoesLast, Becomes, CompSet,
           LogWriteFailsAlone
  <2>7. RowKnown(s)'
    BY <1>0, <1>1, <1>2, <1>3, <1>4 DEF RowKnown, GoesOn, Forwards, Undoes, Becomes,
           CompSet, LogWriteFailsAlone
  <2>8. RowLogged(s)'
    BY <1>0, <1>1, <1>2, <1>3, <1>4 DEF RowLogged, IsPending, Becomes, CompSet,
           LogWriteFailsAlone
  <2>9. UndoesSome(s)'
    BY <1>0, <1>1, <1>2, <1>3, <1>4 DEF UndoesSome, HasCompensations, Undoes, Becomes,
           CompSet, LogWriteFailsAlone
  <2>10. NoneLeft(s)'
    BY <1>0, <1>1, <1>2, <1>3, <1>4 DEF NoneLeft, GoesOn, Forwards, Undoes,
           HasCompensations, Becomes, CompSet, LogWriteFailsAlone
  <2> QED BY <2>1, <2>2, <2>3, <2>4, <2>5, <2>6, <2>7, <2>8, <2>9, <2>10 DEF RunKnown
<1>6. LogKnown(s)'
  <2>1. CompEvident(s)'
    BY <1>0, <1>1, <1>2, <1>3, <1>4 DEF CompEvident, DoneKnown, Evident, IsCompleted,
           IsPending, Becomes, CompSet, LogWriteFailsAlone
  <2>2. CompCompleted(s)'
    BY <1>0, <1>1, <1>2, <1>3, <1>4 DEF CompCompleted, DoneKnown, UndoesLast,
           IsCompleted, Becomes, CompSet, LogWriteFailsAlone
  <2>3. PendingFirst(s)'
    BY <1>0, <1>1, <1>2, <1>3, <1>4 DEF PendingFirst, CallsOnce, PassedKnown, Passed,
           DoneKnown, GoesOn, Forwards, HasCompensations, IsCompleted, IsPending,
           Becomes, CompSet, LogWriteFailsAlone
  <2>4. PendingAlone(s)'
    BY <1>0, <1>1, <1>2, <1>3, <1>4 DEF PendingAlone, IsPending, Becomes, CompSet,
           LogWriteFailsAlone
  <2>5. InOrder(s)'
    BY <1>0, <1>1, <1>2, <1>3, <1>4 DEF InOrder, PassedKnown, Passed, Forwards,
           Evident, IsCompleted, IsPending, Becomes, CompSet, LogWriteFailsAlone
  <2> QED BY <2>1, <2>2, <2>3, <2>4, <2>5 DEF LogKnown
<1> QED BY <1>5, <1>6 DEF SagaLog

(* Backward was answered.                                                  *)
LEMMA BackwardLog ==
    ASSUME SagaInv, NEW s \in Sagas, SagaLog(s), BackwardDone(s),
           LogWriteFailsAlone, LogWriteFailsAlone'
    PROVE  SagaLog(s)'
<1>0. /\ Rests(s) /\ CallsOnce(s) /\ GoesOn(s) /\ PassedKnown(s) /\ DoneKnown(s)
      /\ UndoesLast(s) /\ RowKnown(s) /\ RowLogged(s) /\ UndoesSome(s) /\ NoneLeft(s)
      /\ CompEvident(s) /\ CompCompleted(s) /\ PendingFirst(s) /\ PendingAlone(s)
      /\ InOrder(s)
  BY DEF SagaLog, RunKnown, LogKnown
<1>1. Becomes(s, "unmark", run[s].at, run[s].done, run[s].error, run[s].row)
  BY LastOfRun, StepNumbers, RunEffects DEF SagaInv
<1>2. run[s].pc = "back" /\ UNCHANGED <<fwd, comp, faults>>
  BY DEF BackwardDone
<1>3. /\ run[s].at \in {0} \cup Steps(s) /\ run[s].done \subseteq Steps(s)
      /\ Steps(s) \subseteq Nat
      /\ run[s].pc \in Busy => run[s].at \in Steps(s)
      /\ run[s].row # None => run[s].row[2] \in Steps(s)
      /\ \A k \in Steps(s) : k >= 1
  BY StepNumbers DEF SagaInv, OnStep
<1>4. RunKnown(s)'
  <2>1. Rests(s)'
    BY <1>0, <1>1, <1>2, <1>3 DEF Rests, Becomes, Busy, LogWriteFailsAlone
  <2>2. CallsOnce(s)'
    BY <1>0, <1>1, <1>2, <1>3 DEF CallsOnce, IsCompleted, Becomes, Busy,
           LogWriteFailsAlone
  <2>3. GoesOn(s)'
    BY <1>0, <1>1, <1>2, <1>3 DEF GoesOn, HasCompensations, Forwards, Becomes, Busy,
           LogWriteFailsAlone
  <2>4. PassedKnown(s)'
    BY <1>0, <1>1, <1>2, <1>3 DEF PassedKnown, Passed, Forwards, IsCompleted,
           IsPending, Becomes, Busy, LogWriteFailsAlone
  <2>5. DoneKnown(s)'
    BY <1>0, <1>1, <1>2, <1>3 DEF DoneKnown, IsCompleted, IsPending, Becomes, Busy,
           LogWriteFailsAlone
  <2>6. UndoesLast(s)'
    BY <1>0, <1>1, <1>2, <1>3 DEF UndoesLast, Becomes, Busy, LogWriteFailsAlone
  <2>7. RowKnown(s)'
    BY <1>0, <1>1, <1>2, <1>3 DEF RowKnown, GoesOn, Forwards, Undoes, Becomes, Busy,
           LogWriteFailsAlone
  <2>8. RowLogged(s)'
    BY <1>0, <1>1, <1>2, <1>3 DEF RowLogged, IsPending, Becomes, Busy,
           LogWriteFailsAlone
  <2>9. UndoesSome(s)'
    BY <1>0, <1>1, <1>2, <1>3 DEF UndoesSome, HasCompensations, Undoes, Becomes, Busy,
           LogWriteFailsAlone
  <2>10. NoneLeft(s)'
    BY <1>0, <1>1, <1>2, <1>3 DEF NoneLeft, GoesOn, Forwards, Undoes, HasCompensations,
           Becomes, Busy, LogWriteFailsAlone
  <2> QED BY <2>1, <2>2, <2>3, <2>4, <2>5, <2>6, <2>7, <2>8, <2>9, <2>10 DEF RunKnown
<1>5. LogKnown(s)'
  <2>1. CompEvident(s)'
    BY <1>0, <1>1, <1>2, <1>3 DEF CompEvident, DoneKnown, Evident, IsCompleted,
           IsPending, Becomes, Busy, LogWriteFailsAlone
  <2>2. CompCompleted(s)'
    BY <1>0, <1>1, <1>2, <1>3 DEF CompCompleted, DoneKnown, UndoesLast, IsCompleted,
           Becomes, Busy, LogWriteFailsAlone
  <2>3. PendingFirst(s)'
    BY <1>0, <1>1, <1>2, <1>3 DEF PendingFirst, CallsOnce, PassedKnown, Passed,
           DoneKnown, GoesOn, Forwards, HasCompensations, IsCompleted, IsPending,
           Becomes, Busy, LogWriteFailsAlone
  <2>4. PendingAlone(s)'
    BY <1>0, <1>1, <1>2, <1>3 DEF PendingAlone, IsPending, Becomes, Busy,
           LogWriteFailsAlone
  <2>5. InOrder(s)'
    BY <1>0, <1>1, <1>2, <1>3 DEF InOrder, PassedKnown, Passed, Forwards, Evident,
           IsCompleted, IsPending, Becomes, Busy, LogWriteFailsAlone
  <2> QED BY <2>1, <2>2, <2>3, <2>4, <2>5 DEF LogKnown
<1> QED BY <1>4, <1>5 DEF SagaLog

(* A compensation is marked done.                                          *)
LEMMA CompensatedLog ==
    ASSUME SagaInv, NEW s \in Sagas, SagaLog(s), MarkCompensated(s),
           LogWriteFailsAlone, LogWriteFailsAlone'
    PROVE  SagaLog(s)'
<1>0. /\ Rests(s) /\ CallsOnce(s) /\ GoesOn(s) /\ PassedKnown(s) /\ DoneKnown(s)
      /\ UndoesLast(s) /\ RowKnown(s) /\ RowLogged(s) /\ UndoesSome(s) /\ NoneLeft(s)
      /\ CompEvident(s) /\ CompCompleted(s) /\ PendingFirst(s) /\ PendingAlone(s)
      /\ InOrder(s)
  BY DEF SagaLog, RunKnown, LogKnown
<1>1. Becomes(s, "undo", run[s].at, run[s].done \ {run[s].at}, run[s].error, run[s].row)
  BY LastOfRun, StepNumbers, RunEffects DEF SagaInv
<1>2. run[s].pc = "unmark" /\ UNCHANGED <<fwd, faults>>
  BY DEF MarkCompensated
<1>3. /\ run[s].at \in {0} \cup Steps(s) /\ run[s].done \subseteq Steps(s)
      /\ Steps(s) \subseteq Nat
      /\ run[s].pc \in Busy => run[s].at \in Steps(s)
      /\ run[s].row # None => run[s].row[2] \in Steps(s)
      /\ \A k \in Steps(s) : k >= 1
  BY StepNumbers DEF SagaInv, OnStep
<1>4. CompSet(s, run[s].at, "compensated")
  BY LogEffects DEF Refused
<1>5. RunKnown(s)'
  <2>1. Rests(s)'
    BY <1>0, <1>1, <1>2, <1>3, <1>4 DEF Rests, Becomes, Busy, CompSet,
           LogWriteFailsAlone
  <2>2. CallsOnce(s)'
    BY <1>0, <1>1, <1>2, <1>3, <1>4 DEF CallsOnce, IsCompleted, Becomes, Busy, CompSet,
           LogWriteFailsAlone
  <2>3. GoesOn(s)'
    BY <1>0, <1>1, <1>2, <1>3, <1>4 DEF GoesOn, HasCompensations, Forwards, Becomes,
           Busy, CompSet, LogWriteFailsAlone
  <2>4. PassedKnown(s)'
    BY <1>0, <1>1, <1>2, <1>3, <1>4 DEF PassedKnown, Passed, Forwards, IsCompleted,
           IsPending, Becomes, Busy, CompSet, LogWriteFailsAlone
  <2>5. DoneKnown(s)'
    BY <1>0, <1>1, <1>2, <1>3, <1>4 DEF DoneKnown, IsCompleted, IsPending, Becomes,
           Busy, CompSet, LogWriteFailsAlone
  <2>6. UndoesLast(s)'
    BY <1>0, <1>1, <1>2, <1>3, <1>4 DEF UndoesLast, Becomes, Busy, CompSet,
           LogWriteFailsAlone
  <2>7. RowKnown(s)'
    BY <1>0, <1>1, <1>2, <1>3, <1>4 DEF RowKnown, GoesOn, Forwards, Undoes, Becomes,
           Busy, CompSet, LogWriteFailsAlone
  <2>8. RowLogged(s)'
    BY <1>0, <1>1, <1>2, <1>3, <1>4 DEF RowLogged, IsPending, Becomes, Busy, CompSet,
           LogWriteFailsAlone
  <2>9. UndoesSome(s)'
    BY <1>0, <1>1, <1>2, <1>3, <1>4 DEF UndoesSome, HasCompensations, Undoes, Becomes,
           Busy, CompSet, LogWriteFailsAlone
  <2>10. NoneLeft(s)'
    BY <1>0, <1>1, <1>2, <1>3, <1>4 DEF NoneLeft, GoesOn, Forwards, Undoes,
           HasCompensations, Becomes, Busy, CompSet, LogWriteFailsAlone
  <2> QED BY <2>1, <2>2, <2>3, <2>4, <2>5, <2>6, <2>7, <2>8, <2>9, <2>10 DEF RunKnown
<1>6. LogKnown(s)'
  <2>1. CompEvident(s)'
    BY <1>0, <1>1, <1>2, <1>3, <1>4 DEF CompEvident, DoneKnown, Evident, IsCompleted,
           IsPending, UndoesLast, Becomes, Busy, CompSet, LogWriteFailsAlone
  <2>2. CompCompleted(s)'
    BY <1>0, <1>1, <1>2, <1>3, <1>4 DEF CompCompleted, DoneKnown, UndoesLast,
           IsCompleted, Becomes, Busy, CompSet, LogWriteFailsAlone
  <2>3. PendingFirst(s)'
    BY <1>0, <1>1, <1>2, <1>3, <1>4 DEF PendingFirst, CallsOnce, PassedKnown, Passed,
           DoneKnown, GoesOn, Forwards, HasCompensations, IsCompleted, IsPending,
           UndoesLast, Becomes, Busy, CompSet, LogWriteFailsAlone
  <2>4. PendingAlone(s)'
    BY <1>0, <1>1, <1>2, <1>3, <1>4 DEF PendingAlone, IsPending, Becomes, Busy,
           CompSet, LogWriteFailsAlone
  <2>5. InOrder(s)'
    BY <1>0, <1>1, <1>2, <1>3, <1>4 DEF InOrder, PassedKnown, Passed, Forwards,
           Evident, IsCompleted, IsPending, Becomes, Busy, CompSet, LogWriteFailsAlone
  <2> QED BY <2>1, <2>2, <2>3, <2>4, <2>5 DEF LogKnown
<1> QED BY <1>5, <1>6 DEF SagaLog

-----------------------------------------------------------------------------
(* What the end of a run, the cron and a crash leave in the log *)

(* A Backward that fails is not met with a failing write of the log.       *)
LEMMA FailedBackLog ==
    ASSUME SagaInv, NEW s \in Sagas, SagaLog(s), LogWriteFailsAlone, LogWriteFailsAlone',
           BackwardFailed(s), faults' = [faults EXCEPT !.back = @ + 1]
    PROVE  SagaLog(s)'
<1>0. /\ Rests(s) /\ CallsOnce(s) /\ GoesOn(s) /\ PassedKnown(s) /\ DoneKnown(s)
      /\ UndoesLast(s) /\ RowKnown(s) /\ RowLogged(s) /\ UndoesSome(s) /\ NoneLeft(s)
      /\ CompEvident(s) /\ CompCompleted(s) /\ PendingFirst(s) /\ PendingAlone(s)
      /\ InOrder(s)
  BY DEF SagaLog, RunKnown, LogKnown
<1>1. Becomes(s, "undo", run[s].at, run[s].done \ {run[s].at}, TRUE, run[s].row)
  BY LastOfRun, StepNumbers, RunEffects DEF SagaInv
<1>2. /\ run[s].pc = "back" /\ UNCHANGED fwd /\ faults.mark = 0 /\ faults'.mark = 0
      /\ faults'.back # 0 /\ faults'.crash = faults.crash
  BY DEF BackwardFailed, SagaInv, LogTyped, Faults, LogWriteFailsAlone
<1>3. /\ run[s].at \in {0} \cup Steps(s) /\ run[s].done \subseteq Steps(s)
      /\ Steps(s) \subseteq Nat
      /\ run[s].pc \in Busy => run[s].at \in Steps(s)
      /\ run[s].row # None => run[s].row[2] \in Steps(s)
      /\ \A k \in Steps(s) : k >= 1
  BY StepNumbers DEF SagaInv, OnStep
<1>4. CompSet(s, run[s].at, "compensating")
  BY LogEffects
<1>5. RunKnown(s)'
  <2>1. Rests(s)'
    BY <1>0, <1>1, <1>2, <1>3, <1>4 DEF Rests, Becomes, Busy, CompSet
  <2>2. CallsOnce(s)'
    BY <1>0, <1>1, <1>2, <1>3, <1>4 DEF CallsOnce, IsCompleted, Becomes, Busy, CompSet
  <2>3. GoesOn(s)'
    BY <1>0, <1>1, <1>2, <1>3, <1>4 DEF GoesOn, HasCompensations, Forwards, Becomes,
           Busy, CompSet
  <2>4. PassedKnown(s)'
    BY <1>0, <1>1, <1>2, <1>3, <1>4 DEF PassedKnown, Passed, Forwards, IsCompleted,
           IsPending, Becomes, Busy, CompSet
  <2>5. DoneKnown(s)'
    BY <1>0, <1>1, <1>2, <1>3, <1>4 DEF DoneKnown, IsCompleted, IsPending, Becomes,
           Busy, CompSet
  <2>6. UndoesLast(s)'
    BY <1>0, <1>1, <1>2, <1>3, <1>4 DEF UndoesLast, Becomes, Busy, CompSet
  <2>7. RowKnown(s)'
    BY <1>0, <1>1, <1>2, <1>3, <1>4 DEF RowKnown, GoesOn, Forwards, Undoes, Becomes,
           Busy, CompSet
  <2>8. RowLogged(s)'
    BY <1>0, <1>1, <1>2, <1>3, <1>4 DEF RowLogged, IsPending, Becomes, Busy, CompSet
  <2>9. UndoesSome(s)'
    BY <1>0, <1>1, <1>2, <1>3, <1>4 DEF UndoesSome, HasCompensations, Undoes, Becomes,
           Busy, CompSet
  <2>10. NoneLeft(s)'
    BY <1>0, <1>1, <1>2, <1>3, <1>4 DEF NoneLeft, GoesOn, Forwards, Undoes,
           HasCompensations, Becomes, Busy, CompSet
  <2> QED BY <2>1, <2>2, <2>3, <2>4, <2>5, <2>6, <2>7, <2>8, <2>9, <2>10 DEF RunKnown
<1>6. LogKnown(s)'
  <2>1. CompEvident(s)'
    BY <1>0, <1>1, <1>2, <1>3, <1>4 DEF CompEvident, DoneKnown, Evident, IsCompleted,
           IsPending, UndoesLast, Becomes, Busy, CompSet
  <2>2. CompCompleted(s)'
    BY <1>0, <1>1, <1>2, <1>3, <1>4 DEF CompCompleted, DoneKnown, UndoesLast,
           IsCompleted, Becomes, Busy, CompSet
  <2>3. PendingFirst(s)'
    BY <1>0, <1>1, <1>2, <1>3, <1>4 DEF PendingFirst, CallsOnce, PassedKnown, Passed,
           DoneKnown, GoesOn, Forwards, HasCompensations, IsCompleted, IsPending,
           UndoesLast, Becomes, Busy, CompSet
  <2>4. PendingAlone(s)'
    BY <1>0, <1>1, <1>2, <1>3, <1>4 DEF PendingAlone, IsPending, Becomes, Busy, CompSet
  <2>5. InOrder(s)'
    BY <1>0, <1>1, <1>2, <1>3, <1>4 DEF InOrder, PassedKnown, Passed, Forwards,
           Evident, IsCompleted, IsPending, Becomes, Busy, CompSet
  <2> QED BY <2>1, <2>2, <2>3, <2>4, <2>5 DEF LogKnown
<1> QED BY <1>5, <1>6 DEF SagaLog

(* A recovery run without errors closes the row it was started for.        *)
LEMMA ReturnLog ==
    ASSUME SagaInv, NEW s \in Sagas, SagaLog(s), LogWriteFailsAlone, LogWriteFailsAlone',
           Return(s)
    PROVE  SagaLog(s)'
<1>0. /\ Rests(s) /\ CallsOnce(s) /\ GoesOn(s) /\ PassedKnown(s) /\ DoneKnown(s)
      /\ UndoesLast(s) /\ RowKnown(s) /\ RowLogged(s) /\ UndoesSome(s) /\ NoneLeft(s)
      /\ CompEvident(s) /\ CompCompleted(s) /\ PendingFirst(s) /\ PendingAlone(s)
      /\ InOrder(s)
  BY DEF SagaLog, RunKnown, LogKnown
<1>1. Becomes(s, "idle", 0, {}, FALSE, None)
  BY LastOfRun, StepNumbers, RunEffects DEF SagaInv
<1>2. /\ run[s].pc = "return" \/ (run[s].pc = "undo" /\ run[s].done = {})
      /\ UNCHANGED faults
  BY DEF Return
<1>3. /\ run[s].at \in {0} \cup Steps(s) /\ run[s].done \subseteq Steps(s)
      /\ Steps(s) \subseteq Nat
      /\ run[s].pc \in Busy => run[s].at \in Steps(s)
      /\ run[s].row # None => run[s].row[2] \in Steps(s)
      /\ \A k \in Steps(s) : k >= 1
  BY StepNumbers DEF SagaInv, OnStep
<1>4. \/ UNCHANGED <<fwd, comp>>
      \/ /\ run[s].row # None /\ ~run[s].error /\ run[s].row[1] = "fwd" /\ UNCHANGED comp
         /\ FwdSet(s, run[s].row[2], (fwd[s][run[s].row[2]] \ {"pending"}) \cup {"completed"})
      \/ /\ run[s].row # None /\ ~run[s].error /\ run[s].row[1] = "comp" /\ UNCHANGED fwd
         /\ CompSet(s, run[s].row[2], "compensated")
  <2>1. run[s].row # None => run[s].row \in LogRow
    BY DEF SagaInv, RunTyped, Run
  <2>2. run[s].row # None => run[s].row[1] \in {"fwd", "comp"}
    BY <2>1 DEF LogRow
  <2>3. CASE run[s].row = None \/ run[s].error
    BY <2>3 DEF Return
  <2>4. CASE ~(run[s].row = None \/ run[s].error)
    BY <1>3, <2>2, <2>4, LogEffects DEF Return
  <2> QED BY <2>3, <2>4
<1>5. RunKnown(s)'
  <2>1. Rests(s)'
    BY <1>0, <1>1, <1>2, <1>3, <1>4 DEF Rests, Becomes, FwdSet, CompSet
  <2>2. CallsOnce(s)'
    BY <1>0, <1>1, <1>2, <1>3, <1>4 DEF CallsOnce, IsCompleted, Becomes, FwdSet,
           CompSet
  <2>3. GoesOn(s)'
    BY <1>0, <1>1, <1>2, <1>3, <1>4 DEF GoesOn, HasCompensations, Forwards, Becomes,
           FwdSet, CompSet
  <2>4. PassedKnown(s)'
    BY <1>0, <1>1, <1>2, <1>3, <1>4 DEF PassedKnown, Passed, Forwards, IsCompleted,
           IsPending, Becomes, FwdSet, CompSet
  <2>5. DoneKnown(s)'
    BY <1>0, <1>1, <1>2, <1>3, <1>4 DEF DoneKnown, IsCompleted, IsPending, Becomes,
           FwdSet, CompSet
  <2>6. UndoesLast(s)'
    BY <1>0, <1>1, <1>2, <1>3, <1>4 DEF UndoesLast, Becomes, FwdSet, CompSet
  <2>7. RowKnown(s)'
    BY <1>0, <1>1, <1>2, <1>3, <1>4 DEF RowKnown, GoesOn, Forwards, Undoes, Becomes,
           FwdSet, CompSet
  <2>8. RowLogged(s)'
    BY <1>0, <1>1, <1>2, <1>3, <1>4 DEF RowLogged, IsPending, Becomes, FwdSet, CompSet
  <2>9. UndoesSome(s)'
    BY <1>0, <1>1, <1>2, <1>3, <1>4 DEF UndoesSome, HasCompensations, Undoes, Becomes,
           FwdSet, CompSet
  <2>10. NoneLeft(s)'
    BY <1>0, <1>1, <1>2, <1>3, <1>4 DEF NoneLeft, GoesOn, Forwards, Undoes,
           HasCompensations, Becomes, FwdSet, CompSet
  <2> QED BY <2>1, <2>2, <2>3, <2>4, <2>5, <2>6, <2>7, <2>8, <2>9, <2>10 DEF RunKnown
<1>6. LogKnown(s)'
  <2>1. CompEvident(s)'
    BY <1>0, <1>1, <1>2, <1>3, <1>4 DEF CompEvident, DoneKnown, Evident, IsCompleted,
           IsPending, RowKnown, Becomes, FwdSet, CompSet
  <2>2. CompCompleted(s)'
    BY <1>0, <1>1, <1>2, <1>3, <1>4 DEF CompCompleted, DoneKnown, UndoesLast,
           IsCompleted, Becomes, FwdSet, CompSet
  <2>3. PendingFirst(s)'
    BY <1>0, <1>1, <1>2, <1>3, <1>4 DEF PendingFirst, CallsOnce, PassedKnown, Passed,
           DoneKnown, GoesOn, Forwards, HasCompensations, IsCompleted, IsPending,
           RowKnown, Becomes, FwdSet, CompSet
  <2>4. PendingAlone(s)'
    BY <1>0, <1>1, <1>2, <1>3, <1>4 DEF PendingAlone, IsPending, Becomes, FwdSet,
           CompSet
  <2>5. InOrder(s)'
    BY <1>0, <1>1, <1>2, <1>3, <1>4 DEF InOrder, PassedKnown, Passed, Forwards,
           Evident, IsCompleted, IsPending, RowLogged, Becomes, FwdSet, CompSet
  <2> QED BY <2>1, <2>2, <2>3, <2>4, <2>5 DEF LogKnown
<1> QED BY <1>5, <1>6 DEF SagaLog

(* A saga is resumed, or its compensation is.                              *)
LEMMA RecoverLog ==
    ASSUME SagaInv, NEW s \in Sagas, SagaLog(s), LogWriteFailsAlone, LogWriteFailsAlone',
           NEW row \in Stuck(s), Recover(s, row)
    PROVE  SagaLog(s)'
<1>0. /\ Rests(s) /\ CallsOnce(s) /\ GoesOn(s) /\ PassedKnown(s) /\ DoneKnown(s)
      /\ UndoesLast(s) /\ RowKnown(s) /\ RowLogged(s) /\ UndoesSome(s) /\ NoneLeft(s)
      /\ CompEvident(s) /\ CompCompleted(s) /\ PendingFirst(s) /\ PendingAlone(s)
      /\ InOrder(s)
  BY DEF SagaLog, RunKnown, LogKnown
<1>1. \/ /\ HasCompensations(s)
         /\ Becomes(s, "undo", 0, {i \in Steps(s) : IsCompleted(s, i)}, FALSE, row)
      \/ ~HasCompensations(s) /\ Becomes(s, "record", 1, {}, FALSE, row)
  BY RecoverEffect
<1>2. run[s].pc = "idle" /\ UNCHANGED <<fwd, comp, faults>>
  BY DEF Recover, Recoverable
<1>3. /\ run[s].at \in {0} \cup Steps(s) /\ run[s].done \subseteq Steps(s)
      /\ Steps(s) \subseteq Nat
      /\ run[s].pc \in Busy => run[s].at \in Steps(s)
      /\ run[s].row # None => run[s].row[2] \in Steps(s)
      /\ \A k \in Steps(s) : k >= 1
  BY StepNumbers DEF SagaInv, OnStep
<1>4. /\ row[2] \in Steps(s)
      /\ \/ row[1] = "fwd" /\ "pending" \in fwd[s][row[2]]
         \/ row[1] = "comp" /\ comp[s][row[2]] = "compensating"
  BY StuckRows
<1>5. RunKnown(s)'
  <2>1. Rests(s)'
    BY <1>0, <1>1, <1>2, <1>3, <1>4 DEF Rests, Becomes
  <2>2. CallsOnce(s)'
    BY <1>0, <1>1, <1>2, <1>3, <1>4 DEF CallsOnce, IsCompleted, Becomes
  <2>3. GoesOn(s)'
    BY <1>0, <1>1, <1>2, <1>3, <1>4 DEF GoesOn, HasCompensations, Forwards, Becomes
  <2>4. PassedKnown(s)'
    BY <1>0, <1>1, <1>2, <1>3, <1>4 DEF PassedKnown, Passed, Forwards, IsCompleted,
           IsPending, Becomes
  <2>5. DoneKnown(s)'
    BY <1>0, <1>1, <1>2, <1>3, <1>4 DEF DoneKnown, IsCompleted, IsPending, Becomes
  <2>6. UndoesLast(s)'
    BY <1>0, <1>1, <1>2, <1>3, <1>4 DEF UndoesLast, Becomes
  <2>7. RowKnown(s)'
    BY <1>0, <1>1, <1>2, <1>3, <1>4 DEF RowKnown, GoesOn, Forwards, Undoes,
           HasCompensations, Becomes
  <2>8. RowLogged(s)'
    BY <1>0, <1>1, <1>2, <1>3, <1>4 DEF RowLogged, IsPending, CompEvident, Evident,
           IsCompleted, Becomes
  <2>9. UndoesSome(s)'
    BY <1>0, <1>1, <1>2, <1>3, <1>4 DEF UndoesSome, HasCompensations, Undoes, Becomes
  <2>10. NoneLeft(s)'
    BY <1>0, <1>1, <1>2, <1>3, <1>4 DEF NoneLeft, GoesOn, Forwards, Undoes,
           HasCompensations, CompCompleted, IsCompleted, Becomes
  <2> QED BY <2>1, <2>2, <2>3, <2>4, <2>5, <2>6, <2>7, <2>8, <2>9, <2>10 DEF RunKnown
<1>6. LogKnown(s)'
  <2>1. CompEvident(s)'
    BY <1>0, <1>1, <1>2, <1>3, <1>4 DEF CompEvident, DoneKnown, Evident, IsCompleted,
           IsPending, Becomes
  <2>2. CompCompleted(s)'
    BY <1>0, <1>1, <1>2, <1>3, <1>4 DEF CompCompleted, DoneKnown, UndoesLast,
           IsCompleted, Becomes
  <2>3. PendingFirst(s)'
    BY <1>0, <1>1, <1>2, <1>3, <1>4 DEF PendingFirst, CallsOnce, PassedKnown, Passed,
           DoneKnown, GoesOn, Forwards, HasCompensations, IsCompleted, IsPending,
           Becomes
  <2>4. PendingAlone(s)'
    BY <1>0, <1>1, <1>2, <1>3, <1>4 DEF PendingAlone, IsPending, Becomes
  <2>5. InOrder(s)'
    BY <1>0, <1>1, <1>2, <1>3, <1>4 DEF InOrder, PassedKnown, Passed, Forwards,
           Evident, IsCompleted, IsPending, Becomes
  <2> QED BY <2>1, <2>2, <2>3, <2>4, <2>5 DEF LogKnown
<1> QED BY <1>5, <1>6 DEF SagaLog

(* The recovery closes a row, or gives it up as a dead letter.             *)
LEMMA ClosedLog ==
    ASSUME SagaInv, NEW s \in Sagas, SagaLog(s), LogWriteFailsAlone, LogWriteFailsAlone',
           NEW row \in Stuck(s), RecoverNothing(s, row) \/ MarkDeadLetter(s, row)
    PROVE  SagaLog(s)'
<1>0. /\ Rests(s) /\ CallsOnce(s) /\ GoesOn(s) /\ PassedKnown(s) /\ DoneKnown(s)
      /\ UndoesLast(s) /\ RowKnown(s) /\ RowLogged(s) /\ UndoesSome(s) /\ NoneLeft(s)
      /\ CompEvident(s) /\ CompCompleted(s) /\ PendingFirst(s) /\ PendingAlone(s)
      /\ InOrder(s)
  BY DEF SagaLog, RunKnown, LogKnown
<1>1. run[s].pc = "idle" /\ UNCHANGED <<run, faults>>
  BY DEF RecoverNothing, MarkDeadLetter, Recoverable
<1>2. /\ row[2] \in Steps(s)
      /\ \/ row[1] = "fwd" /\ "pending" \in fwd[s][row[2]]
         \/ row[1] = "comp" /\ comp[s][row[2]] = "compensating"
  BY StuckRows
<1>3. /\ run[s].at \in {0} \cup Steps(s) /\ run[s].done \subseteq Steps(s)
      /\ Steps(s) \subseteq Nat
      /\ run[s].pc \in Busy => run[s].at \in Steps(s)
      /\ run[s].row # None => run[s].row[2] \in Steps(s)
      /\ \A k \in Steps(s) : k >= 1
  BY StepNumbers DEF SagaInv, OnStep
<1>4. \/ /\ UNCHANGED comp /\ "pending" \in fwd[s][row[2]]
         /\ \E x \in {"completed", "dead_letter"} :
               FwdSet(s, row[2], (fwd[s][row[2]] \ {"pending"}) \cup {x})
      \/ /\ UNCHANGED fwd /\ comp[s][row[2]] = "compensating"
         /\ \E x \in {"compensated", "dead_letter"} : CompSet(s, row[2], x)
  BY <1>2, LogEffects DEF RecoverNothing
<1>5. RunKnown(s)'
  <2>1. Rests(s)'
    BY <1>0, <1>1, <1>2, <1>3, <1>4 DEF Rests, FwdSet, CompSet
  <2>2. CallsOnce(s)'
    BY <1>0, <1>1, <1>2, <1>3, <1>4 DEF CallsOnce, IsCompleted, FwdSet, CompSet
  <2>3. GoesOn(s)'
    BY <1>0, <1>1, <1>2, <1>3, <1>4 DEF GoesOn, HasCompensations, Forwards, FwdSet,
           CompSet
  <2>4. PassedKnown(s)'
    BY <1>0, <1>1, <1>2, <1>3, <1>4 DEF PassedKnown, Passed, Forwards, IsCompleted,
           IsPending, FwdSet, CompSet
  <2>5. DoneKnown(s)'
    BY <1>0, <1>1, <1>2, <1>3, <1>4 DEF DoneKnown, IsCompleted, IsPending, Rests,
           FwdSet, CompSet
  <2>6. UndoesLast(s)'
    BY <1>0, <1>1, <1>2, <1>3, <1>4 DEF UndoesLast, FwdSet, CompSet
  <2>7. RowKnown(s)'
    BY <1>0, <1>1, <1>2, <1>3, <1>4 DEF RowKnown, GoesOn, Forwards, Undoes, FwdSet,
           CompSet
  <2>8. RowLogged(s)'
    BY <1>0, <1>1, <1>2, <1>3, <1>4 DEF RowLogged, IsPending, Rests, FwdSet, CompSet
  <2>9. UndoesSome(s)'
    BY <1>0, <1>1, <1>2, <1>3, <1>4 DEF UndoesSome, HasCompensations, Undoes, FwdSet,
           CompSet
  <2>10. NoneLeft(s)'
    BY <1>0, <1>1, <1>2, <1>3, <1>4 DEF NoneLeft, GoesOn, Forwards, Undoes,
           HasCompensations, FwdSet, CompSet
  <2> QED BY <2>1, <2>2, <2>3, <2>4, <2>5, <2>6, <2>7, <2>8, <2>9, <2>10 DEF RunKnown
<1>6. LogKnown(s)'
  <2>1. CompEvident(s)'
    BY <1>0, <1>1, <1>2, <1>3, <1>4 DEF CompEvident, DoneKnown, Evident, IsCompleted,
           IsPending, RowKnown, FwdSet, CompSet
  <2>2. CompCompleted(s)'
    BY <1>0, <1>1, <1>2, <1>3, <1>4 DEF CompCompleted, DoneKnown, UndoesLast,
           IsCompleted, FwdSet, CompSet
  <2>3. PendingFirst(s)'
    BY <1>0, <1>1, <1>2, <1>3, <1>4 DEF PendingFirst, CallsOnce, PassedKnown, Passed,
           DoneKnown, GoesOn, Forwards, HasCompensations, IsCompleted, IsPending,
           RowKnown, FwdSet, CompSet
  <2>4. PendingAlone(s)'
    BY <1>0, <1>1, <1>2, <1>3, <1>4 DEF PendingAlone, IsPending, FwdSet, CompSet
  <2>5. InOrder(s)'
    <3>1. \A k \in Steps(s) : (Evident(s, k) => Evident(s, k)') /\ (fwd[s][k] = {} => fwd'[s][k] = {})
      BY <1>2, <1>4 DEF Evident, IsCompleted, IsPending, FwdSet, CompSet
    <3> QED BY <1>0, <3>1 DEF InOrder
  <2> QED BY <2>1, <2>2, <2>3, <2>4, <2>5 DEF LogKnown
<1> QED BY <1>5, <1>6 DEF SagaLog

(* A crash is not met with a failing write of the log either.              *)
LEMMA CrashLog ==
    ASSUME SagaInv, NEW s \in Sagas, SagaLog(s), LogWriteFailsAlone, LogWriteFailsAlone',
           Crash
    PROVE  SagaLog(s)'
<1>0. /\ Rests(s) /\ CallsOnce(s) /\ GoesOn(s) /\ PassedKnown(s) /\ DoneKnown(s)
      /\ UndoesLast(s) /\ RowKnown(s) /\ RowLogged(s) /\ UndoesSome(s) /\ NoneLeft(s)
      /\ CompEvident(s) /\ CompCompleted(s) /\ PendingFirst(s) /\ PendingAlone(s)
      /\ InOrder(s)
  BY DEF SagaLog, RunKnown, LogKnown
<1>1. /\ run'[s].pc = "idle" /\ run'[s].at = 0 /\ run'[s].done = {}
      /\ run'[s].error = FALSE /\ run'[s].row = None /\ UNCHANGED comp
      /\ \A k \in Steps(s) :
           IF run[s].pc \in {"call", "mark"} /\ run[s].at = k
           THEN fwd'[s][k] = fwd[s][k] \cup {"pending"}
           ELSE fwd'[s][k] = fwd[s][k]
  BY CrashEffect
<1>2. faults.mark = 0 /\ faults'.mark = 0 /\ faults'.crash # 0
  <2>1. faults \in Faults /\ faults' = [faults EXCEPT !.crash = @ + 1]
    BY CrashEffect DEF SagaInv, LogTyped
  <2>2. faults'.crash = faults.crash + 1 /\ faults'.mark = faults.mark /\ faults.crash \in Nat
    BY <2>1 DEF Faults
  <2> QED BY <2>2 DEF LogWriteFailsAlone
<1>3. /\ run[s].at \in {0} \cup Steps(s) /\ run[s].done \subseteq Steps(s)
      /\ Steps(s) \subseteq Nat
      /\ run[s].pc \in Busy => run[s].at \in Steps(s)
      /\ run[s].row # None => run[s].row[2] \in Steps(s)
      /\ \A k \in Steps(s) : k >= 1
  BY StepNumbers DEF SagaInv, OnStep
<1>4. RunKnown(s)'
  <2>1. Rests(s)'
    BY <1>0, <1>1, <1>2, <1>3 DEF Rests, Busy
  <2>2. CallsOnce(s)'
    BY <1>0, <1>1, <1>2, <1>3 DEF CallsOnce, IsCompleted, Busy
  <2>3. GoesOn(s)'
    BY <1>0, <1>1, <1>2, <1>3 DEF GoesOn, HasCompensations, Forwards, Busy
  <2>4. PassedKnown(s)'
    BY <1>0, <1>1, <1>2, <1>3 DEF PassedKnown, Passed, Forwards, IsCompleted,
           IsPending, Busy
  <2>5. DoneKnown(s)'
    BY <1>0, <1>1, <1>2, <1>3 DEF DoneKnown, IsCompleted, IsPending, Busy
  <2>6. UndoesLast(s)'
    BY <1>0, <1>1, <1>2, <1>3 DEF UndoesLast, Busy
  <2>7. RowKnown(s)'
    BY <1>0, <1>1, <1>2, <1>3 DEF RowKnown, GoesOn, Forwards, Undoes, Busy
  <2>8. RowLogged(s)'
    BY <1>0, <1>1, <1>2, <1>3 DEF RowLogged, IsPending, Busy
  <2>9. UndoesSome(s)'
    BY <1>0, <1>1, <1>2, <1>3 DEF UndoesSome, HasCompensations, Undoes, Busy
  <2>10. NoneLeft(s)'
    BY <1>0, <1>1, <1>2, <1>3 DEF NoneLeft, GoesOn, Forwards, Undoes, HasCompensations,
           Busy
  <2> QED BY <2>1, <2>2, <2>3, <2>4, <2>5, <2>6, <2>7, <2>8, <2>9, <2>10 DEF RunKnown
<1>5. LogKnown(s)'
  <2>1. CompEvident(s)'
    BY <1>0, <1>1, <1>2, <1>3 DEF CompEvident, DoneKnown, Evident, IsCompleted,
           IsPending, Busy
  <2>2. CompCompleted(s)'
    BY <1>0, <1>1, <1>2, <1>3 DEF CompCompleted, DoneKnown, UndoesLast, IsCompleted,
           Busy
  <2>3. PendingFirst(s)'
    BY <1>0, <1>1, <1>2, <1>3 DEF PendingFirst, CallsOnce, PassedKnown, Passed,
           DoneKnown, GoesOn, Forwards, HasCompensations, IsCompleted, IsPending, Busy
  <2>4. PendingAlone(s)'
    BY <1>0, <1>1, <1>2, <1>3 DEF PendingAlone, IsPending, Busy
  <2>5. InOrder(s)'
    BY <1>0, <1>1, <1>2, <1>3 DEF InOrder, PassedKnown, Passed, Forwards, Evident,
           IsCompleted, IsPending, Busy
  <2> QED BY <2>1, <2>2, <2>3, <2>4, <2>5 DEF LogKnown
<1> QED BY <1>4, <1>5 DEF SagaLog

(* A step of another saga leaves the log of this one as it is.             *)
LEMMA OtherLog ==
    ASSUME SagaInv, NEW s \in Sagas, SagaLog(s), LogWriteFailsAlone, LogWriteFailsAlone',
           FaultsGrow, run'[s] = run[s], fwd'[s] = fwd[s], comp'[s] = comp[s]
    PROVE  SagaLog(s)'
<1>0. /\ Rests(s) /\ CallsOnce(s) /\ GoesOn(s) /\ PassedKnown(s) /\ DoneKnown(s)
      /\ UndoesLast(s) /\ RowKnown(s) /\ RowLogged(s) /\ UndoesSome(s) /\ NoneLeft(s)
      /\ CompEvident(s) /\ CompCompleted(s) /\ PendingFirst(s) /\ PendingAlone(s)
      /\ InOrder(s)
  BY DEF SagaLog, RunKnown, LogKnown
<1>1. /\ faults.mark = 1 => faults'.mark = 1
      /\ faults'.back = 0 => faults.back = 0
      /\ faults'.crash = 0 => faults.crash = 0
  BY DEF SagaInv, LogTyped, Faults, FaultsGrow, LogWriteFailsAlone
<1>2. run'[s] = run[s] /\ fwd'[s] = fwd[s] /\ comp'[s] = comp[s]
  OBVIOUS
<1>3. RunKnown(s)'
  <2>1. Rests(s)'
    BY <1>0, <1>1, <1>2 DEF Rests
  <2>2. CallsOnce(s)'
    BY <1>0, <1>1, <1>2 DEF CallsOnce, IsCompleted
  <2>3. GoesOn(s)'
    BY <1>0, <1>1, <1>2 DEF GoesOn, HasCompensations, Forwards
  <2>4. PassedKnown(s)'
    BY <1>0, <1>1, <1>2 DEF PassedKnown, Passed, Forwards, IsCompleted, IsPending
  <2>5. DoneKnown(s)'
    BY <1>0, <1>1, <1>2 DEF DoneKnown, IsCompleted, IsPending
  <2>6. UndoesLast(s)'
    BY <1>0, <1>1, <1>2 DEF UndoesLast
  <2>7. RowKnown(s)'
    BY <1>0, <1>1, <1>2 DEF RowKnown, GoesOn, Forwards, Undoes
  <2>8. RowLogged(s)'
    BY <1>0, <1>1, <1>2 DEF RowLogged, IsPending
  <2>9. UndoesSome(s)'
    BY <1>0, <1>1, <1>2 DEF UndoesSome, HasCompensations, Undoes
  <2>10. NoneLeft(s)'
    BY <1>0, <1>1, <1>2 DEF NoneLeft, GoesOn, Forwards, Undoes, HasCompensations
  <2> QED BY <2>1, <2>2, <2>3, <2>4, <2>5, <2>6, <2>7, <2>8, <2>9, <2>10 DEF RunKnown
<1>4. LogKnown(s)'
  <2>1. CompEvident(s)'
    BY <1>0, <1>1, <1>2 DEF CompEvident, DoneKnown, Evident, IsCompleted, IsPending
  <2>2. CompCompleted(s)'
    BY <1>0, <1>1, <1>2 DEF CompCompleted, DoneKnown, UndoesLast, IsCompleted
  <2>3. PendingFirst(s)'
    BY <1>0, <1>1, <1>2 DEF PendingFirst, CallsOnce, PassedKnown, Passed, DoneKnown,
           GoesOn, Forwards, HasCompensations, IsCompleted, IsPending
  <2>4. PendingAlone(s)'
    BY <1>0, <1>1, <1>2 DEF PendingAlone, IsPending
  <2>5. InOrder(s)'
    BY <1>0, <1>1, <1>2 DEF InOrder, PassedKnown, Passed, Forwards, Evident,
           IsCompleted, IsPending
  <2> QED BY <2>1, <2>2, <2>3, <2>4, <2>5 DEF LogKnown
<1> QED BY <1>3, <1>4 DEF SagaLog

-----------------------------------------------------------------------------
(* Every step keeps what is known of every log *)

(* A step of one saga leaves the run and the log of the others as they are. *)
LEMMA Elsewhere ==
    ASSUME SagaInv, NEW s \in Sagas, RunStep(s) \/ CronStep(s), NEW u \in Sagas \ {s}
    PROVE  run'[u] = run[u] /\ fwd'[u] = fwd[u] /\ comp'[u] = comp[u]
<1>1. run \in [Sagas -> Run] /\ DOMAIN fwd = Sagas /\ DOMAIN comp = Sagas
  BY DEF SagaInv, RunTyped, LogTyped, FwdTyped, CompTyped
<1>2. CASE RunStep(s)
  <2>1. run'[u] = run[u]
    BY <1>1, <1>2 DEF RunStep, Execute, SkipCompleted, RecordForward, ForwardDone,
          Refused,
       ForwardFailed, MarkCompleted, MarkCompletedFails, RecordCompensation, BackwardDone,
       MarkCompensated, NotUndone, BackwardFailed, Return, Advance
  <2>2. fwd'[u] = fwd[u]
    BY <1>1, <1>2 DEF RunStep, Execute, SkipCompleted, RecordForward, ForwardDone,
          Refused,
       ForwardFailed, MarkCompleted, MarkCompletedFails, RecordCompensation, BackwardDone,
       MarkCompensated, NotUndone, BackwardFailed, Return, Closed
  <2>3. comp'[u] = comp[u]
    BY <1>1, <1>2 DEF RunStep, Execute, SkipCompleted, RecordForward, ForwardDone,
          Refused,
       ForwardFailed, MarkCompleted, MarkCompletedFails, RecordCompensation, BackwardDone,
       MarkCompensated, NotUndone, BackwardFailed, Return, Closed
  <2> QED BY <2>1, <2>2, <2>3
<1>3. CASE CronStep(s)
  <2>1. run'[u] = run[u]
    BY <1>1, <1>3 DEF CronStep, Recover, RecoverNothing, RecoverRefused, MarkDeadLetter
  <2>2. fwd'[u] = fwd[u]
    BY <1>1, <1>3 DEF CronStep, Recover, RecoverNothing, RecoverRefused,
          MarkDeadLetter, Closed
  <2>3. comp'[u] = comp[u]
    BY <1>1, <1>3 DEF CronStep, Recover, RecoverNothing, RecoverRefused,
          MarkDeadLetter, Closed
  <2> QED BY <2>1, <2>2, <2>3
<1> QED BY <1>2, <1>3

(* Every step of a saga keeps what is known of its log.  A Backward fails  *)
(* only as a fault.                                                        *)
LEMMA OwnLog ==
    ASSUME SagaInv, NEW s \in Sagas, SagaLog(s), RunStep(s) \/ CronStep(s),
           LogWriteFailsAlone, LogWriteFailsAlone',
           BackwardFailed(s) => faults' = [faults EXCEPT !.back = @ + 1]
    PROVE  SagaLog(s)'
<1>1. CASE RunStep(s)
  BY <1>1, ExecuteLog, SkipLog, RecordLog, ForwardLog, RefusedLog, MarkedLog,
        UnmarkedLog,
     CompensationLog, BackwardLog, CompensatedLog, FailedBackLog, ReturnLog
     DEF RunStep, NotUndone
<1>2. CASE CronStep(s)
  <2>1. PICK row \in Stuck(s) : \/ Recover(s, row) \/ RecoverNothing(s, row)
                                \/ RecoverRefused(s, row) \/ MarkDeadLetter(s, row)
    BY <1>2 DEF CronStep
  <2>2. FaultsGrow
    BY <1>2, CronStepKeeps
  <2>3. CASE RecoverRefused(s, row)
    BY <2>2, <2>3, OtherLog DEF RecoverRefused
  <2> QED BY <2>1, <2>3, RecoverLog, ClosedLog
<1> QED BY <1>1, <1>2

(* A Backward of an exercise finds its contract.                           *)
LEMMA BackFails ==
    ASSUME NEW s \in Sagas, BackwardRefused(s), run[s].pc = "back" => Exists \/ s = AcceptSaga,
           SagaInv
    PROVE  faults' = [faults EXCEPT !.back = @ + 1]
<1>1. run[s].pc = "back" /\ run[s].at \in Steps(s)
  BY DEF BackwardRefused, BackwardFailed, SagaInv, OnStep, Busy
<1>2. s = AcceptSaga => StepOf(s) # "mark_contract_exercised"
  <2>1. s = AcceptSaga => run[s].at \in 1..4
    BY <1>1, StepNumbers
  <2> QED BY <2>1 DEF StepOf, StepName, AcceptSteps
<1>3. CanBackward(StepOf(s))
  BY <1>1, <1>2 DEF CanBackward
<1> QED BY <1>3 DEF BackwardRefused

(* A step of the system keeps what is known of every log.                  *)
LEMMA LogStep ==
    ASSUME SagaInv, [Next]_vars, LogWriteFailsAlone, LogWriteFailsAlone',
           \A s \in Sagas : SagaLog(s), (\E e \in Attempts : Started(e)) => Exists
    PROVE  \A s \in Sagas : SagaLog(s)'
<1>1. FaultsGrow /\ SagaInv'
  BY NextMoves, SagaMoves
<1>2. ASSUME NEW s \in Sagas, BackwardRefused(s)
      PROVE  faults' = [faults EXCEPT !.back = @ + 1]
  <2>1. run[s].pc = "back" => Started(s)
    BY DEF Started
  <2>2. s \in Attempts \/ s = AcceptSaga
    BY OtcAssumption
  <2> QED BY <1>2, <2>1, <2>2, BackFails
<1>3. ASSUME NEW s \in Sagas,
             \/ MintContract(s) \/ CreateContract(s) \/ ExerciseContract(s)
             \/ Forward(s) \/ ForwardRefused(s) \/ ForwardLost(s)
             \/ Backward(s) \/ BackwardRefused(s) \/ ExecutorStep(s) \/ RecoverSaga(s)
      PROVE  \/ UNCHANGED sagaVars
             \/ /\ RunStep(s) \/ CronStep(s)
                /\ BackwardFailed(s) => faults' = [faults EXCEPT !.back = @ + 1]
  <2>1. CASE MintContract(s) \/ ExerciseContract(s)
    BY <2>1 DEF MintContract, ExerciseContract, RunStep, Execute, BackwardFailed,
          Started
  <2>2. CASE CreateContract(s)
    BY <2>2 DEF CreateContract
  <2>3. CASE Forward(s) \/ ForwardRefused(s) \/ ForwardLost(s)
    BY <2>3 DEF Forward, ForwardRefused, ForwardLost, RunStep, Refused, ForwardDone,
       ForwardFailed, BackwardFailed
  <2>4. CASE Backward(s)
    <3>1. BackwardDone(s) /\ DOMAIN run = Sagas /\ run[s] \in Run
      BY <2>4 DEF Backward, SagaInv, RunTyped
    <3>2. run'[s].pc = "unmark"
      BY <3>1, RunEffects, LastOfRun, StepNumbers DEF Becomes, SagaInv
    <3>3. BackwardFailed(s) => run'[s].pc = "undo"
      BY <3>1, RunEffects, LastOfRun, StepNumbers DEF Becomes, SagaInv
    <3> QED BY <3>1, <3>2, <3>3 DEF RunStep
  <2>5. CASE BackwardRefused(s)
    BY <1>2, <2>5 DEF BackwardRefused, RunStep, NotUndone
  <2>6. CASE ExecutorStep(s)
    <3>1. run[s].pc = "back" => FALSE
      BY <2>6 DEF ExecutorStep, SkipCompleted, RecordForward, MarkCompleted,
            MarkCompletedFails,
         RecordCompensation, MarkCompensated, Return, MarkDeadLetter, Recoverable
    <3> QED BY <2>6, <3>1 DEF ExecutorStep, RunStep, CronStep, BackwardFailed
  <2>7. CASE RecoverSaga(s)
    BY <2>7 DEF RecoverSaga, CronStep, BackwardFailed, Recover, RecoverNothing,
          RecoverRefused,
       Recoverable
  <2> QED BY <1>3, <2>1, <2>2, <2>3, <2>4, <2>5, <2>6, <2>7
<1>4. ASSUME UNCHANGED sagaVars PROVE \A u \in Sagas : SagaLog(u)'
  BY <1>1, <1>4, OtherLog DEF sagaVars
<1>5. ASSUME NEW s \in Sagas, RunStep(s) \/ CronStep(s),
             BackwardFailed(s) => faults' = [faults EXCEPT !.back = @ + 1]
      PROVE  \A u \in Sagas : SagaLog(u)'
  <2>1. SagaLog(s)'
    BY <1>5, OwnLog
  <2>2. ASSUME NEW u \in Sagas \ {s} PROVE SagaLog(u)'
    BY <1>1, <1>5, Elsewhere, OtherLog
  <2> QED BY <2>1, <2>2
<1>6. CASE ServiceCrash
  BY <1>6, CrashLog DEF ServiceCrash
<1>7. CASE DayPasses \/ ExpireRelease \/ ExpireSave \/ UNCHANGED vars
  BY <1>4, <1>7 DEF DayPasses, ExpireRelease, ExpireSave, vars
<1> QED BY <1>3, <1>4, <1>5, <1>6, <1>7 DEF Next

-----------------------------------------------------------------------------
(* What is known of the accept saga *)

AcceptDid(i) ==
    \/ i = 2 /\ Key("reserve", AcceptSaga) \in keys
    \/ i = 3 /\ Key("settle", AcceptSaga) \in keys
    \/ i = 4 /\ Key("premium-seller", Contract) \in keys
AcceptUndid(i) ==
    \/ i = 2 /\ Key("release", AcceptSaga) \in keys
    \/ i = 3 /\ Key("premium-comp-buyer", Contract) \in keys
(* Every step but m is completed. *)
Whole(m) == \A j \in {1, 2, 3, 4} : j # m => IsCompleted(AcceptSaga, j)

(* The answer of the step's call was lost; its Backward has failed.        *)
LostBy(s, i) == <<s, i>> \in lost
FailedBack(s, i) == <<s, i>> \in backErrors
HistoryGrows ==
    \A s, i : (LostBy(s, i) => LostBy(s, i)') /\ (FailedBack(s, i) => FailedBack(s, i)')

(* A step of the accept saga that is done, or about to be marked, was paid. *)
PaidIfDone ==
    \A i \in {2, 3, 4} :
        (\/ IsCompleted(AcceptSaga, i) \/ i \in run[AcceptSaga].done
         \/ run[AcceptSaga].pc = "mark" /\ run[AcceptSaga].at = i) => AcceptDid(i)
(* What was paid is in the log, or about to be, unless the answer was lost. *)
LoggedIfPaid ==
    \A i \in {2, 3, 4} : AcceptDid(i) =>
        \/ Evident(AcceptSaga, i) \/ LostBy(AcceptSaga, i)
        \/ run[AcceptSaga].pc = "mark" /\ run[AcceptSaga].at = i
(* Without a crash, a pending row is one whose step was done.              *)
PaidIfPending ==
    \A i \in {2, 3, 4} :
        faults.crash = 0 /\ IsPending(AcceptSaga, i) => AcceptDid(i)
(* A compensation that is done, or about to be marked, gave the money back, *)
(* unless it failed and the contract was deleted after it.                 *)
RefundedIfUndone ==
    \A i \in {2, 3} :
        /\ comp[AcceptSaga][i] = "compensated" => AcceptUndid(i) \/ FailedBack(AcceptSaga, i)
        /\ run[AcceptSaga].pc = "unmark" /\ run[AcceptSaga].at = i => AcceptUndid(i)
(* Money is given back by a compensation, of a step that was done.         *)
UndoneIfRefunded ==
    \A i \in {2, 3} :
        AcceptUndid(i) => comp[AcceptSaga][i] # "none" /\ AcceptDid(i)
(* A premium on hold was reserved and not released.                        *)
PremiumHeld ==
    premium = "active" => AcceptDid(2) /\ ~AcceptUndid(2)
(* Nothing is there before the accept saga has left a trace in the log.    *)
Begun ==
    fwd[AcceptSaga][1] = {} =>
        \/ run[AcceptSaga].pc = "idle" /\ contract = "none" /\ shares = "none"
        \/ /\ run[AcceptSaga].pc \in Forwards /\ run[AcceptSaga].at = 1
           /\ run[AcceptSaga].row = None
           /\ run[AcceptSaga].pc = "record" => contract = "none"
(* A first run starts with nothing in the log and no hold on the shares.   *)
Fresh ==
    (/\ run[AcceptSaga].pc \in {"record", "call"} /\ run[AcceptSaga].at = 1
     /\ run[AcceptSaga].row = None)
    => shares = "none" /\ \A j \in {1, 2, 3, 4} : fwd[AcceptSaga][j] = {}
(* An exercise finds the contract, and the accept saga at rest.            *)
ExercisedAfter ==
    (\E e \in Attempts : Started(e)) =>
        Exists /\ fwd[AcceptSaga][1] # {} /\ Settled(AcceptSaga)
(* Shares are consumed by an exercise the log knows of.                    *)
TakenByExercise ==
    shares = "settled" => \E e \in Attempts : fwd[e][1] # {}
(* Without a contract there is no hold on the shares.                      *)
NoHold ==
    ~Exists => shares \in {"none", "released"}
(* Before the contract is there, the first step is under way at most.      *)
NotFormed ==
    contract = "none" =>
        /\ ~HasCompensations(AcceptSaga)
        /\ run[AcceptSaga].done = {} /\ run[AcceptSaga].row = None
        /\ \/ run[AcceptSaga].pc = "idle"
           \/ run[AcceptSaga].pc \in {"record", "call"} /\ run[AcceptSaga].at = 1
(* A contract is in the log, or about to be.                               *)
Formed ==
    Exists => \/ Evident(AcceptSaga, 1)
              \/ run[AcceptSaga].pc \in {"call", "mark"} /\ run[AcceptSaga].at = 1
(* Without a contract and a compensation, no later step was tried.         *)
NothingPaid ==
    ~Exists /\ ~HasCompensations(AcceptSaga) =>
        \A j \in {2, 3, 4} : fwd[AcceptSaga][j] = {} /\ j \notin run[AcceptSaga].done
(* Deleting the contract is the last thing a rollback does.                *)
Gone ==
    contract = "deleted" =>
        \/ run[AcceptSaga].pc = "idle"
        \/ run[AcceptSaga].pc = "undo" /\ run[AcceptSaga].done = {}
        \/ /\ run[AcceptSaga].pc = "unmark" /\ run[AcceptSaga].at = 1
           /\ run[AcceptSaga].done = {1}
(* A rollback has left behind what it could not undo.                      *)
LeftBehind ==
    run[AcceptSaga].pc \in Undoes =>
        \A j \in {2, 3} :
            comp[AcceptSaga][j] = "compensating" /\ j \notin run[AcceptSaga].done =>
                AcceptUndid(j) \/ FailedBack(AcceptSaga, j)
(* A deleted contract has no refund left to do, but one that failed.       *)
GoneRefunded ==
    contract = "deleted" =>
        \A j \in {2, 3} : comp[AcceptSaga][j] = "compensating" =>
                              AcceptUndid(j) \/ FailedBack(AcceptSaga, j)
(* The compensation of the first step deletes the contract.                *)
GoneIfUndone ==
    (\/ comp[AcceptSaga][1] = "compensated"
     \/ run[AcceptSaga].pc = "unmark" /\ run[AcceptSaga].at = 1) => ~Exists
(* The credit of the seller is not compensated.                            *)
CreditKept ==
    comp[AcceptSaga][4] = "none"
(* Once the seller is credited, no rollback finds a step of its own run to *)
(* undo, unless the answer was lost.                                       *)
Credited ==
    AcceptDid(4) /\ ~LostBy(AcceptSaga, 4) =>
        /\ ~HasCompensations(AcceptSaga)
        /\ \A j \in {1, 2, 3} : Evident(AcceptSaga, j)
        /\ \/ run[AcceptSaga].pc = "mark" /\ run[AcceptSaga].at = 4
           \/ /\ \E m \in {1, 2, 3, 4} : Whole(m)
              /\ run[AcceptSaga].pc \in {"call", "mark", "undo", "back", "unmark"} =>
                    run[AcceptSaga].done = {}
              /\ run[AcceptSaga].pc = "record" =>
                    \/ run[AcceptSaga].done = {}
                    \/ \A j \in {1, 2, 3, 4} : j >= run[AcceptSaga].at =>
                                                 IsCompleted(AcceptSaga, j)

AcceptKnown ==
    /\ PaidIfDone /\ LoggedIfPaid /\ PaidIfPending /\ RefundedIfUndone
    /\ UndoneIfRefunded /\ PremiumHeld /\ Begun /\ Fresh /\ ExercisedAfter
    /\ TakenByExercise /\ NoHold /\ NotFormed /\ Formed /\ NothingPaid /\ Gone
    /\ GoneRefunded /\ GoneIfUndone /\ CreditKept /\ Credited /\ LeftBehind

-----------------------------------------------------------------------------
(* What the accept saga's steps find and leave *)

(* The accept saga has four steps, the last without a Backward.            *)
LEMMA AcceptSteps14 ==
    ASSUME SagaInv
    PROVE  /\ Steps(AcceptSaga) = {1, 2, 3, 4} /\ AcceptSaga \in Sagas
           /\ run[AcceptSaga].at \in {0, 1, 2, 3, 4} /\ run[AcceptSaga].done \subseteq {1, 2, 3, 4}
           /\ run[AcceptSaga].pc \in Busy => run[AcceptSaga].at \in {1, 2, 3, 4}
           /\ run[AcceptSaga].pc \in {"back", "unmark"} => run[AcceptSaga].at # 4
           /\ run[AcceptSaga].row # None => run[AcceptSaga].row[2] \in {1, 2, 3, 4}
<1>1. AcceptSaga \in Sagas /\ Len(AcceptSteps) = 4
  BY OtcAssumption DEF AcceptSteps
<1>2. Steps(AcceptSaga) = {1, 2, 3, 4}
  BY <1>1, StepNumbers
<1>3. <<AcceptSaga, 4>> \in NoBackward
  BY <1>1, OtcAssumption
<1> QED BY <1>1, <1>2, <1>3 DEF SagaInv, OnStep

(* The keys of the accept saga's steps are apart from each other, and from *)
(* those of an exercise.                                                   *)
LEMMA KeysApart ==
    /\ \A i : AcceptDoes(i) => /\ \A j \in {2, 3, 4} : AcceptDid(j)' <=> (AcceptDid(j) \/ j = i)
                              /\ \A j \in {2, 3} : AcceptUndid(j)' <=> AcceptUndid(j)
    /\ \A i : AcceptUndoes(i) => /\ \A j \in {2, 3, 4} : AcceptDid(j)' <=> AcceptDid(j)
                                /\ \A j \in {2, 3} : AcceptUndid(j)' <=> (AcceptUndid(j) \/ j = i)
    /\ \A e \in Attempts : \A i : ExerciseDoes(e, i) \/ ExerciseUndoes(e, i) =>
            /\ \A j \in {2, 3, 4} : AcceptDid(j)' <=> AcceptDid(j)
            /\ \A j \in {2, 3} : AcceptUndid(j)' <=> AcceptUndid(j)
    /\ UNCHANGED keys => /\ \A j \in {2, 3, 4} : AcceptDid(j)' <=> AcceptDid(j)
                         /\ \A j \in {2, 3} : AcceptUndid(j)' <=> AcceptUndid(j)
<1>1. \A e \in Attempts : e # AcceptSaga
  BY OtcAssumption
<1>2. \A i : AcceptDoes(i) => /\ \A j \in {2, 3, 4} : AcceptDid(j)' <=> (AcceptDid(j) \/ j = i)
                            /\ \A j \in {2, 3} : AcceptUndid(j)' <=> AcceptUndid(j)
  BY DEF AcceptDoes, AcceptDid, AcceptUndid, Key
<1>3. \A i : AcceptUndoes(i) => /\ \A j \in {2, 3, 4} : AcceptDid(j)' <=> AcceptDid(j)
                              /\ \A j \in {2, 3} : AcceptUndid(j)' <=> (AcceptUndid(j) \/ j = i)
  BY DEF AcceptUndoes, AcceptDid, AcceptUndid, Key
<1>4. \A e \in Attempts : \A i : ExerciseDoes(e, i) =>
            /\ \A j \in {2, 3, 4} : AcceptDid(j)' <=> AcceptDid(j)
            /\ \A j \in {2, 3} : AcceptUndid(j)' <=> AcceptUndid(j)
  BY <1>1 DEF ExerciseDoes, AcceptDid, AcceptUndid, Key
<1>5. \A e \in Attempts : \A i : ExerciseUndoes(e, i) =>
            /\ \A j \in {2, 3, 4} : AcceptDid(j)' <=> AcceptDid(j)
            /\ \A j \in {2, 3} : AcceptUndid(j)' <=> AcceptUndid(j)
  BY <1>1 DEF ExerciseUndoes, AcceptDid, AcceptUndid, Key
<1>6. UNCHANGED keys => /\ \A j \in {2, 3, 4} : AcceptDid(j)' <=> AcceptDid(j)
                        /\ \A j \in {2, 3} : AcceptUndid(j)' <=> AcceptUndid(j)
  BY DEF AcceptDid, AcceptUndid
<1> QED BY <1>2, <1>3, <1>4, <1>5, <1>6

NoneStarted == \A e \in Attempts : ~Started(e)

(* No exercise is under way while the accept saga moves.                   *)
LEMMA AcceptAlone ==
    ASSUME TypeInv, AcceptKnown, RunStep(AcceptSaga) \/ CronStep(AcceptSaga), FaultsGrow
    PROVE  NoneStarted /\ NoneStarted' /\ shares # "settled"
<1>1. ExercisedAfter /\ TakenByExercise /\ SagaInv /\ AcceptSaga \in Sagas
  BY OtcAssumption DEF AcceptKnown, TypeInv
<1>2. Steps(AcceptSaga) = {1, 2, 3, 4}
  BY <1>1, AcceptSteps14
<1>3. Settled(AcceptSaga) => fwd[AcceptSaga][1] = {}
  BY <1>2 DEF RunStep, Settled, CronStep, Execute, Started, SkipCompleted,
        RecordForward,
     ForwardDone, Refused, ForwardFailed, MarkCompleted, MarkCompletedFails,
     RecordCompensation, BackwardDone, MarkCompensated, NotUndone, BackwardFailed, Return
<1>4. NoneStarted
  BY <1>1, <1>3 DEF ExercisedAfter, NoneStarted
<1>5. \A e \in Attempts : e \in Sagas \ {AcceptSaga} /\ 1 \in Steps(e)
  BY OtcAssumption, StepNumbers
<1>6. ASSUME NEW e \in Attempts PROVE ~Started(e)'
  <2>1. run'[e] = run[e] /\ fwd'[e] = fwd[e]
    BY <1>1, <1>5, Elsewhere
  <2> QED BY <1>4, <2>1 DEF NoneStarted, Started
<1>7. shares # "settled"
  BY <1>1, <1>4, <1>5 DEF TakenByExercise, NoneStarted, Started
<1> QED BY <1>4, <1>6, <1>7 DEF NoneStarted

-----------------------------------------------------------------------------
(* The steps of the accept saga *)

(* The accept call starts its saga.                                        *)
LEMMA AcceptStarts ==
    ASSUME TypeInv, AcceptKnown, SagaLog(AcceptSaga), Restricted, Restricted',
           HistoryGrows,
           Execute(AcceptSaga), UNCHANGED <<contractVars, moneyVars, shareVars>>
    PROVE  AcceptKnown'
<1>0. /\ PaidIfDone /\ LoggedIfPaid /\ PaidIfPending /\ RefundedIfUndone
      /\ UndoneIfRefunded /\ PremiumHeld /\ Begun /\ Fresh /\ ExercisedAfter
      /\ TakenByExercise /\ NoHold /\ NotFormed /\ Formed /\ NothingPaid /\ Gone
      /\ GoneRefunded /\ GoneIfUndone /\ CreditKept /\ Credited
      /\ LeftBehind /\ HistoryGrows
  BY DEF AcceptKnown
<1>1. /\ Rests(AcceptSaga) /\ CallsOnce(AcceptSaga) /\ GoesOn(AcceptSaga)
      /\ PassedKnown(AcceptSaga) /\ DoneKnown(AcceptSaga)
      /\ UndoesLast(AcceptSaga) /\ RowKnown(AcceptSaga) /\ RowLogged(AcceptSaga)
      /\ UndoesSome(AcceptSaga) /\ NoneLeft(AcceptSaga)
      /\ CompEvident(AcceptSaga) /\ CompCompleted(AcceptSaga)
      /\ PendingFirst(AcceptSaga) /\ PendingAlone(AcceptSaga)
      /\ InOrder(AcceptSaga)
  BY DEF SagaLog, RunKnown, LogKnown
<1>2. /\ Steps(AcceptSaga) = {1, 2, 3, 4} /\ AcceptSaga \in Sagas
      /\ run[AcceptSaga].at \in {0, 1, 2, 3, 4} /\ run[AcceptSaga].done \subseteq {1, 2, 3, 4}
      /\ run[AcceptSaga].pc \in Busy => run[AcceptSaga].at \in {1, 2, 3, 4}
      /\ run[AcceptSaga].pc \in {"back", "unmark"} => run[AcceptSaga].at # 4
      /\ run[AcceptSaga].row # None => run[AcceptSaga].row[2] \in {1, 2, 3, 4}
  BY AcceptSteps14 DEF TypeInv
<1>3. Becomes(AcceptSaga, "record", 1, {}, FALSE, None)
  BY <1>2, LastOfRun, StepNumbers, RunEffects DEF TypeInv, SagaInv
<1>4. run[AcceptSaga].pc = "idle" /\ UNCHANGED <<fwd, comp, faults>>
      /\ \A k \in Steps(AcceptSaga) : fwd[AcceptSaga][k] = {}
  BY DEF Execute, Started
<1>5. NoneStarted /\ NoneStarted' /\ shares # "settled"
  BY <1>2, AcceptAlone, RunStepKeeps DEF RunStep, TypeInv
<1>6. UNCHANGED <<contract, premium, shares, keys>>
  BY DEF contractVars, moneyVars, shareVars
<1>7. /\ \A j \in {2, 3, 4} : AcceptDid(j)' <=> AcceptDid(j)
      /\ \A j \in {2, 3} : AcceptUndid(j)' <=> AcceptUndid(j)
  BY <1>6, KeysApart
<1>8. PaidIfDone'
  BY <1>0, <1>1, <1>2, <1>3, <1>4, <1>5, <1>6, <1>7 DEF PaidIfDone, IsCompleted,
         Becomes, Busy, NoneStarted
<1>9. LoggedIfPaid'
  BY <1>0, <1>1, <1>2, <1>3, <1>4, <1>5, <1>6, <1>7 DEF HistoryGrows, LoggedIfPaid, Evident,
         IsCompleted, IsPending, Becomes, Busy, NoneStarted
<1>10. PaidIfPending'
  BY <1>0, <1>1, <1>2, <1>3, <1>4, <1>5, <1>6, <1>7 DEF PaidIfPending, IsPending,
         Becomes, Busy, NoneStarted
<1>11. RefundedIfUndone'
  BY <1>0, <1>1, <1>2, <1>3, <1>4, <1>5, <1>6, <1>7 DEF HistoryGrows, RefundedIfUndone, Becomes,
         Busy, NoneStarted
<1>12. UndoneIfRefunded'
  BY <1>0, <1>1, <1>2, <1>3, <1>4, <1>5, <1>6, <1>7 DEF UndoneIfRefunded, Becomes,
         Busy, NoneStarted
<1>13. PremiumHeld'
  BY <1>0, <1>1, <1>2, <1>3, <1>4, <1>5, <1>6, <1>7 DEF PremiumHeld, UndoneIfRefunded,
         Becomes, Busy, NoneStarted
<1>14. Begun'
  BY <1>0, <1>1, <1>2, <1>3, <1>4, <1>5, <1>6, <1>7 DEF Begun, Forwards, Becomes, Busy,
         NoneStarted
<1>15. Fresh'
  BY <1>0, <1>1, <1>2, <1>3, <1>4, <1>5, <1>6, <1>7 DEF Fresh, Begun, Forwards,
         Becomes, Busy, NoneStarted
<1>16. ExercisedAfter'
  BY <1>0, <1>1, <1>2, <1>3, <1>4, <1>5, <1>6, <1>7 DEF ExercisedAfter, Becomes, Busy,
         NoneStarted
<1>17. TakenByExercise'
  BY <1>0, <1>1, <1>2, <1>3, <1>4, <1>5, <1>6, <1>7 DEF TakenByExercise, Becomes, Busy,
         NoneStarted
<1>18. NoHold'
  BY <1>0, <1>1, <1>2, <1>3, <1>4, <1>5, <1>6, <1>7 DEF NoHold, Exists, Becomes, Busy,
         NoneStarted
<1>19. NotFormed'
  BY <1>0, <1>1, <1>2, <1>3, <1>4, <1>5, <1>6, <1>7 DEF NotFormed, HasCompensations,
         Begun, Becomes, Busy, NoneStarted
<1>20. Formed'
  BY <1>0, <1>1, <1>2, <1>3, <1>4, <1>5, <1>6, <1>7 DEF Formed, Exists, Evident,
         IsCompleted, IsPending, Begun, Forwards, Becomes, Busy, NoneStarted
<1>21. NothingPaid'
  BY <1>0, <1>1, <1>2, <1>3, <1>4, <1>5, <1>6, <1>7 DEF NothingPaid, Exists,
         HasCompensations, NotFormed, Gone, Becomes, Busy, NoneStarted
<1>22. Gone'
  BY <1>0, <1>1, <1>2, <1>3, <1>4, <1>5, <1>6, <1>7 DEF Gone, Begun, Forwards, Becomes,
         Busy, NoneStarted
<1>23. GoneRefunded'
  BY <1>0, <1>1, <1>2, <1>3, <1>4, <1>5, <1>6, <1>7 DEF HistoryGrows, GoneRefunded, Gone, Becomes,
         Busy, NoneStarted
<1>24. GoneIfUndone'
  BY <1>0, <1>1, <1>2, <1>3, <1>4, <1>5, <1>6, <1>7 DEF GoneIfUndone, Exists, Becomes,
         Busy, NoneStarted
<1>25. CreditKept'
  BY <1>0, <1>1, <1>2, <1>3, <1>4, <1>5, <1>6, <1>7 DEF CreditKept, Becomes, Busy,
         NoneStarted
<1>26. Credited'
  BY <1>0, <1>1, <1>2, <1>3, <1>4, <1>5, <1>6, <1>7 DEF HistoryGrows, Credited, Whole,
         HasCompensations, Evident, IsCompleted, IsPending, Becomes, Busy, NoneStarted
<1>27. LeftBehind'
  BY <1>0, <1>1, <1>2, <1>3, <1>4, <1>5, <1>6, <1>7 DEF LeftBehind, Undoes, GoesOn,
         HasCompensations, CompCompleted, HistoryGrows, Becomes, Busy, NoneStarted
<1> QED
  BY <1>8, <1>9, <1>10, <1>11, <1>12, <1>13, <1>14, <1>15, <1>16, <1>17, <1>18,
     <1>19, <1>20, <1>21, <1>22, <1>23, <1>24, <1>25, <1>26, <1>27 DEF AcceptKnown

(* A step that is not completed is called.                                 *)
LEMMA AcceptRecords ==
    ASSUME TypeInv, AcceptKnown, SagaLog(AcceptSaga), Restricted, Restricted',
           HistoryGrows,
           RecordForward(AcceptSaga), UNCHANGED <<contractVars, moneyVars, shareVars>>
    PROVE  AcceptKnown'
<1>0. /\ PaidIfDone /\ LoggedIfPaid /\ PaidIfPending /\ RefundedIfUndone
      /\ UndoneIfRefunded /\ PremiumHeld /\ Begun /\ Fresh /\ ExercisedAfter
      /\ TakenByExercise /\ NoHold /\ NotFormed /\ Formed /\ NothingPaid /\ Gone
      /\ GoneRefunded /\ GoneIfUndone /\ CreditKept /\ Credited
      /\ LeftBehind /\ HistoryGrows
  BY DEF AcceptKnown
<1>1. /\ Rests(AcceptSaga) /\ CallsOnce(AcceptSaga) /\ GoesOn(AcceptSaga)
      /\ PassedKnown(AcceptSaga) /\ DoneKnown(AcceptSaga)
      /\ UndoesLast(AcceptSaga) /\ RowKnown(AcceptSaga) /\ RowLogged(AcceptSaga)
      /\ UndoesSome(AcceptSaga) /\ NoneLeft(AcceptSaga)
      /\ CompEvident(AcceptSaga) /\ CompCompleted(AcceptSaga)
      /\ PendingFirst(AcceptSaga) /\ PendingAlone(AcceptSaga)
      /\ InOrder(AcceptSaga)
  BY DEF SagaLog, RunKnown, LogKnown
<1>2. /\ Steps(AcceptSaga) = {1, 2, 3, 4} /\ AcceptSaga \in Sagas
      /\ run[AcceptSaga].at \in {0, 1, 2, 3, 4} /\ run[AcceptSaga].done \subseteq {1, 2, 3, 4}
      /\ run[AcceptSaga].pc \in Busy => run[AcceptSaga].at \in {1, 2, 3, 4}
      /\ run[AcceptSaga].pc \in {"back", "unmark"} => run[AcceptSaga].at # 4
      /\ run[AcceptSaga].row # None => run[AcceptSaga].row[2] \in {1, 2, 3, 4}
  BY AcceptSteps14 DEF TypeInv
<1>3. Becomes(AcceptSaga, "call", run[AcceptSaga].at, run[AcceptSaga].done,
              run[AcceptSaga].error, run[AcceptSaga].row)
  BY <1>2, LastOfRun, StepNumbers, RunEffects DEF TypeInv, SagaInv
<1>4. run[AcceptSaga].pc = "record" /\ ~IsCompleted(AcceptSaga, run[AcceptSaga].at)
      /\ UNCHANGED <<fwd, comp, faults>>
  BY DEF RecordForward
<1>5. NoneStarted /\ NoneStarted' /\ shares # "settled"
  BY <1>2, AcceptAlone, RunStepKeeps DEF RunStep, TypeInv
<1>6. UNCHANGED <<contract, premium, shares, keys>>
  BY DEF contractVars, moneyVars, shareVars
<1>7. /\ \A j \in {2, 3, 4} : AcceptDid(j)' <=> AcceptDid(j)
      /\ \A j \in {2, 3} : AcceptUndid(j)' <=> AcceptUndid(j)
  BY <1>6, KeysApart
<1>8. PaidIfDone'
  BY <1>0, <1>1, <1>2, <1>3, <1>4, <1>5, <1>6, <1>7 DEF PaidIfDone, IsCompleted,
         Becomes, Busy, NoneStarted
<1>9. LoggedIfPaid'
  BY <1>0, <1>1, <1>2, <1>3, <1>4, <1>5, <1>6, <1>7 DEF HistoryGrows, LoggedIfPaid, Evident,
         IsCompleted, IsPending, Becomes, Busy, NoneStarted
<1>10. PaidIfPending'
  BY <1>0, <1>1, <1>2, <1>3, <1>4, <1>5, <1>6, <1>7 DEF PaidIfPending, IsPending,
         Becomes, Busy, NoneStarted
<1>11. RefundedIfUndone'
  BY <1>0, <1>1, <1>2, <1>3, <1>4, <1>5, <1>6, <1>7 DEF HistoryGrows, RefundedIfUndone, Becomes,
         Busy, NoneStarted
<1>12. UndoneIfRefunded'
  BY <1>0, <1>1, <1>2, <1>3, <1>4, <1>5, <1>6, <1>7 DEF UndoneIfRefunded, Becomes,
         Busy, NoneStarted
<1>13. PremiumHeld'
  BY <1>0, <1>1, <1>2, <1>3, <1>4, <1>5, <1>6, <1>7 DEF PremiumHeld, UndoneIfRefunded,
         Becomes, Busy, NoneStarted
<1>14. Begun'
  BY <1>0, <1>1, <1>2, <1>3, <1>4, <1>5, <1>6, <1>7 DEF Begun, Forwards, Becomes, Busy,
         NoneStarted
<1>15. Fresh'
  BY <1>0, <1>1, <1>2, <1>3, <1>4, <1>5, <1>6, <1>7 DEF Fresh, Becomes, Busy,
         NoneStarted
<1>16. ExercisedAfter'
  BY <1>0, <1>1, <1>2, <1>3, <1>4, <1>5, <1>6, <1>7 DEF ExercisedAfter, Becomes, Busy,
         NoneStarted
<1>17. TakenByExercise'
  BY <1>0, <1>1, <1>2, <1>3, <1>4, <1>5, <1>6, <1>7 DEF TakenByExercise, Becomes, Busy,
         NoneStarted
<1>18. NoHold'
  BY <1>0, <1>1, <1>2, <1>3, <1>4, <1>5, <1>6, <1>7 DEF NoHold, Exists, Becomes, Busy,
         NoneStarted
<1>19. NotFormed'
  BY <1>0, <1>1, <1>2, <1>3, <1>4, <1>5, <1>6, <1>7 DEF NotFormed, HasCompensations,
         Becomes, Busy, NoneStarted
<1>20. Formed'
  BY <1>0, <1>1, <1>2, <1>3, <1>4, <1>5, <1>6, <1>7 DEF Formed, Exists, Evident,
         IsCompleted, IsPending, Becomes, Busy, NoneStarted
<1>21. NothingPaid'
  BY <1>0, <1>1, <1>2, <1>3, <1>4, <1>5, <1>6, <1>7 DEF NothingPaid, Exists,
         HasCompensations, NotFormed, Gone, Becomes, Busy, NoneStarted
<1>22. Gone'
  BY <1>0, <1>1, <1>2, <1>3, <1>4, <1>5, <1>6, <1>7 DEF Gone, Begun, Forwards, Becomes,
         Busy, NoneStarted
<1>23. GoneRefunded'
  BY <1>0, <1>1, <1>2, <1>3, <1>4, <1>5, <1>6, <1>7 DEF HistoryGrows, GoneRefunded, Gone, Becomes,
         Busy, NoneStarted
<1>24. GoneIfUndone'
  BY <1>0, <1>1, <1>2, <1>3, <1>4, <1>5, <1>6, <1>7 DEF GoneIfUndone, Exists, Becomes,
         Busy, NoneStarted
<1>25. CreditKept'
  BY <1>0, <1>1, <1>2, <1>3, <1>4, <1>5, <1>6, <1>7 DEF CreditKept, Becomes, Busy,
         NoneStarted
<1>26. Credited'
  BY <1>0, <1>1, <1>2, <1>3, <1>4, <1>5, <1>6, <1>7 DEF HistoryGrows, Credited, Whole,
         HasCompensations, Evident, IsCompleted, IsPending, Becomes, Busy, NoneStarted
<1>27. LeftBehind'
  BY <1>0, <1>1, <1>2, <1>3, <1>4, <1>5, <1>6, <1>7 DEF LeftBehind, Undoes, GoesOn,
         HasCompensations, CompCompleted, HistoryGrows, Becomes, Busy, NoneStarted
<1> QED
  BY <1>8, <1>9, <1>10, <1>11, <1>12, <1>13, <1>14, <1>15, <1>16, <1>17, <1>18,
     <1>19, <1>20, <1>21, <1>22, <1>23, <1>24, <1>25, <1>26, <1>27 DEF AcceptKnown

(* A completed step is passed over.                                        *)
LEMMA AcceptSkips ==
    ASSUME TypeInv, AcceptKnown, SagaLog(AcceptSaga), Restricted, Restricted',
           HistoryGrows,
           SkipCompleted(AcceptSaga), UNCHANGED <<contractVars, moneyVars, shareVars>>
    PROVE  AcceptKnown'
<1>0. /\ PaidIfDone /\ LoggedIfPaid /\ PaidIfPending /\ RefundedIfUndone
      /\ UndoneIfRefunded /\ PremiumHeld /\ Begun /\ Fresh /\ ExercisedAfter
      /\ TakenByExercise /\ NoHold /\ NotFormed /\ Formed /\ NothingPaid /\ Gone
      /\ GoneRefunded /\ GoneIfUndone /\ CreditKept /\ Credited
      /\ LeftBehind /\ HistoryGrows
  BY DEF AcceptKnown
<1>1. /\ Rests(AcceptSaga) /\ CallsOnce(AcceptSaga) /\ GoesOn(AcceptSaga)
      /\ PassedKnown(AcceptSaga) /\ DoneKnown(AcceptSaga)
      /\ UndoesLast(AcceptSaga) /\ RowKnown(AcceptSaga) /\ RowLogged(AcceptSaga)
      /\ UndoesSome(AcceptSaga) /\ NoneLeft(AcceptSaga)
      /\ CompEvident(AcceptSaga) /\ CompCompleted(AcceptSaga)
      /\ PendingFirst(AcceptSaga) /\ PendingAlone(AcceptSaga)
      /\ InOrder(AcceptSaga)
  BY DEF SagaLog, RunKnown, LogKnown
<1>2. /\ Steps(AcceptSaga) = {1, 2, 3, 4} /\ AcceptSaga \in Sagas
      /\ run[AcceptSaga].at \in {0, 1, 2, 3, 4} /\ run[AcceptSaga].done \subseteq {1, 2, 3, 4}
      /\ run[AcceptSaga].pc \in Busy => run[AcceptSaga].at \in {1, 2, 3, 4}
      /\ run[AcceptSaga].pc \in {"back", "unmark"} => run[AcceptSaga].at # 4
      /\ run[AcceptSaga].row # None => run[AcceptSaga].row[2] \in {1, 2, 3, 4}
  BY AcceptSteps14 DEF TypeInv
<1>3. Becomes(AcceptSaga, Onward(AcceptSaga), Beyond(AcceptSaga),
              run[AcceptSaga].done,
              run[AcceptSaga].error, run[AcceptSaga].row)
  BY <1>2, LastOfRun, StepNumbers, RunEffects DEF TypeInv, SagaInv
<1>4. /\ run[AcceptSaga].pc = "record" /\ IsCompleted(AcceptSaga, run[AcceptSaga].at)
      /\ UNCHANGED <<fwd, comp, faults>>
      /\ \/ Onward(AcceptSaga) = "return" /\ run[AcceptSaga].at = 4 /\ Beyond(AcceptSaga) = 0
         \/ /\ Onward(AcceptSaga) = "record" /\ Beyond(AcceptSaga) = run[AcceptSaga].at + 1
            /\ run[AcceptSaga].at # 4
  BY <1>2, StepNumbers DEF SkipCompleted, Onward, Beyond
<1>5. NoneStarted /\ NoneStarted' /\ shares # "settled"
  BY <1>2, AcceptAlone, RunStepKeeps DEF RunStep, TypeInv
<1>6. UNCHANGED <<contract, premium, shares, keys>>
  BY DEF contractVars, moneyVars, shareVars
<1>7. /\ \A j \in {2, 3, 4} : AcceptDid(j)' <=> AcceptDid(j)
      /\ \A j \in {2, 3} : AcceptUndid(j)' <=> AcceptUndid(j)
  BY <1>6, KeysApart
<1>8. PaidIfDone'
  BY <1>0, <1>1, <1>2, <1>3, <1>4, <1>5, <1>6, <1>7 DEF PaidIfDone, IsCompleted,
         Becomes, Busy, NoneStarted
<1>9. LoggedIfPaid'
  BY <1>0, <1>1, <1>2, <1>3, <1>4, <1>5, <1>6, <1>7 DEF HistoryGrows, LoggedIfPaid, Evident,
         IsCompleted, IsPending, Becomes, Busy, NoneStarted
<1>10. PaidIfPending'
  BY <1>0, <1>1, <1>2, <1>3, <1>4, <1>5, <1>6, <1>7 DEF PaidIfPending, IsPending,
         Becomes, Busy, NoneStarted
<1>11. RefundedIfUndone'
  BY <1>0, <1>1, <1>2, <1>3, <1>4, <1>5, <1>6, <1>7 DEF HistoryGrows, RefundedIfUndone, Becomes,
         Busy, NoneStarted
<1>12. UndoneIfRefunded'
  BY <1>0, <1>1, <1>2, <1>3, <1>4, <1>5, <1>6, <1>7 DEF UndoneIfRefunded, Becomes,
         Busy, NoneStarted
<1>13. PremiumHeld'
  BY <1>0, <1>1, <1>2, <1>3, <1>4, <1>5, <1>6, <1>7 DEF PremiumHeld, UndoneIfRefunded,
         Becomes, Busy, NoneStarted
<1>14. Begun'
  BY <1>0, <1>1, <1>2, <1>3, <1>4, <1>5, <1>6, <1>7 DEF Begun, Forwards, IsCompleted,
         Becomes, Busy, NoneStarted
<1>15. Fresh'
  BY <1>0, <1>1, <1>2, <1>3, <1>4, <1>5, <1>6, <1>7 DEF Fresh, IsCompleted, Becomes,
         Busy, NoneStarted
<1>16. ExercisedAfter'
  BY <1>0, <1>1, <1>2, <1>3, <1>4, <1>5, <1>6, <1>7 DEF ExercisedAfter, Becomes, Busy,
         NoneStarted
<1>17. TakenByExercise'
  BY <1>0, <1>1, <1>2, <1>3, <1>4, <1>5, <1>6, <1>7 DEF TakenByExercise, Becomes, Busy,
         NoneStarted
<1>18. NoHold'
  BY <1>0, <1>1, <1>2, <1>3, <1>4, <1>5, <1>6, <1>7 DEF NoHold, Exists, Becomes, Busy,
         NoneStarted
<1>19. NotFormed'
  BY <1>0, <1>1, <1>2, <1>3, <1>4, <1>5, <1>6, <1>7 DEF NotFormed, HasCompensations,
         Fresh, IsCompleted, Becomes, Busy, NoneStarted
<1>20. Formed'
  BY <1>0, <1>1, <1>2, <1>3, <1>4, <1>5, <1>6, <1>7 DEF Formed, Exists, Evident,
         IsCompleted, IsPending, Becomes, Busy, NoneStarted
<1>21. NothingPaid'
  BY <1>0, <1>1, <1>2, <1>3, <1>4, <1>5, <1>6, <1>7 DEF NothingPaid, Exists,
         HasCompensations, NotFormed, Gone, Becomes, Busy, NoneStarted
<1>22. Gone'
  BY <1>0, <1>1, <1>2, <1>3, <1>4, <1>5, <1>6, <1>7 DEF Gone, Begun, Forwards, Becomes,
         Busy, NoneStarted
<1>23. GoneRefunded'
  BY <1>0, <1>1, <1>2, <1>3, <1>4, <1>5, <1>6, <1>7 DEF HistoryGrows, GoneRefunded, Gone, Becomes,
         Busy, NoneStarted
<1>24. GoneIfUndone'
  BY <1>0, <1>1, <1>2, <1>3, <1>4, <1>5, <1>6, <1>7 DEF GoneIfUndone, Exists, Becomes,
         Busy, NoneStarted
<1>25. CreditKept'
  BY <1>0, <1>1, <1>2, <1>3, <1>4, <1>5, <1>6, <1>7 DEF CreditKept, Becomes, Busy,
         NoneStarted
<1>26. Credited'
  BY <1>0, <1>1, <1>2, <1>3, <1>4, <1>5, <1>6, <1>7 DEF HistoryGrows, Credited, Whole,
         HasCompensations, Evident, IsCompleted, IsPending, Becomes, Busy, NoneStarted
<1>27. LeftBehind'
  BY <1>0, <1>1, <1>2, <1>3, <1>4, <1>5, <1>6, <1>7 DEF LeftBehind, Undoes, GoesOn,
         HasCompensations, CompCompleted, HistoryGrows, Becomes, Busy, NoneStarted
<1> QED
  BY <1>8, <1>9, <1>10, <1>11, <1>12, <1>13, <1>14, <1>15, <1>16, <1>17, <1>18,
     <1>19, <1>20, <1>21, <1>22, <1>23, <1>24, <1>25, <1>26, <1>27 DEF AcceptKnown

(* A step is marked completed.                                             *)
LEMMA AcceptMarks ==
    ASSUME TypeInv, AcceptKnown, SagaLog(AcceptSaga), Restricted, Restricted',
           HistoryGrows,
           MarkCompleted(AcceptSaga), UNCHANGED <<contractVars, moneyVars, shareVars>>
    PROVE  AcceptKnown'
<1>0. /\ PaidIfDone /\ LoggedIfPaid /\ PaidIfPending /\ RefundedIfUndone
      /\ UndoneIfRefunded /\ PremiumHeld /\ Begun /\ Fresh /\ ExercisedAfter
      /\ TakenByExercise /\ NoHold /\ NotFormed /\ Formed /\ NothingPaid /\ Gone
      /\ GoneRefunded /\ GoneIfUndone /\ CreditKept /\ Credited
      /\ LeftBehind /\ HistoryGrows
  BY DEF AcceptKnown
<1>1. /\ Rests(AcceptSaga) /\ CallsOnce(AcceptSaga) /\ GoesOn(AcceptSaga)
      /\ PassedKnown(AcceptSaga) /\ DoneKnown(AcceptSaga)
      /\ UndoesLast(AcceptSaga) /\ RowKnown(AcceptSaga) /\ RowLogged(AcceptSaga)
      /\ UndoesSome(AcceptSaga) /\ NoneLeft(AcceptSaga)
      /\ CompEvident(AcceptSaga) /\ CompCompleted(AcceptSaga)
      /\ PendingFirst(AcceptSaga) /\ PendingAlone(AcceptSaga)
      /\ InOrder(AcceptSaga)
  BY DEF SagaLog, RunKnown, LogKnown
<1>2. /\ Steps(AcceptSaga) = {1, 2, 3, 4} /\ AcceptSaga \in Sagas
      /\ run[AcceptSaga].at \in {0, 1, 2, 3, 4} /\ run[AcceptSaga].done \subseteq {1, 2, 3, 4}
      /\ run[AcceptSaga].pc \in Busy => run[AcceptSaga].at \in {1, 2, 3, 4}
      /\ run[AcceptSaga].pc \in {"back", "unmark"} => run[AcceptSaga].at # 4
      /\ run[AcceptSaga].row # None => run[AcceptSaga].row[2] \in {1, 2, 3, 4}
  BY AcceptSteps14 DEF TypeInv
<1>3. Becomes(AcceptSaga, Onward(AcceptSaga), 
              Beyond(AcceptSaga),
              run[AcceptSaga].done \cup {run[AcceptSaga].at},
              run[AcceptSaga].error, run[AcceptSaga].row)
  BY <1>2, LastOfRun, StepNumbers, RunEffects DEF TypeInv, SagaInv
<1>4. /\ run[AcceptSaga].pc = "mark" /\ UNCHANGED <<comp, faults>>
      /\ \/ Onward(AcceptSaga) = "return" /\ run[AcceptSaga].at = 4 /\ Beyond(AcceptSaga) = 0
         \/ /\ Onward(AcceptSaga) = "record" /\ Beyond(AcceptSaga) = run[AcceptSaga].at + 1
            /\ run[AcceptSaga].at # 4
  BY <1>2, StepNumbers DEF MarkCompleted, Onward, Beyond
<1>5. NoneStarted /\ NoneStarted' /\ shares # "settled"
  BY <1>2, AcceptAlone, RunStepKeeps DEF RunStep, TypeInv
<1>6. UNCHANGED <<contract, premium, shares, keys>>
  BY DEF contractVars, moneyVars, shareVars
<1>7. /\ \A j \in {2, 3, 4} : AcceptDid(j)' <=> AcceptDid(j)
      /\ \A j \in {2, 3} : AcceptUndid(j)' <=> AcceptUndid(j)
  BY <1>6, KeysApart
<1>8. FwdSet(AcceptSaga, run[AcceptSaga].at, fwd[AcceptSaga][run[AcceptSaga].at] \cup {"completed"})
  BY <1>2, LogEffects DEF TypeInv
<1>9. PaidIfDone'
  BY <1>0, <1>1, <1>2, <1>3, <1>4, <1>5, <1>6, <1>7, <1>8 DEF PaidIfDone, IsCompleted,
         Becomes, Busy, NoneStarted, FwdSet
<1>10. LoggedIfPaid'
  BY <1>0, <1>1, <1>2, <1>3, <1>4, <1>5, <1>6, <1>7, <1>8 DEF HistoryGrows, LoggedIfPaid, Evident,
         IsCompleted, IsPending, Becomes, Busy, NoneStarted, FwdSet
<1>11. PaidIfPending'
  BY <1>0, <1>1, <1>2, <1>3, <1>4, <1>5, <1>6, <1>7, <1>8 DEF PaidIfPending, IsPending,
         Becomes, Busy, NoneStarted, FwdSet
<1>12. RefundedIfUndone'
  BY <1>0, <1>1, <1>2, <1>3, <1>4, <1>5, <1>6, <1>7, <1>8 DEF HistoryGrows, RefundedIfUndone,
         Becomes, Busy, NoneStarted, FwdSet
<1>13. UndoneIfRefunded'
  BY <1>0, <1>1, <1>2, <1>3, <1>4, <1>5, <1>6, <1>7, <1>8 DEF UndoneIfRefunded,
         Becomes, Busy, NoneStarted, FwdSet
<1>14. PremiumHeld'
  BY <1>0, <1>1, <1>2, <1>3, <1>4, <1>5, <1>6, <1>7, <1>8 DEF PremiumHeld,
         UndoneIfRefunded, Becomes, Busy, NoneStarted, FwdSet
<1>15. Begun'
  BY <1>0, <1>1, <1>2, <1>3, <1>4, <1>5, <1>6, <1>7, <1>8 DEF Begun, Forwards, Becomes,
         Busy, NoneStarted, FwdSet
<1>16. Fresh'
  BY <1>0, <1>1, <1>2, <1>3, <1>4, <1>5, <1>6, <1>7, <1>8 DEF Fresh, Becomes, Busy,
         NoneStarted, FwdSet
<1>17. ExercisedAfter'
  BY <1>0, <1>1, <1>2, <1>3, <1>4, <1>5, <1>6, <1>7, <1>8 DEF ExercisedAfter, Becomes,
         Busy, NoneStarted, FwdSet
<1>18. TakenByExercise'
  BY <1>0, <1>1, <1>2, <1>3, <1>4, <1>5, <1>6, <1>7, <1>8 DEF TakenByExercise, Becomes,
         Busy, NoneStarted, FwdSet
<1>19. NoHold'
  BY <1>0, <1>1, <1>2, <1>3, <1>4, <1>5, <1>6, <1>7, <1>8 DEF NoHold, Exists, Becomes,
         Busy, NoneStarted, FwdSet
<1>20. NotFormed'
  BY <1>0, <1>1, <1>2, <1>3, <1>4, <1>5, <1>6, <1>7, <1>8 DEF NotFormed,
         HasCompensations, Becomes, Busy, NoneStarted, FwdSet
<1>21. Formed'
  BY <1>0, <1>1, <1>2, <1>3, <1>4, <1>5, <1>6, <1>7, <1>8 DEF Formed, Exists, Evident,
         IsCompleted, IsPending, Becomes, Busy, NoneStarted, FwdSet
<1>22. NothingPaid'
  BY <1>0, <1>1, <1>2, <1>3, <1>4, <1>5, <1>6, <1>7, <1>8 DEF NothingPaid, Exists,
         HasCompensations, NotFormed, Gone, Becomes, Busy, NoneStarted, FwdSet
<1>23. Gone'
  BY <1>0, <1>1, <1>2, <1>3, <1>4, <1>5, <1>6, <1>7, <1>8 DEF Gone, Begun, Forwards,
         Becomes, Busy, NoneStarted, FwdSet
<1>24. GoneRefunded'
  BY <1>0, <1>1, <1>2, <1>3, <1>4, <1>5, <1>6, <1>7, <1>8 DEF HistoryGrows, GoneRefunded, Gone,
         Becomes, Busy, NoneStarted, FwdSet
<1>25. GoneIfUndone'
  BY <1>0, <1>1, <1>2, <1>3, <1>4, <1>5, <1>6, <1>7, <1>8 DEF GoneIfUndone, Exists,
         Becomes, Busy, NoneStarted, FwdSet
<1>26. CreditKept'
  BY <1>0, <1>1, <1>2, <1>3, <1>4, <1>5, <1>6, <1>7, <1>8 DEF CreditKept, Becomes,
         Busy, NoneStarted, FwdSet
<1>27. Credited'
  BY <1>0, <1>1, <1>2, <1>3, <1>4, <1>5, <1>6, <1>7, <1>8 DEF HistoryGrows, Credited, Whole,
         HasCompensations, Evident, IsCompleted, IsPending, PassedKnown, Passed,
         Forwards, PendingAlone, CallsOnce, GoesOn, LogWriteFailsAlone, Restricted,
         Becomes, Busy, NoneStarted, FwdSet
<1>28. LeftBehind'
  BY <1>0, <1>1, <1>2, <1>3, <1>4, <1>5, <1>6, <1>7, <1>8 DEF LeftBehind, Undoes,
         GoesOn, HasCompensations, CompCompleted, HistoryGrows, Becomes, Busy,
         NoneStarted, FwdSet
<1> QED
  BY <1>9, <1>10, <1>11, <1>12, <1>13, <1>14, <1>15, <1>16, <1>17, <1>18, <1>19,
     <1>20, <1>21, <1>22, <1>23, <1>24, <1>25, <1>26, <1>27, <1>28 DEF AcceptKnown

(* The mark of a step fails, and it stays pending.                         *)
LEMMA AcceptUnmarked ==
    ASSUME TypeInv, AcceptKnown, SagaLog(AcceptSaga), Restricted, Restricted',
           HistoryGrows,
           MarkCompletedFails(AcceptSaga), UNCHANGED <<contractVars, moneyVars, shareVars>>
    PROVE  AcceptKnown'
<1>0. /\ PaidIfDone /\ LoggedIfPaid /\ PaidIfPending /\ RefundedIfUndone
      /\ UndoneIfRefunded /\ PremiumHeld /\ Begun /\ Fresh /\ ExercisedAfter
      /\ TakenByExercise /\ NoHold /\ NotFormed /\ Formed /\ NothingPaid /\ Gone
      /\ GoneRefunded /\ GoneIfUndone /\ CreditKept /\ Credited
      /\ LeftBehind /\ HistoryGrows
  BY DEF AcceptKnown
<1>1. /\ Rests(AcceptSaga) /\ CallsOnce(AcceptSaga) /\ GoesOn(AcceptSaga)
      /\ PassedKnown(AcceptSaga) /\ DoneKnown(AcceptSaga)
      /\ UndoesLast(AcceptSaga) /\ RowKnown(AcceptSaga) /\ RowLogged(AcceptSaga)
      /\ UndoesSome(AcceptSaga) /\ NoneLeft(AcceptSaga)
      /\ CompEvident(AcceptSaga) /\ CompCompleted(AcceptSaga)
      /\ PendingFirst(AcceptSaga) /\ PendingAlone(AcceptSaga)
      /\ InOrder(AcceptSaga)
  BY DEF SagaLog, RunKnown, LogKnown
<1>2. /\ Steps(AcceptSaga) = {1, 2, 3, 4} /\ AcceptSaga \in Sagas
      /\ run[AcceptSaga].at \in {0, 1, 2, 3, 4} /\ run[AcceptSaga].done \subseteq {1, 2, 3, 4}
      /\ run[AcceptSaga].pc \in Busy => run[AcceptSaga].at \in {1, 2, 3, 4}
      /\ run[AcceptSaga].pc \in {"back", "unmark"} => run[AcceptSaga].at # 4
      /\ run[AcceptSaga].row # None => run[AcceptSaga].row[2] \in {1, 2, 3, 4}
  BY AcceptSteps14 DEF TypeInv
<1>3. Becomes(AcceptSaga, Onward(AcceptSaga), 
              Beyond(AcceptSaga),
              run[AcceptSaga].done \cup {run[AcceptSaga].at},
              run[AcceptSaga].error, run[AcceptSaga].row)
  BY <1>2, LastOfRun, StepNumbers, RunEffects DEF TypeInv, SagaInv
<1>4. /\ run[AcceptSaga].pc = "mark" /\ UNCHANGED comp
      /\ faults.mark = 0 /\ faults'.mark = 1 /\ faults'.crash = faults.crash
      /\ \/ Onward(AcceptSaga) = "return" /\ run[AcceptSaga].at = 4 /\ Beyond(AcceptSaga) = 0
         \/ /\ Onward(AcceptSaga) = "record" /\ Beyond(AcceptSaga) = run[AcceptSaga].at + 1
            /\ run[AcceptSaga].at # 4
  BY <1>2, StepNumbers DEF MarkCompletedFails, TypeInv, SagaInv, LogTyped, Faults,
        Restricted, LogWriteFailsAlone, Onward, Beyond
<1>5. NoneStarted /\ NoneStarted' /\ shares # "settled"
  BY <1>2, AcceptAlone, RunStepKeeps DEF RunStep, TypeInv
<1>6. UNCHANGED <<contract, premium, shares, keys>>
  BY DEF contractVars, moneyVars, shareVars
<1>7. /\ \A j \in {2, 3, 4} : AcceptDid(j)' <=> AcceptDid(j)
      /\ \A j \in {2, 3} : AcceptUndid(j)' <=> AcceptUndid(j)
  BY <1>6, KeysApart
<1>8. FwdSet(AcceptSaga, run[AcceptSaga].at, fwd[AcceptSaga][run[AcceptSaga].at] \cup {"pending"})
  BY <1>2, LogEffects DEF TypeInv
<1>9. PaidIfDone'
  BY <1>0, <1>1, <1>2, <1>3, <1>4, <1>5, <1>6, <1>7, <1>8 DEF PaidIfDone, IsCompleted,
         Becomes, Busy, NoneStarted, FwdSet
<1>10. LoggedIfPaid'
  BY <1>0, <1>1, <1>2, <1>3, <1>4, <1>5, <1>6, <1>7, <1>8 DEF HistoryGrows, LoggedIfPaid, Evident,
         IsCompleted, IsPending, Becomes, Busy, NoneStarted, FwdSet
<1>11. PaidIfPending'
  BY <1>0, <1>1, <1>2, <1>3, <1>4, <1>5, <1>6, <1>7, <1>8 DEF PaidIfPending, IsPending,
         PaidIfDone, Becomes, Busy, NoneStarted, FwdSet
<1>12. RefundedIfUndone'
  BY <1>0, <1>1, <1>2, <1>3, <1>4, <1>5, <1>6, <1>7, <1>8 DEF HistoryGrows, RefundedIfUndone,
         Becomes, Busy, NoneStarted, FwdSet
<1>13. UndoneIfRefunded'
  BY <1>0, <1>1, <1>2, <1>3, <1>4, <1>5, <1>6, <1>7, <1>8 DEF UndoneIfRefunded,
         Becomes, Busy, NoneStarted, FwdSet
<1>14. PremiumHeld'
  BY <1>0, <1>1, <1>2, <1>3, <1>4, <1>5, <1>6, <1>7, <1>8 DEF PremiumHeld,
         UndoneIfRefunded, Becomes, Busy, NoneStarted, FwdSet
<1>15. Begun'
  BY <1>0, <1>1, <1>2, <1>3, <1>4, <1>5, <1>6, <1>7, <1>8 DEF Begun, Forwards, Becomes,
         Busy, NoneStarted, FwdSet
<1>16. Fresh'
  BY <1>0, <1>1, <1>2, <1>3, <1>4, <1>5, <1>6, <1>7, <1>8 DEF Fresh, Becomes, Busy,
         NoneStarted, FwdSet
<1>17. ExercisedAfter'
  BY <1>0, <1>1, <1>2, <1>3, <1>4, <1>5, <1>6, <1>7, <1>8 DEF ExercisedAfter, Becomes,
         Busy, NoneStarted, FwdSet
<1>18. TakenByExercise'
  BY <1>0, <1>1, <1>2, <1>3, <1>4, <1>5, <1>6, <1>7, <1>8 DEF TakenByExercise, Becomes,
         Busy, NoneStarted, FwdSet
<1>19. NoHold'
  BY <1>0, <1>1, <1>2, <1>3, <1>4, <1>5, <1>6, <1>7, <1>8 DEF NoHold, Exists, Becomes,
         Busy, NoneStarted, FwdSet
<1>20. NotFormed'
  BY <1>0, <1>1, <1>2, <1>3, <1>4, <1>5, <1>6, <1>7, <1>8 DEF NotFormed,
         HasCompensations, Becomes, Busy, NoneStarted, FwdSet
<1>21. Formed'
  BY <1>0, <1>1, <1>2, <1>3, <1>4, <1>5, <1>6, <1>7, <1>8 DEF Formed, Exists, Evident,
         IsCompleted, IsPending, Becomes, Busy, NoneStarted, FwdSet
<1>22. NothingPaid'
  BY <1>0, <1>1, <1>2, <1>3, <1>4, <1>5, <1>6, <1>7, <1>8 DEF NothingPaid, Exists,
         HasCompensations, NotFormed, Gone, Becomes, Busy, NoneStarted, FwdSet
<1>23. Gone'
  BY <1>0, <1>1, <1>2, <1>3, <1>4, <1>5, <1>6, <1>7, <1>8 DEF Gone, Begun, Forwards,
         Becomes, Busy, NoneStarted, FwdSet
<1>24. GoneRefunded'
  BY <1>0, <1>1, <1>2, <1>3, <1>4, <1>5, <1>6, <1>7, <1>8 DEF HistoryGrows, GoneRefunded, Gone,
         Becomes, Busy, NoneStarted, FwdSet
<1>25. GoneIfUndone'
  BY <1>0, <1>1, <1>2, <1>3, <1>4, <1>5, <1>6, <1>7, <1>8 DEF GoneIfUndone, Exists,
         Becomes, Busy, NoneStarted, FwdSet
<1>26. CreditKept'
  BY <1>0, <1>1, <1>2, <1>3, <1>4, <1>5, <1>6, <1>7, <1>8 DEF CreditKept, Becomes,
         Busy, NoneStarted, FwdSet
<1>27. Credited'
  BY <1>0, <1>1, <1>2, <1>3, <1>4, <1>5, <1>6, <1>7, <1>8 DEF HistoryGrows, Credited, Whole,
         HasCompensations, Evident, IsCompleted, IsPending, PassedKnown, Passed,
         Forwards, PendingAlone, CallsOnce, GoesOn, LogWriteFailsAlone, Restricted,
         Becomes, Busy, NoneStarted, FwdSet
<1>28. LeftBehind'
  BY <1>0, <1>1, <1>2, <1>3, <1>4, <1>5, <1>6, <1>7, <1>8 DEF LeftBehind, Undoes,
         GoesOn, HasCompensations, CompCompleted, HistoryGrows, Becomes, Busy,
         NoneStarted, FwdSet
<1> QED
  BY <1>9, <1>10, <1>11, <1>12, <1>13, <1>14, <1>15, <1>16, <1>17, <1>18, <1>19,
     <1>20, <1>21, <1>22, <1>23, <1>24, <1>25, <1>26, <1>27, <1>28 DEF AcceptKnown

(* rollback comes to the last step left.                                   *)
LEMMA AcceptCompensates ==
    ASSUME TypeInv, AcceptKnown, SagaLog(AcceptSaga), Restricted, Restricted',
           HistoryGrows,
           RecordCompensation(AcceptSaga), UNCHANGED <<contractVars, moneyVars, shareVars>>
    PROVE  AcceptKnown'
<1>0. /\ PaidIfDone /\ LoggedIfPaid /\ PaidIfPending /\ RefundedIfUndone
      /\ UndoneIfRefunded /\ PremiumHeld /\ Begun /\ Fresh /\ ExercisedAfter
      /\ TakenByExercise /\ NoHold /\ NotFormed /\ Formed /\ NothingPaid /\ Gone
      /\ GoneRefunded /\ GoneIfUndone /\ CreditKept /\ Credited
      /\ LeftBehind /\ HistoryGrows
  BY DEF AcceptKnown
<1>1. /\ Rests(AcceptSaga) /\ CallsOnce(AcceptSaga) /\ GoesOn(AcceptSaga)
      /\ PassedKnown(AcceptSaga) /\ DoneKnown(AcceptSaga)
      /\ UndoesLast(AcceptSaga) /\ RowKnown(AcceptSaga) /\ RowLogged(AcceptSaga)
      /\ UndoesSome(AcceptSaga) /\ NoneLeft(AcceptSaga)
      /\ CompEvident(AcceptSaga) /\ CompCompleted(AcceptSaga)
      /\ PendingFirst(AcceptSaga) /\ PendingAlone(AcceptSaga)
      /\ InOrder(AcceptSaga)
  BY DEF SagaLog, RunKnown, LogKnown
<1>2. /\ Steps(AcceptSaga) = {1, 2, 3, 4} /\ AcceptSaga \in Sagas
      /\ run[AcceptSaga].at \in {0, 1, 2, 3, 4} /\ run[AcceptSaga].done \subseteq {1, 2, 3, 4}
      /\ run[AcceptSaga].pc \in Busy => run[AcceptSaga].at \in {1, 2, 3, 4}
      /\ run[AcceptSaga].pc \in {"back", "unmark"} => run[AcceptSaga].at # 4
      /\ run[AcceptSaga].row # None => run[AcceptSaga].row[2] \in {1, 2, 3, 4}
  BY AcceptSteps14 DEF TypeInv
<1>3. Becomes(AcceptSaga, "back", Last(AcceptSaga), run[AcceptSaga].done,
              run[AcceptSaga].error, run[AcceptSaga].row)
  BY <1>2, LastOfRun, StepNumbers, RunEffects DEF TypeInv, SagaInv
<1>4. run[AcceptSaga].pc = "undo" /\ run[AcceptSaga].done # {} /\ UNCHANGED <<fwd, faults>>
  BY DEF RecordCompensation
<1>5. NoneStarted /\ NoneStarted' /\ shares # "settled"
  BY <1>2, AcceptAlone, RunStepKeeps DEF RunStep, TypeInv
<1>6. UNCHANGED <<contract, premium, shares, keys>>
  BY DEF contractVars, moneyVars, shareVars
<1>7. /\ \A j \in {2, 3, 4} : AcceptDid(j)' <=> AcceptDid(j)
      /\ \A j \in {2, 3} : AcceptUndid(j)' <=> AcceptUndid(j)
  BY <1>6, KeysApart
<1>8. CompSet(AcceptSaga, Last(AcceptSaga),
              IF comp[AcceptSaga][Last(AcceptSaga)] = "none" THEN "compensating"
              ELSE comp[AcceptSaga][Last(AcceptSaga)])
  BY <1>2, LogEffects DEF TypeInv
<1>9. Last(AcceptSaga) \in run[AcceptSaga].done /\ Last(AcceptSaga) \in {1, 2, 3}
      /\ \A k \in run[AcceptSaga].done : k <= Last(AcceptSaga)
  BY <1>2, <1>4, LastOfRun, LastStep, OtcAssumption DEF TypeInv, SagaInv, OnStep,
        Last, RecordCompensation, AcceptSteps
<1>10. PaidIfDone'
  BY <1>0, <1>1, <1>2, <1>3, <1>4, <1>5, <1>6, <1>7, <1>8, <1>9 DEF PaidIfDone,
         IsCompleted, Becomes, Busy, NoneStarted, CompSet
<1>11. LoggedIfPaid'
  BY <1>0, <1>1, <1>2, <1>3, <1>4, <1>5, <1>6, <1>7, <1>8, <1>9 DEF HistoryGrows, LoggedIfPaid,
         Evident, IsCompleted, IsPending, Becomes, Busy, NoneStarted, CompSet
<1>12. PaidIfPending'
  BY <1>0, <1>1, <1>2, <1>3, <1>4, <1>5, <1>6, <1>7, <1>8, <1>9 DEF PaidIfPending,
         IsPending, Becomes, Busy, NoneStarted, CompSet
<1>13. RefundedIfUndone'
  BY <1>0, <1>1, <1>2, <1>3, <1>4, <1>5, <1>6, <1>7, <1>8, <1>9 DEF HistoryGrows, RefundedIfUndone,
         Becomes, Busy, NoneStarted, CompSet
<1>14. UndoneIfRefunded'
  BY <1>0, <1>1, <1>2, <1>3, <1>4, <1>5, <1>6, <1>7, <1>8, <1>9 DEF UndoneIfRefunded,
         Becomes, Busy, NoneStarted, CompSet
<1>15. PremiumHeld'
  BY <1>0, <1>1, <1>2, <1>3, <1>4, <1>5, <1>6, <1>7, <1>8, <1>9 DEF PremiumHeld,
         UndoneIfRefunded, Becomes, Busy, NoneStarted, CompSet
<1>16. Begun'
  BY <1>0, <1>1, <1>2, <1>3, <1>4, <1>5, <1>6, <1>7, <1>8, <1>9 DEF Begun, Forwards,
         Becomes, Busy, NoneStarted, CompSet
<1>17. Fresh'
  BY <1>0, <1>1, <1>2, <1>3, <1>4, <1>5, <1>6, <1>7, <1>8, <1>9 DEF Fresh, Becomes,
         Busy, NoneStarted, CompSet
<1>18. ExercisedAfter'
  BY <1>0, <1>1, <1>2, <1>3, <1>4, <1>5, <1>6, <1>7, <1>8, <1>9 DEF ExercisedAfter,
         Becomes, Busy, NoneStarted, CompSet
<1>19. TakenByExercise'
  BY <1>0, <1>1, <1>2, <1>3, <1>4, <1>5, <1>6, <1>7, <1>8, <1>9 DEF TakenByExercise,
         Becomes, Busy, NoneStarted, CompSet
<1>20. NoHold'
  BY <1>0, <1>1, <1>2, <1>3, <1>4, <1>5, <1>6, <1>7, <1>8, <1>9 DEF NoHold, Exists,
         Becomes, Busy, NoneStarted, CompSet
<1>21. NotFormed'
  BY <1>0, <1>1, <1>2, <1>3, <1>4, <1>5, <1>6, <1>7, <1>8, <1>9 DEF NotFormed,
         HasCompensations, Becomes, Busy, NoneStarted, CompSet
<1>22. Formed'
  BY <1>0, <1>1, <1>2, <1>3, <1>4, <1>5, <1>6, <1>7, <1>8, <1>9 DEF Formed, Exists,
         Evident, IsCompleted, IsPending, Becomes, Busy, NoneStarted, CompSet
<1>23. NothingPaid'
  BY <1>0, <1>1, <1>2, <1>3, <1>4, <1>5, <1>6, <1>7, <1>8, <1>9 DEF NothingPaid,
         Exists, HasCompensations, NotFormed, Gone, Becomes, Busy, NoneStarted, CompSet
<1>24. Gone'
  BY <1>0, <1>1, <1>2, <1>3, <1>4, <1>5, <1>6, <1>7, <1>8, <1>9 DEF Gone, Begun,
         Forwards, Becomes, Busy, NoneStarted, CompSet
<1>25. GoneRefunded'
  BY <1>0, <1>1, <1>2, <1>3, <1>4, <1>5, <1>6, <1>7, <1>8, <1>9 DEF HistoryGrows, GoneRefunded, Gone,
         Becomes, Busy, NoneStarted, CompSet
<1>26. GoneIfUndone'
  BY <1>0, <1>1, <1>2, <1>3, <1>4, <1>5, <1>6, <1>7, <1>8, <1>9 DEF GoneIfUndone,
         Exists, Becomes, Busy, NoneStarted, CompSet
<1>27. CreditKept'
  BY <1>0, <1>1, <1>2, <1>3, <1>4, <1>5, <1>6, <1>7, <1>8, <1>9 DEF CreditKept,
         Becomes, Busy, NoneStarted, CompSet
<1>28. Credited'
  BY <1>0, <1>1, <1>2, <1>3, <1>4, <1>5, <1>6, <1>7, <1>8, <1>9 DEF HistoryGrows, Credited, Whole,
         HasCompensations, Evident, IsCompleted, IsPending, Becomes, Busy, NoneStarted,
         CompSet
<1>29. LeftBehind'
  BY <1>0, <1>1, <1>2, <1>3, <1>4, <1>5, <1>6, <1>7, <1>8, <1>9 DEF LeftBehind,
         Undoes, GoesOn, HasCompensations, CompCompleted, HistoryGrows, Becomes,
         Busy, NoneStarted, CompSet
<1> QED
  BY <1>10, <1>11, <1>12, <1>13, <1>14, <1>15, <1>16, <1>17, <1>18, <1>19, <1>20,
     <1>21, <1>22, <1>23, <1>24, <1>25, <1>26, <1>27, <1>28, <1>29 DEF AcceptKnown

(* A compensation is marked done.                                          *)
LEMMA AcceptCompensated ==
    ASSUME TypeInv, AcceptKnown, SagaLog(AcceptSaga), Restricted, Restricted',
           HistoryGrows,
           MarkCompensated(AcceptSaga), UNCHANGED <<contractVars, moneyVars, shareVars>>
    PROVE  AcceptKnown'
<1>0. /\ PaidIfDone /\ LoggedIfPaid /\ PaidIfPending /\ RefundedIfUndone
      /\ UndoneIfRefunded /\ PremiumHeld /\ Begun /\ Fresh /\ ExercisedAfter
      /\ TakenByExercise /\ NoHold /\ NotFormed /\ Formed /\ NothingPaid /\ Gone
      /\ GoneRefunded /\ GoneIfUndone /\ CreditKept /\ Credited
      /\ LeftBehind /\ HistoryGrows
  BY DEF AcceptKnown
<1>1. /\ Rests(AcceptSaga) /\ CallsOnce(AcceptSaga) /\ GoesOn(AcceptSaga)
      /\ PassedKnown(AcceptSaga) /\ DoneKnown(AcceptSaga)
      /\ UndoesLast(AcceptSaga) /\ RowKnown(AcceptSaga) /\ RowLogged(AcceptSaga)
      /\ UndoesSome(AcceptSaga) /\ NoneLeft(AcceptSaga)
      /\ CompEvident(AcceptSaga) /\ CompCompleted(AcceptSaga)
      /\ PendingFirst(AcceptSaga) /\ PendingAlone(AcceptSaga)
      /\ InOrder(AcceptSaga)
  BY DEF SagaLog, RunKnown, LogKnown
<1>2. /\ Steps(AcceptSaga) = {1, 2, 3, 4} /\ AcceptSaga \in Sagas
      /\ run[AcceptSaga].at \in {0, 1, 2, 3, 4} /\ run[AcceptSaga].done \subseteq {1, 2, 3, 4}
      /\ run[AcceptSaga].pc \in Busy => run[AcceptSaga].at \in {1, 2, 3, 4}
      /\ run[AcceptSaga].pc \in {"back", "unmark"} => run[AcceptSaga].at # 4
      /\ run[AcceptSaga].row # None => run[AcceptSaga].row[2] \in {1, 2, 3, 4}
  BY AcceptSteps14 DEF TypeInv
<1>3. Becomes(AcceptSaga, "undo", run[AcceptSaga].at,
              run[AcceptSaga].done \ {run[AcceptSaga].at}, run[AcceptSaga].error,
              run[AcceptSaga].row)
  BY <1>2, LastOfRun, StepNumbers, RunEffects DEF TypeInv, SagaInv
<1>4. run[AcceptSaga].pc = "unmark" /\ UNCHANGED <<fwd, faults>>
  BY DEF MarkCompensated
<1>5. NoneStarted /\ NoneStarted' /\ shares # "settled"
  BY <1>2, AcceptAlone, RunStepKeeps DEF RunStep, TypeInv
<1>6. UNCHANGED <<contract, premium, shares, keys>>
  BY DEF contractVars, moneyVars, shareVars
<1>7. /\ \A j \in {2, 3, 4} : AcceptDid(j)' <=> AcceptDid(j)
      /\ \A j \in {2, 3} : AcceptUndid(j)' <=> AcceptUndid(j)
  BY <1>6, KeysApart
<1>8. CompSet(AcceptSaga, run[AcceptSaga].at, "compensated")
  BY <1>2, LogEffects DEF TypeInv
<1>9. PaidIfDone'
  BY <1>0, <1>1, <1>2, <1>3, <1>4, <1>5, <1>6, <1>7, <1>8 DEF PaidIfDone, IsCompleted,
         Becomes, Busy, NoneStarted, CompSet
<1>10. LoggedIfPaid'
  BY <1>0, <1>1, <1>2, <1>3, <1>4, <1>5, <1>6, <1>7, <1>8 DEF HistoryGrows, LoggedIfPaid, Evident,
         IsCompleted, IsPending, Becomes, Busy, NoneStarted, CompSet
<1>11. PaidIfPending'
  BY <1>0, <1>1, <1>2, <1>3, <1>4, <1>5, <1>6, <1>7, <1>8 DEF PaidIfPending, IsPending,
         Becomes, Busy, NoneStarted, CompSet
<1>12. RefundedIfUndone'
  BY <1>0, <1>1, <1>2, <1>3, <1>4, <1>5, <1>6, <1>7, <1>8 DEF HistoryGrows, RefundedIfUndone,
         Becomes, Busy, NoneStarted, CompSet
<1>13. UndoneIfRefunded'
  BY <1>0, <1>1, <1>2, <1>3, <1>4, <1>5, <1>6, <1>7, <1>8 DEF UndoneIfRefunded,
         Becomes, Busy, NoneStarted, CompSet
<1>14. PremiumHeld'
  BY <1>0, <1>1, <1>2, <1>3, <1>4, <1>5, <1>6, <1>7, <1>8 DEF PremiumHeld,
         UndoneIfRefunded, Becomes, Busy, NoneStarted, CompSet
<1>15. Begun'
  BY <1>0, <1>1, <1>2, <1>3, <1>4, <1>5, <1>6, <1>7, <1>8 DEF Begun, Forwards, Becomes,
         Busy, NoneStarted, CompSet
<1>16. Fresh'
  BY <1>0, <1>1, <1>2, <1>3, <1>4, <1>5, <1>6, <1>7, <1>8 DEF Fresh, Becomes, Busy,
         NoneStarted, CompSet
<1>17. ExercisedAfter'
  BY <1>0, <1>1, <1>2, <1>3, <1>4, <1>5, <1>6, <1>7, <1>8 DEF ExercisedAfter, Becomes,
         Busy, NoneStarted, CompSet
<1>18. TakenByExercise'
  BY <1>0, <1>1, <1>2, <1>3, <1>4, <1>5, <1>6, <1>7, <1>8 DEF TakenByExercise, Becomes,
         Busy, NoneStarted, CompSet
<1>19. NoHold'
  BY <1>0, <1>1, <1>2, <1>3, <1>4, <1>5, <1>6, <1>7, <1>8 DEF NoHold, Exists, Becomes,
         Busy, NoneStarted, CompSet
<1>20. NotFormed'
  BY <1>0, <1>1, <1>2, <1>3, <1>4, <1>5, <1>6, <1>7, <1>8 DEF NotFormed,
         HasCompensations, Becomes, Busy, NoneStarted, CompSet
<1>21. Formed'
  BY <1>0, <1>1, <1>2, <1>3, <1>4, <1>5, <1>6, <1>7, <1>8 DEF Formed, Exists, Evident,
         IsCompleted, IsPending, Becomes, Busy, NoneStarted, CompSet
<1>22. NothingPaid'
  BY <1>0, <1>1, <1>2, <1>3, <1>4, <1>5, <1>6, <1>7, <1>8 DEF NothingPaid, Exists,
         HasCompensations, NotFormed, Gone, UndoesLast, Becomes, Busy, NoneStarted,
         CompSet
<1>23. Gone'
  BY <1>0, <1>1, <1>2, <1>3, <1>4, <1>5, <1>6, <1>7, <1>8 DEF Gone, Begun, Forwards,
         Becomes, Busy, NoneStarted, CompSet
<1>24. GoneRefunded'
  BY <1>0, <1>1, <1>2, <1>3, <1>4, <1>5, <1>6, <1>7, <1>8 DEF HistoryGrows, GoneRefunded, Gone,
         Becomes, Busy, NoneStarted, CompSet
<1>25. GoneIfUndone'
  BY <1>0, <1>1, <1>2, <1>3, <1>4, <1>5, <1>6, <1>7, <1>8 DEF GoneIfUndone, Exists,
         Becomes, Busy, NoneStarted, CompSet
<1>26. CreditKept'
  BY <1>0, <1>1, <1>2, <1>3, <1>4, <1>5, <1>6, <1>7, <1>8 DEF CreditKept, Becomes,
         Busy, NoneStarted, CompSet
<1>27. Credited'
  BY <1>0, <1>1, <1>2, <1>3, <1>4, <1>5, <1>6, <1>7, <1>8 DEF HistoryGrows, Credited, Whole,
         HasCompensations, Evident, IsCompleted, IsPending, UndoesLast, Becomes, Busy,
         NoneStarted, CompSet
<1>28. LeftBehind'
  BY <1>0, <1>1, <1>2, <1>3, <1>4, <1>5, <1>6, <1>7, <1>8 DEF LeftBehind, Undoes,
         GoesOn, HasCompensations, CompCompleted, HistoryGrows, Becomes, Busy,
         NoneStarted, CompSet
<1> QED
  BY <1>9, <1>10, <1>11, <1>12, <1>13, <1>14, <1>15, <1>16, <1>17, <1>18, <1>19,
     <1>20, <1>21, <1>22, <1>23, <1>24, <1>25, <1>26, <1>27, <1>28 DEF AcceptKnown

(* A recovery run without errors closes the row it was started for.        *)
LEMMA AcceptReturns ==
    ASSUME TypeInv, AcceptKnown, SagaLog(AcceptSaga), Restricted, Restricted',
           HistoryGrows,
           Return(AcceptSaga), UNCHANGED <<contractVars, moneyVars, shareVars>>
    PROVE  AcceptKnown'
<1>0. /\ PaidIfDone /\ LoggedIfPaid /\ PaidIfPending /\ RefundedIfUndone
      /\ UndoneIfRefunded /\ PremiumHeld /\ Begun /\ Fresh /\ ExercisedAfter
      /\ TakenByExercise /\ NoHold /\ NotFormed /\ Formed /\ NothingPaid /\ Gone
      /\ GoneRefunded /\ GoneIfUndone /\ CreditKept /\ Credited
      /\ LeftBehind /\ HistoryGrows
  BY DEF AcceptKnown
<1>1. /\ Rests(AcceptSaga) /\ CallsOnce(AcceptSaga) /\ GoesOn(AcceptSaga)
      /\ PassedKnown(AcceptSaga) /\ DoneKnown(AcceptSaga)
      /\ UndoesLast(AcceptSaga) /\ RowKnown(AcceptSaga) /\ RowLogged(AcceptSaga)
      /\ UndoesSome(AcceptSaga) /\ NoneLeft(AcceptSaga)
      /\ CompEvident(AcceptSaga) /\ CompCompleted(AcceptSaga)
      /\ PendingFirst(AcceptSaga) /\ PendingAlone(AcceptSaga)
      /\ InOrder(AcceptSaga)
  BY DEF SagaLog, RunKnown, LogKnown
<1>2. /\ Steps(AcceptSaga) = {1, 2, 3, 4} /\ AcceptSaga \in Sagas
      /\ run[AcceptSaga].at \in {0, 1, 2, 3, 4} /\ run[AcceptSaga].done \subseteq {1, 2, 3, 4}
      /\ run[AcceptSaga].pc \in Busy => run[AcceptSaga].at \in {1, 2, 3, 4}
      /\ run[AcceptSaga].pc \in {"back", "unmark"} => run[AcceptSaga].at # 4
      /\ run[AcceptSaga].row # None => run[AcceptSaga].row[2] \in {1, 2, 3, 4}
  BY AcceptSteps14 DEF TypeInv
<1>3. Becomes(AcceptSaga, "idle", 0, {}, FALSE, None)
  BY <1>2, LastOfRun, StepNumbers, RunEffects DEF TypeInv, SagaInv
<1>4. /\ UNCHANGED faults
      /\ \/ run[AcceptSaga].pc = "return"
         \/ run[AcceptSaga].pc = "undo" /\ run[AcceptSaga].done = {}
  BY DEF Return
<1>5. NoneStarted /\ NoneStarted' /\ shares # "settled"
  BY <1>2, AcceptAlone, RunStepKeeps DEF RunStep, TypeInv
<1>6. UNCHANGED <<contract, premium, shares, keys>>
  BY DEF contractVars, moneyVars, shareVars
<1>7. /\ \A j \in {2, 3, 4} : AcceptDid(j)' <=> AcceptDid(j)
      /\ \A j \in {2, 3} : AcceptUndid(j)' <=> AcceptUndid(j)
  BY <1>6, KeysApart
<1>8. \/ UNCHANGED <<fwd, comp>>
      \/ /\ run[AcceptSaga].row # None /\ ~run[AcceptSaga].error
         /\ run[AcceptSaga].row[1] = "fwd" /\ UNCHANGED comp
         /\ FwdSet(AcceptSaga, run[AcceptSaga].row[2],
                   (fwd[AcceptSaga][run[AcceptSaga].row[2]] \ {"pending"}) \cup {"completed"})
      \/ /\ run[AcceptSaga].row # None /\ ~run[AcceptSaga].error
         /\ comp[AcceptSaga][run[AcceptSaga].row[2]] = "compensated" /\ UNCHANGED fwd
         /\ CompSet(AcceptSaga, run[AcceptSaga].row[2], "compensated")
  <2>1. run[AcceptSaga].row # None => run[AcceptSaga].row \in LogRow
    BY <1>2 DEF TypeInv, SagaInv, RunTyped, Run
  <2>2. run[AcceptSaga].row # None => run[AcceptSaga].row[1] \in {"fwd", "comp"}
    BY <2>1 DEF LogRow
  <2>3. CASE run[AcceptSaga].row = None \/ run[AcceptSaga].error
    BY <2>3 DEF Return
  <2>4. CASE ~(run[AcceptSaga].row = None \/ run[AcceptSaga].error)
    <3>1. Closed(AcceptSaga, run[AcceptSaga].row)
      BY <2>4 DEF Return
    <3>2. run[AcceptSaga].row[1] = "comp" => comp[AcceptSaga][run[AcceptSaga].row[2]] = "compensated"
      BY <1>1, <1>2, <1>4, <2>4 DEF RowKnown, NoneLeft, Undoes
    <3> QED BY <1>2, <2>2, <2>4, <3>1, <3>2, LogEffects DEF TypeInv
  <2> QED BY <2>3, <2>4
<1>9. ASSUME run[AcceptSaga].row # None, ~run[AcceptSaga].error, run[AcceptSaga].row[1] = "fwd",
             run[AcceptSaga].row[2] # 1
      PROVE  AcceptDid(run[AcceptSaga].row[2])
  <2>1. IsPending(AcceptSaga, run[AcceptSaga].row[2])
    BY <1>1, <1>9 DEF RowLogged
  <2>2. run[AcceptSaga].pc = "undo" => HasCompensations(AcceptSaga)
    BY <1>1, <1>9 DEF UndoesSome, Undoes
  <2>3. faults.mark = 1 => faults.crash = 0
    BY DEF Restricted, LogWriteFailsAlone
  <2>4. CASE IsCompleted(AcceptSaga, run[AcceptSaga].row[2])
    BY <1>0, <1>2, <1>9, <2>4 DEF PaidIfDone
  <2>5. CASE ~IsCompleted(AcceptSaga, run[AcceptSaga].row[2])
    <3>1. faults.mark = 1
      BY <1>1, <1>2, <1>4, <1>9, <2>1, <2>2, <2>5 DEF PendingFirst, PassedKnown, Passed
    <3> QED BY <1>0, <1>2, <1>9, <2>1, <2>3, <3>1 DEF PaidIfPending
  <2> QED BY <2>4, <2>5
<1>10. PaidIfDone'
  BY <1>0, <1>1, <1>2, <1>3, <1>4, <1>5, <1>6, <1>7, <1>8, <1>9 DEF PaidIfDone,
         IsCompleted, Becomes, NoneStarted, FwdSet, CompSet
<1>11. LoggedIfPaid'
  BY <1>0, <1>1, <1>2, <1>3, <1>4, <1>5, <1>6, <1>7, <1>8, <1>9 DEF HistoryGrows, LoggedIfPaid,
         Evident, IsCompleted, IsPending, Becomes, NoneStarted, FwdSet, CompSet
<1>12. PaidIfPending'
  BY <1>0, <1>1, <1>2, <1>3, <1>4, <1>5, <1>6, <1>7, <1>8, <1>9 DEF PaidIfPending,
         IsPending, Becomes, NoneStarted, FwdSet, CompSet
<1>13. RefundedIfUndone'
  BY <1>0, <1>1, <1>2, <1>3, <1>4, <1>5, <1>6, <1>7, <1>8, <1>9 DEF HistoryGrows, RefundedIfUndone,
         Becomes, NoneStarted, FwdSet, CompSet
<1>14. UndoneIfRefunded'
  BY <1>0, <1>1, <1>2, <1>3, <1>4, <1>5, <1>6, <1>7, <1>8, <1>9 DEF UndoneIfRefunded,
         Becomes, NoneStarted, FwdSet, CompSet
<1>15. PremiumHeld'
  BY <1>0, <1>1, <1>2, <1>3, <1>4, <1>5, <1>6, <1>7, <1>8, <1>9 DEF PremiumHeld,
         UndoneIfRefunded, Becomes, NoneStarted, FwdSet, CompSet
<1>16. Begun'
  BY <1>0, <1>1, <1>2, <1>3, <1>4, <1>5, <1>6, <1>7, <1>8, <1>9 DEF Begun, Forwards,
         RowLogged, IsPending, PassedKnown, Passed, IsCompleted, InOrder, Becomes,
         NoneStarted, FwdSet, CompSet
<1>17. Fresh'
  BY <1>0, <1>1, <1>2, <1>3, <1>4, <1>5, <1>6, <1>7, <1>8, <1>9 DEF Fresh, Becomes,
         NoneStarted, FwdSet, CompSet
<1>18. ExercisedAfter'
  BY <1>0, <1>1, <1>2, <1>3, <1>4, <1>5, <1>6, <1>7, <1>8, <1>9 DEF ExercisedAfter,
         Becomes, NoneStarted, FwdSet, CompSet
<1>19. TakenByExercise'
  BY <1>0, <1>1, <1>2, <1>3, <1>4, <1>5, <1>6, <1>7, <1>8, <1>9 DEF TakenByExercise,
         Becomes, NoneStarted, FwdSet, CompSet
<1>20. NoHold'
  BY <1>0, <1>1, <1>2, <1>3, <1>4, <1>5, <1>6, <1>7, <1>8, <1>9 DEF NoHold, Exists,
         Becomes, NoneStarted, FwdSet, CompSet
<1>21. NotFormed'
  BY <1>0, <1>1, <1>2, <1>3, <1>4, <1>5, <1>6, <1>7, <1>8, <1>9 DEF NotFormed,
         HasCompensations, Becomes, NoneStarted, FwdSet, CompSet
<1>22. Formed'
  BY <1>0, <1>1, <1>2, <1>3, <1>4, <1>5, <1>6, <1>7, <1>8, <1>9 DEF Formed, Exists,
         Evident, IsCompleted, IsPending, Becomes, NoneStarted, FwdSet, CompSet
<1>23. NothingPaid'
  BY <1>0, <1>1, <1>2, <1>3, <1>4, <1>5, <1>6, <1>7, <1>8, <1>9 DEF NothingPaid,
         Exists, HasCompensations, NotFormed, Gone, RowLogged, IsPending, Becomes,
         NoneStarted, FwdSet, CompSet
<1>24. Gone'
  BY <1>0, <1>1, <1>2, <1>3, <1>4, <1>5, <1>6, <1>7, <1>8, <1>9 DEF Gone, Begun,
         Forwards, Becomes, NoneStarted, FwdSet, CompSet
<1>25. GoneRefunded'
  BY <1>0, <1>1, <1>2, <1>3, <1>4, <1>5, <1>6, <1>7, <1>8, <1>9 DEF HistoryGrows, GoneRefunded, Gone,
         Becomes, NoneStarted, FwdSet, CompSet
<1>26. GoneIfUndone'
  BY <1>0, <1>1, <1>2, <1>3, <1>4, <1>5, <1>6, <1>7, <1>8, <1>9 DEF GoneIfUndone,
         Exists, Becomes, NoneStarted, FwdSet, CompSet
<1>27. CreditKept'
  BY <1>0, <1>1, <1>2, <1>3, <1>4, <1>5, <1>6, <1>7, <1>8, <1>9 DEF CreditKept,
         Becomes, NoneStarted, FwdSet, CompSet
<1>28. Credited'
  <2> SUFFICES ASSUME AcceptDid(4)', ~LostBy(AcceptSaga, 4)' PROVE Credited'
    BY DEF Credited
  <2>1. /\ ~HasCompensations(AcceptSaga) /\ \E m \in {1, 2, 3, 4} : Whole(m)
        /\ \A k \in {1, 2, 3} : Evident(AcceptSaga, k)
    BY <1>0, <1>4, <1>7 DEF Credited, HistoryGrows
  <2>2. \A k \in {1, 2, 3, 4} : comp'[AcceptSaga][k] = comp[AcceptSaga][k]
    BY <1>2, <1>8 DEF CompSet
  <2>3. \A k \in {1, 2, 3, 4} :
            \/ fwd'[AcceptSaga][k] = fwd[AcceptSaga][k]
            \/ "completed" \in fwd'[AcceptSaga][k]
    BY <1>2, <1>8 DEF FwdSet
  <2>4. \A k \in {1, 2, 3, 4} : IsCompleted(AcceptSaga, k) => IsCompleted(AcceptSaga, k)'
    BY <2>3 DEF IsCompleted
  <2>5. (\E m \in {1, 2, 3, 4} : Whole(m))'
    BY <2>1, <2>4 DEF Whole
  <2>6. \A k \in {1, 2, 3} : Evident(AcceptSaga, k)'
    BY <2>1, <2>3 DEF Evident, IsCompleted, IsPending
  <2>7. ~HasCompensations(AcceptSaga)'
    BY <1>2, <2>1, <2>2, StepNumbers DEF HasCompensations
  <2> QED BY <1>3, <2>5, <2>6, <2>7 DEF Credited, Becomes
<1>29. LeftBehind'
  BY <1>0, <1>1, <1>2, <1>3, <1>4, <1>5, <1>6, <1>7, <1>8, <1>9 DEF LeftBehind,
         Undoes, GoesOn, HasCompensations, CompCompleted, HistoryGrows, Becomes,
         NoneStarted, FwdSet, CompSet
<1> QED
  BY <1>10, <1>11, <1>12, <1>13, <1>14, <1>15, <1>16, <1>17, <1>18, <1>19, <1>20,
     <1>21, <1>22, <1>23, <1>24, <1>25, <1>26, <1>27, <1>28, <1>29 DEF AcceptKnown

(* A row is given up as a dead letter.                                     *)
LEMMA AcceptGivesUp ==
    ASSUME TypeInv, AcceptKnown, SagaLog(AcceptSaga), Restricted, Restricted',
           HistoryGrows,
           NEW row \in Stuck(AcceptSaga), MarkDeadLetter(AcceptSaga, row),
           UNCHANGED <<contractVars, moneyVars, shareVars>>
    PROVE  AcceptKnown'
<1>0. /\ PaidIfDone /\ LoggedIfPaid /\ PaidIfPending /\ RefundedIfUndone
      /\ UndoneIfRefunded /\ PremiumHeld /\ Begun /\ Fresh /\ ExercisedAfter
      /\ TakenByExercise /\ NoHold /\ NotFormed /\ Formed /\ NothingPaid /\ Gone
      /\ GoneRefunded /\ GoneIfUndone /\ CreditKept /\ Credited
      /\ LeftBehind /\ HistoryGrows
  BY DEF AcceptKnown
<1>1. /\ Rests(AcceptSaga) /\ CallsOnce(AcceptSaga) /\ GoesOn(AcceptSaga)
      /\ PassedKnown(AcceptSaga) /\ DoneKnown(AcceptSaga)
      /\ UndoesLast(AcceptSaga) /\ RowKnown(AcceptSaga) /\ RowLogged(AcceptSaga)
      /\ UndoesSome(AcceptSaga) /\ NoneLeft(AcceptSaga)
      /\ CompEvident(AcceptSaga) /\ CompCompleted(AcceptSaga)
      /\ PendingFirst(AcceptSaga) /\ PendingAlone(AcceptSaga)
      /\ InOrder(AcceptSaga)
  BY DEF SagaLog, RunKnown, LogKnown
<1>2. /\ Steps(AcceptSaga) = {1, 2, 3, 4} /\ AcceptSaga \in Sagas
      /\ run[AcceptSaga].at \in {0, 1, 2, 3, 4} /\ run[AcceptSaga].done \subseteq {1, 2, 3, 4}
      /\ run[AcceptSaga].pc \in Busy => run[AcceptSaga].at \in {1, 2, 3, 4}
      /\ run[AcceptSaga].pc \in {"back", "unmark"} => run[AcceptSaga].at # 4
      /\ run[AcceptSaga].row # None => run[AcceptSaga].row[2] \in {1, 2, 3, 4}
  BY AcceptSteps14 DEF TypeInv
<1>3. /\ row[2] \in {1, 2, 3, 4}
      /\ \/ row[1] = "fwd" /\ "pending" \in fwd[AcceptSaga][row[2]]
         \/ row[1] = "comp" /\ comp[AcceptSaga][row[2]] = "compensating"
  BY <1>2, StuckRows
<1>4. run[AcceptSaga].pc = "idle" /\ UNCHANGED <<run, faults>>
  BY DEF MarkDeadLetter, Recoverable
<1>5. NoneStarted /\ NoneStarted' /\ shares # "settled"
  BY <1>2, AcceptAlone, CronStepKeeps DEF CronStep, TypeInv
<1>6. UNCHANGED <<contract, premium, shares, keys>>
  BY DEF contractVars, moneyVars, shareVars
<1>7. /\ \A j \in {2, 3, 4} : AcceptDid(j)' <=> AcceptDid(j)
      /\ \A j \in {2, 3} : AcceptUndid(j)' <=> AcceptUndid(j)
  BY <1>6, KeysApart
<1>8. \/ /\ UNCHANGED comp /\ "pending" \in fwd[AcceptSaga][row[2]]
         /\ FwdSet(AcceptSaga, row[2], (fwd[AcceptSaga][row[2]] \ {"pending"}) \cup {"dead_letter"})
      \/ /\ UNCHANGED fwd /\ comp[AcceptSaga][row[2]] = "compensating"
         /\ CompSet(AcceptSaga, row[2], "dead_letter")
  BY <1>2, <1>3, LogEffects DEF TypeInv
<1>9. PaidIfDone'
  BY <1>0, <1>1, <1>2, <1>3, <1>4, <1>5, <1>6, <1>7, <1>8 DEF PaidIfDone, IsCompleted,
         Rests, NoneStarted, FwdSet, CompSet
<1>10. LoggedIfPaid'
  BY <1>0, <1>1, <1>2, <1>3, <1>4, <1>5, <1>6, <1>7, <1>8 DEF HistoryGrows, LoggedIfPaid, Evident,
         IsCompleted, IsPending, NoneStarted, FwdSet, CompSet
<1>11. PaidIfPending'
  BY <1>0, <1>1, <1>2, <1>3, <1>4, <1>5, <1>6, <1>7, <1>8 DEF PaidIfPending, IsPending,
         NoneStarted, FwdSet, CompSet
<1>12. RefundedIfUndone'
  BY <1>0, <1>1, <1>2, <1>3, <1>4, <1>5, <1>6, <1>7, <1>8 DEF HistoryGrows, RefundedIfUndone,
         NoneStarted, FwdSet, CompSet
<1>13. UndoneIfRefunded'
  BY <1>0, <1>1, <1>2, <1>3, <1>4, <1>5, <1>6, <1>7, <1>8 DEF UndoneIfRefunded,
         NoneStarted, FwdSet, CompSet
<1>14. PremiumHeld'
  BY <1>0, <1>1, <1>2, <1>3, <1>4, <1>5, <1>6, <1>7, <1>8 DEF PremiumHeld,
         UndoneIfRefunded, NoneStarted, FwdSet, CompSet
<1>15. Begun'
  BY <1>0, <1>1, <1>2, <1>3, <1>4, <1>5, <1>6, <1>7, <1>8 DEF Begun, Forwards,
         NoneStarted, FwdSet, CompSet
<1>16. Fresh'
  BY <1>0, <1>1, <1>2, <1>3, <1>4, <1>5, <1>6, <1>7, <1>8 DEF Fresh, NoneStarted,
         FwdSet, CompSet
<1>17. ExercisedAfter'
  BY <1>0, <1>1, <1>2, <1>3, <1>4, <1>5, <1>6, <1>7, <1>8 DEF ExercisedAfter,
         NoneStarted, FwdSet, CompSet
<1>18. TakenByExercise'
  BY <1>0, <1>1, <1>2, <1>3, <1>4, <1>5, <1>6, <1>7, <1>8 DEF TakenByExercise,
         NoneStarted, FwdSet, CompSet
<1>19. NoHold'
  BY <1>0, <1>1, <1>2, <1>3, <1>4, <1>5, <1>6, <1>7, <1>8 DEF NoHold, Exists,
         NoneStarted, FwdSet, CompSet
<1>20. NotFormed'
  BY <1>0, <1>1, <1>2, <1>3, <1>4, <1>5, <1>6, <1>7, <1>8 DEF NotFormed,
         HasCompensations, NoneStarted, FwdSet, CompSet
<1>21. Formed'
  BY <1>0, <1>1, <1>2, <1>3, <1>4, <1>5, <1>6, <1>7, <1>8 DEF Formed, Exists, Evident,
         IsCompleted, IsPending, NoneStarted, FwdSet, CompSet
<1>22. NothingPaid'
  BY <1>0, <1>1, <1>2, <1>3, <1>4, <1>5, <1>6, <1>7, <1>8 DEF NothingPaid, Exists,
         HasCompensations, NotFormed, Gone, Rests, NoneStarted, FwdSet, CompSet
<1>23. Gone'
  BY <1>0, <1>1, <1>2, <1>3, <1>4, <1>5, <1>6, <1>7, <1>8 DEF Gone, Begun, Forwards,
         NoneStarted, FwdSet, CompSet
<1>24. GoneRefunded'
  BY <1>0, <1>1, <1>2, <1>3, <1>4, <1>5, <1>6, <1>7, <1>8 DEF HistoryGrows, GoneRefunded, Gone,
         NoneStarted, FwdSet, CompSet
<1>25. GoneIfUndone'
  BY <1>0, <1>1, <1>2, <1>3, <1>4, <1>5, <1>6, <1>7, <1>8 DEF GoneIfUndone, Exists,
         NoneStarted, FwdSet, CompSet
<1>26. CreditKept'
  BY <1>0, <1>1, <1>2, <1>3, <1>4, <1>5, <1>6, <1>7, <1>8 DEF CreditKept, NoneStarted,
         FwdSet, CompSet
<1>27. Credited'
  BY <1>0, <1>1, <1>2, <1>3, <1>4, <1>5, <1>6, <1>7, <1>8 DEF HistoryGrows, Credited, Whole,
         HasCompensations, Evident, IsCompleted, IsPending, Rests, NoneStarted, FwdSet,
         CompSet
<1>28. LeftBehind'
  BY <1>0, <1>1, <1>2, <1>3, <1>4, <1>5, <1>6, <1>7, <1>8 DEF LeftBehind, Undoes,
         GoesOn, HasCompensations, CompCompleted, HistoryGrows, NoneStarted, FwdSet,
         CompSet
<1> QED
  BY <1>9, <1>10, <1>11, <1>12, <1>13, <1>14, <1>15, <1>16, <1>17, <1>18, <1>19,
     <1>20, <1>21, <1>22, <1>23, <1>24, <1>25, <1>26, <1>27, <1>28 DEF AcceptKnown

(* The accept saga is resumed, or its compensation is.                     *)
LEMMA AcceptRecovers ==
    ASSUME TypeInv, AcceptKnown, SagaLog(AcceptSaga), Restricted, Restricted',
           HistoryGrows,
           NEW row \in Stuck(AcceptSaga), Recover(AcceptSaga, row), Exists,
           UNCHANGED <<contract, version, moneyVars, shareVars>>
    PROVE  AcceptKnown'
<1>0. /\ PaidIfDone /\ LoggedIfPaid /\ PaidIfPending /\ RefundedIfUndone
      /\ UndoneIfRefunded /\ PremiumHeld /\ Begun /\ Fresh /\ ExercisedAfter
      /\ TakenByExercise /\ NoHold /\ NotFormed /\ Formed /\ NothingPaid /\ Gone
      /\ GoneRefunded /\ GoneIfUndone /\ CreditKept /\ Credited
      /\ LeftBehind /\ HistoryGrows
  BY DEF AcceptKnown
<1>1. /\ Rests(AcceptSaga) /\ CallsOnce(AcceptSaga) /\ GoesOn(AcceptSaga)
      /\ PassedKnown(AcceptSaga) /\ DoneKnown(AcceptSaga)
      /\ UndoesLast(AcceptSaga) /\ RowKnown(AcceptSaga) /\ RowLogged(AcceptSaga)
      /\ UndoesSome(AcceptSaga) /\ NoneLeft(AcceptSaga)
      /\ CompEvident(AcceptSaga) /\ CompCompleted(AcceptSaga)
      /\ PendingFirst(AcceptSaga) /\ PendingAlone(AcceptSaga)
      /\ InOrder(AcceptSaga)
  BY DEF SagaLog, RunKnown, LogKnown
<1>2. /\ Steps(AcceptSaga) = {1, 2, 3, 4} /\ AcceptSaga \in Sagas
      /\ run[AcceptSaga].at \in {0, 1, 2, 3, 4} /\ run[AcceptSaga].done \subseteq {1, 2, 3, 4}
      /\ run[AcceptSaga].pc \in Busy => run[AcceptSaga].at \in {1, 2, 3, 4}
      /\ run[AcceptSaga].pc \in {"back", "unmark"} => run[AcceptSaga].at # 4
      /\ run[AcceptSaga].row # None => run[AcceptSaga].row[2] \in {1, 2, 3, 4}
  BY AcceptSteps14 DEF TypeInv
<1>3. /\ row[2] \in {1, 2, 3, 4}
      /\ \/ row[1] = "fwd" /\ "pending" \in fwd[AcceptSaga][row[2]]
         \/ row[1] = "comp" /\ comp[AcceptSaga][row[2]] = "compensating"
  BY <1>2, StuckRows
<1>4. /\ run[AcceptSaga].pc = "idle" /\ UNCHANGED <<fwd, comp, faults>> /\ row # None
      /\ Exists /\ contract # "none" /\ contract # "deleted"
      /\ \/ /\ HasCompensations(AcceptSaga)
            /\ Becomes(AcceptSaga, "undo", 0,
                       {i \in Steps(AcceptSaga) : IsCompleted(AcceptSaga, i)},
                       FALSE, row)
         \/ ~HasCompensations(AcceptSaga) /\ Becomes(AcceptSaga, "record", 1, {}, FALSE, row)
  BY <1>2, RecoverEffect, StuckRows, SagaAssumption DEF Recover, Recoverable, TypeInv,
        Exists,
     LogRow
<1>5. NoneStarted /\ NoneStarted' /\ shares # "settled"
  BY <1>2, AcceptAlone, CronStepKeeps DEF CronStep, TypeInv
<1>6. UNCHANGED <<contract, premium, shares, keys>>
  BY DEF moneyVars, shareVars
<1>7. /\ \A j \in {2, 3, 4} : AcceptDid(j)' <=> AcceptDid(j)
      /\ \A j \in {2, 3} : AcceptUndid(j)' <=> AcceptUndid(j)
  BY <1>6, KeysApart
<1>8. PaidIfDone'
  BY <1>0, <1>1, <1>2, <1>3, <1>4, <1>5, <1>6, <1>7 DEF PaidIfDone, IsCompleted,
         Becomes, NoneStarted
<1>9. LoggedIfPaid'
  BY <1>0, <1>1, <1>2, <1>3, <1>4, <1>5, <1>6, <1>7 DEF HistoryGrows, LoggedIfPaid, Evident,
         IsCompleted, IsPending, Becomes, NoneStarted
<1>10. PaidIfPending'
  BY <1>0, <1>1, <1>2, <1>3, <1>4, <1>5, <1>6, <1>7 DEF PaidIfPending, IsPending,
         Becomes, NoneStarted
<1>11. RefundedIfUndone'
  BY <1>0, <1>1, <1>2, <1>3, <1>4, <1>5, <1>6, <1>7 DEF HistoryGrows, RefundedIfUndone, Becomes,
         NoneStarted
<1>12. UndoneIfRefunded'
  BY <1>0, <1>1, <1>2, <1>3, <1>4, <1>5, <1>6, <1>7 DEF UndoneIfRefunded, Becomes,
         NoneStarted
<1>13. PremiumHeld'
  BY <1>0, <1>1, <1>2, <1>3, <1>4, <1>5, <1>6, <1>7 DEF PremiumHeld, UndoneIfRefunded,
         Becomes, NoneStarted
<1>14. Begun'
  BY <1>0, <1>1, <1>2, <1>3, <1>4, <1>5, <1>6, <1>7 DEF Begun, Forwards, CompEvident,
         InOrder, Evident, IsCompleted, IsPending, Becomes, NoneStarted
<1>15. Fresh'
  BY <1>0, <1>1, <1>2, <1>3, <1>4, <1>5, <1>6, <1>7 DEF Fresh, Becomes, NoneStarted
<1>16. ExercisedAfter'
  BY <1>0, <1>1, <1>2, <1>3, <1>4, <1>5, <1>6, <1>7 DEF ExercisedAfter, Becomes,
         NoneStarted
<1>17. TakenByExercise'
  BY <1>0, <1>1, <1>2, <1>3, <1>4, <1>5, <1>6, <1>7 DEF TakenByExercise, Becomes,
         NoneStarted
<1>18. NoHold'
  BY <1>0, <1>1, <1>2, <1>3, <1>4, <1>5, <1>6, <1>7 DEF NoHold, Exists, Becomes,
         NoneStarted
<1>19. NotFormed'
  BY <1>0, <1>1, <1>2, <1>3, <1>4, <1>5, <1>6, <1>7 DEF NotFormed, HasCompensations,
         Becomes, NoneStarted
<1>20. Formed'
  BY <1>0, <1>1, <1>2, <1>3, <1>4, <1>5, <1>6, <1>7 DEF Formed, Exists, Evident,
         IsCompleted, IsPending, Becomes, NoneStarted
<1>21. NothingPaid'
  BY <1>0, <1>1, <1>2, <1>3, <1>4, <1>5, <1>6, <1>7 DEF NothingPaid, Exists,
         HasCompensations, NotFormed, Gone, Becomes, NoneStarted
<1>22. Gone'
  BY <1>0, <1>1, <1>2, <1>3, <1>4, <1>5, <1>6, <1>7 DEF Gone, Begun, Forwards, Becomes,
         NoneStarted
<1>23. GoneRefunded'
  BY <1>0, <1>1, <1>2, <1>3, <1>4, <1>5, <1>6, <1>7 DEF HistoryGrows, GoneRefunded, Gone, Becomes,
         NoneStarted
<1>24. GoneIfUndone'
  BY <1>0, <1>1, <1>2, <1>3, <1>4, <1>5, <1>6, <1>7 DEF GoneIfUndone, Exists, Becomes,
         NoneStarted
<1>25. CreditKept'
  BY <1>0, <1>1, <1>2, <1>3, <1>4, <1>5, <1>6, <1>7 DEF CreditKept, Becomes,
         NoneStarted
<1>26. Credited'
  BY <1>0, <1>1, <1>2, <1>3, <1>4, <1>5, <1>6, <1>7 DEF HistoryGrows, Credited, Whole,
         HasCompensations, Evident, IsCompleted, IsPending, Rests, Becomes, NoneStarted
<1>27. LeftBehind'
  BY <1>0, <1>1, <1>2, <1>3, <1>4, <1>5, <1>6, <1>7 DEF LeftBehind, Undoes, GoesOn,
         HasCompensations, CompCompleted, HistoryGrows, Becomes, NoneStarted
<1> QED
  BY <1>8, <1>9, <1>10, <1>11, <1>12, <1>13, <1>14, <1>15, <1>16, <1>17, <1>18,
     <1>19, <1>20, <1>21, <1>22, <1>23, <1>24, <1>25, <1>26, <1>27 DEF AcceptKnown

(* Without a contract, recovery closes the row as it is.                   *)
LEMMA AcceptClosed ==
    ASSUME TypeInv, AcceptKnown, SagaLog(AcceptSaga), Restricted, Restricted',
           HistoryGrows,
           NEW row \in Stuck(AcceptSaga), RecoverNothing(AcceptSaga, row), ~Exists,
           UNCHANGED <<contract, version, moneyVars, shareVars>>
    PROVE  AcceptKnown'
<1>0. /\ PaidIfDone /\ LoggedIfPaid /\ PaidIfPending /\ RefundedIfUndone
      /\ UndoneIfRefunded /\ PremiumHeld /\ Begun /\ Fresh /\ ExercisedAfter
      /\ TakenByExercise /\ NoHold /\ NotFormed /\ Formed /\ NothingPaid /\ Gone
      /\ GoneRefunded /\ GoneIfUndone /\ CreditKept /\ Credited
      /\ LeftBehind /\ HistoryGrows
  BY DEF AcceptKnown
<1>1. /\ Rests(AcceptSaga) /\ CallsOnce(AcceptSaga) /\ GoesOn(AcceptSaga)
      /\ PassedKnown(AcceptSaga) /\ DoneKnown(AcceptSaga)
      /\ UndoesLast(AcceptSaga) /\ RowKnown(AcceptSaga) /\ RowLogged(AcceptSaga)
      /\ UndoesSome(AcceptSaga) /\ NoneLeft(AcceptSaga)
      /\ CompEvident(AcceptSaga) /\ CompCompleted(AcceptSaga)
      /\ PendingFirst(AcceptSaga) /\ PendingAlone(AcceptSaga)
      /\ InOrder(AcceptSaga)
  BY DEF SagaLog, RunKnown, LogKnown
<1>2. /\ Steps(AcceptSaga) = {1, 2, 3, 4} /\ AcceptSaga \in Sagas
      /\ run[AcceptSaga].at \in {0, 1, 2, 3, 4} /\ run[AcceptSaga].done \subseteq {1, 2, 3, 4}
      /\ run[AcceptSaga].pc \in Busy => run[AcceptSaga].at \in {1, 2, 3, 4}
      /\ run[AcceptSaga].pc \in {"back", "unmark"} => run[AcceptSaga].at # 4
      /\ run[AcceptSaga].row # None => run[AcceptSaga].row[2] \in {1, 2, 3, 4}
  BY AcceptSteps14 DEF TypeInv
<1>3. /\ row[2] \in {1, 2, 3, 4}
      /\ \/ row[1] = "fwd" /\ "pending" \in fwd[AcceptSaga][row[2]]
         \/ row[1] = "comp" /\ comp[AcceptSaga][row[2]] = "compensating"
  BY <1>2, StuckRows
<1>4. run[AcceptSaga].pc = "idle" /\ UNCHANGED <<run, faults>> /\ ~Exists
  BY DEF RecoverNothing, Recoverable
<1>5. NoneStarted /\ NoneStarted' /\ shares # "settled"
  BY <1>2, AcceptAlone, CronStepKeeps DEF CronStep, TypeInv
<1>6. UNCHANGED <<contract, premium, shares, keys>>
  BY DEF moneyVars, shareVars
<1>7. /\ \A j \in {2, 3, 4} : AcceptDid(j)' <=> AcceptDid(j)
      /\ \A j \in {2, 3} : AcceptUndid(j)' <=> AcceptUndid(j)
  BY <1>6, KeysApart
<1>8. \/ /\ UNCHANGED comp /\ "pending" \in fwd[AcceptSaga][row[2]]
         /\ FwdSet(AcceptSaga, row[2], (fwd[AcceptSaga][row[2]] \ {"pending"}) \cup {"completed"})
      \/ /\ UNCHANGED fwd /\ comp[AcceptSaga][row[2]] = "compensating"
         /\ CompSet(AcceptSaga, row[2], "compensated")
  BY <1>2, <1>3, LogEffects DEF TypeInv, RecoverNothing
<1>9. ASSUME "pending" \in fwd[AcceptSaga][row[2]], row[2] # 1
      PROVE  AcceptDid(row[2])
  <2>1. HasCompensations(AcceptSaga)
    BY <1>0, <1>3, <1>4, <1>9 DEF NothingPaid
  <2>2. faults.mark = 1 => faults.crash = 0
    BY DEF Restricted, LogWriteFailsAlone
  <2>3. CASE IsCompleted(AcceptSaga, row[2])
    BY <1>0, <1>3, <1>9, <2>3 DEF PaidIfDone
  <2>4. CASE ~IsCompleted(AcceptSaga, row[2])
    <3>1. faults.mark = 1
      BY <1>1, <1>2, <1>3, <1>9, <2>1, <2>4 DEF PendingFirst, IsPending
    <3> QED BY <1>0, <1>3, <1>9, <2>2, <3>1 DEF PaidIfPending, IsPending
  <2> QED BY <2>3, <2>4
<1>10. comp[AcceptSaga][row[2]] = "compensating" => contract = "deleted"
  BY <1>0, <1>2, <1>3, <1>4 DEF NotFormed, HasCompensations, Exists
<1>11. PaidIfDone'
  BY <1>0, <1>1, <1>2, <1>3, <1>4, <1>5, <1>6, <1>7, <1>8, <1>9, <1>10 DEF PaidIfDone,
         IsCompleted, Rests, NoneStarted, FwdSet, CompSet
<1>12. LoggedIfPaid'
  BY <1>0, <1>1, <1>2, <1>3, <1>4, <1>5, <1>6, <1>7, <1>8, <1>9, <1>10 DEF
         HistoryGrows, LoggedIfPaid, Evident, IsCompleted, IsPending, NoneStarted, FwdSet, CompSet
<1>13. PaidIfPending'
  BY <1>0, <1>1, <1>2, <1>3, <1>4, <1>5, <1>6, <1>7, <1>8, <1>9, <1>10 DEF
         PaidIfPending, IsPending, NoneStarted, FwdSet, CompSet
<1>14. RefundedIfUndone'
  BY <1>0, <1>1, <1>2, <1>3, <1>4, <1>5, <1>6, <1>7, <1>8, <1>9, <1>10 DEF
         HistoryGrows, RefundedIfUndone, GoneRefunded, NoneStarted, FwdSet, CompSet
<1>15. UndoneIfRefunded'
  BY <1>0, <1>1, <1>2, <1>3, <1>4, <1>5, <1>6, <1>7, <1>8, <1>9, <1>10 DEF
         UndoneIfRefunded, NoneStarted, FwdSet, CompSet
<1>16. PremiumHeld'
  BY <1>0, <1>1, <1>2, <1>3, <1>4, <1>5, <1>6, <1>7, <1>8, <1>9, <1>10 DEF PremiumHeld,
         UndoneIfRefunded, NoneStarted, FwdSet, CompSet
<1>17. Begun'
  BY <1>0, <1>1, <1>2, <1>3, <1>4, <1>5, <1>6, <1>7, <1>8, <1>9, <1>10 DEF Begun,
         Forwards, CompEvident, NoneStarted, FwdSet, CompSet
<1>18. Fresh'
  BY <1>0, <1>1, <1>2, <1>3, <1>4, <1>5, <1>6, <1>7, <1>8, <1>9, <1>10 DEF Fresh,
         NoneStarted, FwdSet, CompSet
<1>19. ExercisedAfter'
  BY <1>0, <1>1, <1>2, <1>3, <1>4, <1>5, <1>6, <1>7, <1>8, <1>9, <1>10 DEF
         ExercisedAfter, NoneStarted, FwdSet, CompSet
<1>20. TakenByExercise'
  BY <1>0, <1>1, <1>2, <1>3, <1>4, <1>5, <1>6, <1>7, <1>8, <1>9, <1>10 DEF
         TakenByExercise, NoneStarted, FwdSet, CompSet
<1>21. NoHold'
  BY <1>0, <1>1, <1>2, <1>3, <1>4, <1>5, <1>6, <1>7, <1>8, <1>9, <1>10 DEF NoHold,
         Exists, NoneStarted, FwdSet, CompSet
<1>22. NotFormed'
  BY <1>0, <1>1, <1>2, <1>3, <1>4, <1>5, <1>6, <1>7, <1>8, <1>9, <1>10 DEF NotFormed,
         HasCompensations, NoneStarted, FwdSet, CompSet
<1>23. Formed'
  BY <1>0, <1>1, <1>2, <1>3, <1>4, <1>5, <1>6, <1>7, <1>8, <1>9, <1>10 DEF Formed,
         Exists, Evident, IsCompleted, IsPending, NoneStarted, FwdSet, CompSet
<1>24. NothingPaid'
  BY <1>0, <1>1, <1>2, <1>3, <1>4, <1>5, <1>6, <1>7, <1>8, <1>9, <1>10 DEF NothingPaid,
         Exists, HasCompensations, NotFormed, Gone, Rests, NoneStarted, FwdSet, CompSet
<1>25. Gone'
  BY <1>0, <1>1, <1>2, <1>3, <1>4, <1>5, <1>6, <1>7, <1>8, <1>9, <1>10 DEF Gone, Begun,
         Forwards, NoneStarted, FwdSet, CompSet
<1>26. GoneRefunded'
  BY <1>0, <1>1, <1>2, <1>3, <1>4, <1>5, <1>6, <1>7, <1>8, <1>9, <1>10 DEF
         HistoryGrows, GoneRefunded, Gone, NoneStarted, FwdSet, CompSet
<1>27. GoneIfUndone'
  BY <1>0, <1>1, <1>2, <1>3, <1>4, <1>5, <1>6, <1>7, <1>8, <1>9, <1>10 DEF
         GoneIfUndone, Exists, NoneStarted, FwdSet, CompSet
<1>28. CreditKept'
  BY <1>0, <1>1, <1>2, <1>3, <1>4, <1>5, <1>6, <1>7, <1>8, <1>9, <1>10 DEF CreditKept,
         NoneStarted, FwdSet, CompSet
<1>29. Credited'
  BY <1>0, <1>1, <1>2, <1>3, <1>4, <1>5, <1>6, <1>7, <1>8, <1>9, <1>10 DEF HistoryGrows, Credited,
         Whole, HasCompensations, Evident, IsCompleted, IsPending, Rests, NoneStarted,
         FwdSet, CompSet
<1>30. LeftBehind'
  BY <1>0, <1>1, <1>2, <1>3, <1>4, <1>5, <1>6, <1>7, <1>8, <1>9, <1>10 DEF
         LeftBehind, Undoes, GoesOn, HasCompensations, CompCompleted, HistoryGrows,
         NoneStarted, FwdSet, CompSet
<1> QED
  BY <1>11, <1>12, <1>13, <1>14, <1>15, <1>16, <1>17, <1>18, <1>19, <1>20, <1>21,
     <1>22, <1>23, <1>24, <1>25, <1>26, <1>27, <1>28, <1>29, <1>30 DEF AcceptKnown

(* A Backward of the accept saga fails, and its row stays.                 *)
LEMMA AcceptNotUndone ==
    ASSUME TypeInv, AcceptKnown, SagaLog(AcceptSaga), Restricted, Restricted',
           HistoryGrows,
           BackwardRefused(AcceptSaga)
    PROVE  AcceptKnown'
<1>0. /\ PaidIfDone /\ LoggedIfPaid /\ PaidIfPending /\ RefundedIfUndone
      /\ UndoneIfRefunded /\ PremiumHeld /\ Begun /\ Fresh /\ ExercisedAfter
      /\ TakenByExercise /\ NoHold /\ NotFormed /\ Formed /\ NothingPaid /\ Gone
      /\ GoneRefunded /\ GoneIfUndone /\ CreditKept /\ Credited
      /\ LeftBehind /\ HistoryGrows
  BY DEF AcceptKnown
<1>1. /\ Rests(AcceptSaga) /\ CallsOnce(AcceptSaga) /\ GoesOn(AcceptSaga)
      /\ PassedKnown(AcceptSaga) /\ DoneKnown(AcceptSaga)
      /\ UndoesLast(AcceptSaga) /\ RowKnown(AcceptSaga) /\ RowLogged(AcceptSaga)
      /\ UndoesSome(AcceptSaga) /\ NoneLeft(AcceptSaga)
      /\ CompEvident(AcceptSaga) /\ CompCompleted(AcceptSaga)
      /\ PendingFirst(AcceptSaga) /\ PendingAlone(AcceptSaga)
      /\ InOrder(AcceptSaga)
  BY DEF SagaLog, RunKnown, LogKnown
<1>2. /\ Steps(AcceptSaga) = {1, 2, 3, 4} /\ AcceptSaga \in Sagas
      /\ run[AcceptSaga].at \in {0, 1, 2, 3, 4} /\ run[AcceptSaga].done \subseteq {1, 2, 3, 4}
      /\ run[AcceptSaga].pc \in Busy => run[AcceptSaga].at \in {1, 2, 3, 4}
      /\ run[AcceptSaga].pc \in {"back", "unmark"} => run[AcceptSaga].at # 4
      /\ run[AcceptSaga].row # None => run[AcceptSaga].row[2] \in {1, 2, 3, 4}
  BY AcceptSteps14 DEF TypeInv
<1>3. Becomes(AcceptSaga, "undo", run[AcceptSaga].at,
              run[AcceptSaga].done \ {run[AcceptSaga].at}, TRUE, run[AcceptSaga].row)
  BY <1>2, LastOfRun, StepNumbers, RunEffects DEF TypeInv, SagaInv, BackwardRefused
<1>4. /\ run[AcceptSaga].pc = "back" /\ UNCHANGED fwd /\ faults'.crash = faults.crash
      /\ FailedBack(AcceptSaga, run[AcceptSaga].at)'
  <2>1. run[AcceptSaga].pc = "back" /\ UNCHANGED fwd
    BY DEF BackwardRefused, BackwardFailed
  <2>2. /\ faults \in Faults
        /\ UNCHANGED faults \/ faults' = [faults EXCEPT !.back = @ + 1]
    BY DEF BackwardRefused, TypeInv, SagaInv, LogTyped
  <2>3. run'[AcceptSaga].at = run[AcceptSaga].at
    BY <1>3 DEF Becomes
  <2>4. <<AcceptSaga, run[AcceptSaga].at>> \in backErrors'
    BY DEF BackwardRefused
  <2>5. FailedBack(AcceptSaga, run[AcceptSaga].at)'
    BY <2>3, <2>4 DEF FailedBack
  <2> QED BY <2>1, <2>2, <2>5 DEF Faults
<1>5. NoneStarted /\ NoneStarted' /\ shares # "settled"
  BY <1>2, AcceptAlone, RunStepKeeps DEF RunStep, BackwardRefused, NotUndone, TypeInv
<1>6. UNCHANGED <<contract, premium, shares, keys>>
  BY DEF BackwardRefused, contractVars, moneyVars, shareVars
<1>7. /\ \A j \in {2, 3, 4} : AcceptDid(j)' <=> AcceptDid(j)
      /\ \A j \in {2, 3} : AcceptUndid(j)' <=> AcceptUndid(j)
  BY <1>6, KeysApart
<1>8. CompSet(AcceptSaga, run[AcceptSaga].at, "compensating")
  BY <1>2, LogEffects DEF TypeInv, BackwardRefused
<1>9. PaidIfDone'
  BY <1>0, <1>1, <1>2, <1>3, <1>4, <1>5, <1>6, <1>7, <1>8 DEF PaidIfDone, IsCompleted,
         Becomes, Busy, NoneStarted, CompSet
<1>10. LoggedIfPaid'
  BY <1>0, <1>1, <1>2, <1>3, <1>4, <1>5, <1>6, <1>7, <1>8 DEF HistoryGrows, LoggedIfPaid, Evident,
         IsCompleted, IsPending, Becomes, Busy, NoneStarted, CompSet
<1>11. PaidIfPending'
  BY <1>0, <1>1, <1>2, <1>3, <1>4, <1>5, <1>6, <1>7, <1>8 DEF PaidIfPending, IsPending,
         Becomes, Busy, NoneStarted, CompSet
<1>12. RefundedIfUndone'
  BY <1>0, <1>1, <1>2, <1>3, <1>4, <1>5, <1>6, <1>7, <1>8 DEF HistoryGrows, RefundedIfUndone,
         Becomes, Busy, NoneStarted, CompSet
<1>13. UndoneIfRefunded'
  BY <1>0, <1>1, <1>2, <1>3, <1>4, <1>5, <1>6, <1>7, <1>8 DEF UndoneIfRefunded,
         Becomes, Busy, NoneStarted, CompSet
<1>14. PremiumHeld'
  BY <1>0, <1>1, <1>2, <1>3, <1>4, <1>5, <1>6, <1>7, <1>8 DEF PremiumHeld,
         UndoneIfRefunded, Becomes, Busy, NoneStarted, CompSet
<1>15. Begun'
  BY <1>0, <1>1, <1>2, <1>3, <1>4, <1>5, <1>6, <1>7, <1>8 DEF Begun, Forwards, Becomes,
         Busy, NoneStarted, CompSet
<1>16. Fresh'
  BY <1>0, <1>1, <1>2, <1>3, <1>4, <1>5, <1>6, <1>7, <1>8 DEF Fresh, Becomes, Busy,
         NoneStarted, CompSet
<1>17. ExercisedAfter'
  BY <1>0, <1>1, <1>2, <1>3, <1>4, <1>5, <1>6, <1>7, <1>8 DEF ExercisedAfter, Becomes,
         Busy, NoneStarted, CompSet
<1>18. TakenByExercise'
  BY <1>0, <1>1, <1>2, <1>3, <1>4, <1>5, <1>6, <1>7, <1>8 DEF TakenByExercise, Becomes,
         Busy, NoneStarted, CompSet
<1>19. NoHold'
  BY <1>0, <1>1, <1>2, <1>3, <1>4, <1>5, <1>6, <1>7, <1>8 DEF NoHold, Exists, Becomes,
         Busy, NoneStarted, CompSet
<1>20. NotFormed'
  BY <1>0, <1>1, <1>2, <1>3, <1>4, <1>5, <1>6, <1>7, <1>8 DEF NotFormed,
         HasCompensations, Becomes, Busy, NoneStarted, CompSet
<1>21. Formed'
  BY <1>0, <1>1, <1>2, <1>3, <1>4, <1>5, <1>6, <1>7, <1>8 DEF Formed, Exists, Evident,
         IsCompleted, IsPending, Becomes, Busy, NoneStarted, CompSet
<1>22. NothingPaid'
  BY <1>0, <1>1, <1>2, <1>3, <1>4, <1>5, <1>6, <1>7, <1>8 DEF NothingPaid, Exists,
         HasCompensations, NotFormed, Gone, UndoesLast, Becomes, Busy, NoneStarted,
         CompSet
<1>23. Gone'
  BY <1>0, <1>1, <1>2, <1>3, <1>4, <1>5, <1>6, <1>7, <1>8 DEF Gone, Begun, Forwards,
         Becomes, Busy, NoneStarted, CompSet
<1>24. GoneRefunded'
  BY <1>0, <1>1, <1>2, <1>3, <1>4, <1>5, <1>6, <1>7, <1>8 DEF HistoryGrows, GoneRefunded, Gone,
         Becomes, Busy, NoneStarted, CompSet
<1>25. GoneIfUndone'
  BY <1>0, <1>1, <1>2, <1>3, <1>4, <1>5, <1>6, <1>7, <1>8 DEF GoneIfUndone, Exists,
         Becomes, Busy, NoneStarted, CompSet
<1>26. CreditKept'
  BY <1>0, <1>1, <1>2, <1>3, <1>4, <1>5, <1>6, <1>7, <1>8 DEF CreditKept, Becomes,
         Busy, NoneStarted, CompSet
<1>27. Credited'
  BY <1>0, <1>1, <1>2, <1>3, <1>4, <1>5, <1>6, <1>7, <1>8 DEF HistoryGrows, Credited, Whole,
         HasCompensations, Evident, IsCompleted, IsPending, UndoesLast, Becomes, Busy,
         NoneStarted, CompSet
<1>28. LeftBehind'
  BY <1>0, <1>1, <1>2, <1>3, <1>4, <1>5, <1>6, <1>7, <1>8 DEF LeftBehind, Undoes,
         GoesOn, HasCompensations, CompCompleted, HistoryGrows, Becomes, Busy,
         NoneStarted, CompSet
<1> QED
  BY <1>9, <1>10, <1>11, <1>12, <1>13, <1>14, <1>15, <1>16, <1>17, <1>18, <1>19,
     <1>20, <1>21, <1>22, <1>23, <1>24, <1>25, <1>26, <1>27, <1>28 DEF AcceptKnown

(* Forward of a step of the accept saga.                                   *)
LEMMA AcceptForwarded ==
    ASSUME TypeInv, AcceptKnown, SagaLog(AcceptSaga), Restricted, Restricted',
           HistoryGrows,
           Forward(AcceptSaga)
    PROVE  AcceptKnown'
<1>0. /\ PaidIfDone /\ LoggedIfPaid /\ PaidIfPending /\ RefundedIfUndone
      /\ UndoneIfRefunded /\ PremiumHeld /\ Begun /\ Fresh /\ ExercisedAfter
      /\ TakenByExercise /\ NoHold /\ NotFormed /\ Formed /\ NothingPaid /\ Gone
      /\ GoneRefunded /\ GoneIfUndone /\ CreditKept /\ Credited
      /\ LeftBehind /\ HistoryGrows
  BY DEF AcceptKnown
<1>1. /\ Rests(AcceptSaga) /\ CallsOnce(AcceptSaga) /\ GoesOn(AcceptSaga)
      /\ PassedKnown(AcceptSaga) /\ DoneKnown(AcceptSaga)
      /\ UndoesLast(AcceptSaga) /\ RowKnown(AcceptSaga) /\ RowLogged(AcceptSaga)
      /\ UndoesSome(AcceptSaga) /\ NoneLeft(AcceptSaga)
      /\ CompEvident(AcceptSaga) /\ CompCompleted(AcceptSaga)
      /\ PendingFirst(AcceptSaga) /\ PendingAlone(AcceptSaga)
      /\ InOrder(AcceptSaga)
  BY DEF SagaLog, RunKnown, LogKnown
<1>2. /\ Steps(AcceptSaga) = {1, 2, 3, 4} /\ AcceptSaga \in Sagas
      /\ run[AcceptSaga].at \in {0, 1, 2, 3, 4} /\ run[AcceptSaga].done \subseteq {1, 2, 3, 4}
      /\ run[AcceptSaga].pc \in Busy => run[AcceptSaga].at \in {1, 2, 3, 4}
      /\ run[AcceptSaga].pc \in {"back", "unmark"} => run[AcceptSaga].at # 4
      /\ run[AcceptSaga].row # None => run[AcceptSaga].row[2] \in {1, 2, 3, 4}
  BY AcceptSteps14 DEF TypeInv
<1>3. Becomes(AcceptSaga, "mark", run[AcceptSaga].at, run[AcceptSaga].done,
              run[AcceptSaga].error, run[AcceptSaga].row)
  BY <1>2, LastOfRun, StepNumbers, RunEffects DEF TypeInv, SagaInv, Forward
<1>4. run[AcceptSaga].pc = "call" /\ UNCHANGED <<fwd, comp, faults>>
  BY DEF Forward, ForwardDone
<1>5. NoneStarted /\ NoneStarted' /\ shares # "settled"
  BY <1>2, AcceptAlone, RunStepKeeps DEF RunStep, Forward, TypeInv
<1>6. AcceptDoes(run[AcceptSaga].at)
  BY AcceptForwards DEF TypeInv
<1>7. /\ \A j \in {2, 3, 4} : AcceptDid(j)' <=> (AcceptDid(j) \/ j = run[AcceptSaga].at)
      /\ \A j \in {2, 3} : AcceptUndid(j)' <=> AcceptUndid(j)
  BY <1>6, KeysApart
<1>8. /\ UNCHANGED contract /\ (run[AcceptSaga].at = 1 => Exists)
      /\ shares' = (IF run[AcceptSaga].at = 1 /\ shares = "none" THEN "active" ELSE shares)
      /\ premium' = "active" => premium = "active" \/ (run[AcceptSaga].at = 2 /\ ~AcceptDid(2))
  BY <1>6 DEF AcceptDoes, AcceptDid
<1>9. PaidIfDone'
  BY <1>0, <1>1, <1>2, <1>3, <1>4, <1>5, <1>6, <1>7, <1>8 DEF PaidIfDone, IsCompleted,
         Becomes, Busy, NoneStarted
<1>10. LoggedIfPaid'
  BY <1>0, <1>1, <1>2, <1>3, <1>4, <1>5, <1>6, <1>7, <1>8 DEF HistoryGrows, LoggedIfPaid, Evident,
         IsCompleted, IsPending, Becomes, Busy, NoneStarted
<1>11. PaidIfPending'
  BY <1>0, <1>1, <1>2, <1>3, <1>4, <1>5, <1>6, <1>7, <1>8 DEF PaidIfPending, IsPending,
         Becomes, Busy, NoneStarted
<1>12. RefundedIfUndone'
  BY <1>0, <1>1, <1>2, <1>3, <1>4, <1>5, <1>6, <1>7, <1>8 DEF HistoryGrows, RefundedIfUndone,
         Becomes, Busy, NoneStarted
<1>13. UndoneIfRefunded'
  BY <1>0, <1>1, <1>2, <1>3, <1>4, <1>5, <1>6, <1>7, <1>8 DEF UndoneIfRefunded,
         Becomes, Busy, NoneStarted
<1>14. PremiumHeld'
  BY <1>0, <1>1, <1>2, <1>3, <1>4, <1>5, <1>6, <1>7, <1>8 DEF PremiumHeld,
         UndoneIfRefunded, Becomes, Busy, NoneStarted
<1>15. Begun'
  BY <1>0, <1>1, <1>2, <1>3, <1>4, <1>5, <1>6, <1>7, <1>8 DEF Begun, Forwards, InOrder,
         Becomes, Busy, NoneStarted
<1>16. Fresh'
  BY <1>0, <1>1, <1>2, <1>3, <1>4, <1>5, <1>6, <1>7, <1>8 DEF Fresh, Becomes, Busy,
         NoneStarted
<1>17. ExercisedAfter'
  BY <1>0, <1>1, <1>2, <1>3, <1>4, <1>5, <1>6, <1>7, <1>8 DEF ExercisedAfter, Becomes,
         Busy, NoneStarted
<1>18. TakenByExercise'
  BY <1>0, <1>1, <1>2, <1>3, <1>4, <1>5, <1>6, <1>7, <1>8 DEF TakenByExercise, Becomes,
         Busy, NoneStarted
<1>19. NoHold'
  BY <1>0, <1>1, <1>2, <1>3, <1>4, <1>5, <1>6, <1>7, <1>8 DEF NoHold, Exists, Becomes,
         Busy, NoneStarted
<1>20. NotFormed'
  BY <1>0, <1>1, <1>2, <1>3, <1>4, <1>5, <1>6, <1>7, <1>8 DEF NotFormed,
         HasCompensations, Exists, Becomes, Busy, NoneStarted
<1>21. Formed'
  BY <1>0, <1>1, <1>2, <1>3, <1>4, <1>5, <1>6, <1>7, <1>8 DEF Formed, Exists, Evident,
         IsCompleted, IsPending, Becomes, Busy, NoneStarted
<1>22. NothingPaid'
  BY <1>0, <1>1, <1>2, <1>3, <1>4, <1>5, <1>6, <1>7, <1>8 DEF NothingPaid, Exists,
         HasCompensations, NotFormed, Gone, Forwards, Becomes, Busy, NoneStarted
<1>23. Gone'
  BY <1>0, <1>1, <1>2, <1>3, <1>4, <1>5, <1>6, <1>7, <1>8 DEF Gone, Begun, Forwards,
         Becomes, Busy, NoneStarted
<1>24. GoneRefunded'
  BY <1>0, <1>1, <1>2, <1>3, <1>4, <1>5, <1>6, <1>7, <1>8 DEF HistoryGrows, GoneRefunded, Gone,
         Becomes, Busy, NoneStarted
<1>25. GoneIfUndone'
  BY <1>0, <1>1, <1>2, <1>3, <1>4, <1>5, <1>6, <1>7, <1>8 DEF GoneIfUndone, Exists,
         Becomes, Busy, NoneStarted
<1>26. CreditKept'
  BY <1>0, <1>1, <1>2, <1>3, <1>4, <1>5, <1>6, <1>7, <1>8 DEF CreditKept, Becomes,
         Busy, NoneStarted
<1>27. Credited'
  BY <1>0, <1>1, <1>2, <1>3, <1>4, <1>5, <1>6, <1>7, <1>8 DEF HistoryGrows, Credited, Whole,
         HasCompensations, Evident, IsCompleted, IsPending, PassedKnown, Passed,
         Forwards, GoesOn, Becomes, Busy, NoneStarted
<1>28. LeftBehind'
  BY <1>0, <1>1, <1>2, <1>3, <1>4, <1>5, <1>6, <1>7, <1>8 DEF LeftBehind, Undoes,
         GoesOn, HasCompensations, CompCompleted, HistoryGrows, Becomes, Busy,
         NoneStarted
<1> QED
  BY <1>9, <1>10, <1>11, <1>12, <1>13, <1>14, <1>15, <1>16, <1>17, <1>18, <1>19,
     <1>20, <1>21, <1>22, <1>23, <1>24, <1>25, <1>26, <1>27, <1>28 DEF AcceptKnown

(* Backward of a step of the accept saga.                                  *)
LEMMA AcceptBackwarded ==
    ASSUME TypeInv, AcceptKnown, SagaLog(AcceptSaga), Restricted, Restricted',
           HistoryGrows,
           Backward(AcceptSaga)
    PROVE  AcceptKnown'
<1>0. /\ PaidIfDone /\ LoggedIfPaid /\ PaidIfPending /\ RefundedIfUndone
      /\ UndoneIfRefunded /\ PremiumHeld /\ Begun /\ Fresh /\ ExercisedAfter
      /\ TakenByExercise /\ NoHold /\ NotFormed /\ Formed /\ NothingPaid /\ Gone
      /\ GoneRefunded /\ GoneIfUndone /\ CreditKept /\ Credited
      /\ LeftBehind /\ HistoryGrows
  BY DEF AcceptKnown
<1>1. /\ Rests(AcceptSaga) /\ CallsOnce(AcceptSaga) /\ GoesOn(AcceptSaga)
      /\ PassedKnown(AcceptSaga) /\ DoneKnown(AcceptSaga)
      /\ UndoesLast(AcceptSaga) /\ RowKnown(AcceptSaga) /\ RowLogged(AcceptSaga)
      /\ UndoesSome(AcceptSaga) /\ NoneLeft(AcceptSaga)
      /\ CompEvident(AcceptSaga) /\ CompCompleted(AcceptSaga)
      /\ PendingFirst(AcceptSaga) /\ PendingAlone(AcceptSaga)
      /\ InOrder(AcceptSaga)
  BY DEF SagaLog, RunKnown, LogKnown
<1>2. /\ Steps(AcceptSaga) = {1, 2, 3, 4} /\ AcceptSaga \in Sagas
      /\ run[AcceptSaga].at \in {0, 1, 2, 3, 4} /\ run[AcceptSaga].done \subseteq {1, 2, 3, 4}
      /\ run[AcceptSaga].pc \in Busy => run[AcceptSaga].at \in {1, 2, 3, 4}
      /\ run[AcceptSaga].pc \in {"back", "unmark"} => run[AcceptSaga].at # 4
      /\ run[AcceptSaga].row # None => run[AcceptSaga].row[2] \in {1, 2, 3, 4}
  BY AcceptSteps14 DEF TypeInv
<1>3. Becomes(AcceptSaga, "unmark", run[AcceptSaga].at, run[AcceptSaga].done,
              run[AcceptSaga].error, run[AcceptSaga].row)
  BY <1>2, LastOfRun, StepNumbers, RunEffects DEF TypeInv, SagaInv, Backward
<1>4. run[AcceptSaga].pc = "back" /\ UNCHANGED <<fwd, comp, faults>>
  BY DEF Backward, BackwardDone
<1>5. NoneStarted /\ NoneStarted' /\ shares # "settled"
  BY <1>2, AcceptAlone, RunStepKeeps DEF RunStep, Backward, TypeInv
<1>6. AcceptUndoes(run[AcceptSaga].at)
  BY AcceptBackwards DEF TypeInv
<1>7. /\ \A j \in {2, 3, 4} : AcceptDid(j)' <=> AcceptDid(j)
      /\ \A j \in {2, 3} : AcceptUndid(j)' <=> (AcceptUndid(j) \/ j = run[AcceptSaga].at)
  BY <1>6, KeysApart
<1>8. /\ contract' = (IF run[AcceptSaga].at = 1 THEN "deleted" ELSE contract)
      /\ shares' = (IF run[AcceptSaga].at = 1 /\ shares = "active" THEN "released" ELSE shares)
      /\ premium' = "active" => premium = "active" /\ (run[AcceptSaga].at = 2 => AcceptUndid(2))
      /\ shares \in {"none", "active", "released"} /\ HasCompensations(AcceptSaga)
  BY <1>1, <1>2, <1>4, <1>5, <1>6 DEF AcceptUndoes, AcceptUndid, TypeInv, RowsAround,
        Holds, UndoesLast,
     HasCompensations
<1>9. run[AcceptSaga].at = 1 => run[AcceptSaga].done = {1}
  <2>1. \A k \in run[AcceptSaga].done : k <= run[AcceptSaga].at
    BY <1>1, <1>4 DEF UndoesLast
  <2>2. run[AcceptSaga].at \in run[AcceptSaga].done
    BY <1>1, <1>4 DEF UndoesLast
  <2> QED BY <1>2, <2>1, <2>2
<1>10. PaidIfDone'
  BY <1>0, <1>1, <1>2, <1>3, <1>4, <1>5, <1>6, <1>7, <1>8, <1>9 DEF PaidIfDone,
         IsCompleted, Becomes, Busy, NoneStarted
<1>11. LoggedIfPaid'
  BY <1>0, <1>1, <1>2, <1>3, <1>4, <1>5, <1>6, <1>7, <1>8, <1>9 DEF HistoryGrows, LoggedIfPaid,
         Evident, IsCompleted, IsPending, Becomes, Busy, NoneStarted
<1>12. PaidIfPending'
  BY <1>0, <1>1, <1>2, <1>3, <1>4, <1>5, <1>6, <1>7, <1>8, <1>9 DEF PaidIfPending,
         IsPending, Becomes, Busy, NoneStarted
<1>13. RefundedIfUndone'
  BY <1>0, <1>1, <1>2, <1>3, <1>4, <1>5, <1>6, <1>7, <1>8, <1>9 DEF HistoryGrows, RefundedIfUndone,
         Becomes, Busy, NoneStarted
<1>14. UndoneIfRefunded'
  BY <1>0, <1>1, <1>2, <1>3, <1>4, <1>5, <1>6, <1>7, <1>8, <1>9 DEF UndoneIfRefunded,
         UndoesLast, PaidIfDone, Becomes, Busy, NoneStarted
<1>15. PremiumHeld'
  BY <1>0, <1>1, <1>2, <1>3, <1>4, <1>5, <1>6, <1>7, <1>8, <1>9 DEF PremiumHeld,
         UndoneIfRefunded, Becomes, Busy, NoneStarted
<1>16. Begun'
  BY <1>0, <1>1, <1>2, <1>3, <1>4, <1>5, <1>6, <1>7, <1>8, <1>9 DEF Begun, Forwards,
         Becomes, Busy, NoneStarted
<1>17. Fresh'
  BY <1>0, <1>1, <1>2, <1>3, <1>4, <1>5, <1>6, <1>7, <1>8, <1>9 DEF Fresh, Becomes,
         Busy, NoneStarted
<1>18. ExercisedAfter'
  BY <1>0, <1>1, <1>2, <1>3, <1>4, <1>5, <1>6, <1>7, <1>8, <1>9 DEF ExercisedAfter,
         Becomes, Busy, NoneStarted
<1>19. TakenByExercise'
  BY <1>0, <1>1, <1>2, <1>3, <1>4, <1>5, <1>6, <1>7, <1>8, <1>9 DEF TakenByExercise,
         Becomes, Busy, NoneStarted
<1>20. NoHold'
  BY <1>0, <1>1, <1>2, <1>3, <1>4, <1>5, <1>6, <1>7, <1>8, <1>9 DEF NoHold, Exists,
         Becomes, Busy, NoneStarted
<1>21. NotFormed'
  BY <1>0, <1>1, <1>2, <1>3, <1>4, <1>5, <1>6, <1>7, <1>8, <1>9 DEF NotFormed,
         HasCompensations, Becomes, Busy, NoneStarted
<1>22. Formed'
  BY <1>0, <1>1, <1>2, <1>3, <1>4, <1>5, <1>6, <1>7, <1>8, <1>9 DEF Formed, Exists,
         Evident, IsCompleted, IsPending, Becomes, Busy, NoneStarted
<1>23. NothingPaid'
  BY <1>0, <1>1, <1>2, <1>3, <1>4, <1>5, <1>6, <1>7, <1>8, <1>9 DEF NothingPaid,
         Exists, HasCompensations, NotFormed, Gone, UndoesLast, Becomes, Busy,
         NoneStarted
<1>24. Gone'
  BY <1>0, <1>1, <1>2, <1>3, <1>4, <1>5, <1>6, <1>7, <1>8, <1>9 DEF Gone, Begun,
         Forwards, Becomes, Busy, NoneStarted
<1>25. GoneRefunded'
  BY <1>0, <1>1, <1>2, <1>3, <1>4, <1>5, <1>6, <1>7, <1>8, <1>9 DEF HistoryGrows, GoneRefunded, Gone,
         LeftBehind, Undoes, Becomes, Busy, NoneStarted
<1>26. GoneIfUndone'
  BY <1>0, <1>1, <1>2, <1>3, <1>4, <1>5, <1>6, <1>7, <1>8, <1>9 DEF GoneIfUndone,
         Exists, Becomes, Busy, NoneStarted
<1>27. CreditKept'
  BY <1>0, <1>1, <1>2, <1>3, <1>4, <1>5, <1>6, <1>7, <1>8, <1>9 DEF CreditKept,
         Becomes, Busy, NoneStarted
<1>28. Credited'
  BY <1>0, <1>1, <1>2, <1>3, <1>4, <1>5, <1>6, <1>7, <1>8, <1>9 DEF HistoryGrows, Credited, Whole,
         HasCompensations, Evident, IsCompleted, IsPending, UndoesLast, Becomes, Busy,
         NoneStarted
<1>29. LeftBehind'
  BY <1>0, <1>1, <1>2, <1>3, <1>4, <1>5, <1>6, <1>7, <1>8, <1>9 DEF LeftBehind,
         Undoes, GoesOn, HasCompensations, CompCompleted, HistoryGrows, Becomes,
         Busy, NoneStarted
<1> QED
  BY <1>10, <1>11, <1>12, <1>13, <1>14, <1>15, <1>16, <1>17, <1>18, <1>19, <1>20,
     <1>21, <1>22, <1>23, <1>24, <1>25, <1>26, <1>27, <1>28, <1>29 DEF AcceptKnown

(* The contract is written before the shares are reserved.                 *)
LEMMA AcceptCreates ==
    ASSUME TypeInv, AcceptKnown, SagaLog(AcceptSaga), Restricted, Restricted',
           HistoryGrows,
           CreateContract(AcceptSaga)
    PROVE  AcceptKnown'
<1>0. /\ PaidIfDone /\ LoggedIfPaid /\ PaidIfPending /\ RefundedIfUndone
      /\ UndoneIfRefunded /\ PremiumHeld /\ Begun /\ Fresh /\ ExercisedAfter
      /\ TakenByExercise /\ NoHold /\ NotFormed /\ Formed /\ NothingPaid /\ Gone
      /\ GoneRefunded /\ GoneIfUndone /\ CreditKept /\ Credited
      /\ LeftBehind /\ HistoryGrows
  BY DEF AcceptKnown
<1>1. /\ Rests(AcceptSaga) /\ CallsOnce(AcceptSaga) /\ GoesOn(AcceptSaga)
      /\ PassedKnown(AcceptSaga) /\ DoneKnown(AcceptSaga)
      /\ UndoesLast(AcceptSaga) /\ RowKnown(AcceptSaga) /\ RowLogged(AcceptSaga)
      /\ UndoesSome(AcceptSaga) /\ NoneLeft(AcceptSaga)
      /\ CompEvident(AcceptSaga) /\ CompCompleted(AcceptSaga)
      /\ PendingFirst(AcceptSaga) /\ PendingAlone(AcceptSaga)
      /\ InOrder(AcceptSaga)
  BY DEF SagaLog, RunKnown, LogKnown
<1>2. /\ Steps(AcceptSaga) = {1, 2, 3, 4} /\ AcceptSaga \in Sagas
      /\ run[AcceptSaga].at \in {0, 1, 2, 3, 4} /\ run[AcceptSaga].done \subseteq {1, 2, 3, 4}
      /\ run[AcceptSaga].pc \in Busy => run[AcceptSaga].at \in {1, 2, 3, 4}
      /\ run[AcceptSaga].pc \in {"back", "unmark"} => run[AcceptSaga].at # 4
      /\ run[AcceptSaga].row # None => run[AcceptSaga].row[2] \in {1, 2, 3, 4}
  BY AcceptSteps14 DEF TypeInv
<1>3. UNCHANGED <<run, fwd, comp, faults>>
  BY DEF CreateContract, sagaVars
<1>4. /\ run[AcceptSaga].pc = "call" /\ run[AcceptSaga].at = 1 /\ run[AcceptSaga].row = None
      /\ contract = "none" /\ contract' = "active"
  BY DEF CreateContract
<1>5. NoneStarted /\ NoneStarted' /\ shares # "settled"
  <2>1. NoneStarted
    BY <1>0, <1>4 DEF ExercisedAfter, Settled, NoneStarted
  <2> QED BY <1>0, <1>3, <1>4, <2>1 DEF NoneStarted, Started, Fresh
<1>6. UNCHANGED <<premium, shares, keys>>
  BY DEF CreateContract, moneyVars, shareVars
<1>7. /\ \A j \in {2, 3, 4} : AcceptDid(j)' <=> AcceptDid(j)
      /\ \A j \in {2, 3} : AcceptUndid(j)' <=> AcceptUndid(j)
  BY <1>6, KeysApart
<1>8. PaidIfDone'
  BY <1>0, <1>1, <1>2, <1>3, <1>4, <1>5, <1>6, <1>7 DEF PaidIfDone, IsCompleted,
         NoneStarted
<1>9. LoggedIfPaid'
  BY <1>0, <1>1, <1>2, <1>3, <1>4, <1>5, <1>6, <1>7 DEF HistoryGrows, LoggedIfPaid, Evident,
         IsCompleted, IsPending, NoneStarted
<1>10. PaidIfPending'
  BY <1>0, <1>1, <1>2, <1>3, <1>4, <1>5, <1>6, <1>7 DEF PaidIfPending, IsPending,
         NoneStarted
<1>11. RefundedIfUndone'
  BY <1>0, <1>1, <1>2, <1>3, <1>4, <1>5, <1>6, <1>7 DEF HistoryGrows, RefundedIfUndone, NoneStarted
<1>12. UndoneIfRefunded'
  BY <1>0, <1>1, <1>2, <1>3, <1>4, <1>5, <1>6, <1>7 DEF UndoneIfRefunded, NoneStarted
<1>13. PremiumHeld'
  BY <1>0, <1>1, <1>2, <1>3, <1>4, <1>5, <1>6, <1>7 DEF PremiumHeld, UndoneIfRefunded,
         NoneStarted
<1>14. Begun'
  BY <1>0, <1>1, <1>2, <1>3, <1>4, <1>5, <1>6, <1>7 DEF Begun, Forwards, NoneStarted
<1>15. Fresh'
  BY <1>0, <1>1, <1>2, <1>3, <1>4, <1>5, <1>6, <1>7 DEF Fresh, NoneStarted
<1>16. ExercisedAfter'
  BY <1>0, <1>1, <1>2, <1>3, <1>4, <1>5, <1>6, <1>7 DEF ExercisedAfter, NoneStarted
<1>17. TakenByExercise'
  BY <1>0, <1>1, <1>2, <1>3, <1>4, <1>5, <1>6, <1>7 DEF TakenByExercise, NoneStarted
<1>18. NoHold'
  BY <1>0, <1>1, <1>2, <1>3, <1>4, <1>5, <1>6, <1>7 DEF NoHold, Exists, NoneStarted
<1>19. NotFormed'
  BY <1>0, <1>1, <1>2, <1>3, <1>4, <1>5, <1>6, <1>7 DEF NotFormed, HasCompensations,
         NoneStarted
<1>20. Formed'
  BY <1>0, <1>1, <1>2, <1>3, <1>4, <1>5, <1>6, <1>7 DEF Formed, Exists, Evident,
         IsCompleted, IsPending, NoneStarted
<1>21. NothingPaid'
  BY <1>0, <1>1, <1>2, <1>3, <1>4, <1>5, <1>6, <1>7 DEF NothingPaid, Exists,
         HasCompensations, NotFormed, Gone, NoneStarted
<1>22. Gone'
  BY <1>0, <1>1, <1>2, <1>3, <1>4, <1>5, <1>6, <1>7 DEF Gone, Begun, Forwards,
         NoneStarted
<1>23. GoneRefunded'
  BY <1>0, <1>1, <1>2, <1>3, <1>4, <1>5, <1>6, <1>7 DEF HistoryGrows, GoneRefunded, Gone, NoneStarted
<1>24. GoneIfUndone'
  BY <1>0, <1>1, <1>2, <1>3, <1>4, <1>5, <1>6, <1>7 DEF GoneIfUndone, Exists,
         NotFormed, HasCompensations, NoneStarted
<1>25. CreditKept'
  BY <1>0, <1>1, <1>2, <1>3, <1>4, <1>5, <1>6, <1>7 DEF CreditKept, NoneStarted
<1>26. Credited'
  BY <1>0, <1>1, <1>2, <1>3, <1>4, <1>5, <1>6, <1>7 DEF HistoryGrows, Credited, Whole,
         HasCompensations, Evident, IsCompleted, IsPending, NoneStarted
<1>27. LeftBehind'
  BY <1>0, <1>1, <1>2, <1>3, <1>4, <1>5, <1>6, <1>7 DEF LeftBehind, Undoes, GoesOn,
         HasCompensations, CompCompleted, HistoryGrows, NoneStarted
<1> QED
  BY <1>8, <1>9, <1>10, <1>11, <1>12, <1>13, <1>14, <1>15, <1>16, <1>17, <1>18,
     <1>19, <1>20, <1>21, <1>22, <1>23, <1>24, <1>25, <1>26, <1>27 DEF AcceptKnown

(* A refused Forward; a first run deletes the contract it has created.     *)
LEMMA AcceptRefused ==
    ASSUME TypeInv, AcceptKnown, SagaLog(AcceptSaga), Restricted, Restricted',
           HistoryGrows,
           ForwardRefused(AcceptSaga)
    PROVE  AcceptKnown'
<1>0. /\ PaidIfDone /\ LoggedIfPaid /\ PaidIfPending /\ RefundedIfUndone
      /\ UndoneIfRefunded /\ PremiumHeld /\ Begun /\ Fresh /\ ExercisedAfter
      /\ TakenByExercise /\ NoHold /\ NotFormed /\ Formed /\ NothingPaid /\ Gone
      /\ GoneRefunded /\ GoneIfUndone /\ CreditKept /\ Credited
      /\ LeftBehind /\ HistoryGrows
  BY DEF AcceptKnown
<1>1. /\ Rests(AcceptSaga) /\ CallsOnce(AcceptSaga) /\ GoesOn(AcceptSaga)
      /\ PassedKnown(AcceptSaga) /\ DoneKnown(AcceptSaga)
      /\ UndoesLast(AcceptSaga) /\ RowKnown(AcceptSaga) /\ RowLogged(AcceptSaga)
      /\ UndoesSome(AcceptSaga) /\ NoneLeft(AcceptSaga)
      /\ CompEvident(AcceptSaga) /\ CompCompleted(AcceptSaga)
      /\ PendingFirst(AcceptSaga) /\ PendingAlone(AcceptSaga)
      /\ InOrder(AcceptSaga)
  BY DEF SagaLog, RunKnown, LogKnown
<1>2. /\ Steps(AcceptSaga) = {1, 2, 3, 4} /\ AcceptSaga \in Sagas
      /\ run[AcceptSaga].at \in {0, 1, 2, 3, 4} /\ run[AcceptSaga].done \subseteq {1, 2, 3, 4}
      /\ run[AcceptSaga].pc \in Busy => run[AcceptSaga].at \in {1, 2, 3, 4}
      /\ run[AcceptSaga].pc \in {"back", "unmark"} => run[AcceptSaga].at # 4
      /\ run[AcceptSaga].row # None => run[AcceptSaga].row[2] \in {1, 2, 3, 4}
  BY AcceptSteps14 DEF TypeInv
<1>3. Becomes(AcceptSaga, "undo", run[AcceptSaga].at, run[AcceptSaga].done, TRUE,
              run[AcceptSaga].row)
  BY <1>2, LastOfRun, StepNumbers, RunEffects DEF TypeInv, SagaInv, ForwardRefused
<1>4. run[AcceptSaga].pc = "call" /\ UNCHANGED comp /\ faults'.crash = faults.crash
  BY DEF ForwardRefused, ForwardFailed, TypeInv, SagaInv, LogTyped, Faults
<1>5. NoneStarted /\ NoneStarted' /\ shares # "settled"
  BY <1>2, AcceptAlone, RunStepKeeps DEF RunStep, ForwardRefused, Refused, TypeInv
<1>6. /\ UNCHANGED <<premium, shares, keys>>
      /\ contract' = (IF run[AcceptSaga].at = 1 /\ run[AcceptSaga].row = None
                      THEN "deleted" ELSE contract)
  BY <1>2, <1>4 DEF ForwardRefused, moneyVars, shareVars, StepOf, StepName,
        AcceptSteps, Busy
<1>7. /\ \A j \in {2, 3, 4} : AcceptDid(j)' <=> AcceptDid(j)
      /\ \A j \in {2, 3} : AcceptUndid(j)' <=> AcceptUndid(j)
  BY <1>6, KeysApart
<1>8. FwdSet(AcceptSaga, run[AcceptSaga].at, fwd[AcceptSaga][run[AcceptSaga].at] \cup {"failed"})
  BY <1>2, LogEffects DEF TypeInv, ForwardRefused
<1>9. PaidIfDone'
  BY <1>0, <1>1, <1>2, <1>3, <1>4, <1>5, <1>6, <1>7, <1>8 DEF PaidIfDone, IsCompleted,
         Becomes, Busy, NoneStarted, FwdSet
<1>10. LoggedIfPaid'
  BY <1>0, <1>1, <1>2, <1>3, <1>4, <1>5, <1>6, <1>7, <1>8 DEF HistoryGrows, LoggedIfPaid, Evident,
         IsCompleted, IsPending, Becomes, Busy, NoneStarted, FwdSet
<1>11. PaidIfPending'
  BY <1>0, <1>1, <1>2, <1>3, <1>4, <1>5, <1>6, <1>7, <1>8 DEF PaidIfPending, IsPending,
         Becomes, Busy, NoneStarted, FwdSet
<1>12. RefundedIfUndone'
  BY <1>0, <1>1, <1>2, <1>3, <1>4, <1>5, <1>6, <1>7, <1>8 DEF HistoryGrows, RefundedIfUndone,
         Becomes, Busy, NoneStarted, FwdSet
<1>13. UndoneIfRefunded'
  BY <1>0, <1>1, <1>2, <1>3, <1>4, <1>5, <1>6, <1>7, <1>8 DEF UndoneIfRefunded,
         Becomes, Busy, NoneStarted, FwdSet
<1>14. PremiumHeld'
  BY <1>0, <1>1, <1>2, <1>3, <1>4, <1>5, <1>6, <1>7, <1>8 DEF PremiumHeld,
         UndoneIfRefunded, Becomes, Busy, NoneStarted, FwdSet
<1>15. Begun'
  BY <1>0, <1>1, <1>2, <1>3, <1>4, <1>5, <1>6, <1>7, <1>8 DEF Begun, Forwards, Becomes,
         Busy, NoneStarted, FwdSet
<1>16. Fresh'
  BY <1>0, <1>1, <1>2, <1>3, <1>4, <1>5, <1>6, <1>7, <1>8 DEF Fresh, Becomes, Busy,
         NoneStarted, FwdSet
<1>17. ExercisedAfter'
  BY <1>0, <1>1, <1>2, <1>3, <1>4, <1>5, <1>6, <1>7, <1>8 DEF ExercisedAfter, Becomes,
         Busy, NoneStarted, FwdSet
<1>18. TakenByExercise'
  BY <1>0, <1>1, <1>2, <1>3, <1>4, <1>5, <1>6, <1>7, <1>8 DEF TakenByExercise, Becomes,
         Busy, NoneStarted, FwdSet
<1>19. NoHold'
  BY <1>0, <1>1, <1>2, <1>3, <1>4, <1>5, <1>6, <1>7, <1>8 DEF NoHold, Exists, Fresh,
         Becomes, Busy, NoneStarted, FwdSet
<1>20. NotFormed'
  BY <1>0, <1>1, <1>2, <1>3, <1>4, <1>5, <1>6, <1>7, <1>8 DEF NotFormed,
         HasCompensations, Becomes, Busy, NoneStarted, FwdSet
<1>21. Formed'
  <2>1. run[AcceptSaga].row # None => run[AcceptSaga].row \in LogRow
    BY <1>2 DEF TypeInv, SagaInv, RunTyped, Run
  <2>2. run[AcceptSaga].row # None => run[AcceptSaga].row[1] = "fwd"
    BY <1>1, <1>4, <2>1 DEF RowKnown, Undoes, LogRow
  <2>3. run[AcceptSaga].row # None => Evident(AcceptSaga, 1)
    BY <1>1, <1>2, <2>2 DEF RowLogged, InOrder, Evident, IsPending
  <2>4. Exists' => Exists /\ ~(run[AcceptSaga].at = 1 /\ run[AcceptSaga].row = None)
    BY <1>6 DEF Exists
  <2>5. Evident(AcceptSaga, 1) => Evident(AcceptSaga, 1)'
    BY <1>2, <1>4, <1>8 DEF Evident, IsCompleted, IsPending, FwdSet, Busy
  <2> QED BY <1>0, <1>4, <2>3, <2>4, <2>5 DEF Formed
<1>22. NothingPaid'
  BY <1>0, <1>1, <1>2, <1>3, <1>4, <1>5, <1>6, <1>7, <1>8 DEF NothingPaid, Exists,
         HasCompensations, NotFormed, Gone, Fresh, DoneKnown, IsCompleted, IsPending,
         Becomes, Busy, NoneStarted, FwdSet
<1>23. Gone'
  BY <1>0, <1>1, <1>2, <1>3, <1>4, <1>5, <1>6, <1>7, <1>8 DEF Gone, Begun, Forwards,
         Fresh, DoneKnown, IsCompleted, IsPending, Becomes, Busy, NoneStarted, FwdSet
<1>24. GoneRefunded'
  BY <1>0, <1>1, <1>2, <1>3, <1>4, <1>5, <1>6, <1>7, <1>8 DEF HistoryGrows, GoneRefunded, Gone,
         Fresh, CompEvident, Evident, IsCompleted, IsPending, Becomes, Busy,
         NoneStarted, FwdSet
<1>25. GoneIfUndone'
  BY <1>0, <1>1, <1>2, <1>3, <1>4, <1>5, <1>6, <1>7, <1>8 DEF GoneIfUndone, Exists,
         Becomes, Busy, NoneStarted, FwdSet
<1>26. CreditKept'
  BY <1>0, <1>1, <1>2, <1>3, <1>4, <1>5, <1>6, <1>7, <1>8 DEF CreditKept, Becomes,
         Busy, NoneStarted, FwdSet
<1>27. Credited'
  BY <1>0, <1>1, <1>2, <1>3, <1>4, <1>5, <1>6, <1>7, <1>8 DEF HistoryGrows, Credited, Whole,
         HasCompensations, Evident, IsCompleted, IsPending, Becomes, Busy, NoneStarted,
         FwdSet
<1>28. LeftBehind'
  <2>1. \A j \in {2, 3} : comp'[AcceptSaga][j] = "none"
    BY <1>1, <1>2, <1>4 DEF GoesOn, Forwards, HasCompensations
  <2> QED BY <2>1 DEF LeftBehind
<1> QED
  BY <1>9, <1>10, <1>11, <1>12, <1>13, <1>14, <1>15, <1>16, <1>17, <1>18, <1>19,
     <1>20, <1>21, <1>22, <1>23, <1>24, <1>25, <1>26, <1>27, <1>28 DEF AcceptKnown

(* The call of a step is acted on, and its answer lost.                    *)
LEMMA AcceptLost ==
    ASSUME TypeInv, AcceptKnown, SagaLog(AcceptSaga), Restricted, Restricted',
           HistoryGrows,
           ForwardLost(AcceptSaga)
    PROVE  AcceptKnown'
<1>0. /\ PaidIfDone /\ LoggedIfPaid /\ PaidIfPending /\ RefundedIfUndone
      /\ UndoneIfRefunded /\ PremiumHeld /\ Begun /\ Fresh /\ ExercisedAfter
      /\ TakenByExercise /\ NoHold /\ NotFormed /\ Formed /\ NothingPaid /\ Gone
      /\ GoneRefunded /\ GoneIfUndone /\ CreditKept /\ Credited
      /\ LeftBehind /\ HistoryGrows
  BY DEF AcceptKnown
<1>1. /\ Rests(AcceptSaga) /\ CallsOnce(AcceptSaga) /\ GoesOn(AcceptSaga)
      /\ PassedKnown(AcceptSaga) /\ DoneKnown(AcceptSaga)
      /\ UndoesLast(AcceptSaga) /\ RowKnown(AcceptSaga) /\ RowLogged(AcceptSaga)
      /\ UndoesSome(AcceptSaga) /\ NoneLeft(AcceptSaga)
      /\ CompEvident(AcceptSaga) /\ CompCompleted(AcceptSaga)
      /\ PendingFirst(AcceptSaga) /\ PendingAlone(AcceptSaga)
      /\ InOrder(AcceptSaga)
  BY DEF SagaLog, RunKnown, LogKnown
<1>2. /\ Steps(AcceptSaga) = {1, 2, 3, 4} /\ AcceptSaga \in Sagas
      /\ run[AcceptSaga].at \in {0, 1, 2, 3, 4} /\ run[AcceptSaga].done \subseteq {1, 2, 3, 4}
      /\ run[AcceptSaga].pc \in Busy => run[AcceptSaga].at \in {1, 2, 3, 4}
      /\ run[AcceptSaga].pc \in {"back", "unmark"} => run[AcceptSaga].at # 4
      /\ run[AcceptSaga].row # None => run[AcceptSaga].row[2] \in {1, 2, 3, 4}
  BY AcceptSteps14 DEF TypeInv
<1>3. Becomes(AcceptSaga, "undo", run[AcceptSaga].at, run[AcceptSaga].done, TRUE,
              run[AcceptSaga].row)
  BY <1>2, LastOfRun, StepNumbers, RunEffects DEF TypeInv, SagaInv, ForwardLost
<1>4. /\ run[AcceptSaga].pc = "call" /\ UNCHANGED comp /\ faults'.crash = faults.crash
      /\ LostBy(AcceptSaga, run[AcceptSaga].at)'
  <2>1. run[AcceptSaga].pc = "call" /\ UNCHANGED comp
    BY DEF ForwardLost, ForwardFailed
  <2>2. faults \in Faults /\ faults' = [faults EXCEPT !.refusal = @ + 1]
    BY DEF ForwardLost, TypeInv, SagaInv, LogTyped
  <2>3. run'[AcceptSaga].at = run[AcceptSaga].at
    BY <1>3 DEF Becomes
  <2>4. <<AcceptSaga, run[AcceptSaga].at>> \in lost'
    BY DEF ForwardLost
  <2>5. LostBy(AcceptSaga, run[AcceptSaga].at)'
    BY <2>3, <2>4 DEF LostBy
  <2> QED BY <2>1, <2>2, <2>5 DEF Faults
<1>5. NoneStarted /\ NoneStarted' /\ shares # "settled"
  BY <1>2, AcceptAlone, RunStepKeeps DEF RunStep, ForwardLost, Refused, TypeInv
<1>6. /\ AcceptDoes(run[AcceptSaga].at) /\ run[AcceptSaga].at \in {2, 3, 4}
      /\ UNCHANGED <<contract, shares>>
      /\ premium' = "active" => premium = "active" \/ (run[AcceptSaga].at = 2 /\ ~AcceptDid(2))
  <2>1. AcceptDoes(run[AcceptSaga].at)
    BY AcceptForwards DEF TypeInv
  <2>2. run[AcceptSaga].at # 1
    BY DEF ForwardLost, StepOf, StepName, AcceptSteps, RemoteSteps
  <2>3. run[AcceptSaga].at \in {2, 3, 4}
    BY <1>2, <1>4, <2>2 DEF Busy
  <2> QED BY <2>1, <2>3 DEF AcceptDoes, AcceptDid
<1>7. /\ \A j \in {2, 3, 4} : AcceptDid(j)' <=> (AcceptDid(j) \/ j = run[AcceptSaga].at)
      /\ \A j \in {2, 3} : AcceptUndid(j)' <=> AcceptUndid(j)
  BY <1>6, KeysApart
<1>8. FwdSet(AcceptSaga, run[AcceptSaga].at, fwd[AcceptSaga][run[AcceptSaga].at] \cup {"failed"})
  BY <1>2, LogEffects DEF TypeInv, ForwardLost
<1>9. PaidIfDone'
  BY <1>0, <1>1, <1>2, <1>3, <1>4, <1>5, <1>6, <1>7, <1>8 DEF PaidIfDone, IsCompleted,
         Becomes, Busy, NoneStarted, FwdSet
<1>10. LoggedIfPaid'
  BY <1>0, <1>1, <1>2, <1>3, <1>4, <1>5, <1>6, <1>7, <1>8 DEF HistoryGrows, LoggedIfPaid, Evident,
         IsCompleted, IsPending, Becomes, Busy, NoneStarted, FwdSet
<1>11. PaidIfPending'
  BY <1>0, <1>1, <1>2, <1>3, <1>4, <1>5, <1>6, <1>7, <1>8 DEF PaidIfPending, IsPending,
         Becomes, Busy, NoneStarted, FwdSet
<1>12. RefundedIfUndone'
  BY <1>0, <1>1, <1>2, <1>3, <1>4, <1>5, <1>6, <1>7, <1>8 DEF HistoryGrows, RefundedIfUndone,
         Becomes, Busy, NoneStarted, FwdSet
<1>13. UndoneIfRefunded'
  BY <1>0, <1>1, <1>2, <1>3, <1>4, <1>5, <1>6, <1>7, <1>8 DEF UndoneIfRefunded,
         Becomes, Busy, NoneStarted, FwdSet
<1>14. PremiumHeld'
  BY <1>0, <1>1, <1>2, <1>3, <1>4, <1>5, <1>6, <1>7, <1>8 DEF PremiumHeld,
         UndoneIfRefunded, Becomes, Busy, NoneStarted, FwdSet
<1>15. Begun'
  BY <1>0, <1>1, <1>2, <1>3, <1>4, <1>5, <1>6, <1>7, <1>8 DEF Begun, Forwards, Becomes,
         Busy, NoneStarted, FwdSet
<1>16. Fresh'
  BY <1>0, <1>1, <1>2, <1>3, <1>4, <1>5, <1>6, <1>7, <1>8 DEF Fresh, Becomes, Busy,
         NoneStarted, FwdSet
<1>17. ExercisedAfter'
  BY <1>0, <1>1, <1>2, <1>3, <1>4, <1>5, <1>6, <1>7, <1>8 DEF ExercisedAfter, Becomes,
         Busy, NoneStarted, FwdSet
<1>18. TakenByExercise'
  BY <1>0, <1>1, <1>2, <1>3, <1>4, <1>5, <1>6, <1>7, <1>8 DEF TakenByExercise, Becomes,
         Busy, NoneStarted, FwdSet
<1>19. NoHold'
  BY <1>0, <1>1, <1>2, <1>3, <1>4, <1>5, <1>6, <1>7, <1>8 DEF NoHold, Exists, Fresh,
         Becomes, Busy, NoneStarted, FwdSet
<1>20. NotFormed'
  BY <1>0, <1>1, <1>2, <1>3, <1>4, <1>5, <1>6, <1>7, <1>8 DEF NotFormed,
         HasCompensations, Becomes, Busy, NoneStarted, FwdSet
<1>21. Formed'
  <2>1. Exists' => Exists
    BY <1>6 DEF Exists
  <2>2. Evident(AcceptSaga, 1) => Evident(AcceptSaga, 1)'
    BY <1>2, <1>4, <1>6, <1>8 DEF Evident, IsCompleted, IsPending, FwdSet, Busy
  <2> QED BY <1>0, <1>4, <1>6, <2>1, <2>2 DEF Formed
<1>22. NothingPaid'
  BY <1>0, <1>1, <1>2, <1>3, <1>4, <1>5, <1>6, <1>7, <1>8 DEF NothingPaid, Exists,
         HasCompensations, NotFormed, Gone, Fresh, DoneKnown, IsCompleted, IsPending,
         Becomes, Busy, NoneStarted, FwdSet
<1>23. Gone'
  BY <1>0, <1>1, <1>2, <1>3, <1>4, <1>5, <1>6, <1>7, <1>8 DEF Gone, Begun, Forwards,
         Fresh, DoneKnown, IsCompleted, IsPending, Becomes, Busy, NoneStarted, FwdSet
<1>24. GoneRefunded'
  BY <1>0, <1>1, <1>2, <1>3, <1>4, <1>5, <1>6, <1>7, <1>8 DEF HistoryGrows, GoneRefunded, Gone,
         Fresh, CompEvident, Evident, IsCompleted, IsPending, Becomes, Busy,
         NoneStarted, FwdSet
<1>25. GoneIfUndone'
  BY <1>0, <1>1, <1>2, <1>3, <1>4, <1>5, <1>6, <1>7, <1>8 DEF GoneIfUndone, Exists,
         Becomes, Busy, NoneStarted, FwdSet
<1>26. CreditKept'
  BY <1>0, <1>1, <1>2, <1>3, <1>4, <1>5, <1>6, <1>7, <1>8 DEF CreditKept, Becomes,
         Busy, NoneStarted, FwdSet
<1>27. Credited'
  BY <1>0, <1>1, <1>2, <1>3, <1>4, <1>5, <1>6, <1>7, <1>8 DEF HistoryGrows, Credited, Whole,
         HasCompensations, Evident, IsCompleted, IsPending, Becomes, Busy, NoneStarted,
         FwdSet
<1>28. LeftBehind'
  <2>1. \A j \in {2, 3} : comp'[AcceptSaga][j] = "none"
    BY <1>1, <1>2, <1>4 DEF GoesOn, Forwards, HasCompensations
  <2> QED BY <2>1 DEF LeftBehind
<1> QED
  BY <1>9, <1>10, <1>11, <1>12, <1>13, <1>14, <1>15, <1>16, <1>17, <1>18, <1>19,
     <1>20, <1>21, <1>22, <1>23, <1>24, <1>25, <1>26, <1>27, <1>28 DEF AcceptKnown

(* The service dies: the step under way stays pending.                     *)
LEMMA AcceptCrashes ==
    ASSUME TypeInv, AcceptKnown, SagaLog(AcceptSaga), Restricted, Restricted',
           HistoryGrows,
           ServiceCrash
    PROVE  AcceptKnown'
<1>0. /\ PaidIfDone /\ LoggedIfPaid /\ PaidIfPending /\ RefundedIfUndone
      /\ UndoneIfRefunded /\ PremiumHeld /\ Begun /\ Fresh /\ ExercisedAfter
      /\ TakenByExercise /\ NoHold /\ NotFormed /\ Formed /\ NothingPaid /\ Gone
      /\ GoneRefunded /\ GoneIfUndone /\ CreditKept /\ Credited
      /\ LeftBehind /\ HistoryGrows
  BY DEF AcceptKnown
<1>1. /\ Rests(AcceptSaga) /\ CallsOnce(AcceptSaga) /\ GoesOn(AcceptSaga)
      /\ PassedKnown(AcceptSaga) /\ DoneKnown(AcceptSaga)
      /\ UndoesLast(AcceptSaga) /\ RowKnown(AcceptSaga) /\ RowLogged(AcceptSaga)
      /\ UndoesSome(AcceptSaga) /\ NoneLeft(AcceptSaga)
      /\ CompEvident(AcceptSaga) /\ CompCompleted(AcceptSaga)
      /\ PendingFirst(AcceptSaga) /\ PendingAlone(AcceptSaga)
      /\ InOrder(AcceptSaga)
  BY DEF SagaLog, RunKnown, LogKnown
<1>2. /\ Steps(AcceptSaga) = {1, 2, 3, 4} /\ AcceptSaga \in Sagas
      /\ run[AcceptSaga].at \in {0, 1, 2, 3, 4} /\ run[AcceptSaga].done \subseteq {1, 2, 3, 4}
      /\ run[AcceptSaga].pc \in Busy => run[AcceptSaga].at \in {1, 2, 3, 4}
      /\ run[AcceptSaga].pc \in {"back", "unmark"} => run[AcceptSaga].at # 4
      /\ run[AcceptSaga].row # None => run[AcceptSaga].row[2] \in {1, 2, 3, 4}
  BY AcceptSteps14 DEF TypeInv
<1>3. /\ run'[AcceptSaga].pc = "idle" /\ run'[AcceptSaga].at = 0 /\ run'[AcceptSaga].done = {}
      /\ run'[AcceptSaga].error = FALSE /\ run'[AcceptSaga].row = None /\ UNCHANGED comp
      /\ \A k \in Steps(AcceptSaga) :
           IF run[AcceptSaga].pc \in {"call", "mark"} /\ run[AcceptSaga].at = k
           THEN fwd'[AcceptSaga][k] = fwd[AcceptSaga][k] \cup {"pending"}
           ELSE fwd'[AcceptSaga][k] = fwd[AcceptSaga][k]
  BY <1>2, CrashEffect DEF ServiceCrash, TypeInv
<1>4. faults.mark = 0 /\ faults'.mark = 0 /\ faults'.crash # 0
  <2>1. faults \in Faults /\ faults' = [faults EXCEPT !.crash = @ + 1]
    BY CrashEffect DEF ServiceCrash, TypeInv, SagaInv, LogTyped
  <2>2. faults'.crash = faults.crash + 1 /\ faults'.mark = faults.mark /\ faults.crash \in Nat
    BY <2>1 DEF Faults
  <2> QED BY <2>2 DEF Restricted, LogWriteFailsAlone
<1>5. ASSUME NEW e \in Attempts
      PROVE  /\ Started(e)' => Started(e)
             /\ fwd[e][1] # {} => fwd'[e][1] # {}
  <2>1. /\ run'[e].pc = "idle" /\ 1 \in Steps(e)
        /\ \A k \in Steps(e) :
             IF run[e].pc \in {"call", "mark"} /\ run[e].at = k
             THEN fwd'[e][k] = fwd[e][k] \cup {"pending"}
             ELSE fwd'[e][k] = fwd[e][k]
    BY OtcAssumption, StepNumbers, CrashEffect DEF ServiceCrash, TypeInv
  <2> QED BY <2>1 DEF Started
<1>6. UNCHANGED <<contract, premium, shares, keys>>
  BY DEF ServiceCrash, contractVars, moneyVars, shareVars
<1>7. /\ \A j \in {2, 3, 4} : AcceptDid(j)' <=> AcceptDid(j)
      /\ \A j \in {2, 3} : AcceptUndid(j)' <=> AcceptUndid(j)
  BY <1>6, KeysApart
<1>8. PaidIfDone'
  BY <1>0, <1>1, <1>2, <1>3, <1>4, <1>5, <1>6, <1>7 DEF PaidIfDone, IsCompleted, Busy
<1>9. LoggedIfPaid'
  BY <1>0, <1>1, <1>2, <1>3, <1>4, <1>5, <1>6, <1>7 DEF HistoryGrows, LoggedIfPaid, Evident,
         IsCompleted, IsPending, Busy
<1>10. PaidIfPending'
  BY <1>0, <1>1, <1>2, <1>3, <1>4, <1>5, <1>6, <1>7 DEF PaidIfPending, IsPending, Busy
<1>11. RefundedIfUndone'
  BY <1>0, <1>1, <1>2, <1>3, <1>4, <1>5, <1>6, <1>7 DEF HistoryGrows, RefundedIfUndone, Busy
<1>12. UndoneIfRefunded'
  BY <1>0, <1>1, <1>2, <1>3, <1>4, <1>5, <1>6, <1>7 DEF UndoneIfRefunded, Busy
<1>13. PremiumHeld'
  BY <1>0, <1>1, <1>2, <1>3, <1>4, <1>5, <1>6, <1>7 DEF PremiumHeld, UndoneIfRefunded,
         Busy
<1>14. Begun'
  BY <1>0, <1>1, <1>2, <1>3, <1>4, <1>5, <1>6, <1>7 DEF Begun, Forwards, Fresh, Busy
<1>15. Fresh'
  BY <1>0, <1>1, <1>2, <1>3, <1>4, <1>5, <1>6, <1>7 DEF Fresh, Busy
<1>16. ExercisedAfter'
  <2>1. ASSUME Settled(AcceptSaga) PROVE Settled(AcceptSaga)' /\ fwd'[AcceptSaga][1] = fwd[AcceptSaga][1]
    <3>1. run[AcceptSaga].pc = "idle" /\ Stuck(AcceptSaga) = {}
      BY <2>1 DEF Settled
    <3>2. \A k \in Steps(AcceptSaga) : fwd'[AcceptSaga][k] = fwd[AcceptSaga][k]
      BY <1>3, <3>1
    <3>3. Stuck(AcceptSaga)' = Stuck(AcceptSaga)
      BY <1>3, <3>2 DEF Stuck
    <3> QED BY <1>2, <1>3, <3>1, <3>2, <3>3 DEF Settled
  <2> QED BY <1>0, <1>5, <1>6, <2>1 DEF ExercisedAfter, Exists
<1>17. TakenByExercise'
  BY <1>0, <1>1, <1>2, <1>3, <1>4, <1>5, <1>6, <1>7 DEF TakenByExercise, Busy
<1>18. NoHold'
  BY <1>0, <1>1, <1>2, <1>3, <1>4, <1>5, <1>6, <1>7 DEF NoHold, Exists, Busy
<1>19. NotFormed'
  BY <1>0, <1>1, <1>2, <1>3, <1>4, <1>5, <1>6, <1>7 DEF NotFormed, HasCompensations,
         Busy
<1>20. Formed'
  BY <1>0, <1>1, <1>2, <1>3, <1>4, <1>5, <1>6, <1>7 DEF Formed, Exists, Evident,
         IsCompleted, IsPending, Busy
<1>21. NothingPaid'
  BY <1>0, <1>1, <1>2, <1>3, <1>4, <1>5, <1>6, <1>7 DEF NothingPaid, Exists,
         HasCompensations, NotFormed, Gone, Fresh, Busy
<1>22. Gone'
  BY <1>0, <1>1, <1>2, <1>3, <1>4, <1>5, <1>6, <1>7 DEF Gone, Begun, Forwards, Busy
<1>23. GoneRefunded'
  BY <1>0, <1>1, <1>2, <1>3, <1>4, <1>5, <1>6, <1>7 DEF HistoryGrows, GoneRefunded, Gone, Busy
<1>24. GoneIfUndone'
  BY <1>0, <1>1, <1>2, <1>3, <1>4, <1>5, <1>6, <1>7 DEF GoneIfUndone, Exists, Busy
<1>25. CreditKept'
  BY <1>0, <1>1, <1>2, <1>3, <1>4, <1>5, <1>6, <1>7 DEF CreditKept, Busy
<1>26. Credited'
  BY <1>0, <1>1, <1>2, <1>3, <1>4, <1>5, <1>6, <1>7 DEF HistoryGrows, Credited, Whole,
         HasCompensations, Evident, IsCompleted, IsPending, PassedKnown, Passed,
         Forwards, Busy
<1>27. LeftBehind'
  BY <1>0, <1>1, <1>2, <1>3, <1>4, <1>5, <1>6, <1>7 DEF LeftBehind, Undoes, GoesOn,
         HasCompensations, CompCompleted, HistoryGrows, Busy
<1> QED
  BY <1>8, <1>9, <1>10, <1>11, <1>12, <1>13, <1>14, <1>15, <1>16, <1>17, <1>18,
     <1>19, <1>20, <1>21, <1>22, <1>23, <1>24, <1>25, <1>26, <1>27 DEF AcceptKnown

(* Other steps leave the accept saga and its money as they are.            *)
LEMMA AcceptFrame ==
    ASSUME TypeInv, AcceptKnown, SagaLog(AcceptSaga), Restricted, Restricted',
           HistoryGrows,
           FaultsGrow, UNCHANGED premium, ExercisedAfter', TakenByExercise',
           run'[AcceptSaga] = run[AcceptSaga], fwd'[AcceptSaga] = fwd[AcceptSaga],
           comp'[AcceptSaga] = comp[AcceptSaga],
           \A j \in {2, 3, 4} : AcceptDid(j)' <=> AcceptDid(j),
           \A j \in {2, 3} : AcceptUndid(j)' <=> AcceptUndid(j),
           UNCHANGED contract \/ (Exists /\ Exists'),
           UNCHANGED shares \/ (Exists /\ Exists' /\ shares # "none")
    PROVE  AcceptKnown'
<1>0. /\ PaidIfDone /\ LoggedIfPaid /\ PaidIfPending /\ RefundedIfUndone
      /\ UndoneIfRefunded /\ PremiumHeld /\ Begun /\ Fresh /\ ExercisedAfter
      /\ TakenByExercise /\ NoHold /\ NotFormed /\ Formed /\ NothingPaid /\ Gone
      /\ GoneRefunded /\ GoneIfUndone /\ CreditKept /\ Credited
      /\ LeftBehind /\ HistoryGrows
  BY DEF AcceptKnown
<1>1. /\ Rests(AcceptSaga) /\ CallsOnce(AcceptSaga) /\ GoesOn(AcceptSaga)
      /\ PassedKnown(AcceptSaga) /\ DoneKnown(AcceptSaga)
      /\ UndoesLast(AcceptSaga) /\ RowKnown(AcceptSaga) /\ RowLogged(AcceptSaga)
      /\ UndoesSome(AcceptSaga) /\ NoneLeft(AcceptSaga)
      /\ CompEvident(AcceptSaga) /\ CompCompleted(AcceptSaga)
      /\ PendingFirst(AcceptSaga) /\ PendingAlone(AcceptSaga)
      /\ InOrder(AcceptSaga)
  BY DEF SagaLog, RunKnown, LogKnown
<1>2. /\ Steps(AcceptSaga) = {1, 2, 3, 4} /\ AcceptSaga \in Sagas
      /\ run[AcceptSaga].at \in {0, 1, 2, 3, 4} /\ run[AcceptSaga].done \subseteq {1, 2, 3, 4}
      /\ run[AcceptSaga].pc \in Busy => run[AcceptSaga].at \in {1, 2, 3, 4}
      /\ run[AcceptSaga].pc \in {"back", "unmark"} => run[AcceptSaga].at # 4
      /\ run[AcceptSaga].row # None => run[AcceptSaga].row[2] \in {1, 2, 3, 4}
  BY AcceptSteps14 DEF TypeInv
<1>3. /\ run'[AcceptSaga] = run[AcceptSaga] /\ fwd'[AcceptSaga] = fwd[AcceptSaga]
      /\ comp'[AcceptSaga] = comp[AcceptSaga] /\ UNCHANGED premium
  OBVIOUS
<1>4. faults'.crash = 0 => faults.crash = 0
  BY DEF TypeInv, SagaInv, LogTyped, Faults, FaultsGrow
<1>5. ExercisedAfter' /\ TakenByExercise'
  OBVIOUS
<1>6. /\ contract' = contract \/ (Exists /\ Exists')
      /\ shares' = shares \/ (Exists /\ Exists' /\ shares # "none")
  OBVIOUS
<1>7. /\ \A j \in {2, 3, 4} : AcceptDid(j)' <=> AcceptDid(j)
      /\ \A j \in {2, 3} : AcceptUndid(j)' <=> AcceptUndid(j)
  OBVIOUS
<1>8. PaidIfDone'
  BY <1>0, <1>1, <1>2, <1>3, <1>4, <1>5, <1>6, <1>7 DEF PaidIfDone, IsCompleted
<1>9. LoggedIfPaid'
  BY <1>0, <1>1, <1>2, <1>3, <1>4, <1>5, <1>6, <1>7 DEF HistoryGrows, LoggedIfPaid, Evident,
         IsCompleted, IsPending
<1>10. PaidIfPending'
  BY <1>0, <1>1, <1>2, <1>3, <1>4, <1>5, <1>6, <1>7 DEF PaidIfPending, IsPending
<1>11. RefundedIfUndone'
  BY <1>0, <1>1, <1>2, <1>3, <1>4, <1>5, <1>6, <1>7 DEF HistoryGrows, RefundedIfUndone
<1>12. UndoneIfRefunded'
  BY <1>0, <1>1, <1>2, <1>3, <1>4, <1>5, <1>6, <1>7 DEF UndoneIfRefunded
<1>13. PremiumHeld'
  BY <1>0, <1>1, <1>2, <1>3, <1>4, <1>5, <1>6, <1>7 DEF PremiumHeld, UndoneIfRefunded
<1>14. Begun'
  BY <1>0, <1>1, <1>2, <1>3, <1>4, <1>5, <1>6, <1>7 DEF Begun, Forwards, Exists
<1>15. Fresh'
  BY <1>0, <1>1, <1>2, <1>3, <1>4, <1>5, <1>6, <1>7 DEF Fresh, Exists
<1>16. ExercisedAfter'
  BY <1>5
<1>17. TakenByExercise'
  BY <1>5
<1>18. NoHold'
  BY <1>0, <1>1, <1>2, <1>3, <1>4, <1>5, <1>6, <1>7 DEF NoHold, Exists
<1>19. NotFormed'
  BY <1>0, <1>1, <1>2, <1>3, <1>4, <1>5, <1>6, <1>7 DEF NotFormed, HasCompensations,
         Exists
<1>20. Formed'
  BY <1>0, <1>1, <1>2, <1>3, <1>4, <1>5, <1>6, <1>7 DEF Formed, Exists, Evident,
         IsCompleted, IsPending
<1>21. NothingPaid'
  BY <1>0, <1>1, <1>2, <1>3, <1>4, <1>5, <1>6, <1>7 DEF NothingPaid, Exists,
         HasCompensations, NotFormed, Gone
<1>22. Gone'
  BY <1>0, <1>1, <1>2, <1>3, <1>4, <1>5, <1>6, <1>7 DEF Gone, Begun, Forwards, Exists
<1>23. GoneRefunded'
  BY <1>0, <1>1, <1>2, <1>3, <1>4, <1>5, <1>6, <1>7 DEF HistoryGrows, GoneRefunded, Gone, Exists
<1>24. GoneIfUndone'
  BY <1>0, <1>1, <1>2, <1>3, <1>4, <1>5, <1>6, <1>7 DEF GoneIfUndone, Exists
<1>25. CreditKept'
  BY <1>0, <1>1, <1>2, <1>3, <1>4, <1>5, <1>6, <1>7 DEF CreditKept
<1>26. Credited'
  BY <1>0, <1>1, <1>2, <1>3, <1>4, <1>5, <1>6, <1>7 DEF HistoryGrows, Credited, Whole,
         HasCompensations, Evident, IsCompleted, IsPending
<1>27. LeftBehind'
  BY <1>0, <1>1, <1>2, <1>3, <1>4, <1>5, <1>6, <1>7 DEF LeftBehind, Undoes, GoesOn,
         HasCompensations, CompCompleted, HistoryGrows
<1> QED
  BY <1>8, <1>9, <1>10, <1>11, <1>12, <1>13, <1>14, <1>15, <1>16, <1>17, <1>18,
     <1>19, <1>20, <1>21, <1>22, <1>23, <1>24, <1>25, <1>26, <1>27 DEF AcceptKnown

-----------------------------------------------------------------------------
(* What an exercise does to the rows around it *)

(* What is in the log stays there.                                         *)
LEMMA LogGrows ==
    ASSUME SagaInv, NEW s \in Sagas, RunStep(s) \/ CronStep(s), NEW k \in Steps(s),
           fwd[s][k] # {}
    PROVE  fwd'[s][k] # {}
<1>1. DOMAIN fwd = Sagas /\ fwd[s] \in [Steps(s) -> SUBSET FwdStatuses]
  BY DEF SagaInv, LogTyped, FwdTyped
<1>2. CASE RunStep(s)
  <2>1. CASE ForwardFailed(s) \/ MarkCompleted(s) \/ MarkCompletedFails(s)
    BY <1>1, <2>1, LogEffects DEF FwdSet
  <2>2. CASE Return(s)
    <3>1. run[s].row # None => run[s].row[2] \in Steps(s)
      BY DEF SagaInv, OnStep
    <3>2. UNCHANGED fwd \/ (Closed(s, run[s].row) /\ run[s].row # None)
      BY <2>2 DEF Return
    <3> QED BY <1>1, <3>1, <3>2, LogEffects DEF FwdSet
  <2>3. CASE ~ForwardFailed(s) /\ ~MarkCompleted(s) /\ ~MarkCompletedFails(s) /\ ~Return(s)
    BY <1>2, <2>3 DEF RunStep, Execute, SkipCompleted, RecordForward, ForwardDone,
          Refused,
       RecordCompensation, BackwardDone, MarkCompensated, NotUndone, BackwardFailed
  <2> QED BY <2>1, <2>2, <2>3
<1>3. CASE CronStep(s)
  <2>1. PICK row \in Stuck(s) : \/ Recover(s, row) \/ RecoverNothing(s, row)
                                \/ RecoverRefused(s, row) \/ MarkDeadLetter(s, row)
    BY <1>3 DEF CronStep
  <2>2. row[2] \in Steps(s)
    BY StuckRows
  <2>3. CASE Recover(s, row) \/ RecoverRefused(s, row)
    BY <2>3 DEF Recover, RecoverRefused
  <2>4. CASE Closed(s, row) \/ MarkDeadLetter(s, row)
    BY <2>2, <2>4, LogEffects DEF FwdSet
  <2> QED BY <2>1, <2>3, <2>4 DEF RecoverNothing
<1> QED BY <1>2, <1>3

(* A saga that moves, other than by its first call, has been started.      *)
LEMMA MovesStarted ==
    ASSUME SagaInv, NEW s \in Sagas, SagaLog(s), RunStep(s) \/ CronStep(s)
    PROVE  Started(s) \/ Execute(s)
<1>1. CASE RunStep(s)
  BY <1>1 DEF RunStep, SkipCompleted, RecordForward, ForwardDone, Refused,
        ForwardFailed,
     MarkCompleted, MarkCompletedFails, RecordCompensation, BackwardDone, MarkCompensated,
     NotUndone, BackwardFailed, Return, Started
<1>2. CASE CronStep(s)
  <2>1. PICK row \in Stuck(s) : TRUE
    BY <1>2 DEF CronStep
  <2>2. /\ row[2] \in Steps(s)
        /\ "pending" \in fwd[s][row[2]] \/ comp[s][row[2]] = "compensating"
    BY StuckRows
  <2>3. fwd[s][row[2]] # {}
    BY <2>2 DEF SagaLog, LogKnown, CompEvident, Evident, IsCompleted, IsPending
  <2> QED BY <2>2, <2>3 DEF Started
<1> QED BY <1>1, <1>2

(* A step of an exercise, as a step of its saga and of the rows around it. *)
ExerciseStep(e) ==
    \/ ExerciseContract(e) \/ Forward(e) \/ ForwardRefused(e) \/ ForwardLost(e)
    \/ Backward(e) \/ BackwardRefused(e) \/ ExecutorStep(e) \/ RecoverSaga(e)

(* What a step of an exercise does to the rows around it.                  *)
LEMMA ExerciseAround ==
    ASSUME TypeInv, NEW e \in Attempts, ExerciseStep(e)
    PROVE  /\ RunStep(e) \/ CronStep(e)
           /\ UNCHANGED dateVars
           /\ Execute(e) => ExerciseContract(e)
           /\ \/ UNCHANGED <<contract, premium, strike, keys, shares, delivered, gains>>
              \/ (Forward(e) \/ ForwardLost(e)) /\ ExerciseDoes(e, run[e].at)
              \/ Backward(e) /\ ExerciseUndoes(e, run[e].at)
<1>1. e \in Sagas /\ e # AcceptSaga /\ SagaInv
  BY OtcAssumption DEF TypeInv
<1>2. CASE ExerciseContract(e)
  BY <1>2 DEF ExerciseContract, RunStep, moneyVars, shareVars
<1>3. CASE Forward(e)
  BY <1>1, <1>3, ExerciseForwards DEF Forward, RunStep, ForwardDone, Execute, Started
<1>9. CASE ForwardLost(e)
  BY <1>1, <1>9, ExerciseForwards DEF ForwardLost, RunStep, Refused, ForwardFailed,
     Execute, Started
<1>4. CASE Backward(e)
  BY <1>1, <1>4, ExerciseBackwards DEF Backward, RunStep, BackwardDone, Execute, Started
<1>5. CASE ForwardRefused(e)
  <2>1. run[e].pc = "call" /\ run[e].at \in Steps(e) /\ ForwardFailed(e)
    BY <1>1, <1>5 DEF ForwardRefused, ForwardFailed, SagaInv, OnStep, Busy
  <2>2. run[e].at \in 1..8
    BY <1>1, <2>1, StepNumbers
  <2>3. StepOf(e) # "reserve_and_contract"
    BY <1>1, <2>2 DEF StepOf, StepName, ExerciseSteps
  <2>4. UNCHANGED <<contract, premium, strike, keys, shares, delivered, gains, dateVars>>
    BY <1>5, <2>3 DEF ForwardRefused, moneyVars, shareVars
  <2>5. RunStep(e)
    BY <1>5 DEF ForwardRefused, RunStep, Refused
  <2> QED BY <2>1, <2>4, <2>5 DEF Execute, Started
<1>6. CASE BackwardRefused(e)
  BY <1>6 DEF BackwardRefused, RunStep, NotUndone, BackwardFailed, Execute, Started,
     contractVars, moneyVars, shareVars
<1>7. CASE ExecutorStep(e)
  <2>1. run[e].pc # "idle" \/ Stuck(e) # {}
    BY <1>7 DEF ExecutorStep, SkipCompleted, RecordForward, MarkCompleted,
          MarkCompletedFails,
       RecordCompensation, MarkCompensated, Return
  <2>2. RunStep(e) \/ CronStep(e)
    BY <1>7 DEF ExecutorStep, RunStep, CronStep
  <2>3. ~Execute(e)
    <3>1. Execute(e) => run'[e].pc = "record" /\ run[e].pc = "idle" /\ UNCHANGED <<fwd, comp>>
      BY <1>1, RunEffects, LastOfRun, StepNumbers DEF Becomes, SagaInv, Execute, Started
    <3>2. run[e].pc = "idle" => UNCHANGED run
      BY <1>7 DEF ExecutorStep, SkipCompleted, RecordForward, MarkCompleted,
            MarkCompletedFails,
         RecordCompensation, MarkCompensated, Return, MarkDeadLetter
    <3> QED BY <3>1, <3>2
  <2> QED BY <1>7, <2>2, <2>3 DEF ExecutorStep, contractVars, moneyVars, shareVars
<1>8. CASE RecoverSaga(e)
  <2>1. CronStep(e)
    BY <1>8 DEF RecoverSaga, CronStep
  <2>2. ~Execute(e)
    <3>1. Execute(e) => /\ run'[e].pc = "record" /\ run'[e].row = None /\ run[e].pc = "idle"
                        /\ UNCHANGED <<fwd, comp>>
      BY <1>1, RunEffects, LastOfRun, StepNumbers DEF Becomes, SagaInv, Execute, Started
    <3>2. \A row \in Stuck(e) : Recover(e, row) => run'[e].row = row /\ row # None
      BY <1>1, RecoverEffect, StuckRows, SagaAssumption DEF Becomes, LogRow
    <3>3. \A row \in Stuck(e) : RecoverNothing(e, row) \/ RecoverRefused(e, row) => UNCHANGED run
      BY DEF RecoverNothing, RecoverRefused
    <3> QED BY <1>8, <3>1, <3>2, <3>3 DEF RecoverSaga
  <2> QED BY <1>8, <2>1, <2>2 DEF RecoverSaga, moneyVars, shareVars
<1> QED BY <1>2, <1>3, <1>4, <1>5, <1>6, <1>7, <1>8, <1>9 DEF ExerciseStep

(* A step of an exercise leaves the accept saga and its money alone.       *)
LEMMA AcceptByExercise ==
    ASSUME TypeInv, AcceptKnown, \A s \in Sagas : SagaLog(s), Restricted, Restricted',
           HistoryGrows,
           NEW e \in Attempts, ExerciseStep(e)
    PROVE  AcceptKnown'
<1>1. e \in Sagas /\ AcceptSaga \in Sagas \ {e} /\ AcceptSaga \in Sagas /\ SagaInv
  BY OtcAssumption DEF TypeInv
<1>2. /\ RunStep(e) \/ CronStep(e)
      /\ Execute(e) => ExerciseContract(e)
      /\ \/ UNCHANGED <<contract, premium, strike, keys, shares, delivered, gains>>
         \/ (Forward(e) \/ ForwardLost(e)) /\ ExerciseDoes(e, run[e].at)
         \/ Backward(e) /\ ExerciseUndoes(e, run[e].at)
  BY ExerciseAround
<1>3. FaultsGrow
  BY <1>1, <1>2, RunStepKeeps, CronStepKeeps
<1>4. /\ run'[AcceptSaga] = run[AcceptSaga] /\ fwd'[AcceptSaga] = fwd[AcceptSaga]
      /\ comp'[AcceptSaga] = comp[AcceptSaga]
  BY <1>1, <1>2, Elsewhere
<1>5. Settled(AcceptSaga)' <=> Settled(AcceptSaga)
  <2>1. Stuck(AcceptSaga)' = Stuck(AcceptSaga)
    BY <1>4 DEF Stuck
  <2> QED BY <1>4, <2>1 DEF Settled
<1>6. Exists /\ fwd[AcceptSaga][1] # {} /\ Settled(AcceptSaga)
  <2>1. CASE Started(e)
    BY <2>1 DEF AcceptKnown, ExercisedAfter
  <2>2. CASE ~Started(e)
    <3>1. Execute(e) /\ contract = "active"
      BY <1>1, <1>2, <2>2, MovesStarted DEF ExerciseContract
    <3>2. run'[e].pc = "record"
      BY <1>1, <3>1, RunEffects, LastOfRun, StepNumbers DEF Becomes, SagaInv
    <3>3. Settled(AcceptSaga)'
      BY <3>2 DEF Started, Restricted, FormedFirst
    <3>4. run[AcceptSaga].pc = "idle"
      BY <1>5, <3>3 DEF Settled
    <3> QED BY <1>5, <3>1, <3>3, <3>4 DEF AcceptKnown, Begun, Forwards, Exists
  <2> QED BY <2>1, <2>2
<1>7. /\ \A j \in {2, 3, 4} : AcceptDid(j)' <=> AcceptDid(j)
      /\ \A j \in {2, 3} : AcceptUndid(j)' <=> AcceptUndid(j)
  BY <1>2, KeysApart
<1>8. UNCHANGED premium /\ Exists' /\ (UNCHANGED shares \/ shares # "none")
  BY <1>2, <1>6 DEF ExerciseDoes, ExerciseUndoes, Exists
<1>9. ExercisedAfter'
  BY <1>4, <1>5, <1>6, <1>8 DEF ExercisedAfter
<1>10. \A u \in Attempts : fwd[u][1] # {} => fwd'[u][1] # {}
  <2>1. ASSUME NEW u \in Attempts, fwd[u][1] # {} PROVE fwd'[u][1] # {}
    <3>1. u \in Sagas /\ 1 \in Steps(u)
      BY OtcAssumption, StepNumbers
    <3>2. CASE u = e
      BY <1>1, <1>2, <2>1, <3>1, <3>2, LogGrows
    <3>3. CASE u # e
      BY <1>1, <1>2, <2>1, <3>1, <3>3, Elsewhere
    <3> QED BY <3>2, <3>3
  <2> QED BY <2>1
<1>11. TakenByExercise'
  <2>1. CASE shares = "settled"
    BY <1>10, <2>1 DEF AcceptKnown, TakenByExercise
  <2>2. CASE shares # "settled" /\ shares' = "settled"
    <3>1. (Forward(e) \/ ForwardLost(e)) /\ run[e].at = 4
      BY <1>2, <2>2 DEF ExerciseDoes, ExerciseUndoes
    <3>2. run[e].pc = "call" /\ 1 \in Steps(e)
      BY <1>1, <3>1, StepNumbers DEF Forward, ForwardDone, ForwardLost,
         ForwardFailed
    <3>3. Passed(e, 1)
      BY <3>1, <3>2 DEF Passed, Forwards
    <3>4. PassedKnown(e)
      BY <1>1 DEF SagaLog, RunKnown
    <3>5. fwd[e][1] # {}
      BY <3>2, <3>3, <3>4 DEF PassedKnown, IsCompleted, IsPending
    <3> QED BY <1>10, <3>5 DEF TakenByExercise
  <2> QED BY <2>1, <2>2 DEF TakenByExercise
<1>12. SagaLog(AcceptSaga)
  BY <1>1
<1> QED BY <1>3, <1>4, <1>6, <1>7, <1>8, <1>9, <1>11, <1>12, AcceptFrame

(* The expiry cron, and a day that passes, leave the accept saga alone.    *)
LEMMA AcceptByDate ==
    ASSUME TypeInv, AcceptKnown, SagaLog(AcceptSaga), Restricted, Restricted', HistoryGrows,
           DayPasses \/ ExpireRelease \/ ExpireSave \/ UNCHANGED vars
    PROVE  AcceptKnown'
<1>1. UNCHANGED <<run, fwd, comp, retry, faults>> /\ faults \in Faults
  BY DEF DayPasses, ExpireRelease, ExpireSave, vars, sagaVars, TypeInv, SagaInv,
        LogTyped
<1>2. FaultsGrow
  BY <1>1, FaultsCounted
<1>3. UNCHANGED <<premium, keys>>
  BY DEF DayPasses, ExpireRelease, ExpireSave, vars, moneyVars
<1>4. UNCHANGED contract \/ (Exists /\ Exists')
  BY DEF DayPasses, ExpireRelease, ExpireSave, vars, contractVars, Exists
<1>5. UNCHANGED shares \/ (shares = "active" /\ shares' = "released" /\ Exists /\ UNCHANGED contract)
  BY DEF DayPasses, ExpireRelease, ExpireSave, vars, shareVars, Exists
<1>6. Stuck(AcceptSaga)' = Stuck(AcceptSaga)
  BY <1>1 DEF Stuck
<1>7. \A e \in Attempts : Started(e)' <=> Started(e)
  BY <1>1 DEF Started
<1>8. ExercisedAfter'
  BY <1>1, <1>4, <1>6, <1>7 DEF AcceptKnown, ExercisedAfter, Settled, Exists
<1>9. TakenByExercise'
  BY <1>1, <1>5 DEF AcceptKnown, TakenByExercise
<1>10. /\ \A j \in {2, 3, 4} : AcceptDid(j)' <=> AcceptDid(j)
       /\ \A j \in {2, 3} : AcceptUndid(j)' <=> AcceptUndid(j)
  BY <1>3, KeysApart
<1>11. UNCHANGED shares \/ (Exists /\ Exists' /\ shares # "none")
  BY <1>5 DEF Exists
<1> QED BY <1>1, <1>2, <1>3, <1>4, <1>8, <1>9, <1>10, <1>11, AcceptFrame

(* Every step keeps what is known of the accept saga.                      *)
LEMMA AcceptStep ==
    ASSUME TypeInv, AcceptKnown, \A s \in Sagas : SagaLog(s), Restricted, Restricted',
           [Next]_vars
    PROVE  AcceptKnown'
<1>1. /\ SagaLog(AcceptSaga) /\ Sagas = {AcceptSaga} \cup Attempts /\ AcceptSaga \notin Attempts
      /\ HistoryGrows
  BY OtcAssumption, HistoryStep DEF TypeInv, HistoryGrows, LostBy, FailedBack
<1>2. ASSUME NEW s \in Sagas,
             \/ MintContract(s) \/ CreateContract(s) \/ ExerciseContract(s)
             \/ Forward(s) \/ ForwardRefused(s) \/ ForwardLost(s)
             \/ Backward(s) \/ BackwardRefused(s) \/ ExecutorStep(s) \/ RecoverSaga(s)
      PROVE  AcceptKnown'
  <2>1. CASE s \in Attempts
    <3>1. ExerciseStep(s)
      BY <1>1, <1>2, <2>1 DEF ExerciseStep, MintContract, CreateContract
    <3> QED BY <1>1, <2>1, <3>1, AcceptByExercise
  <2>2. CASE s = AcceptSaga
    <3>1. ~ExerciseContract(s)
      BY <1>1, <2>2 DEF ExerciseContract
    <3>2. CASE MintContract(s)
      BY <1>1, <2>2, <3>2, AcceptStarts DEF MintContract
    <3>3. CASE CreateContract(s)
      BY <1>1, <2>2, <3>3, AcceptCreates
    <3>4. CASE Forward(s)
      BY <1>1, <2>2, <3>4, AcceptForwarded
    <3>5. CASE ForwardRefused(s)
      BY <1>1, <2>2, <3>5, AcceptRefused
    <3>10. CASE ForwardLost(s)
      BY <1>1, <2>2, <3>10, AcceptLost
    <3>6. CASE Backward(s)
      BY <1>1, <2>2, <3>6, AcceptBackwarded
    <3>7. CASE BackwardRefused(s)
      BY <1>1, <2>2, <3>7, AcceptNotUndone
    <3>8. CASE ExecutorStep(s)
      BY <1>1, <2>2, <3>8, AcceptSkips, AcceptRecords, AcceptMarks, AcceptUnmarked,
         AcceptCompensates, AcceptCompensated, AcceptReturns, AcceptGivesUp
               DEF ExecutorStep
    <3>9. CASE RecoverSaga(s)
      <4>1. PICK row \in Stuck(AcceptSaga) :
              \/ Exists /\ Recover(AcceptSaga, row)
              \/ ~Exists /\ RecoverNothing(AcceptSaga, row)
        BY <2>2, <3>9 DEF RecoverSaga
      <4>2. UNCHANGED <<contract, version, moneyVars, shareVars>>
        BY <3>9 DEF RecoverSaga
      <4> QED BY <1>1, <4>1, <4>2, AcceptRecovers, AcceptClosed
    <3> QED BY <1>2, <3>1, <3>2, <3>3, <3>4, <3>5, <3>6, <3>7, <3>8, <3>9, <3>10
  <2> QED BY <1>1, <2>1, <2>2
<1>3. CASE ServiceCrash
  BY <1>1, <1>3, AcceptCrashes
<1>4. CASE DayPasses \/ ExpireRelease \/ ExpireSave \/ UNCHANGED vars
  BY <1>1, <1>4, AcceptByDate
<1> QED BY <1>2, <1>3, <1>4 DEF Next

-----------------------------------------------------------------------------
(* The accept saga's invariant and theorem *)

(* Nothing has happened in the beginning.                                  *)
LEMMA KnownInit ==
    ASSUME Init
    PROVE  (\A s \in Sagas : SagaLog(s)) /\ AcceptKnown
<1>1. PICK r : r = Idle
  OBVIOUS
<1>2. r.pc = "idle" /\ r.at = 0 /\ r.done = {} /\ r.error = FALSE /\ r.row = None
  BY <1>1 DEF Idle
<1>3. run = [s \in Sagas |-> r]
  BY <1>1 DEF Init, SagaInit
<1>4. \A s \in Sagas : \A i \in Steps(s) : fwd[s][i] = {} /\ comp[s][i] = "none"
  BY DEF Init, SagaInit
<1>5. ASSUME NEW s \in Sagas PROVE SagaLog(s)
  <2>1. RunKnown(s)
    BY <1>2, <1>3, <1>4 DEF RunKnown, Rests, CallsOnce, GoesOn, PassedKnown, Passed,
          DoneKnown,
       UndoesLast, RowKnown, RowLogged, UndoesSome, NoneLeft, Forwards, Undoes
  <2>2. LogKnown(s)
    BY <1>2, <1>3, <1>4 DEF LogKnown, CompEvident, CompCompleted, PendingFirst,
          PendingAlone,
       InOrder, IsPending
  <2> QED BY <2>1, <2>2 DEF SagaLog
<1>6. AcceptSaga \in Sagas /\ Steps(AcceptSaga) = {1, 2, 3, 4}
  BY TypeInit, AcceptSteps14 DEF TypeInv
<1>7. /\ contract = "none" /\ premium = "none" /\ shares = "none" /\ keys = {}
  BY DEF Init
<1>8. /\ \A j : ~AcceptDid(j) /\ ~AcceptUndid(j)
  BY <1>7 DEF AcceptDid, AcceptUndid
<1>9. ~HasCompensations(AcceptSaga) /\ \A e \in Attempts : ~Started(e)
  <2>1. \A e \in Attempts : e \in Sagas
    BY OtcAssumption
  <2> QED BY <1>2, <1>3, <1>4, <1>6, <2>1 DEF HasCompensations, Started
<1>10. PaidIfDone /\ LoggedIfPaid /\ PaidIfPending /\ RefundedIfUndone /\ UndoneIfRefunded
  BY <1>2, <1>3, <1>4, <1>6, <1>8 DEF PaidIfDone, LoggedIfPaid, PaidIfPending,
        RefundedIfUndone,
     UndoneIfRefunded, IsCompleted, IsPending
<1>11. PremiumHeld /\ Begun /\ Fresh /\ ExercisedAfter /\ TakenByExercise /\ NoHold
  BY <1>2, <1>3, <1>4, <1>6, <1>7, <1>9 DEF PremiumHeld, Begun, Fresh, ExercisedAfter,
     TakenByExercise, NoHold
<1>12. NotFormed /\ Formed /\ NothingPaid /\ Gone /\ GoneRefunded /\ GoneIfUndone
  BY <1>2, <1>3, <1>4, <1>6, <1>7, <1>9 DEF NotFormed, Formed, NothingPaid, Gone,
        GoneRefunded,
     GoneIfUndone, Exists
<1>13. CreditKept /\ Credited /\ LeftBehind
  BY <1>4, <1>6, <1>8 DEF CreditKept, Credited, LeftBehind
<1> QED BY <1>5, <1>10, <1>11, <1>12, <1>13 DEF AcceptKnown

OtcInv == TypeInv /\ (\A s \in Sagas : SagaLog(s)) /\ AcceptKnown

(* The invariant of the contract, of its log and of the accept saga.       *)
LEMMA OtcInvHolds == Spec /\ []Restricted => []OtcInv
<1>1. Init => OtcInv
  BY TypeInit, KnownInit DEF OtcInv
<1>2. OtcInv /\ Restricted /\ Restricted' /\ [Next]_vars => OtcInv'
  <2> SUFFICES ASSUME OtcInv, Restricted, Restricted', [Next]_vars PROVE OtcInv'
    OBVIOUS
  <2>1. TypeInv'
    BY TypeStep DEF OtcInv
  <2>2. \A s \in Sagas : SagaLog(s)'
    <3>1. (\E e \in Attempts : Started(e)) => Exists
      BY DEF OtcInv, AcceptKnown, ExercisedAfter
    <3> QED BY <3>1, LogStep DEF OtcInv, TypeInv, Restricted
  <2>3. AcceptKnown'
    BY AcceptStep DEF OtcInv
  <2> QED BY <2>1, <2>2, <2>3 DEF OtcInv
<1> QED BY <1>1, <1>2, PTL DEF Spec

(* What an ended log says of a step: it was done and marked, or never was. *)
LEMMA EndedStep ==
    ASSUME SagaInv, NEW s \in Sagas, RolledBack(s), NEW i \in Steps(s), Evident(s, i),
           <<s, i>> \notin NoBackward
    PROVE  comp[s][i] = "compensated" /\ IsCompleted(s, i)
<1>1. Stuck(s) = {} /\ ~DeadLettered(s)
  BY DEF RolledBack, Settled
<1>2. "pending" \notin fwd[s][i] /\ "dead_letter" \notin fwd[s][i]
  BY <1>1, StuckRows DEF DeadLettered
<1>3. IsCompleted(s, i)
  BY <1>2 DEF Evident, IsPending
<1> QED BY <1>3 DEF RolledBack

(* A contract whose accept saga is done was paid for once on each side, and *)
(* a rolled back accept left no contract and no shares on hold and gave the *)
(* premium back, but for a leg whose answer was lost or whose Backward      *)
(* failed: MintContractFromAcceptedNegotiation and its recovery, for any    *)
(* number of exercises, faults and retries, under Restricted.               *)
THEOREM AcceptFormsOrRestores == Spec /\ []Restricted => []FormedOrRestored
<1>1. OtcInv => FormedOrRestored
  <2> SUFFICES ASSUME OtcInv PROVE FormedOrRestored
    OBVIOUS
  <2>1. AcceptSaga \in Sagas /\ SagaInv /\ Steps(AcceptSaga) = {1, 2, 3, 4}
    BY AcceptSteps14, OtcAssumption DEF OtcInv, TypeInv
  <2>2. AcceptKnown /\ SagaLog(AcceptSaga)
    BY <2>1 DEF OtcInv
  <2>3. \A i \in {1, 2, 3} : <<AcceptSaga, i>> \notin NoBackward
    BY OtcAssumption DEF AcceptSteps
  <2>4. ASSUME Committed(AcceptSaga) PROVE PremiumPaid = 1 /\ PremiumGot = 1
    <3>1. ~HasCompensations(AcceptSaga) /\ IsCompleted(AcceptSaga, 3) /\ IsCompleted(AcceptSaga, 4)
      BY <2>1, <2>4 DEF Committed
    <3>2. AcceptDid(3) /\ AcceptDid(4)
      BY <2>2, <3>1 DEF AcceptKnown, PaidIfDone
    <3>3. ~AcceptUndid(3)
      BY <2>1, <2>2, <3>1 DEF AcceptKnown, UndoneIfRefunded, HasCompensations
    <3> QED BY <3>2, <3>3 DEF AcceptDid, AcceptUndid, PremiumPaid, PremiumGot, Count
  <2>5. ASSUME RolledBack(AcceptSaga)
        PROVE  /\ PremiumPaid = 0 \/ (PremiumPaid = 1 /\ Astray("settle_premium_buyer"))
               /\ PremiumGot = 0 \/ Among(AcceptSaga, "credit_premium_seller", lost)
               /\ premium = "active" => Astray("reserve_premium")
               /\ shares # "active" /\ ~Exists
    <3>1. run[AcceptSaga].pc = "idle"
      BY <2>5 DEF RolledBack, Settled
    <3>2. \A i \in {1, 2, 3} : Evident(AcceptSaga, i) =>
             comp[AcceptSaga][i] = "compensated"
      BY <2>1, <2>3, <2>5, EndedStep
    <3>3. \A i \in {2, 3} : AcceptDid(i) =>
             AcceptUndid(i) \/ LostBy(AcceptSaga, i) \/ FailedBack(AcceptSaga, i)
      BY <2>2, <3>1, <3>2 DEF AcceptKnown, LoggedIfPaid, RefundedIfUndone
    <3>4. \A i \in {2, 3} : AcceptUndid(i) => AcceptDid(i)
      BY <2>2 DEF AcceptKnown, UndoneIfRefunded
    <3>5. AcceptDid(4) => LostBy(AcceptSaga, 4)
      BY <2>1, <2>2, <3>2 DEF AcceptKnown, Credited, HasCompensations
    <3>6. ~Exists
      BY <2>2, <3>1, <3>2 DEF AcceptKnown, Formed, GoneIfUndone
    <3>7. shares # "active"
      BY <2>2, <3>6 DEF AcceptKnown, NoHold
    <3>8. premium = "active" => LostBy(AcceptSaga, 2) \/ FailedBack(AcceptSaga, 2)
      BY <2>2, <3>3 DEF AcceptKnown, PremiumHeld
    <3>9. \/ PremiumPaid = 0
          \/ PremiumPaid = 1 /\ (LostBy(AcceptSaga, 3) \/ FailedBack(AcceptSaga, 3))
      BY <3>3, <3>4 DEF AcceptDid, AcceptUndid, PremiumPaid, Count
    <3>10. PremiumGot = 0 \/ LostBy(AcceptSaga, 4)
      BY <3>5 DEF AcceptDid, PremiumGot, Count
    <3>11. /\ (LostBy(AcceptSaga, 2) \/ FailedBack(AcceptSaga, 2)) => Astray("reserve_premium")
           /\ (LostBy(AcceptSaga, 3) \/ FailedBack(AcceptSaga, 3))
                => Astray("settle_premium_buyer")
           /\ LostBy(AcceptSaga, 4) => Among(AcceptSaga, "credit_premium_seller", lost)
      <4>1. /\ StepName(AcceptSaga, 2) = "reserve_premium"
            /\ StepName(AcceptSaga, 3) = "settle_premium_buyer"
            /\ StepName(AcceptSaga, 4) = "credit_premium_seller"
        BY DEF StepName, AcceptSteps
      <4> QED BY <2>1, <4>1 DEF Astray, Among, LostBy, FailedBack
    <3> QED BY <3>6, <3>7, <3>8, <3>9, <3>10, <3>11
  <2> QED BY <2>4, <2>5 DEF FormedOrRestored
<1> QED BY <1>1, OtcInvHolds, PTL

-----------------------------------------------------------------------------
(* What is known of an exercise, and of the settlement date *)

ExerciseDid(e, i) ==
    \/ i = 1 /\ Key("reserve", e) \in keys
    \/ i = 2 /\ Key("settle", e) \in keys
    \/ i = 3 /\ Key("seller", Contract) \in keys
    \/ i = 4 /\ shares = "settled"
    \/ i = 5 /\ delivered # 0
    \/ i = 6 /\ e \in gains
    \/ i = 7 /\ contract = "exercised"
ExerciseUndid(e, i) ==
    \/ i = 1 /\ Key("release", e) \in keys
    \/ i = 2 /\ Key("comp-buyer", Contract) \in keys
    \/ i = 3 /\ Key("comp-seller", Contract) \in keys

(* A step of the exercise that is done, or about to be marked, took effect. *)
ExerciseDone(e) ==
    \A i \in 1..7 :
        (/\ \/ IsCompleted(e, i) \/ i \in run[e].done
            \/ run[e].pc = "mark" /\ run[e].at = i
         /\ i <= 3 \/ ~HasCompensations(e)) => ExerciseDid(e, i)
(* What took effect is in the log, or about to be, or its answer was lost. *)
ExerciseLogged(e) ==
    \A i \in 1..7 : ExerciseDid(e, i) =>
        \/ Evident(e, i) \/ (run[e].pc = "mark" /\ run[e].at = i)
        \/ i <= 3 /\ LostBy(e, i) /\ fwd[e][i] # {}
(* Without a crash, a pending row is one whose step was done.              *)
ExercisePending(e) ==
    \A i \in 1..3 : faults.crash = 0 /\ IsPending(e, i) => ExerciseDid(e, i)
(* A compensation that is done, or about to be marked, took the effect back. *)
ExerciseUndone(e) ==
    \A i \in 1..7 :
        comp[e][i] = "compensated" \/ (run[e].pc = "unmark" /\ run[e].at = i) =>
            IF i <= 3 THEN ExerciseUndid(e, i) ELSE ~ExerciseDid(e, i)
(* Money is given back by a compensation, of a step that was done.         *)
ExerciseReturned(e) ==
    \A i \in 1..3 :
        ExerciseUndid(e, i) => comp[e][i] # "none" /\ ExerciseDid(e, i)
(* A strike on hold was reserved and not released.                         *)
StrikeHeld(e) ==
    strike = "active" => ExerciseDid(e, 1) /\ ~ExerciseUndid(e, 1)
(* The shares are delivered at most once.                                  *)
DeliveredOnce ==
    delivered \in {0, 1}
(* The day passes when the exercise is at rest.                            *)
DaySettled(e) ==
    past => Settled(e)
(* A contract expires after that, and not an exercised one.                *)
ExpiryAfter ==
    /\ expiring \/ contract = "expired" => past
    /\ expiring => contract # "exercised"
(* So is the loss of its buyer booked.                                     *)
LossAfter(e) ==
    /\ gains \subseteq {e, Cron}
    /\ Cron \in gains => past /\ contract # "exercised"
(* The hold of a contract is released when the day has passed.             *)
ReleasedAfter ==
    shares = "released" /\ Exists => past
(* A contract in the log holds the shares, or held them.                   *)
HeldIfFormed ==
    (/\ Exists
     /\ \/ IsCompleted(AcceptSaga, 1) \/ 1 \in run[AcceptSaga].done
        \/ run[AcceptSaga].pc = "mark" /\ run[AcceptSaga].at = 1
        \/ faults.crash = 0 /\ IsPending(AcceptSaga, 1)) => shares # "none"
(* An expired contract does not hold the shares any more.                  *)
ExpiredFreed(e) ==
    Started(e) /\ (expiring \/ contract = "expired") => shares # "active"

ExerciseKnown(e) ==
    /\ ExerciseDone(e) /\ ExerciseLogged(e) /\ ExercisePending(e)
    /\ ExerciseUndone(e) /\ ExerciseReturned(e) /\ StrikeHeld(e)
    /\ DeliveredOnce
DateKnown(e) ==
    /\ DaySettled(e) /\ ExpiryAfter /\ LossAfter(e) /\ ReleasedAfter
    /\ HeldIfFormed /\ ExpiredFreed(e)

-----------------------------------------------------------------------------
(* What the steps of an exercise find and leave *)

(* An exercise has eight steps.                                            *)
LEMMA ExerciseSteps18 ==
    ASSUME SagaInv, NEW e \in Attempts
    PROVE  /\ Steps(e) = 1..8 /\ e \in Sagas /\ e # AcceptSaga
           /\ run[e].at \in 0..8 /\ run[e].done \subseteq 1..8
           /\ run[e].pc \in Busy => run[e].at \in 1..8
           /\ run[e].row # None => run[e].row[2] \in 1..8
<1>1. e \in Sagas /\ e # AcceptSaga
  BY OtcAssumption
<1>2. Steps(e) = 1..8
  BY <1>1, StepNumbers
<1>3. {0} \cup 1..8 = 0..8
  OBVIOUS
<1> QED BY <1>1, <1>2, <1>3 DEF SagaInv, OnStep

(* The effects of an exercise's steps are apart from each other.           *)
LEMMA EffectsApart ==
    ASSUME NEW e \in Attempts, NEW i \in 1..8
    PROVE  /\ ExerciseDoes(e, i) =>
                /\ \A j \in 1..7 : ExerciseDid(e, j)' <=> (ExerciseDid(e, j) \/ j = i)
                /\ \A j \in 1..3 : ExerciseUndid(e, j)' <=> ExerciseUndid(e, j)
           /\ ExerciseUndoes(e, i) =>
                /\ \A j \in 1..3 : ExerciseDid(e, j)' <=> ExerciseDid(e, j)
                /\ \A j \in 4..7 : ExerciseDid(e, j)' <=> (ExerciseDid(e, j) /\ j # i)
                /\ \A j \in 1..3 : ExerciseUndid(e, j)' <=> (ExerciseUndid(e, j) \/ j = i)
           /\ UNCHANGED <<contract, keys, shares, delivered, gains>> =>
                /\ \A j \in 1..7 : ExerciseDid(e, j)' <=> ExerciseDid(e, j)
                /\ \A j \in 1..3 : ExerciseUndid(e, j)' <=> ExerciseUndid(e, j)
<1>1. ASSUME ExerciseDoes(e, i)
      PROVE  /\ \A j \in 1..7 : ExerciseDid(e, j)' <=> (ExerciseDid(e, j) \/ j = i)
             /\ \A j \in 1..3 : ExerciseUndid(e, j)' <=> ExerciseUndid(e, j)
  BY <1>1 DEF ExerciseDoes, ExerciseDid, ExerciseUndid, Key, UpsertIdempotent
<1>2. ASSUME ExerciseUndoes(e, i)
      PROVE  /\ \A j \in 1..3 : ExerciseDid(e, j)' <=> ExerciseDid(e, j)
             /\ \A j \in 4..7 : ExerciseDid(e, j)' <=> (ExerciseDid(e, j) /\ j # i)
             /\ \A j \in 1..3 : ExerciseUndid(e, j)' <=> (ExerciseUndid(e, j) \/ j = i)
  BY <1>2 DEF ExerciseUndoes, ExerciseDid, ExerciseUndid, Key
<1>3. UNCHANGED <<contract, keys, shares, delivered, gains>> =>
        /\ \A j \in 1..7 : ExerciseDid(e, j)' <=> ExerciseDid(e, j)
        /\ \A j \in 1..3 : ExerciseUndid(e, j)' <=> ExerciseUndid(e, j)
  BY DEF ExerciseDid, ExerciseUndid
<1> QED BY <1>1, <1>2, <1>3

-----------------------------------------------------------------------------
(* The steps of an exercise *)

(* An exercise is started once.                                            *)
LEMMA ExerciseStarts ==
    ASSUME TypeInv, NEW e \in Attempts, ExerciseKnown(e), SagaLog(e), Restricted, Restricted',
           HistoryGrows,
           Execute(e), UNCHANGED <<contract, strike, keys, shares, delivered, gains>>
    PROVE  ExerciseKnown(e)'
<1>0. /\ ExerciseDone(e) /\ ExerciseLogged(e) /\ ExercisePending(e)
      /\ ExerciseUndone(e) /\ ExerciseReturned(e) /\ StrikeHeld(e)
      /\ DeliveredOnce /\ HistoryGrows
  BY DEF ExerciseKnown
<1>1. /\ Rests(e) /\ CallsOnce(e) /\ GoesOn(e) /\ PassedKnown(e) /\ DoneKnown(e)
      /\ UndoesLast(e) /\ RowKnown(e) /\ RowLogged(e) /\ UndoesSome(e) /\ NoneLeft(e)
      /\ CompEvident(e) /\ CompCompleted(e) /\ PendingFirst(e) /\ PendingAlone(e)
      /\ InOrder(e)
  BY DEF SagaLog, RunKnown, LogKnown
<1>2. /\ Steps(e) = 1..8 /\ e \in Sagas /\ e # AcceptSaga
      /\ run[e].at \in 0..8 /\ run[e].done \subseteq 1..8
      /\ run[e].pc \in Busy => run[e].at \in 1..8
      /\ run[e].row # None => run[e].row[2] \in 1..8
  BY ExerciseSteps18 DEF TypeInv
<1>3. Becomes(e, "record", 1, {}, FALSE, None)
  BY <1>2, LastOfRun, StepNumbers, RunEffects DEF TypeInv, SagaInv
<1>4. /\ run[e].pc = "idle" /\ UNCHANGED <<fwd, comp, faults>>
      /\ \A k \in Steps(e) : fwd[e][k] = {}
  BY DEF Execute, Started
<1>5. /\ \A j \in 1..7 : ExerciseDid(e, j)' <=> ExerciseDid(e, j)
      /\ \A j \in 1..3 : ExerciseUndid(e, j)' <=> ExerciseUndid(e, j)
      /\ UNCHANGED <<strike, delivered>>
  BY <1>2, EffectsApart
<1>6. ExerciseDone(e)'
  BY <1>0, <1>1, <1>2, <1>3, <1>4, <1>5 DEF ExerciseDone, IsCompleted,
         HasCompensations, Becomes, Busy
<1>7. ExerciseLogged(e)'
  BY <1>0, <1>1, <1>2, <1>3, <1>4, <1>5 DEF HistoryGrows, ExerciseLogged, Evident, IsCompleted,
         IsPending, Becomes, Busy
<1>8. ExercisePending(e)'
  BY <1>0, <1>1, <1>2, <1>3, <1>4, <1>5 DEF ExercisePending, IsPending, Becomes, Busy
<1>9. ExerciseUndone(e)'
  BY <1>0, <1>1, <1>2, <1>3, <1>4, <1>5 DEF ExerciseUndone, Becomes, Busy
<1>10. ExerciseReturned(e)'
  BY <1>0, <1>1, <1>2, <1>3, <1>4, <1>5 DEF ExerciseReturned, Becomes, Busy
<1>11. StrikeHeld(e)'
  BY <1>0, <1>1, <1>2, <1>3, <1>4, <1>5 DEF StrikeHeld, ExerciseReturned, Becomes, Busy
<1>12. DeliveredOnce'
  BY <1>0, <1>1, <1>2, <1>3, <1>4, <1>5 DEF DeliveredOnce, Becomes, Busy
<1> QED
  BY <1>6, <1>7, <1>8, <1>9, <1>10, <1>11, <1>12 DEF ExerciseKnown

(* A step that is not completed is called.                                 *)
LEMMA ExerciseRecords ==
    ASSUME TypeInv, NEW e \in Attempts, ExerciseKnown(e), SagaLog(e), Restricted, Restricted',
           HistoryGrows,
           RecordForward(e), UNCHANGED <<contract, strike, keys, shares, delivered, gains>>
    PROVE  ExerciseKnown(e)'
<1>0. /\ ExerciseDone(e) /\ ExerciseLogged(e) /\ ExercisePending(e)
      /\ ExerciseUndone(e) /\ ExerciseReturned(e) /\ StrikeHeld(e)
      /\ DeliveredOnce /\ HistoryGrows
  BY DEF ExerciseKnown
<1>1. /\ Rests(e) /\ CallsOnce(e) /\ GoesOn(e) /\ PassedKnown(e) /\ DoneKnown(e)
      /\ UndoesLast(e) /\ RowKnown(e) /\ RowLogged(e) /\ UndoesSome(e) /\ NoneLeft(e)
      /\ CompEvident(e) /\ CompCompleted(e) /\ PendingFirst(e) /\ PendingAlone(e)
      /\ InOrder(e)
  BY DEF SagaLog, RunKnown, LogKnown
<1>2. /\ Steps(e) = 1..8 /\ e \in Sagas /\ e # AcceptSaga
      /\ run[e].at \in 0..8 /\ run[e].done \subseteq 1..8
      /\ run[e].pc \in Busy => run[e].at \in 1..8
      /\ run[e].row # None => run[e].row[2] \in 1..8
  BY ExerciseSteps18 DEF TypeInv
<1>3. Becomes(e, "call", run[e].at, run[e].done, run[e].error, run[e].row)
  BY <1>2, LastOfRun, StepNumbers, RunEffects DEF TypeInv, SagaInv
<1>4. run[e].pc = "record" /\ UNCHANGED <<fwd, comp, faults>>
  BY DEF RecordForward
<1>5. /\ \A j \in 1..7 : ExerciseDid(e, j)' <=> ExerciseDid(e, j)
      /\ \A j \in 1..3 : ExerciseUndid(e, j)' <=> ExerciseUndid(e, j)
      /\ UNCHANGED <<strike, delivered>>
  BY <1>2, EffectsApart
<1>6. ExerciseDone(e)'
  BY <1>0, <1>1, <1>2, <1>3, <1>4, <1>5 DEF ExerciseDone, IsCompleted,
         HasCompensations, Becomes, Busy
<1>7. ExerciseLogged(e)'
  BY <1>0, <1>1, <1>2, <1>3, <1>4, <1>5 DEF HistoryGrows, ExerciseLogged, Evident, IsCompleted,
         IsPending, Becomes, Busy
<1>8. ExercisePending(e)'
  BY <1>0, <1>1, <1>2, <1>3, <1>4, <1>5 DEF ExercisePending, IsPending, Becomes, Busy
<1>9. ExerciseUndone(e)'
  BY <1>0, <1>1, <1>2, <1>3, <1>4, <1>5 DEF ExerciseUndone, Becomes, Busy
<1>10. ExerciseReturned(e)'
  BY <1>0, <1>1, <1>2, <1>3, <1>4, <1>5 DEF ExerciseReturned, Becomes, Busy
<1>11. StrikeHeld(e)'
  BY <1>0, <1>1, <1>2, <1>3, <1>4, <1>5 DEF StrikeHeld, ExerciseReturned, Becomes, Busy
<1>12. DeliveredOnce'
  BY <1>0, <1>1, <1>2, <1>3, <1>4, <1>5 DEF DeliveredOnce, Becomes, Busy
<1> QED
  BY <1>6, <1>7, <1>8, <1>9, <1>10, <1>11, <1>12 DEF ExerciseKnown

(* A completed step is passed over.                                        *)
LEMMA ExerciseSkips ==
    ASSUME TypeInv, NEW e \in Attempts, ExerciseKnown(e), SagaLog(e), Restricted, Restricted',
           HistoryGrows,
           SkipCompleted(e), UNCHANGED <<contract, strike, keys, shares, delivered, gains>>
    PROVE  ExerciseKnown(e)'
<1>0. /\ ExerciseDone(e) /\ ExerciseLogged(e) /\ ExercisePending(e)
      /\ ExerciseUndone(e) /\ ExerciseReturned(e) /\ StrikeHeld(e)
      /\ DeliveredOnce /\ HistoryGrows
  BY DEF ExerciseKnown
<1>1. /\ Rests(e) /\ CallsOnce(e) /\ GoesOn(e) /\ PassedKnown(e) /\ DoneKnown(e)
      /\ UndoesLast(e) /\ RowKnown(e) /\ RowLogged(e) /\ UndoesSome(e) /\ NoneLeft(e)
      /\ CompEvident(e) /\ CompCompleted(e) /\ PendingFirst(e) /\ PendingAlone(e)
      /\ InOrder(e)
  BY DEF SagaLog, RunKnown, LogKnown
<1>2. /\ Steps(e) = 1..8 /\ e \in Sagas /\ e # AcceptSaga
      /\ run[e].at \in 0..8 /\ run[e].done \subseteq 1..8
      /\ run[e].pc \in Busy => run[e].at \in 1..8
      /\ run[e].row # None => run[e].row[2] \in 1..8
  BY ExerciseSteps18 DEF TypeInv
<1>3. Becomes(e, Onward(e), Beyond(e), run[e].done, run[e].error, run[e].row)
  BY <1>2, LastOfRun, StepNumbers, RunEffects DEF TypeInv, SagaInv
<1>4. /\ run[e].pc = "record" /\ UNCHANGED <<fwd, comp, faults>>
      /\ \/ Onward(e) = "return" /\ run[e].at = 8 /\ Beyond(e) = 0
         \/ Onward(e) = "record" /\ Beyond(e) = run[e].at + 1
  BY <1>2, StepNumbers DEF SkipCompleted, Onward, Beyond
<1>5. /\ \A j \in 1..7 : ExerciseDid(e, j)' <=> ExerciseDid(e, j)
      /\ \A j \in 1..3 : ExerciseUndid(e, j)' <=> ExerciseUndid(e, j)
      /\ UNCHANGED <<strike, delivered>>
  BY <1>2, EffectsApart
<1>6. ExerciseDone(e)'
  BY <1>0, <1>1, <1>2, <1>3, <1>4, <1>5 DEF ExerciseDone, IsCompleted,
         HasCompensations, Becomes, Busy
<1>7. ExerciseLogged(e)'
  BY <1>0, <1>1, <1>2, <1>3, <1>4, <1>5 DEF HistoryGrows, ExerciseLogged, Evident, IsCompleted,
         IsPending, Becomes, Busy
<1>8. ExercisePending(e)'
  BY <1>0, <1>1, <1>2, <1>3, <1>4, <1>5 DEF ExercisePending, IsPending, Becomes, Busy
<1>9. ExerciseUndone(e)'
  BY <1>0, <1>1, <1>2, <1>3, <1>4, <1>5 DEF ExerciseUndone, Becomes, Busy
<1>10. ExerciseReturned(e)'
  BY <1>0, <1>1, <1>2, <1>3, <1>4, <1>5 DEF ExerciseReturned, Becomes, Busy
<1>11. StrikeHeld(e)'
  BY <1>0, <1>1, <1>2, <1>3, <1>4, <1>5 DEF StrikeHeld, ExerciseReturned, Becomes, Busy
<1>12. DeliveredOnce'
  BY <1>0, <1>1, <1>2, <1>3, <1>4, <1>5 DEF DeliveredOnce, Becomes, Busy
<1> QED
  BY <1>6, <1>7, <1>8, <1>9, <1>10, <1>11, <1>12 DEF ExerciseKnown

(* A step is marked completed.                                             *)
LEMMA ExerciseMarks ==
    ASSUME TypeInv, NEW e \in Attempts, ExerciseKnown(e), SagaLog(e), Restricted, Restricted',
           HistoryGrows,
           MarkCompleted(e), UNCHANGED <<contract, strike, keys, shares, delivered, gains>>
    PROVE  ExerciseKnown(e)'
<1>0. /\ ExerciseDone(e) /\ ExerciseLogged(e) /\ ExercisePending(e)
      /\ ExerciseUndone(e) /\ ExerciseReturned(e) /\ StrikeHeld(e)
      /\ DeliveredOnce /\ HistoryGrows
  BY DEF ExerciseKnown
<1>1. /\ Rests(e) /\ CallsOnce(e) /\ GoesOn(e) /\ PassedKnown(e) /\ DoneKnown(e)
      /\ UndoesLast(e) /\ RowKnown(e) /\ RowLogged(e) /\ UndoesSome(e) /\ NoneLeft(e)
      /\ CompEvident(e) /\ CompCompleted(e) /\ PendingFirst(e) /\ PendingAlone(e)
      /\ InOrder(e)
  BY DEF SagaLog, RunKnown, LogKnown
<1>2. /\ Steps(e) = 1..8 /\ e \in Sagas /\ e # AcceptSaga
      /\ run[e].at \in 0..8 /\ run[e].done \subseteq 1..8
      /\ run[e].pc \in Busy => run[e].at \in 1..8
      /\ run[e].row # None => run[e].row[2] \in 1..8
  BY ExerciseSteps18 DEF TypeInv
<1>3. Becomes(e, Onward(e), Beyond(e), run[e].done \cup {run[e].at}, run[e].error,
              run[e].row)
  BY <1>2, LastOfRun, StepNumbers, RunEffects DEF TypeInv, SagaInv
<1>4. /\ run[e].pc = "mark" /\ UNCHANGED <<comp, faults>>
      /\ \/ Onward(e) = "return" /\ run[e].at = 8 /\ Beyond(e) = 0
         \/ Onward(e) = "record" /\ Beyond(e) = run[e].at + 1
  BY <1>2, StepNumbers DEF MarkCompleted, Onward, Beyond
<1>5. /\ \A j \in 1..7 : ExerciseDid(e, j)' <=> ExerciseDid(e, j)
      /\ \A j \in 1..3 : ExerciseUndid(e, j)' <=> ExerciseUndid(e, j)
      /\ UNCHANGED <<strike, delivered>>
  BY <1>2, EffectsApart
<1>6. FwdSet(e, run[e].at, fwd[e][run[e].at] \cup {"completed"})
  BY <1>2, LogEffects DEF TypeInv
<1>7. ExerciseDone(e)'
  BY <1>0, <1>1, <1>2, <1>3, <1>4, <1>5, <1>6 DEF ExerciseDone, IsCompleted,
         HasCompensations, Becomes, Busy, FwdSet
<1>8. ExerciseLogged(e)'
  BY <1>0, <1>1, <1>2, <1>3, <1>4, <1>5, <1>6 DEF HistoryGrows, ExerciseLogged, Evident, IsCompleted,
         IsPending, Becomes, Busy, FwdSet
<1>9. ExercisePending(e)'
  BY <1>0, <1>1, <1>2, <1>3, <1>4, <1>5, <1>6 DEF ExercisePending, IsPending, Becomes,
         Busy, FwdSet
<1>10. ExerciseUndone(e)'
  BY <1>0, <1>1, <1>2, <1>3, <1>4, <1>5, <1>6 DEF ExerciseUndone, Becomes, Busy, FwdSet
<1>11. ExerciseReturned(e)'
  BY <1>0, <1>1, <1>2, <1>3, <1>4, <1>5, <1>6 DEF ExerciseReturned, Becomes, Busy,
         FwdSet
<1>12. StrikeHeld(e)'
  BY <1>0, <1>1, <1>2, <1>3, <1>4, <1>5, <1>6 DEF StrikeHeld, ExerciseReturned,
         Becomes, Busy, FwdSet
<1>13. DeliveredOnce'
  BY <1>0, <1>1, <1>2, <1>3, <1>4, <1>5, <1>6 DEF DeliveredOnce, Becomes, Busy, FwdSet
<1> QED
  BY <1>7, <1>8, <1>9, <1>10, <1>11, <1>12, <1>13 DEF ExerciseKnown

(* The mark of a step fails, and it stays pending.                         *)
LEMMA ExerciseUnmarked ==
    ASSUME TypeInv, NEW e \in Attempts, ExerciseKnown(e), SagaLog(e), Restricted, Restricted',
           HistoryGrows,
           MarkCompletedFails(e), UNCHANGED <<contract, strike, keys, shares, delivered, gains>>
    PROVE  ExerciseKnown(e)'
<1>0. /\ ExerciseDone(e) /\ ExerciseLogged(e) /\ ExercisePending(e)
      /\ ExerciseUndone(e) /\ ExerciseReturned(e) /\ StrikeHeld(e)
      /\ DeliveredOnce /\ HistoryGrows
  BY DEF ExerciseKnown
<1>1. /\ Rests(e) /\ CallsOnce(e) /\ GoesOn(e) /\ PassedKnown(e) /\ DoneKnown(e)
      /\ UndoesLast(e) /\ RowKnown(e) /\ RowLogged(e) /\ UndoesSome(e) /\ NoneLeft(e)
      /\ CompEvident(e) /\ CompCompleted(e) /\ PendingFirst(e) /\ PendingAlone(e)
      /\ InOrder(e)
  BY DEF SagaLog, RunKnown, LogKnown
<1>2. /\ Steps(e) = 1..8 /\ e \in Sagas /\ e # AcceptSaga
      /\ run[e].at \in 0..8 /\ run[e].done \subseteq 1..8
      /\ run[e].pc \in Busy => run[e].at \in 1..8
      /\ run[e].row # None => run[e].row[2] \in 1..8
  BY ExerciseSteps18 DEF TypeInv
<1>3. Becomes(e, Onward(e), Beyond(e), run[e].done \cup {run[e].at}, run[e].error,
              run[e].row)
  BY <1>2, LastOfRun, StepNumbers, RunEffects DEF TypeInv, SagaInv
<1>4. /\ run[e].pc = "mark" /\ UNCHANGED comp /\ faults'.crash = faults.crash
      /\ \/ Onward(e) = "return" /\ run[e].at = 8 /\ Beyond(e) = 0
         \/ Onward(e) = "record" /\ Beyond(e) = run[e].at + 1
  BY <1>2, StepNumbers DEF MarkCompletedFails, TypeInv, SagaInv, LogTyped, Faults,
        Onward, Beyond
<1>5. /\ \A j \in 1..7 : ExerciseDid(e, j)' <=> ExerciseDid(e, j)
      /\ \A j \in 1..3 : ExerciseUndid(e, j)' <=> ExerciseUndid(e, j)
      /\ UNCHANGED <<strike, delivered>>
  BY <1>2, EffectsApart
<1>6. FwdSet(e, run[e].at, fwd[e][run[e].at] \cup {"pending"})
  BY <1>2, LogEffects DEF TypeInv
<1>7. ExerciseDone(e)'
  BY <1>0, <1>1, <1>2, <1>3, <1>4, <1>5, <1>6 DEF ExerciseDone, IsCompleted,
         HasCompensations, Becomes, Busy, FwdSet
<1>8. ExerciseLogged(e)'
  BY <1>0, <1>1, <1>2, <1>3, <1>4, <1>5, <1>6 DEF HistoryGrows, ExerciseLogged, Evident, IsCompleted,
         IsPending, Becomes, Busy, FwdSet
<1>9. ExercisePending(e)'
  BY <1>0, <1>1, <1>2, <1>3, <1>4, <1>5, <1>6 DEF ExercisePending, IsPending,
         ExerciseDone, Becomes, Busy, FwdSet
<1>10. ExerciseUndone(e)'
  BY <1>0, <1>1, <1>2, <1>3, <1>4, <1>5, <1>6 DEF ExerciseUndone, Becomes, Busy, FwdSet
<1>11. ExerciseReturned(e)'
  BY <1>0, <1>1, <1>2, <1>3, <1>4, <1>5, <1>6 DEF ExerciseReturned, Becomes, Busy,
         FwdSet
<1>12. StrikeHeld(e)'
  BY <1>0, <1>1, <1>2, <1>3, <1>4, <1>5, <1>6 DEF StrikeHeld, ExerciseReturned,
         Becomes, Busy, FwdSet
<1>13. DeliveredOnce'
  BY <1>0, <1>1, <1>2, <1>3, <1>4, <1>5, <1>6 DEF DeliveredOnce, Becomes, Busy, FwdSet
<1> QED
  BY <1>7, <1>8, <1>9, <1>10, <1>11, <1>12, <1>13 DEF ExerciseKnown

(* rollback comes to the last step left.                                   *)
LEMMA ExerciseCompensates ==
    ASSUME TypeInv, NEW e \in Attempts, ExerciseKnown(e), SagaLog(e), Restricted, Restricted',
           HistoryGrows,
           RecordCompensation(e), UNCHANGED <<contract, strike, keys, shares, delivered, gains>>
    PROVE  ExerciseKnown(e)'
<1>0. /\ ExerciseDone(e) /\ ExerciseLogged(e) /\ ExercisePending(e)
      /\ ExerciseUndone(e) /\ ExerciseReturned(e) /\ StrikeHeld(e)
      /\ DeliveredOnce /\ HistoryGrows
  BY DEF ExerciseKnown
<1>1. /\ Rests(e) /\ CallsOnce(e) /\ GoesOn(e) /\ PassedKnown(e) /\ DoneKnown(e)
      /\ UndoesLast(e) /\ RowKnown(e) /\ RowLogged(e) /\ UndoesSome(e) /\ NoneLeft(e)
      /\ CompEvident(e) /\ CompCompleted(e) /\ PendingFirst(e) /\ PendingAlone(e)
      /\ InOrder(e)
  BY DEF SagaLog, RunKnown, LogKnown
<1>2. /\ Steps(e) = 1..8 /\ e \in Sagas /\ e # AcceptSaga
      /\ run[e].at \in 0..8 /\ run[e].done \subseteq 1..8
      /\ run[e].pc \in Busy => run[e].at \in 1..8
      /\ run[e].row # None => run[e].row[2] \in 1..8
  BY ExerciseSteps18 DEF TypeInv
<1>3. Becomes(e, "back", Last(e), run[e].done, run[e].error, run[e].row)
  BY <1>2, LastOfRun, StepNumbers, RunEffects DEF TypeInv, SagaInv
<1>4. run[e].pc = "undo" /\ run[e].done # {} /\ UNCHANGED <<fwd, faults>>
  BY DEF RecordCompensation
<1>5. /\ \A j \in 1..7 : ExerciseDid(e, j)' <=> ExerciseDid(e, j)
      /\ \A j \in 1..3 : ExerciseUndid(e, j)' <=> ExerciseUndid(e, j)
      /\ UNCHANGED <<strike, delivered>>
  BY <1>2, EffectsApart
<1>6. CompSet(e, Last(e), IF comp[e][Last(e)] = "none" THEN "compensating"
                           ELSE comp[e][Last(e)])
  BY <1>2, LogEffects DEF TypeInv
<1>7. Last(e) \in run[e].done /\ Last(e) \in 1..8 /\ \A k \in run[e].done : k <= Last(e)
  BY <1>2, <1>4, LastOfRun, LastStep DEF TypeInv, SagaInv, OnStep, Last
<1>8. ExerciseDone(e)'
  BY <1>0, <1>1, <1>2, <1>3, <1>4, <1>5, <1>6, <1>7 DEF ExerciseDone, IsCompleted,
         HasCompensations, Becomes, Busy, CompSet
<1>9. ExerciseLogged(e)'
  BY <1>0, <1>1, <1>2, <1>3, <1>4, <1>5, <1>6, <1>7 DEF HistoryGrows, ExerciseLogged, Evident,
         IsCompleted, IsPending, Becomes, Busy, CompSet
<1>10. ExercisePending(e)'
  BY <1>0, <1>1, <1>2, <1>3, <1>4, <1>5, <1>6, <1>7 DEF ExercisePending, IsPending,
         Becomes, Busy, CompSet
<1>11. ExerciseUndone(e)'
  BY <1>0, <1>1, <1>2, <1>3, <1>4, <1>5, <1>6, <1>7 DEF ExerciseUndone, Becomes, Busy,
         CompSet
<1>12. ExerciseReturned(e)'
  BY <1>0, <1>1, <1>2, <1>3, <1>4, <1>5, <1>6, <1>7 DEF ExerciseReturned, Becomes,
         Busy, CompSet
<1>13. StrikeHeld(e)'
  BY <1>0, <1>1, <1>2, <1>3, <1>4, <1>5, <1>6, <1>7 DEF StrikeHeld, ExerciseReturned,
         Becomes, Busy, CompSet
<1>14. DeliveredOnce'
  BY <1>0, <1>1, <1>2, <1>3, <1>4, <1>5, <1>6, <1>7 DEF DeliveredOnce, Becomes, Busy,
         CompSet
<1> QED
  BY <1>8, <1>9, <1>10, <1>11, <1>12, <1>13, <1>14 DEF ExerciseKnown

(* A compensation is marked done.                                          *)
LEMMA ExerciseCompensated ==
    ASSUME TypeInv, NEW e \in Attempts, ExerciseKnown(e), SagaLog(e), Restricted, Restricted',
           HistoryGrows,
           MarkCompensated(e), UNCHANGED <<contract, strike, keys, shares, delivered, gains>>
    PROVE  ExerciseKnown(e)'
<1>0. /\ ExerciseDone(e) /\ ExerciseLogged(e) /\ ExercisePending(e)
      /\ ExerciseUndone(e) /\ ExerciseReturned(e) /\ StrikeHeld(e)
      /\ DeliveredOnce /\ HistoryGrows
  BY DEF ExerciseKnown
<1>1. /\ Rests(e) /\ CallsOnce(e) /\ GoesOn(e) /\ PassedKnown(e) /\ DoneKnown(e)
      /\ UndoesLast(e) /\ RowKnown(e) /\ RowLogged(e) /\ UndoesSome(e) /\ NoneLeft(e)
      /\ CompEvident(e) /\ CompCompleted(e) /\ PendingFirst(e) /\ PendingAlone(e)
      /\ InOrder(e)
  BY DEF SagaLog, RunKnown, LogKnown
<1>2. /\ Steps(e) = 1..8 /\ e \in Sagas /\ e # AcceptSaga
      /\ run[e].at \in 0..8 /\ run[e].done \subseteq 1..8
      /\ run[e].pc \in Busy => run[e].at \in 1..8
      /\ run[e].row # None => run[e].row[2] \in 1..8
  BY ExerciseSteps18 DEF TypeInv
<1>3. Becomes(e, "undo", run[e].at, run[e].done \ {run[e].at}, run[e].error, run[e].row)
  BY <1>2, LastOfRun, StepNumbers, RunEffects DEF TypeInv, SagaInv
<1>4. run[e].pc = "unmark" /\ UNCHANGED <<fwd, faults>>
  BY DEF MarkCompensated
<1>5. /\ \A j \in 1..7 : ExerciseDid(e, j)' <=> ExerciseDid(e, j)
      /\ \A j \in 1..3 : ExerciseUndid(e, j)' <=> ExerciseUndid(e, j)
      /\ UNCHANGED <<strike, delivered>>
  BY <1>2, EffectsApart
<1>6. CompSet(e, run[e].at, "compensated")
  BY <1>2, LogEffects DEF TypeInv
<1>7. ExerciseDone(e)'
  BY <1>0, <1>1, <1>2, <1>3, <1>4, <1>5, <1>6 DEF ExerciseDone, IsCompleted,
         HasCompensations, Becomes, Busy, CompSet
<1>8. ExerciseLogged(e)'
  BY <1>0, <1>1, <1>2, <1>3, <1>4, <1>5, <1>6 DEF HistoryGrows, ExerciseLogged, Evident, IsCompleted,
         IsPending, Becomes, Busy, CompSet
<1>9. ExercisePending(e)'
  BY <1>0, <1>1, <1>2, <1>3, <1>4, <1>5, <1>6 DEF ExercisePending, IsPending, Becomes,
         Busy, CompSet
<1>10. ExerciseUndone(e)'
  BY <1>0, <1>1, <1>2, <1>3, <1>4, <1>5, <1>6 DEF ExerciseUndone, Becomes, Busy,
         CompSet
<1>11. ExerciseReturned(e)'
  BY <1>0, <1>1, <1>2, <1>3, <1>4, <1>5, <1>6 DEF ExerciseReturned, Becomes, Busy,
         CompSet
<1>12. StrikeHeld(e)'
  BY <1>0, <1>1, <1>2, <1>3, <1>4, <1>5, <1>6 DEF StrikeHeld, ExerciseReturned,
         Becomes, Busy, CompSet
<1>13. DeliveredOnce'
  BY <1>0, <1>1, <1>2, <1>3, <1>4, <1>5, <1>6 DEF DeliveredOnce, Becomes, Busy, CompSet
<1> QED
  BY <1>7, <1>8, <1>9, <1>10, <1>11, <1>12, <1>13 DEF ExerciseKnown

(* A Backward fails, and its row stays.                                    *)
LEMMA ExerciseNotUndone ==
    ASSUME TypeInv, NEW e \in Attempts, ExerciseKnown(e), SagaLog(e), Restricted, Restricted',
           HistoryGrows,
           NotUndone(e), UNCHANGED <<contract, strike, keys, shares, delivered, gains>>
    PROVE  ExerciseKnown(e)'
<1>0. /\ ExerciseDone(e) /\ ExerciseLogged(e) /\ ExercisePending(e)
      /\ ExerciseUndone(e) /\ ExerciseReturned(e) /\ StrikeHeld(e)
      /\ DeliveredOnce /\ HistoryGrows
  BY DEF ExerciseKnown
<1>1. /\ Rests(e) /\ CallsOnce(e) /\ GoesOn(e) /\ PassedKnown(e) /\ DoneKnown(e)
      /\ UndoesLast(e) /\ RowKnown(e) /\ RowLogged(e) /\ UndoesSome(e) /\ NoneLeft(e)
      /\ CompEvident(e) /\ CompCompleted(e) /\ PendingFirst(e) /\ PendingAlone(e)
      /\ InOrder(e)
  BY DEF SagaLog, RunKnown, LogKnown
<1>2. /\ Steps(e) = 1..8 /\ e \in Sagas /\ e # AcceptSaga
      /\ run[e].at \in 0..8 /\ run[e].done \subseteq 1..8
      /\ run[e].pc \in Busy => run[e].at \in 1..8
      /\ run[e].row # None => run[e].row[2] \in 1..8
  BY ExerciseSteps18 DEF TypeInv
<1>3. Becomes(e, "undo", run[e].at, run[e].done \ {run[e].at}, TRUE, run[e].row)
  BY <1>2, LastOfRun, StepNumbers, RunEffects DEF TypeInv, SagaInv, NotUndone
<1>4. run[e].pc = "back" /\ UNCHANGED fwd /\ faults'.crash = faults.crash
  BY DEF NotUndone, BackwardFailed, TypeInv, SagaInv, LogTyped, Faults
<1>5. /\ \A j \in 1..7 : ExerciseDid(e, j)' <=> ExerciseDid(e, j)
      /\ \A j \in 1..3 : ExerciseUndid(e, j)' <=> ExerciseUndid(e, j)
      /\ UNCHANGED <<strike, delivered>>
  BY <1>2, EffectsApart
<1>6. CompSet(e, run[e].at, "compensating")
  BY <1>2, LogEffects DEF TypeInv, NotUndone
<1>7. ExerciseDone(e)'
  BY <1>0, <1>1, <1>2, <1>3, <1>4, <1>5, <1>6 DEF ExerciseDone, IsCompleted,
         HasCompensations, Becomes, Busy, CompSet
<1>8. ExerciseLogged(e)'
  BY <1>0, <1>1, <1>2, <1>3, <1>4, <1>5, <1>6 DEF HistoryGrows, ExerciseLogged, Evident, IsCompleted,
         IsPending, Becomes, Busy, CompSet
<1>9. ExercisePending(e)'
  BY <1>0, <1>1, <1>2, <1>3, <1>4, <1>5, <1>6 DEF ExercisePending, IsPending, Becomes,
         Busy, CompSet
<1>10. ExerciseUndone(e)'
  BY <1>0, <1>1, <1>2, <1>3, <1>4, <1>5, <1>6 DEF ExerciseUndone, Becomes, Busy,
         CompSet
<1>11. ExerciseReturned(e)'
  BY <1>0, <1>1, <1>2, <1>3, <1>4, <1>5, <1>6 DEF ExerciseReturned, Becomes, Busy,
         CompSet
<1>12. StrikeHeld(e)'
  BY <1>0, <1>1, <1>2, <1>3, <1>4, <1>5, <1>6 DEF StrikeHeld, ExerciseReturned,
         Becomes, Busy, CompSet
<1>13. DeliveredOnce'
  BY <1>0, <1>1, <1>2, <1>3, <1>4, <1>5, <1>6 DEF DeliveredOnce, Becomes, Busy, CompSet
<1> QED
  BY <1>7, <1>8, <1>9, <1>10, <1>11, <1>12, <1>13 DEF ExerciseKnown

(* A Forward is refused.                                                   *)
LEMMA ExerciseRefused ==
    ASSUME TypeInv, NEW e \in Attempts, ExerciseKnown(e), SagaLog(e), Restricted, Restricted',
           HistoryGrows,
           Refused(e), UNCHANGED <<contract, strike, keys, shares, delivered, gains>>
    PROVE  ExerciseKnown(e)'
<1>0. /\ ExerciseDone(e) /\ ExerciseLogged(e) /\ ExercisePending(e)
      /\ ExerciseUndone(e) /\ ExerciseReturned(e) /\ StrikeHeld(e)
      /\ DeliveredOnce /\ HistoryGrows
  BY DEF ExerciseKnown
<1>1. /\ Rests(e) /\ CallsOnce(e) /\ GoesOn(e) /\ PassedKnown(e) /\ DoneKnown(e)
      /\ UndoesLast(e) /\ RowKnown(e) /\ RowLogged(e) /\ UndoesSome(e) /\ NoneLeft(e)
      /\ CompEvident(e) /\ CompCompleted(e) /\ PendingFirst(e) /\ PendingAlone(e)
      /\ InOrder(e)
  BY DEF SagaLog, RunKnown, LogKnown
<1>2. /\ Steps(e) = 1..8 /\ e \in Sagas /\ e # AcceptSaga
      /\ run[e].at \in 0..8 /\ run[e].done \subseteq 1..8
      /\ run[e].pc \in Busy => run[e].at \in 1..8
      /\ run[e].row # None => run[e].row[2] \in 1..8
  BY ExerciseSteps18 DEF TypeInv
<1>3. Becomes(e, "undo", run[e].at, run[e].done, TRUE, run[e].row)
  BY <1>2, LastOfRun, StepNumbers, RunEffects DEF TypeInv, SagaInv, Refused
<1>4. run[e].pc = "call" /\ UNCHANGED comp /\ faults'.crash = faults.crash
  BY DEF Refused, ForwardFailed, TypeInv, SagaInv, LogTyped, Faults
<1>5. /\ \A j \in 1..7 : ExerciseDid(e, j)' <=> ExerciseDid(e, j)
      /\ \A j \in 1..3 : ExerciseUndid(e, j)' <=> ExerciseUndid(e, j)
      /\ UNCHANGED <<strike, delivered>>
  BY <1>2, EffectsApart
<1>6. FwdSet(e, run[e].at, fwd[e][run[e].at] \cup {"failed"})
  BY <1>2, LogEffects DEF TypeInv, Refused
<1>7. ExerciseDone(e)'
  BY <1>0, <1>1, <1>2, <1>3, <1>4, <1>5, <1>6 DEF ExerciseDone, IsCompleted,
         HasCompensations, Becomes, Busy, FwdSet
<1>8. ExerciseLogged(e)'
  BY <1>0, <1>1, <1>2, <1>3, <1>4, <1>5, <1>6 DEF HistoryGrows, ExerciseLogged, Evident, IsCompleted,
         IsPending, Becomes, Busy, FwdSet
<1>9. ExercisePending(e)'
  BY <1>0, <1>1, <1>2, <1>3, <1>4, <1>5, <1>6 DEF ExercisePending, IsPending, Becomes,
         Busy, FwdSet
<1>10. ExerciseUndone(e)'
  BY <1>0, <1>1, <1>2, <1>3, <1>4, <1>5, <1>6 DEF ExerciseUndone, Becomes, Busy, FwdSet
<1>11. ExerciseReturned(e)'
  BY <1>0, <1>1, <1>2, <1>3, <1>4, <1>5, <1>6 DEF ExerciseReturned, Becomes, Busy,
         FwdSet
<1>12. StrikeHeld(e)'
  BY <1>0, <1>1, <1>2, <1>3, <1>4, <1>5, <1>6 DEF StrikeHeld, ExerciseReturned,
         Becomes, Busy, FwdSet
<1>13. DeliveredOnce'
  BY <1>0, <1>1, <1>2, <1>3, <1>4, <1>5, <1>6 DEF DeliveredOnce, Becomes, Busy, FwdSet
<1> QED
  BY <1>7, <1>8, <1>9, <1>10, <1>11, <1>12, <1>13 DEF ExerciseKnown

(* A Forward takes its effect, and its answer is lost.                     *)
LEMMA ExerciseLost ==
    ASSUME TypeInv, NEW e \in Attempts, ExerciseKnown(e), SagaLog(e), Restricted, Restricted',
           HistoryGrows,
           ForwardLost(e)
    PROVE  ExerciseKnown(e)'
<1>0. /\ ExerciseDone(e) /\ ExerciseLogged(e) /\ ExercisePending(e)
      /\ ExerciseUndone(e) /\ ExerciseReturned(e) /\ StrikeHeld(e)
      /\ DeliveredOnce /\ HistoryGrows
  BY DEF ExerciseKnown
<1>1. /\ Rests(e) /\ CallsOnce(e) /\ GoesOn(e) /\ PassedKnown(e) /\ DoneKnown(e)
      /\ UndoesLast(e) /\ RowKnown(e) /\ RowLogged(e) /\ UndoesSome(e) /\ NoneLeft(e)
      /\ CompEvident(e) /\ CompCompleted(e) /\ PendingFirst(e) /\ PendingAlone(e)
      /\ InOrder(e)
  BY DEF SagaLog, RunKnown, LogKnown
<1>2. /\ Steps(e) = 1..8 /\ e \in Sagas /\ e # AcceptSaga
      /\ run[e].at \in 0..8 /\ run[e].done \subseteq 1..8
      /\ run[e].pc \in Busy => run[e].at \in 1..8
      /\ run[e].row # None => run[e].row[2] \in 1..8
  BY ExerciseSteps18 DEF TypeInv
<1>3. Becomes(e, "undo", run[e].at, run[e].done, TRUE, run[e].row)
  BY <1>2, LastOfRun, StepNumbers, RunEffects DEF TypeInv, SagaInv, ForwardLost
<1>4. /\ run[e].pc = "call" /\ UNCHANGED comp /\ faults'.crash = faults.crash
      /\ LostBy(e, run[e].at)'
  <2>1. run[e].pc = "call" /\ UNCHANGED comp
    BY DEF ForwardLost, ForwardFailed
  <2>2. faults \in Faults /\ faults' = [faults EXCEPT !.refusal = @ + 1]
    BY DEF ForwardLost, TypeInv, SagaInv, LogTyped
  <2>3. run'[e].at = run[e].at
    BY <1>3 DEF Becomes
  <2>4. <<e, run[e].at>> \in lost'
    BY DEF ForwardLost
  <2>5. LostBy(e, run[e].at)'
    BY <2>3, <2>4 DEF LostBy
  <2> QED BY <2>1, <2>2, <2>5 DEF Faults
<1>5. /\ run[e].at \in 1..3 /\ ~HasCompensations(e)
      /\ \A j \in 1..7 : ExerciseDid(e, j)' <=> (ExerciseDid(e, j) \/ j = run[e].at)
      /\ \A j \in 1..3 : ExerciseUndid(e, j)' <=> ExerciseUndid(e, j)
      /\ UNCHANGED delivered
      /\ strike' = "active" => strike = "active" \/ run[e].at = 1
  <2>1. run[e].at \in 1..8 /\ ~HasCompensations(e)
    BY <1>1, <1>2, <1>4 DEF Busy, GoesOn, Forwards
  <2>2. run[e].at \in 1..3
    BY <1>2, <2>1 DEF ForwardLost, RemoteSteps, StepOf, StepName, ExerciseSteps
  <2>3. ExerciseDoes(e, run[e].at)
    BY ExerciseForwards DEF TypeInv
  <2>4. /\ UNCHANGED delivered
        /\ strike' = "active" => strike = "active" \/ run[e].at = 1
    BY <2>2, <2>3 DEF ExerciseDoes
  <2> QED BY <2>1, <2>2, <2>3, <2>4, EffectsApart
<1>6. FwdSet(e, run[e].at, fwd[e][run[e].at] \cup {"failed"})
  BY <1>2, LogEffects DEF TypeInv, ForwardLost
<1>7. ExerciseDone(e)'
  BY <1>0, <1>1, <1>2, <1>3, <1>4, <1>5, <1>6 DEF ExerciseDone, IsCompleted,
         HasCompensations, Becomes, Busy, FwdSet
<1>8. ExerciseLogged(e)'
  BY <1>0, <1>1, <1>2, <1>3, <1>4, <1>5, <1>6 DEF HistoryGrows, ExerciseLogged, Evident, IsCompleted,
         IsPending, Becomes, Busy, FwdSet
<1>9. ExercisePending(e)'
  BY <1>0, <1>1, <1>2, <1>3, <1>4, <1>5, <1>6 DEF ExercisePending, IsPending, Becomes,
         Busy, FwdSet
<1>10. ExerciseUndone(e)'
  BY <1>0, <1>1, <1>2, <1>3, <1>4, <1>5, <1>6 DEF ExerciseUndone, Becomes, Busy, FwdSet
<1>11. ExerciseReturned(e)'
  BY <1>0, <1>1, <1>2, <1>3, <1>4, <1>5, <1>6 DEF ExerciseReturned, Becomes, Busy,
         FwdSet
<1>12. StrikeHeld(e)'
  <2>1. ~ExerciseUndid(e, 1)
    BY <1>0, <1>1, <1>2, <1>5 DEF ExerciseReturned, HasCompensations
  <2>2. /\ ExerciseDid(e, 1)' <=> (ExerciseDid(e, 1) \/ 1 = run[e].at)
        /\ ~ExerciseUndid(e, 1)'
    BY <2>1, <1>5
  <2> QED BY <1>0, <1>5, <2>2 DEF StrikeHeld
<1>13. DeliveredOnce'
  BY <1>0, <1>1, <1>2, <1>3, <1>4, <1>5, <1>6 DEF DeliveredOnce, Becomes, Busy, FwdSet
<1> QED
  BY <1>7, <1>8, <1>9, <1>10, <1>11, <1>12, <1>13 DEF ExerciseKnown

(* A recovery run without errors closes the row it was started for.        *)
LEMMA ExerciseReturns ==
    ASSUME TypeInv, NEW e \in Attempts, ExerciseKnown(e), SagaLog(e), Restricted, Restricted',
           HistoryGrows,
           Return(e), UNCHANGED <<contract, strike, keys, shares, delivered, gains>>
    PROVE  ExerciseKnown(e)'
<1>0. /\ ExerciseDone(e) /\ ExerciseLogged(e) /\ ExercisePending(e)
      /\ ExerciseUndone(e) /\ ExerciseReturned(e) /\ StrikeHeld(e)
      /\ DeliveredOnce /\ HistoryGrows
  BY DEF ExerciseKnown
<1>1. /\ Rests(e) /\ CallsOnce(e) /\ GoesOn(e) /\ PassedKnown(e) /\ DoneKnown(e)
      /\ UndoesLast(e) /\ RowKnown(e) /\ RowLogged(e) /\ UndoesSome(e) /\ NoneLeft(e)
      /\ CompEvident(e) /\ CompCompleted(e) /\ PendingFirst(e) /\ PendingAlone(e)
      /\ InOrder(e)
  BY DEF SagaLog, RunKnown, LogKnown
<1>2. /\ Steps(e) = 1..8 /\ e \in Sagas /\ e # AcceptSaga
      /\ run[e].at \in 0..8 /\ run[e].done \subseteq 1..8
      /\ run[e].pc \in Busy => run[e].at \in 1..8
      /\ run[e].row # None => run[e].row[2] \in 1..8
  BY ExerciseSteps18 DEF TypeInv
<1>3. Becomes(e, "idle", 0, {}, FALSE, None)
  BY <1>2, LastOfRun, StepNumbers, RunEffects DEF TypeInv, SagaInv
<1>4. /\ UNCHANGED faults
      /\ \/ run[e].pc = "return"
         \/ run[e].pc = "undo" /\ run[e].done = {}
  BY DEF Return
<1>5. /\ \A j \in 1..7 : ExerciseDid(e, j)' <=> ExerciseDid(e, j)
      /\ \A j \in 1..3 : ExerciseUndid(e, j)' <=> ExerciseUndid(e, j)
      /\ UNCHANGED <<strike, delivered>>
  BY <1>2, EffectsApart
<1>6. \/ UNCHANGED <<fwd, comp>>
      \/ /\ run[e].row # None /\ ~run[e].error
         /\ run[e].row[1] = "fwd" /\ UNCHANGED comp
         /\ FwdSet(e, run[e].row[2],
                   (fwd[e][run[e].row[2]] \ {"pending"}) \cup {"completed"})
      \/ /\ run[e].row # None /\ ~run[e].error
         /\ comp[e][run[e].row[2]] = "compensated" /\ UNCHANGED fwd
         /\ CompSet(e, run[e].row[2], "compensated")
  <2>1. run[e].row # None => run[e].row \in LogRow
    BY <1>2 DEF TypeInv, SagaInv, RunTyped, Run
  <2>2. run[e].row # None => run[e].row[1] \in {"fwd", "comp"}
    BY <2>1 DEF LogRow
  <2>3. CASE run[e].row = None \/ run[e].error
    BY <2>3 DEF Return
  <2>4. CASE ~(run[e].row = None \/ run[e].error)
    <3>1. Closed(e, run[e].row)
      BY <2>4 DEF Return
    <3>2. run[e].row[1] = "comp" => comp[e][run[e].row[2]] = "compensated"
      BY <1>1, <1>2, <1>4, <2>4 DEF RowKnown, NoneLeft, Undoes
    <3>3. PICK row : row = run[e].row
      OBVIOUS
    <3>4. row[2] \in Steps(e) /\ Closed(e, row) /\ row[1] \in {"fwd", "comp"}
      BY <1>2, <2>2, <2>4, <3>1, <3>3
    <3>5. \/ /\ row[1] = "fwd" /\ UNCHANGED comp
             /\ FwdSet(e, row[2], (fwd[e][row[2]] \ {"pending"}) \cup {"completed"})
          \/ /\ row[1] # "fwd" /\ UNCHANGED fwd
             /\ CompSet(e, row[2], "compensated")
      BY <1>2, <3>4, LogEffects DEF TypeInv
    <3> QED BY <2>4, <3>2, <3>3, <3>4, <3>5
  <2> QED BY <2>3, <2>4
<1>7. ASSUME run[e].row # None, ~run[e].error, run[e].row[1] = "fwd",
             run[e].row[2] # 8, run[e].row[2] <= 3 \/ ~HasCompensations(e)
      PROVE  ExerciseDid(e, run[e].row[2])
  <2>0. PICK i \in 1..7 : i = run[e].row[2]
    BY <1>2, <1>7
  <2>1. IsPending(e, i)
    BY <1>1, <1>7, <2>0 DEF RowLogged
  <2>2. run[e].pc = "undo" => HasCompensations(e)
    BY <1>1, <1>7 DEF UndoesSome, Undoes
  <2>3. faults.mark = 1 => faults.crash = 0
    BY DEF Restricted, LogWriteFailsAlone
  <2>4. CASE IsCompleted(e, i) \/ i \in run[e].done
    BY <1>0, <1>7, <2>0, <2>4 DEF ExerciseDone
  <2>5. CASE ~IsCompleted(e, i) /\ i \notin run[e].done
    <3>1. run[e].pc = "undo"
      BY <1>1, <1>2, <1>4, <2>5 DEF PassedKnown, Passed
    <3>2. faults.mark = 1 /\ i <= 3
      BY <1>1, <1>2, <1>7, <2>0, <2>1, <2>2, <2>5, <3>1 DEF PendingFirst
    <3> QED BY <1>0, <2>0, <2>1, <2>3, <3>2 DEF ExercisePending
  <2> QED BY <2>0, <2>4, <2>5
<1>8. HasCompensations(e)' <=> HasCompensations(e)
  BY <1>2, <1>6 DEF HasCompensations, CompSet
<1>9. ExerciseDone(e)'
  BY <1>0, <1>1, <1>2, <1>3, <1>4, <1>5, <1>6, <1>7, <1>8 DEF ExerciseDone,
         IsCompleted, HasCompensations, Becomes, FwdSet, CompSet
<1>10. ExerciseLogged(e)'
  BY <1>0, <1>1, <1>2, <1>3, <1>4, <1>5, <1>6, <1>7, <1>8 DEF HistoryGrows, ExerciseLogged, Evident,
         IsCompleted, IsPending, Becomes, FwdSet, CompSet
<1>11. ExercisePending(e)'
  BY <1>0, <1>1, <1>2, <1>3, <1>4, <1>5, <1>6, <1>7, <1>8 DEF ExercisePending,
         IsPending, Becomes, FwdSet, CompSet
<1>12. ExerciseUndone(e)'
  BY <1>0, <1>1, <1>2, <1>3, <1>4, <1>5, <1>6, <1>7, <1>8 DEF ExerciseUndone, Becomes,
         FwdSet, CompSet
<1>13. ExerciseReturned(e)'
  BY <1>0, <1>1, <1>2, <1>3, <1>4, <1>5, <1>6, <1>7, <1>8 DEF ExerciseReturned,
         Becomes, FwdSet, CompSet
<1>14. StrikeHeld(e)'
  BY <1>0, <1>1, <1>2, <1>3, <1>4, <1>5, <1>6, <1>7, <1>8 DEF StrikeHeld,
         ExerciseReturned, Becomes, FwdSet, CompSet
<1>15. DeliveredOnce'
  BY <1>0, <1>1, <1>2, <1>3, <1>4, <1>5, <1>6, <1>7, <1>8 DEF DeliveredOnce, Becomes,
         FwdSet, CompSet
<1> QED
  BY <1>9, <1>10, <1>11, <1>12, <1>13, <1>14, <1>15 DEF ExerciseKnown

(* A row is given up as a dead letter.                                     *)
LEMMA ExerciseGivesUp ==
    ASSUME TypeInv, NEW e \in Attempts, ExerciseKnown(e), SagaLog(e), Restricted, Restricted',
           HistoryGrows,
           NEW row \in Stuck(e), MarkDeadLetter(e, row),
           UNCHANGED <<contract, strike, keys, shares, delivered, gains>>
    PROVE  ExerciseKnown(e)'
<1>0. /\ ExerciseDone(e) /\ ExerciseLogged(e) /\ ExercisePending(e)
      /\ ExerciseUndone(e) /\ ExerciseReturned(e) /\ StrikeHeld(e)
      /\ DeliveredOnce /\ HistoryGrows
  BY DEF ExerciseKnown
<1>1. /\ Rests(e) /\ CallsOnce(e) /\ GoesOn(e) /\ PassedKnown(e) /\ DoneKnown(e)
      /\ UndoesLast(e) /\ RowKnown(e) /\ RowLogged(e) /\ UndoesSome(e) /\ NoneLeft(e)
      /\ CompEvident(e) /\ CompCompleted(e) /\ PendingFirst(e) /\ PendingAlone(e)
      /\ InOrder(e)
  BY DEF SagaLog, RunKnown, LogKnown
<1>2. /\ Steps(e) = 1..8 /\ e \in Sagas /\ e # AcceptSaga
      /\ run[e].at \in 0..8 /\ run[e].done \subseteq 1..8
      /\ run[e].pc \in Busy => run[e].at \in 1..8
      /\ run[e].row # None => run[e].row[2] \in 1..8
  BY ExerciseSteps18 DEF TypeInv
<1>3. /\ row[2] \in 1..8
      /\ \/ row[1] = "fwd" /\ "pending" \in fwd[e][row[2]]
         \/ row[1] = "comp" /\ comp[e][row[2]] = "compensating"
  BY <1>2, StuckRows
<1>4. run[e].pc = "idle" /\ UNCHANGED <<run, faults>>
  BY DEF MarkDeadLetter, Recoverable
<1>5. /\ \A j \in 1..7 : ExerciseDid(e, j)' <=> ExerciseDid(e, j)
      /\ \A j \in 1..3 : ExerciseUndid(e, j)' <=> ExerciseUndid(e, j)
      /\ UNCHANGED <<strike, delivered>>
  BY <1>2, EffectsApart
<1>6. \/ /\ UNCHANGED comp /\ "pending" \in fwd[e][row[2]]
         /\ FwdSet(e, row[2], (fwd[e][row[2]] \ {"pending"}) \cup {"dead_letter"})
      \/ /\ UNCHANGED fwd /\ comp[e][row[2]] = "compensating"
         /\ CompSet(e, row[2], "dead_letter")
  BY <1>2, <1>3, LogEffects DEF TypeInv
<1>7. HasCompensations(e)' <=> HasCompensations(e)
  BY <1>2, <1>3, <1>6 DEF HasCompensations, CompSet
<1>8. ExerciseDone(e)'
  BY <1>0, <1>1, <1>2, <1>3, <1>4, <1>5, <1>6, <1>7 DEF ExerciseDone, IsCompleted,
         HasCompensations, FwdSet, CompSet
<1>9. ExerciseLogged(e)'
  BY <1>0, <1>1, <1>2, <1>3, <1>4, <1>5, <1>6, <1>7 DEF HistoryGrows, ExerciseLogged, Evident,
         IsCompleted, IsPending, FwdSet, CompSet
<1>10. ExercisePending(e)'
  BY <1>0, <1>1, <1>2, <1>3, <1>4, <1>5, <1>6, <1>7 DEF ExercisePending, IsPending,
         FwdSet, CompSet
<1>11. ExerciseUndone(e)'
  BY <1>0, <1>1, <1>2, <1>3, <1>4, <1>5, <1>6, <1>7 DEF ExerciseUndone, FwdSet, CompSet
<1>12. ExerciseReturned(e)'
  BY <1>0, <1>1, <1>2, <1>3, <1>4, <1>5, <1>6, <1>7 DEF ExerciseReturned, FwdSet,
         CompSet
<1>13. StrikeHeld(e)'
  BY <1>0, <1>1, <1>2, <1>3, <1>4, <1>5, <1>6, <1>7 DEF StrikeHeld, ExerciseReturned,
         FwdSet, CompSet
<1>14. DeliveredOnce'
  BY <1>0, <1>1, <1>2, <1>3, <1>4, <1>5, <1>6, <1>7 DEF DeliveredOnce, FwdSet, CompSet
<1> QED
  BY <1>8, <1>9, <1>10, <1>11, <1>12, <1>13, <1>14 DEF ExerciseKnown

(* A stuck exercise is resumed, or rolled back.                            *)
LEMMA ExerciseRecovers ==
    ASSUME TypeInv, NEW e \in Attempts, ExerciseKnown(e), SagaLog(e), Restricted, Restricted',
           HistoryGrows,
           NEW row \in Stuck(e), Recover(e, row),
           UNCHANGED <<contract, strike, keys, shares, delivered, gains>>
    PROVE  ExerciseKnown(e)'
<1>0. /\ ExerciseDone(e) /\ ExerciseLogged(e) /\ ExercisePending(e)
      /\ ExerciseUndone(e) /\ ExerciseReturned(e) /\ StrikeHeld(e)
      /\ DeliveredOnce /\ HistoryGrows
  BY DEF ExerciseKnown
<1>1. /\ Rests(e) /\ CallsOnce(e) /\ GoesOn(e) /\ PassedKnown(e) /\ DoneKnown(e)
      /\ UndoesLast(e) /\ RowKnown(e) /\ RowLogged(e) /\ UndoesSome(e) /\ NoneLeft(e)
      /\ CompEvident(e) /\ CompCompleted(e) /\ PendingFirst(e) /\ PendingAlone(e)
      /\ InOrder(e)
  BY DEF SagaLog, RunKnown, LogKnown
<1>2. /\ Steps(e) = 1..8 /\ e \in Sagas /\ e # AcceptSaga
      /\ run[e].at \in 0..8 /\ run[e].done \subseteq 1..8
      /\ run[e].pc \in Busy => run[e].at \in 1..8
      /\ run[e].row # None => run[e].row[2] \in 1..8
  BY ExerciseSteps18 DEF TypeInv
<1>3. /\ row[2] \in 1..8
      /\ \/ row[1] = "fwd" /\ "pending" \in fwd[e][row[2]]
         \/ row[1] = "comp" /\ comp[e][row[2]] = "compensating"
  BY <1>2, StuckRows
<1>4. /\ run[e].pc = "idle" /\ UNCHANGED <<fwd, comp, faults>>
      /\ \/ /\ HasCompensations(e)
            /\ Becomes(e, "undo", 0, {i \in Steps(e) : IsCompleted(e, i)}, FALSE, row)
         \/ ~HasCompensations(e) /\ Becomes(e, "record", 1, {}, FALSE, row)
  BY <1>2, RecoverEffect DEF Recover, Recoverable, TypeInv
<1>5. /\ \A j \in 1..7 : ExerciseDid(e, j)' <=> ExerciseDid(e, j)
      /\ \A j \in 1..3 : ExerciseUndid(e, j)' <=> ExerciseUndid(e, j)
      /\ UNCHANGED <<strike, delivered>>
  BY <1>2, EffectsApart
<1>6. ExerciseDone(e)'
  BY <1>0, <1>1, <1>2, <1>3, <1>4, <1>5 DEF ExerciseDone, IsCompleted,
         HasCompensations, Becomes
<1>7. ExerciseLogged(e)'
  BY <1>0, <1>1, <1>2, <1>3, <1>4, <1>5 DEF HistoryGrows, ExerciseLogged, Evident, IsCompleted,
         IsPending, Becomes
<1>8. ExercisePending(e)'
  BY <1>0, <1>1, <1>2, <1>3, <1>4, <1>5 DEF ExercisePending, IsPending, Becomes
<1>9. ExerciseUndone(e)'
  BY <1>0, <1>1, <1>2, <1>3, <1>4, <1>5 DEF ExerciseUndone, Becomes
<1>10. ExerciseReturned(e)'
  BY <1>0, <1>1, <1>2, <1>3, <1>4, <1>5 DEF ExerciseReturned, Becomes
<1>11. StrikeHeld(e)'
  BY <1>0, <1>1, <1>2, <1>3, <1>4, <1>5 DEF StrikeHeld, ExerciseReturned, Becomes
<1>12. DeliveredOnce'
  BY <1>0, <1>1, <1>2, <1>3, <1>4, <1>5 DEF DeliveredOnce, Becomes
<1> QED
  BY <1>6, <1>7, <1>8, <1>9, <1>10, <1>11, <1>12 DEF ExerciseKnown

(* A Forward takes its effect.                                             *)
LEMMA ExerciseForwarded ==
    ASSUME TypeInv, NEW e \in Attempts, ExerciseKnown(e), SagaLog(e), Restricted, Restricted',
           HistoryGrows,
           Forward(e)
    PROVE  ExerciseKnown(e)'
<1>0. /\ ExerciseDone(e) /\ ExerciseLogged(e) /\ ExercisePending(e)
      /\ ExerciseUndone(e) /\ ExerciseReturned(e) /\ StrikeHeld(e)
      /\ DeliveredOnce /\ HistoryGrows
  BY DEF ExerciseKnown
<1>1. /\ Rests(e) /\ CallsOnce(e) /\ GoesOn(e) /\ PassedKnown(e) /\ DoneKnown(e)
      /\ UndoesLast(e) /\ RowKnown(e) /\ RowLogged(e) /\ UndoesSome(e) /\ NoneLeft(e)
      /\ CompEvident(e) /\ CompCompleted(e) /\ PendingFirst(e) /\ PendingAlone(e)
      /\ InOrder(e)
  BY DEF SagaLog, RunKnown, LogKnown
<1>2. /\ Steps(e) = 1..8 /\ e \in Sagas /\ e # AcceptSaga
      /\ run[e].at \in 0..8 /\ run[e].done \subseteq 1..8
      /\ run[e].pc \in Busy => run[e].at \in 1..8
      /\ run[e].row # None => run[e].row[2] \in 1..8
  BY ExerciseSteps18 DEF TypeInv
<1>3. Becomes(e, "mark", run[e].at, run[e].done, run[e].error, run[e].row)
  BY <1>2, LastOfRun, StepNumbers, RunEffects DEF TypeInv, SagaInv, Forward
<1>4. /\ run[e].pc = "call" /\ UNCHANGED <<fwd, comp, faults>>
      /\ ExerciseDoes(e, run[e].at) /\ ~HasCompensations(e)
  BY <1>1, ExerciseForwards DEF Forward, ForwardDone, TypeInv, GoesOn, Forwards
<1>5. /\ \A j \in 1..7 : ExerciseDid(e, j)' <=> (ExerciseDid(e, j) \/ j = run[e].at)
      /\ \A j \in 1..3 : ExerciseUndid(e, j)' <=> ExerciseUndid(e, j)
  BY <1>2, <1>4, EffectsApart DEF Busy
<1>6. strike' = "active" => strike = "active" \/ run[e].at = 1
  BY <1>4 DEF ExerciseDoes
<1>7. delivered' = delivered \/ (delivered' = IF delivered = 0 THEN 1 ELSE delivered)
  BY <1>4 DEF ExerciseDoes, UpsertIdempotent
<1>8. ExerciseDone(e)'
  BY <1>0, <1>1, <1>2, <1>3, <1>4, <1>5, <1>6, <1>7 DEF ExerciseDone, IsCompleted,
         HasCompensations, Becomes, Busy
<1>9. ExerciseLogged(e)'
  BY <1>0, <1>1, <1>2, <1>3, <1>4, <1>5, <1>6, <1>7 DEF HistoryGrows, ExerciseLogged, Evident,
         IsCompleted, IsPending, Becomes, Busy
<1>10. ExercisePending(e)'
  BY <1>0, <1>1, <1>2, <1>3, <1>4, <1>5, <1>6, <1>7 DEF ExercisePending, IsPending,
         Becomes, Busy
<1>11. ExerciseUndone(e)'
  BY <1>0, <1>1, <1>2, <1>3, <1>4, <1>5, <1>6, <1>7 DEF ExerciseUndone,
         HasCompensations, Becomes, Busy
<1>12. ExerciseReturned(e)'
  BY <1>0, <1>1, <1>2, <1>3, <1>4, <1>5, <1>6, <1>7 DEF ExerciseReturned, Becomes, Busy
<1>13. StrikeHeld(e)'
  BY <1>0, <1>1, <1>2, <1>3, <1>4, <1>5, <1>6, <1>7 DEF StrikeHeld, ExerciseReturned,
         HasCompensations, Becomes, Busy
<1>14. DeliveredOnce'
  BY <1>0, <1>1, <1>2, <1>3, <1>4, <1>5, <1>6, <1>7 DEF DeliveredOnce, Becomes, Busy
<1> QED
  BY <1>8, <1>9, <1>10, <1>11, <1>12, <1>13, <1>14 DEF ExerciseKnown

(* A Backward takes the effect of its step back.                           *)
LEMMA ExerciseBackwarded ==
    ASSUME TypeInv, NEW e \in Attempts, ExerciseKnown(e), SagaLog(e), Restricted, Restricted',
           HistoryGrows,
           Backward(e)
    PROVE  ExerciseKnown(e)'
<1>0. /\ ExerciseDone(e) /\ ExerciseLogged(e) /\ ExercisePending(e)
      /\ ExerciseUndone(e) /\ ExerciseReturned(e) /\ StrikeHeld(e)
      /\ DeliveredOnce /\ HistoryGrows
  BY DEF ExerciseKnown
<1>1. /\ Rests(e) /\ CallsOnce(e) /\ GoesOn(e) /\ PassedKnown(e) /\ DoneKnown(e)
      /\ UndoesLast(e) /\ RowKnown(e) /\ RowLogged(e) /\ UndoesSome(e) /\ NoneLeft(e)
      /\ CompEvident(e) /\ CompCompleted(e) /\ PendingFirst(e) /\ PendingAlone(e)
      /\ InOrder(e)
  BY DEF SagaLog, RunKnown, LogKnown
<1>2. /\ Steps(e) = 1..8 /\ e \in Sagas /\ e # AcceptSaga
      /\ run[e].at \in 0..8 /\ run[e].done \subseteq 1..8
      /\ run[e].pc \in Busy => run[e].at \in 1..8
      /\ run[e].row # None => run[e].row[2] \in 1..8
  BY ExerciseSteps18 DEF TypeInv
<1>3. Becomes(e, "unmark", run[e].at, run[e].done, run[e].error, run[e].row)
  BY <1>2, LastOfRun, StepNumbers, RunEffects DEF TypeInv, SagaInv, Backward
<1>4. /\ run[e].pc = "back" /\ UNCHANGED <<fwd, comp, faults>>
      /\ ExerciseUndoes(e, run[e].at)
  BY ExerciseBackwards DEF Backward, BackwardDone, TypeInv
<1>5. /\ \A j \in 1..3 : ExerciseDid(e, j)' <=> ExerciseDid(e, j)
      /\ \A j \in 4..7 : ExerciseDid(e, j)' <=> (ExerciseDid(e, j) /\ j # run[e].at)
      /\ \A j \in 1..3 : ExerciseUndid(e, j)' <=> (ExerciseUndid(e, j) \/ j = run[e].at)
  BY <1>2, <1>4, EffectsApart DEF Busy
<1>6. /\ run[e].at \in 1..8 /\ run[e].at \in run[e].done /\ comp[e][run[e].at] # "none"
      /\ HasCompensations(e)
  BY <1>1, <1>2, <1>4 DEF UndoesLast, HasCompensations, Busy
<1>7. /\ strike' = "active" => strike = "active"
      /\ run[e].at = 1 => strike' # "active" \/ ExerciseUndid(e, 1)
      /\ delivered' \in {delivered, 0}
  BY <1>4 DEF ExerciseUndoes, ExerciseUndid
<1>8. ExerciseDone(e)'
  BY <1>0, <1>1, <1>2, <1>3, <1>4, <1>5, <1>6, <1>7 DEF ExerciseDone, IsCompleted,
         HasCompensations, Becomes
<1>9. ExerciseLogged(e)'
  BY <1>0, <1>1, <1>2, <1>3, <1>4, <1>5, <1>6, <1>7 DEF HistoryGrows, ExerciseLogged, Evident,
         IsCompleted, IsPending, Becomes
<1>10. ExercisePending(e)'
  BY <1>0, <1>1, <1>2, <1>3, <1>4, <1>5, <1>6, <1>7 DEF ExercisePending, IsPending,
         Becomes
<1>11. ExerciseUndone(e)'
  BY <1>0, <1>1, <1>2, <1>3, <1>4, <1>5, <1>6, <1>7 DEF ExerciseUndone, Becomes
<1>12. ExerciseReturned(e)'
  BY <1>0, <1>1, <1>2, <1>3, <1>4, <1>5, <1>6, <1>7 DEF ExerciseReturned, ExerciseDone,
         Becomes
<1>13. StrikeHeld(e)'
  BY <1>0, <1>1, <1>2, <1>3, <1>4, <1>5, <1>6, <1>7 DEF StrikeHeld, ExerciseReturned,
         Becomes
<1>14. DeliveredOnce'
  BY <1>0, <1>1, <1>2, <1>3, <1>4, <1>5, <1>6, <1>7 DEF DeliveredOnce, Becomes
<1> QED
  BY <1>8, <1>9, <1>10, <1>11, <1>12, <1>13, <1>14 DEF ExerciseKnown

(* A crash leaves a pending row where a step was called.                   *)
LEMMA ExerciseCrashes ==
    ASSUME TypeInv, NEW e \in Attempts, ExerciseKnown(e), SagaLog(e), Restricted, Restricted',
           HistoryGrows,
           ServiceCrash
    PROVE  ExerciseKnown(e)'
<1>0. /\ ExerciseDone(e) /\ ExerciseLogged(e) /\ ExercisePending(e)
      /\ ExerciseUndone(e) /\ ExerciseReturned(e) /\ StrikeHeld(e)
      /\ DeliveredOnce /\ HistoryGrows
  BY DEF ExerciseKnown
<1>1. /\ Rests(e) /\ CallsOnce(e) /\ GoesOn(e) /\ PassedKnown(e) /\ DoneKnown(e)
      /\ UndoesLast(e) /\ RowKnown(e) /\ RowLogged(e) /\ UndoesSome(e) /\ NoneLeft(e)
      /\ CompEvident(e) /\ CompCompleted(e) /\ PendingFirst(e) /\ PendingAlone(e)
      /\ InOrder(e)
  BY DEF SagaLog, RunKnown, LogKnown
<1>2. /\ Steps(e) = 1..8 /\ e \in Sagas /\ e # AcceptSaga
      /\ run[e].at \in 0..8 /\ run[e].done \subseteq 1..8
      /\ run[e].pc \in Busy => run[e].at \in 1..8
      /\ run[e].row # None => run[e].row[2] \in 1..8
  BY ExerciseSteps18 DEF TypeInv
<1>3. /\ run'[e].pc = "idle" /\ run'[e].at = 0 /\ run'[e].done = {}
      /\ UNCHANGED comp
      /\ \A k \in Steps(e) :
           IF run[e].pc \in {"call", "mark"} /\ run[e].at = k
           THEN fwd'[e][k] = fwd[e][k] \cup {"pending"}
           ELSE fwd'[e][k] = fwd[e][k]
  BY <1>2, CrashEffect DEF ServiceCrash, TypeInv
<1>4. faults'.crash # 0
  <2>1. faults \in Faults /\ faults' = [faults EXCEPT !.crash = @ + 1]
    BY CrashEffect DEF ServiceCrash, TypeInv, SagaInv, LogTyped
  <2> QED BY <2>1 DEF Faults
<1>5. /\ \A j \in 1..7 : ExerciseDid(e, j)' <=> ExerciseDid(e, j)
      /\ \A j \in 1..3 : ExerciseUndid(e, j)' <=> ExerciseUndid(e, j)
      /\ UNCHANGED <<strike, delivered>>
  BY <1>2, EffectsApart DEF ServiceCrash, contractVars, moneyVars, shareVars
<1>6. ExerciseDone(e)'
  BY <1>0, <1>1, <1>2, <1>3, <1>4, <1>5 DEF ExerciseDone, IsCompleted, HasCompensations
<1>7. ExerciseLogged(e)'
  BY <1>0, <1>1, <1>2, <1>3, <1>4, <1>5 DEF HistoryGrows, ExerciseLogged, Evident, IsCompleted,
         IsPending
<1>8. ExercisePending(e)'
  BY <1>0, <1>1, <1>2, <1>3, <1>4, <1>5 DEF ExercisePending, IsPending
<1>9. ExerciseUndone(e)'
  BY <1>0, <1>1, <1>2, <1>3, <1>4, <1>5 DEF ExerciseUndone
<1>10. ExerciseReturned(e)'
  BY <1>0, <1>1, <1>2, <1>3, <1>4, <1>5 DEF ExerciseReturned
<1>11. StrikeHeld(e)'
  BY <1>0, <1>1, <1>2, <1>3, <1>4, <1>5 DEF StrikeHeld, ExerciseReturned
<1>12. DeliveredOnce'
  BY <1>0, <1>1, <1>2, <1>3, <1>4, <1>5 DEF DeliveredOnce
<1> QED
  BY <1>6, <1>7, <1>8, <1>9, <1>10, <1>11, <1>12 DEF ExerciseKnown

(* A step elsewhere that leaves the exercise's rows alone.                 *)
LEMMA ExerciseFrame ==
    ASSUME TypeInv, NEW e \in Attempts, ExerciseKnown(e), FaultsGrow, HistoryGrows,
           run'[e] = run[e], fwd'[e] = fwd[e], comp'[e] = comp[e],
           \A j \in 1..7 : ExerciseDid(e, j)' <=> ExerciseDid(e, j),
           \A j \in 1..3 : ExerciseUndid(e, j)' <=> ExerciseUndid(e, j),
           UNCHANGED <<strike, delivered>>
    PROVE  ExerciseKnown(e)'
<1>0. /\ ExerciseDone(e) /\ ExerciseLogged(e) /\ ExercisePending(e)
      /\ ExerciseUndone(e) /\ ExerciseReturned(e) /\ StrikeHeld(e)
      /\ DeliveredOnce /\ HistoryGrows
  BY DEF ExerciseKnown
<1>2. /\ Steps(e) = 1..8 /\ e \in Sagas
  BY ExerciseSteps18 DEF TypeInv
<1>3. faults'.crash = 0 => faults.crash = 0
  BY DEF FaultsGrow, TypeInv, SagaInv, LogTyped, Faults
<1>4. ExerciseDone(e)'
  BY <1>0, <1>2, <1>3 DEF ExerciseDone, IsCompleted, HasCompensations
<1>5. ExerciseLogged(e)'
  BY <1>0, <1>2, <1>3 DEF HistoryGrows, ExerciseLogged, Evident, IsCompleted, IsPending
<1>6. ExercisePending(e)'
  BY <1>0, <1>2, <1>3 DEF ExercisePending, IsPending
<1>7. ExerciseUndone(e)'
  BY <1>0, <1>2, <1>3 DEF ExerciseUndone
<1>8. ExerciseReturned(e)'
  BY <1>0, <1>2, <1>3 DEF ExerciseReturned
<1>9. StrikeHeld(e)'
  BY <1>0, <1>2, <1>3 DEF StrikeHeld, ExerciseReturned
<1>10. DeliveredOnce'
  BY <1>0, <1>2, <1>3 DEF DeliveredOnce
<1> QED
  BY <1>4, <1>5, <1>6, <1>7, <1>8, <1>9, <1>10 DEF ExerciseKnown

-----------------------------------------------------------------------------
(* Every step keeps what is known of an exercise *)

(* An exercise keeps what is known of it.                                  *)
LEMMA ExerciseOwnStep ==
    ASSUME TypeInv, NEW e \in Attempts, ExerciseKnown(e), SagaLog(e), AcceptKnown,
           Restricted, Restricted', HistoryGrows, ExerciseStep(e)
    PROVE  ExerciseKnown(e)'
<1>1. e \in Sagas /\ e # AcceptSaga /\ SagaInv
  BY OtcAssumption DEF TypeInv
<1>2. CASE ExerciseContract(e)
  BY <1>2, ExerciseStarts DEF ExerciseContract, moneyVars, shareVars
<1>3. CASE Forward(e)
  BY <1>3, ExerciseForwarded
<1>4. CASE Backward(e)
  BY <1>4, ExerciseBackwarded
<1>5. CASE ForwardRefused(e)
  <2>1. run[e].pc = "call" /\ run[e].at \in Steps(e) /\ Refused(e)
    BY <1>1, <1>5 DEF ForwardRefused, ForwardFailed, SagaInv, OnStep, Busy, Refused
  <2>2. run[e].at \in 1..8
    BY <1>1, <2>1, StepNumbers
  <2>3. StepOf(e) # "reserve_and_contract"
    BY <1>1, <2>2 DEF StepOf, StepName, ExerciseSteps
  <2>4. UNCHANGED <<contract, strike, keys, shares, delivered, gains>>
    BY <1>5, <2>3 DEF ForwardRefused, moneyVars, shareVars
  <2> QED BY <2>1, <2>4, ExerciseRefused
<1>6. CASE BackwardRefused(e)
  BY <1>6, ExerciseNotUndone DEF BackwardRefused, NotUndone, contractVars, moneyVars,
        shareVars
<1>7. CASE ExecutorStep(e)
  <2>1. UNCHANGED <<contract, strike, keys, shares, delivered, gains>>
    BY <1>7 DEF ExecutorStep, contractVars, moneyVars, shareVars
  <2> QED BY <1>7, <2>1, ExerciseSkips, ExerciseRecords, ExerciseMarks,
        ExerciseUnmarked,
             ExerciseCompensates, ExerciseCompensated, ExerciseReturns, ExerciseGivesUp
             DEF ExecutorStep
<1>8. CASE RecoverSaga(e)
  <2>1. Stuck(e) # {}
    BY <1>8 DEF RecoverSaga
  <2>2. PICK row \in Stuck(e) : TRUE
    BY <2>1
  <2>3. /\ row[2] \in Steps(e)
        /\ "pending" \in fwd[e][row[2]] \/ comp[e][row[2]] = "compensating"
    BY <1>1, StuckRows
  <2>4. fwd[e][row[2]] # {}
    BY <2>3 DEF SagaLog, LogKnown, CompEvident, Evident, IsCompleted, IsPending
  <2>5. Exists
    BY <2>3, <2>4 DEF Started, AcceptKnown, ExercisedAfter
  <2>6. /\ \E r \in Stuck(e) : Recover(e, r)
        /\ UNCHANGED <<contract, strike, keys, shares, delivered, gains>>
    BY <1>8, <2>5 DEF RecoverSaga, moneyVars, shareVars
  <2> QED BY <2>6, ExerciseRecovers
<1>9. CASE ForwardLost(e)
  BY <1>9, ExerciseLost
<1> QED BY <1>2, <1>3, <1>4, <1>5, <1>6, <1>7, <1>8, <1>9 DEF ExerciseStep

(* A step of the accept saga.                                              *)
AcceptMove ==
    \/ MintContract(AcceptSaga) \/ CreateContract(AcceptSaga)
    \/ Forward(AcceptSaga) \/ ForwardRefused(AcceptSaga) \/ ForwardLost(AcceptSaga)
    \/ Backward(AcceptSaga) \/ BackwardRefused(AcceptSaga)
    \/ ExecutorStep(AcceptSaga) \/ RecoverSaga(AcceptSaga)

(* What a step of the accept saga does to the rows around it.              *)
LEMMA AcceptAround ==
    ASSUME TypeInv, AcceptKnown, AcceptMove
    PROVE  /\ UNCHANGED <<past, expiring, strike, delivered, gains>>
           /\ \/ UNCHANGED <<contract, keys, shares>>
              \/ (Forward(AcceptSaga) \/ ForwardLost(AcceptSaga)) /\ AcceptDoes(run[AcceptSaga].at)
              \/ Backward(AcceptSaga) /\ AcceptUndoes(run[AcceptSaga].at)
              \/ CreateContract(AcceptSaga) /\ UNCHANGED <<keys, shares>>
              \/ contract' = "deleted" /\ UNCHANGED <<keys, shares>>
<1>1. AcceptSaga \in Sagas /\ SagaInv
  BY OtcAssumption DEF TypeInv
<1>2. CASE Forward(AcceptSaga) \/ ForwardLost(AcceptSaga)
  BY <1>1, <1>2, AcceptForwards DEF dateVars, AcceptDoes
<1>3. CASE Backward(AcceptSaga)
  BY <1>1, <1>3, AcceptBackwards DEF dateVars, AcceptUndoes
<1>4. CASE CreateContract(AcceptSaga)
  BY <1>4 DEF CreateContract, dateVars, moneyVars, shareVars
<1>5. CASE ForwardRefused(AcceptSaga)
  BY <1>5 DEF ForwardRefused, dateVars, moneyVars, shareVars
<1>6. CASE \/ MintContract(AcceptSaga) \/ BackwardRefused(AcceptSaga)
           \/ ExecutorStep(AcceptSaga) \/ RecoverSaga(AcceptSaga)
  BY <1>6 DEF MintContract, BackwardRefused, ExecutorStep, RecoverSaga, dateVars,
        moneyVars,
     shareVars, contractVars
<1> QED BY <1>2, <1>3, <1>4, <1>5, <1>6 DEF AcceptMove

(* No exercise is under way when the accept saga moves.                    *)
LEMMA MovesAlone ==
    ASSUME TypeInv, AcceptKnown, AcceptMove
    PROVE  /\ NoneStarted /\ shares # "settled" /\ FaultsGrow
           /\ \A e \in Attempts : run'[e] = run[e] /\ fwd'[e] = fwd[e] /\ comp'[e] = comp[e]
<1>1. AcceptSaga \in Sagas /\ SagaInv /\ faults \in Faults
  BY OtcAssumption DEF TypeInv, SagaInv, LogTyped
<1>2. CASE CreateContract(AcceptSaga)
  <2>1. /\ UNCHANGED <<run, fwd, comp, faults>> /\ run[AcceptSaga].pc = "call"
        /\ run[AcceptSaga].at = 1 /\ run[AcceptSaga].row = None
    BY <1>2 DEF CreateContract, sagaVars
  <2>2. NoneStarted
    BY <2>1 DEF AcceptKnown, ExercisedAfter, Settled, NoneStarted
  <2>3. shares # "settled"
    BY <2>1 DEF AcceptKnown, Fresh
  <2> QED BY <1>1, <2>1, <2>2, <2>3, FaultsCounted
<1>3. CASE ~CreateContract(AcceptSaga)
  <2>1. RunStep(AcceptSaga) \/ CronStep(AcceptSaga)
    BY <1>3 DEF AcceptMove, MintContract, Forward, ForwardRefused, ForwardLost, Refused, Backward,
       BackwardRefused, NotUndone, ExecutorStep, RecoverSaga, RunStep, CronStep
  <2>2. FaultsGrow
    BY <1>1, <2>1, RunStepKeeps, CronStepKeeps
  <2>3. \A e \in Attempts : e \in Sagas \ {AcceptSaga}
    BY OtcAssumption
  <2>4. \A e \in Attempts : run'[e] = run[e] /\ fwd'[e] = fwd[e] /\ comp'[e] = comp[e]
    BY <1>1, <2>1, <2>3, Elsewhere
  <2> QED BY <2>1, <2>2, <2>4, AcceptAlone
<1> QED BY <1>2, <1>3

(* The accept saga leaves what is known of an exercise as it is.           *)
LEMMA ExerciseByAccept ==
    ASSUME TypeInv, NEW e \in Attempts, ExerciseKnown(e), AcceptKnown, AcceptMove,
           HistoryGrows
    PROVE  ExerciseKnown(e)' /\ contract # "exercised"
<1>1. /\ ~Started(e) /\ shares # "settled" /\ FaultsGrow
      /\ run'[e] = run[e] /\ fwd'[e] = fwd[e] /\ comp'[e] = comp[e]
  BY MovesAlone DEF NoneStarted
<1>2. Steps(e) = 1..8 /\ e # AcceptSaga
  BY ExerciseSteps18 DEF TypeInv
<1>3. \A j \in 1..7 : ~ExerciseDid(e, j)
  BY <1>1, <1>2 DEF ExerciseKnown, ExerciseLogged, Evident, IsCompleted, IsPending,
        Started
<1>4. contract # "exercised"
  BY <1>3 DEF ExerciseDid
<1>5. /\ UNCHANGED <<past, expiring, strike, delivered, gains>>
      /\ \/ UNCHANGED <<contract, keys, shares>>
         \/ (Forward(AcceptSaga) \/ ForwardLost(AcceptSaga)) /\ AcceptDoes(run[AcceptSaga].at)
         \/ Backward(AcceptSaga) /\ AcceptUndoes(run[AcceptSaga].at)
         \/ CreateContract(AcceptSaga) /\ UNCHANGED <<keys, shares>>
         \/ contract' = "deleted" /\ UNCHANGED <<keys, shares>>
  BY AcceptAround
<1>6. contract' # "exercised" /\ shares' # "settled"
  BY <1>1, <1>4, <1>5 DEF AcceptDoes, AcceptUndoes, CreateContract
<1>7. /\ \A k \in {Key("reserve", e), Key("settle", e), Key("seller", Contract),
                   Key("release", e), Key("comp-buyer", Contract),
                   Key("comp-seller", Contract)} : k \in keys' <=> k \in keys
  BY <1>2, <1>5 DEF AcceptDoes, AcceptUndoes, Key
<1>8. /\ \A j \in 1..7 : ExerciseDid(e, j)' <=> ExerciseDid(e, j)
      /\ \A j \in 1..3 : ExerciseUndid(e, j)' <=> ExerciseUndid(e, j)
  BY <1>1, <1>4, <1>5, <1>6, <1>7 DEF ExerciseDid, ExerciseUndid
<1> QED BY <1>1, <1>4, <1>5, <1>8, ExerciseFrame

(* The expiry cron, and a day that passes, leave an exercise alone.        *)
LEMMA ExerciseByDate ==
    ASSUME TypeInv, NEW e \in Attempts, ExerciseKnown(e), ExpiryAfter, HistoryGrows,
           DayPasses \/ ExpireRelease \/ ExpireSave \/ UNCHANGED vars
    PROVE  ExerciseKnown(e)'
<1>1. UNCHANGED <<run, fwd, comp, faults, strike, keys, delivered>> /\ faults \in Faults
  BY DEF DayPasses, ExpireRelease, ExpireSave, vars, sagaVars, moneyVars, shareVars,
        TypeInv,
     SagaInv, LogTyped
<1>2. FaultsGrow
  BY <1>1, FaultsCounted
<1>3. e # Cron
  BY OtcAssumption DEF Cron
<1>4. contract' = "exercised" <=> contract = "exercised"
  BY DEF DayPasses, ExpireRelease, ExpireSave, vars, contractVars, ExpiryAfter
<1>5. shares' = "settled" <=> shares = "settled"
  BY DEF DayPasses, ExpireRelease, ExpireSave, vars, shareVars
<1>6. e \in gains' <=> e \in gains
  BY <1>3 DEF DayPasses, ExpireRelease, ExpireSave, vars, shareVars
<1>7. /\ \A j \in 1..7 : ExerciseDid(e, j)' <=> ExerciseDid(e, j)
      /\ \A j \in 1..3 : ExerciseUndid(e, j)' <=> ExerciseUndid(e, j)
  BY <1>1, <1>4, <1>5, <1>6 DEF ExerciseDid, ExerciseUndid
<1> QED BY <1>1, <1>2, <1>7, ExerciseFrame

-----------------------------------------------------------------------------
(* Every step keeps what is known of the date *)

(* An exercise moves before the settlement date is over.                   *)
LEMMA DateByExercise ==
    ASSUME TypeInv, NEW e \in Attempts, DateKnown(e), AcceptKnown, SagaLog(e),
           Restricted, Restricted', ExerciseStep(e)
    PROVE  DateKnown(e)'
<1>0. /\ DaySettled(e) /\ ExpiryAfter /\ LossAfter(e) /\ ReleasedAfter
      /\ HeldIfFormed /\ ExpiredFreed(e)
  BY DEF DateKnown
<1>1. e \in Sagas /\ AcceptSaga \in Sagas \ {e} /\ SagaInv
  BY OtcAssumption DEF TypeInv
<1>2. /\ RunStep(e) \/ CronStep(e)
      /\ UNCHANGED <<past, expiring>>
      /\ Execute(e) => ExerciseContract(e)
      /\ \/ UNCHANGED <<contract, premium, strike, keys, shares, delivered, gains>>
         \/ (Forward(e) \/ ForwardLost(e)) /\ ExerciseDoes(e, run[e].at)
         \/ Backward(e) /\ ExerciseUndoes(e, run[e].at)
  BY ExerciseAround DEF dateVars
<1>3. ~past
  <2>1. CASE Execute(e)
    BY <1>2, <2>1 DEF ExerciseContract
  <2>2. CASE ~Execute(e)
    <3>1. run[e].pc # "idle" \/ Stuck(e) # {}
      BY <1>2, <2>2 DEF RunStep, CronStep, SkipCompleted, RecordForward, ForwardDone,
            Refused,
         ForwardFailed, MarkCompleted, MarkCompletedFails, RecordCompensation, BackwardDone,
         MarkCompensated, NotUndone, BackwardFailed, Return
    <3> QED BY <1>0, <3>1 DEF DaySettled, Settled
  <2> QED BY <2>1, <2>2
<1>4. ~expiring /\ contract # "expired" /\ Cron \notin gains
  BY <1>0, <1>3 DEF ExpiryAfter, LossAfter
<1>5. Exists
  <2>1. CASE Started(e)
    BY <2>1 DEF AcceptKnown, ExercisedAfter
  <2>2. CASE ~Started(e)
    BY <1>1, <1>2, <2>2, MovesStarted DEF ExerciseContract, Exists
  <2> QED BY <2>1, <2>2
<1>6. e # Cron
  BY <1>1, OtcAssumption DEF Cron
<1>7. contract' # "expired" /\ gains' \subseteq {e}
  <2>1. gains \subseteq {e}
    BY <1>0, <1>4 DEF LossAfter
  <2> QED BY <1>2, <1>4, <2>1 DEF ExerciseDoes, ExerciseUndoes
<1>8. (shares' = "released" => shares = "released") /\ (shares' = "none" => shares = "none")
  BY <1>2 DEF ExerciseDoes, ExerciseUndoes
<1>9. shares' # "released"
  BY <1>0, <1>3, <1>5, <1>8 DEF ReleasedAfter
<1>10. /\ run'[AcceptSaga] = run[AcceptSaga] /\ fwd'[AcceptSaga] = fwd[AcceptSaga]
       /\ FaultsGrow
  BY <1>1, <1>2, Elsewhere, RunStepKeeps, CronStepKeeps
<1>11. faults'.crash = 0 => faults.crash = 0
  BY <1>10 DEF FaultsGrow, TypeInv, SagaInv, LogTyped, Faults
<1>12. HeldIfFormed'
  BY <1>0, <1>5, <1>8, <1>10, <1>11 DEF HeldIfFormed, IsCompleted, IsPending
<1>13. DaySettled(e)' /\ ExpiryAfter'
  BY <1>2, <1>3, <1>4, <1>7 DEF DaySettled, ExpiryAfter
<1>14. LossAfter(e)'
  BY <1>6, <1>7 DEF LossAfter, Cron
<1>15. ReleasedAfter' /\ ExpiredFreed(e)'
  BY <1>2, <1>4, <1>7, <1>9 DEF ReleasedAfter, ExpiredFreed
<1> QED BY <1>12, <1>13, <1>14, <1>15 DEF DateKnown

(* The accept saga holds the shares before it marks the contract formed.   *)
LEMMA HeldByAccept ==
    ASSUME TypeInv, HeldIfFormed, AcceptKnown, SagaLog(AcceptSaga),
           Restricted, Restricted', AcceptMove
    PROVE  HeldIfFormed'
<1>1. /\ Steps(AcceptSaga) = {1, 2, 3, 4} /\ AcceptSaga \in Sagas
      /\ run[AcceptSaga].row # None => run[AcceptSaga].row[2] \in {1, 2, 3, 4}
      /\ run[AcceptSaga].pc \in Busy => run[AcceptSaga].at \in {1, 2, 3, 4}
      /\ SagaInv
  BY AcceptSteps14 DEF TypeInv
<1>2. SUFFICES ASSUME Exists', shares' = "none",
                      \/ IsCompleted(AcceptSaga, 1)' \/ (1 \in run[AcceptSaga].done)'
                      \/ (run[AcceptSaga].pc = "mark" /\ run[AcceptSaga].at = 1)'
                      \/ (faults.crash = 0 /\ IsPending(AcceptSaga, 1))'
               PROVE  FALSE
  BY DEF HeldIfFormed
<1>3. /\ \/ UNCHANGED <<contract, keys, shares>>
         \/ (Forward(AcceptSaga) \/ ForwardLost(AcceptSaga)) /\ AcceptDoes(run[AcceptSaga].at)
         \/ Backward(AcceptSaga) /\ AcceptUndoes(run[AcceptSaga].at)
         \/ CreateContract(AcceptSaga) /\ UNCHANGED <<keys, shares>>
         \/ contract' = "deleted" /\ UNCHANGED <<keys, shares>>
      /\ FaultsGrow
  BY AcceptAround, MovesAlone
<1>4. CASE CreateContract(AcceptSaga)
  <2>1. /\ UNCHANGED <<run, fwd, faults>> /\ run[AcceptSaga].pc = "call"
        /\ run[AcceptSaga].at = 1 /\ run[AcceptSaga].row = None /\ contract = "none"
    BY <1>4 DEF CreateContract, sagaVars
  <2>2. fwd[AcceptSaga][1] = {} /\ run[AcceptSaga].done = {}
    BY <2>1 DEF AcceptKnown, Fresh, NotFormed
  <2> QED BY <1>2, <2>1, <2>2 DEF IsCompleted, IsPending
<1>5. CASE ~CreateContract(AcceptSaga)
  <2>1. Exists /\ shares = "none"
    BY <1>2, <1>3, <1>5 DEF AcceptDoes, AcceptUndoes, Exists
  <2>2. /\ ~IsCompleted(AcceptSaga, 1) /\ 1 \notin run[AcceptSaga].done
        /\ ~(run[AcceptSaga].pc = "mark" /\ run[AcceptSaga].at = 1)
        /\ ~(faults.crash = 0 /\ IsPending(AcceptSaga, 1))
    BY <2>1 DEF HeldIfFormed
  <2>3. faults'.crash = 0 => faults.crash = 0
    BY <1>3 DEF FaultsGrow, TypeInv, SagaInv, LogTyped, Faults
  <2>4. CASE Forward(AcceptSaga)
    <3>1. Becomes(AcceptSaga, "mark", run[AcceptSaga].at, run[AcceptSaga].done,
                  run[AcceptSaga].error, run[AcceptSaga].row) /\ UNCHANGED <<fwd, faults>>
      BY <1>1, <2>4, LastOfRun, StepNumbers, RunEffects DEF SagaInv, Forward,
            ForwardDone
    <3>2. run[AcceptSaga].at = 1
      BY <1>2, <2>2, <3>1 DEF Becomes, IsCompleted, IsPending
    <3>3. AcceptDoes(1)
      BY <1>1, <2>4, <3>2, AcceptForwards
    <3> QED BY <1>2, <2>1, <3>3 DEF AcceptDoes
  <2>5. CASE Return(AcceptSaga)
    <3>1. Becomes(AcceptSaga, "idle", 0, {}, FALSE, None)
      BY <1>1, <2>5, LastOfRun, StepNumbers, RunEffects DEF SagaInv
    <3>2. fwd' = fwd \/ (/\ run[AcceptSaga].row # None /\ ~run[AcceptSaga].error
                         /\ Closed(AcceptSaga, run[AcceptSaga].row))
      BY <2>5 DEF Return
    <3>3. PICK row : row = run[AcceptSaga].row
      OBVIOUS
    <3>4. fwd' = fwd \/ (/\ row # None /\ ~run[AcceptSaga].error /\ row[1] = "fwd"
                         /\ row[2] \in {1, 2, 3, 4}
                         /\ FwdSet(AcceptSaga, row[2],
                                   (fwd[AcceptSaga][row[2]] \ {"pending"}) \cup {"completed"}))
      BY <1>1, <3>2, <3>3, LogEffects
    <3>5. row # None /\ ~run[AcceptSaga].error /\ row[1] = "fwd" /\ row[2] = 1
      BY <1>1, <1>2, <2>2, <2>3, <3>1, <3>4 DEF Becomes, FwdSet, IsCompleted, IsPending
    <3>6. IsPending(AcceptSaga, 1)
      BY <3>3, <3>5 DEF SagaLog, RunKnown, RowLogged
    <3>7. run[AcceptSaga].pc # "return"
      BY <1>1, <2>2 DEF SagaLog, RunKnown, PassedKnown, Passed
    <3>8. HasCompensations(AcceptSaga)
      BY <2>5, <3>5, <3>7 DEF SagaLog, RunKnown, UndoesSome, Undoes, Return
    <3>9. faults.mark = 1
      BY <1>1, <2>2, <3>6, <3>8 DEF SagaLog, LogKnown, PendingFirst
    <3> QED BY <2>2, <3>6, <3>9 DEF Restricted, LogWriteFailsAlone
  <2>6. CASE MarkCompleted(AcceptSaga) \/ MarkCompletedFails(AcceptSaga)
    <3>1. /\ run[AcceptSaga].pc = "mark"
          /\ Becomes(AcceptSaga, Onward(AcceptSaga), Beyond(AcceptSaga),
                     run[AcceptSaga].done \cup {run[AcceptSaga].at},
                     run[AcceptSaga].error, run[AcceptSaga].row)
      BY <1>1, <2>6, LastOfRun, StepNumbers, RunEffects
         DEF SagaInv, MarkCompleted, MarkCompletedFails
    <3>2. \/ FwdSet(AcceptSaga, run[AcceptSaga].at, fwd[AcceptSaga][run[AcceptSaga].at] \cup {"completed"})
          \/ FwdSet(AcceptSaga, run[AcceptSaga].at, fwd[AcceptSaga][run[AcceptSaga].at] \cup {"pending"})
      BY <1>1, <2>6, LogEffects
    <3>3. run[AcceptSaga].at # 1 /\ Onward(AcceptSaga) # "mark"
      BY <2>2, <3>1 DEF Onward
    <3> QED BY <1>1, <1>2, <2>2, <2>3, <3>1, <3>2, <3>3 DEF Becomes, FwdSet,
          IsCompleted, IsPending
  <2>7. CASE ForwardFailed(AcceptSaga)
    <3>1. Becomes(AcceptSaga, "undo", run[AcceptSaga].at, run[AcceptSaga].done, TRUE,
                  run[AcceptSaga].row)
      BY <1>1, <2>7, LastOfRun, StepNumbers, RunEffects DEF SagaInv
    <3>2. FwdSet(AcceptSaga, run[AcceptSaga].at, fwd[AcceptSaga][run[AcceptSaga].at] \cup {"failed"})
      BY <1>1, <2>7, LogEffects
    <3> QED BY <1>1, <1>2, <2>2, <2>3, <3>1, <3>2 DEF Becomes, FwdSet, IsCompleted,
          IsPending
  <2>8. CASE \E row \in Stuck(AcceptSaga) : MarkDeadLetter(AcceptSaga, row)
    <3>1. PICK row \in Stuck(AcceptSaga) : MarkDeadLetter(AcceptSaga, row)
      BY <2>8
    <3>2. /\ run' = run
          /\ UNCHANGED fwd \/
               (/\ row[2] \in Steps(AcceptSaga)
                /\ FwdSet(AcceptSaga, row[2],
                          (fwd[AcceptSaga][row[2]] \ {"pending"}) \cup {"dead_letter"}))
      BY <1>1, <3>1, LogEffects, StuckRows DEF MarkDeadLetter
    <3> QED BY <1>1, <1>2, <2>2, <2>3, <3>2 DEF FwdSet, IsCompleted, IsPending
  <2>9. CASE RecoverSaga(AcceptSaga)
    <3>1. PICK row \in Stuck(AcceptSaga) : Recover(AcceptSaga, row)
      BY <2>1, <2>9 DEF RecoverSaga
    <3>2. /\ UNCHANGED <<fwd, faults>>
          /\ \/ Becomes(AcceptSaga, "undo", 0,
                        {i \in Steps(AcceptSaga) : IsCompleted(AcceptSaga, i)}, FALSE, row)
             \/ Becomes(AcceptSaga, "record", 1, {}, FALSE, row)
      BY <1>1, <3>1, RecoverEffect DEF Recover
    <3> QED BY <1>1, <1>2, <2>2, <3>2 DEF Becomes, IsCompleted, IsPending
  <2>10. CASE \/ MintContract(AcceptSaga) \/ SkipCompleted(AcceptSaga)
              \/ RecordForward(AcceptSaga) \/ RecordCompensation(AcceptSaga)
              \/ Backward(AcceptSaga) \/ BackwardRefused(AcceptSaga)
              \/ MarkCompensated(AcceptSaga)
    <3>1. UNCHANGED fwd
      BY <2>10 DEF MintContract, Execute, SkipCompleted, RecordForward,
            RecordCompensation,
         Backward, BackwardDone, BackwardRefused, BackwardFailed, MarkCompensated
    <3>2. /\ run'[AcceptSaga].pc # "mark"
          /\ run'[AcceptSaga].done \subseteq run[AcceptSaga].done
      <4>1. RunTyped /\ (run[AcceptSaga].pc = "undo" /\ run[AcceptSaga].done # {}
                            => Last(AcceptSaga) \in Nat)
        BY <1>1, LastOfRun, StepNumbers DEF SagaInv
      <4>2. Onward(AcceptSaga) # "mark"
        BY DEF Onward
      <4>3. CASE Execute(AcceptSaga)
        BY <1>1, <4>1, <4>3, RunEffects DEF Becomes
      <4>4. CASE SkipCompleted(AcceptSaga)
        BY <1>1, <4>1, <4>2, <4>4, RunEffects DEF Becomes
      <4>5. CASE RecordForward(AcceptSaga)
        BY <1>1, <4>1, <4>5, RunEffects DEF Becomes
      <4>6. CASE RecordCompensation(AcceptSaga)
        BY <1>1, <4>1, <4>6, RunEffects DEF Becomes
      <4>7. CASE BackwardDone(AcceptSaga)
        BY <1>1, <4>1, <4>7, RunEffects DEF Becomes
      <4>8. CASE BackwardFailed(AcceptSaga)
        BY <1>1, <4>1, <4>8, RunEffects DEF Becomes
      <4>9. CASE MarkCompensated(AcceptSaga)
        BY <1>1, <4>1, <4>9, RunEffects DEF Becomes
      <4> QED BY <2>10, <4>3, <4>4, <4>5, <4>6, <4>7, <4>8, <4>9
              DEF MintContract, Backward, BackwardRefused
    <3> QED BY <1>2, <2>2, <2>3, <3>1, <3>2 DEF IsCompleted, IsPending
  <2> QED BY <1>5, <2>4, <2>5, <2>6, <2>7, <2>8, <2>9, <2>10
          DEF AcceptMove, ExecutorStep, ForwardRefused, ForwardLost
<1> QED BY <1>4, <1>5

(* The accept saga moves before an exercise, and frees the shares of a     *)
(* contract it deletes.                                                    *)
LEMMA DateByAccept ==
    ASSUME TypeInv, NEW e \in Attempts, DateKnown(e), ExerciseKnown(e), AcceptKnown,
           SagaLog(AcceptSaga), Restricted, Restricted', HistoryGrows, AcceptMove
    PROVE  DateKnown(e)'
<1>0. /\ DaySettled(e) /\ ExpiryAfter /\ LossAfter(e) /\ ReleasedAfter
      /\ HeldIfFormed /\ ExpiredFreed(e)
  BY DEF DateKnown
<1>1. /\ ~Started(e) /\ shares # "settled"
      /\ run'[e] = run[e] /\ fwd'[e] = fwd[e] /\ comp'[e] = comp[e]
  BY MovesAlone DEF NoneStarted
<1>2. /\ UNCHANGED <<past, expiring, strike, delivered, gains>>
      /\ \/ UNCHANGED <<contract, keys, shares>>
         \/ (Forward(AcceptSaga) \/ ForwardLost(AcceptSaga)) /\ AcceptDoes(run[AcceptSaga].at)
         \/ Backward(AcceptSaga) /\ AcceptUndoes(run[AcceptSaga].at)
         \/ CreateContract(AcceptSaga) /\ UNCHANGED <<keys, shares>>
         \/ contract' = "deleted" /\ UNCHANGED <<keys, shares>>
  BY AcceptAround
<1>3. contract # "exercised"
  BY ExerciseByAccept
<1>4. contract' \in {contract, "deleted"} \/ (CreateContract(AcceptSaga) /\ contract' = "active")
  BY <1>2 DEF AcceptDoes, AcceptUndoes, CreateContract
<1>5. Stuck(e)' = Stuck(e) /\ ~Started(e)'
  BY <1>1 DEF Stuck, Started
<1>6. DaySettled(e)'
  BY <1>0, <1>1, <1>2, <1>5 DEF DaySettled, Settled
<1>7. ExpiryAfter' /\ LossAfter(e)'
  BY <1>0, <1>2, <1>3, <1>4 DEF ExpiryAfter, LossAfter, Cron
<1>8. CreateContract(AcceptSaga) => shares = "none"
  BY DEF CreateContract, AcceptKnown, Fresh
<1>9. ReleasedAfter'
  BY <1>0, <1>2, <1>8 DEF ReleasedAfter, Exists, AcceptDoes, AcceptUndoes
<1>10. ExpiredFreed(e)'
  BY <1>5 DEF ExpiredFreed
<1>11. HeldIfFormed'
  BY <1>0, HeldByAccept
<1> QED BY <1>6, <1>7, <1>9, <1>10, <1>11 DEF DateKnown

(* The cron frees the shares of a contract before it expires it.           *)
LEMMA DateByDate ==
    ASSUME TypeInv, NEW e \in Attempts, DateKnown(e),
           DayPasses \/ ExpireRelease \/ ExpireSave \/ UNCHANGED vars
    PROVE  DateKnown(e)'
<1>0. /\ DaySettled(e) /\ ExpiryAfter /\ LossAfter(e) /\ ReleasedAfter
      /\ HeldIfFormed /\ ExpiredFreed(e)
  BY DEF DateKnown
<1>1. UNCHANGED <<run, fwd, comp, faults>>
  BY DEF DayPasses, ExpireRelease, ExpireSave, vars, sagaVars
<1>2. /\ Stuck(e)' = Stuck(e) /\ (Started(e)' <=> Started(e))
  BY <1>1 DEF Stuck, Started
<1>3. e \in Sagas /\ e # Cron
  BY OtcAssumption DEF Cron
<1>4. CASE DayPasses
  BY <1>0, <1>1, <1>2, <1>3, <1>4 DEF DayPasses, contractVars, shareVars, DateKnown,
        DaySettled,
     ExpiryAfter, LossAfter, ReleasedAfter, HeldIfFormed, ExpiredFreed, Settled, Exists, Cron,
     IsCompleted, IsPending
<1>5. CASE ExpireRelease
  <2>1. DaySettled(e)' /\ ExpiryAfter' /\ LossAfter(e)' /\ ReleasedAfter'
    BY <1>0, <1>1, <1>2, <1>5 DEF ExpireRelease, DaySettled, ExpiryAfter, LossAfter,
       ReleasedAfter, Settled, Cron
  <2>2. HeldIfFormed' /\ ExpiredFreed(e)'
    BY <1>0, <1>1, <1>5 DEF ExpireRelease, HeldIfFormed, ExpiredFreed, Exists,
       IsCompleted, IsPending
  <2> QED BY <2>1, <2>2 DEF DateKnown
<1>6. CASE ExpireSave
  <2>1. DaySettled(e)' /\ ExpiryAfter' /\ LossAfter(e)'
    BY <1>0, <1>1, <1>2, <1>6 DEF ExpireSave, shareVars, DaySettled, ExpiryAfter,
          LossAfter,
       Settled, Cron
  <2>2. ReleasedAfter' /\ HeldIfFormed' /\ ExpiredFreed(e)'
    BY <1>0, <1>1, <1>2, <1>6 DEF ExpireSave, shareVars, ReleasedAfter, HeldIfFormed,
       ExpiredFreed, Exists, IsCompleted, IsPending
  <2> QED BY <2>1, <2>2 DEF DateKnown
<1>7. CASE UNCHANGED vars
  BY <1>0, <1>1, <1>2, <1>7 DEF vars, contractVars, shareVars, dateVars, DateKnown,
        DaySettled,
     ExpiryAfter, LossAfter, ReleasedAfter, HeldIfFormed, ExpiredFreed, Settled, Exists, Cron,
     IsCompleted, IsPending
<1> QED BY <1>4, <1>5, <1>6, <1>7

(* A crash stops the cron between the release and the save.                *)
LEMMA DateByCrash ==
    ASSUME TypeInv, NEW e \in Attempts, DateKnown(e), ServiceCrash
    PROVE  DateKnown(e)'
<1>0. /\ DaySettled(e) /\ ExpiryAfter /\ LossAfter(e) /\ ReleasedAfter
      /\ HeldIfFormed /\ ExpiredFreed(e)
  BY DEF DateKnown
<1>1. e \in Sagas /\ AcceptSaga \in Sagas /\ 1 \in Steps(AcceptSaga) /\ SagaInv
  BY AcceptSteps14, OtcAssumption DEF TypeInv
<1>2. /\ UNCHANGED <<contract, shares, gains, past>> /\ expiring' = FALSE
  BY DEF ServiceCrash, contractVars, shareVars
<1>3. /\ UNCHANGED comp
      /\ \A s \in Sagas : /\ run'[s].pc = "idle" /\ run'[s].done = {}
                          /\ \A i \in Steps(s) :
                               IF run[s].pc \in {"call", "mark"} /\ run[s].at = i
                               THEN fwd'[s][i] = fwd[s][i] \cup {"pending"}
                               ELSE fwd'[s][i] = fwd[s][i]
  BY <1>1, CrashEffect DEF ServiceCrash
<1>4. faults'.crash # 0
  <2>1. faults \in Faults /\ faults' = [faults EXCEPT !.crash = @ + 1]
    BY <1>1, CrashEffect DEF ServiceCrash, SagaInv, LogTyped
  <2> QED BY <2>1 DEF Faults
<1>5. Settled(e) => Settled(e)'
  <2>1. ASSUME Settled(e) PROVE Settled(e)'
    <3>1. \A i \in Steps(e) : fwd'[e][i] = fwd[e][i]
      BY <1>1, <1>3, <2>1 DEF Settled
    <3>2. Stuck(e)' = Stuck(e)
      BY <1>3, <3>1 DEF Stuck
    <3> QED BY <1>1, <1>3, <2>1, <3>2 DEF Settled
  <2> QED BY <2>1
<1>6. Started(e)' => Started(e)
  BY <1>1, <1>3 DEF Started
<1>7. DaySettled(e)' /\ ExpiryAfter' /\ LossAfter(e)' /\ ReleasedAfter' /\ ExpiredFreed(e)'
  BY <1>0, <1>2, <1>5, <1>6 DEF DaySettled, ExpiryAfter, LossAfter, ReleasedAfter,
        ExpiredFreed,
     Exists, Cron
<1>8. IsCompleted(AcceptSaga, 1)' => IsCompleted(AcceptSaga, 1)
  BY <1>1, <1>3 DEF IsCompleted
<1>9. HeldIfFormed'
  BY <1>0, <1>1, <1>2, <1>3, <1>4, <1>8 DEF HeldIfFormed, Exists
<1> QED BY <1>7, <1>9 DEF DateKnown

ContractInv(e) == OtcInv /\ ExerciseKnown(e) /\ DateKnown(e)

(* Nothing was exercised in the beginning.                                 *)
LEMMA ExerciseInit ==
    ASSUME Init, NEW e \in Attempts
    PROVE  ExerciseKnown(e) /\ DateKnown(e)
<1>1. PICK r : r = Idle
  OBVIOUS
<1>2. r.pc = "idle" /\ r.done = {}
  BY <1>1 DEF Idle
<1>3. run = [s \in Sagas |-> r]
  BY <1>1 DEF Init, SagaInit
<1>4. \A s \in Sagas : \A i \in Steps(s) : fwd[s][i] = {} /\ comp[s][i] = "none"
  BY DEF Init, SagaInit
<1>5. Steps(e) = 1..8 /\ e \in Sagas /\ AcceptSaga \in Sagas
  BY ExerciseSteps18, TypeInit, OtcAssumption DEF TypeInv
<1>6. \A j : ~ExerciseDid(e, j) /\ ~ExerciseUndid(e, j)
  BY DEF Init, ExerciseDid, ExerciseUndid
<1>7. ExerciseKnown(e)
  BY <1>2, <1>3, <1>4, <1>5, <1>6 DEF ExerciseKnown, ExerciseDone, ExerciseLogged,
     ExercisePending, ExerciseUndone, ExerciseReturned, StrikeHeld, DeliveredOnce, Init,
     IsCompleted, IsPending
<1>8. DateKnown(e)
  BY DEF Init, DateKnown, DaySettled, ExpiryAfter, LossAfter, ReleasedAfter,
        HeldIfFormed,
     ExpiredFreed, Exists
<1> QED BY <1>7, <1>8

(* Every step keeps what is known of the one exercise of a contract.       *)
LEMMA ContractStep ==
    ASSUME NEW e, Attempts = {e}, ContractInv(e), Restricted, Restricted', [Next]_vars
    PROVE  ExerciseKnown(e)' /\ DateKnown(e)'
<1>1. /\ e \in Attempts /\ Sagas = {AcceptSaga, e} /\ AcceptSaga \notin Attempts
      /\ TypeInv /\ AcceptKnown /\ SagaLog(e) /\ SagaLog(AcceptSaga)
      /\ ExerciseKnown(e) /\ DateKnown(e) /\ ExpiryAfter /\ HistoryGrows
  BY OtcAssumption, HistoryStep DEF ContractInv, OtcInv, DateKnown, TypeInv, HistoryGrows,
     LostBy, FailedBack
<1>2. ASSUME NEW s \in Sagas,
             \/ MintContract(s) \/ CreateContract(s) \/ ExerciseContract(s)
             \/ Forward(s) \/ ForwardRefused(s) \/ ForwardLost(s)
             \/ Backward(s) \/ BackwardRefused(s) \/ ExecutorStep(s) \/ RecoverSaga(s)
      PROVE  ExerciseKnown(e)' /\ DateKnown(e)'
  <2>1. CASE s = e
    <3>1. ExerciseStep(e)
      BY <1>1, <1>2, <2>1 DEF ExerciseStep, MintContract, CreateContract
    <3> QED BY <1>1, <3>1, ExerciseOwnStep, DateByExercise
  <2>2. CASE s = AcceptSaga
    <3>1. AcceptMove
      BY <1>1, <1>2, <2>2 DEF AcceptMove, ExerciseContract
    <3> QED BY <1>1, <3>1, ExerciseByAccept, DateByAccept
  <2> QED BY <1>1, <2>1, <2>2
<1>3. CASE ServiceCrash
  BY <1>1, <1>3, ExerciseCrashes, DateByCrash
<1>4. CASE DayPasses \/ ExpireRelease \/ ExpireSave \/ UNCHANGED vars
  BY <1>1, <1>4, ExerciseByDate, DateByDate
<1> QED BY <1>2, <1>3, <1>4 DEF Next

(* The invariant of a contract with one exercise.                          *)
LEMMA ContractInvHolds ==
    ASSUME NEW CONSTANT e, Attempts = {e}
    PROVE  Spec /\ []Restricted => []ContractInv(e)
<1>1. Init /\ OtcInv => ContractInv(e)
  BY ExerciseInit DEF ContractInv
<1>2. /\ ContractInv(e) /\ OtcInv' /\ Restricted /\ Restricted' /\ [Next]_vars
      => ContractInv(e)'
  <2> SUFFICES ASSUME ContractInv(e), OtcInv', Restricted, Restricted', [Next]_vars
               PROVE  ContractInv(e)'
    OBVIOUS
  <2>1. ExerciseKnown(e)' /\ DateKnown(e)'
    BY ContractStep
  <2> QED BY <2>1 DEF ContractInv
<1> QED BY <1>1, <1>2, OtcInvHolds, PTL DEF Spec

-----------------------------------------------------------------------------
(* The exercise's theorems *)

(* What the buyer and the seller of the one exercise have paid and got.    *)
LEMMA StrikeCount ==
    ASSUME NEW e, Attempts = {e}
    PROVE  /\ BuyerPaid = Count(ExerciseDid(e, 2)) - Count(ExerciseUndid(e, 2))
           /\ SellerGot = Count(ExerciseDid(e, 3)) - Count(ExerciseUndid(e, 3))
<1>1. PICK S : S = {s \in Attempts : Key("settle", s) \in keys}
  OBVIOUS
<1>2. Cardinality(S) = Count(ExerciseDid(e, 2))
  <2>1. CASE Key("settle", e) \in keys
    <3>1. S = {e}
      BY <1>1, <2>1
    <3> QED BY <2>1, <3>1, FS_Singleton DEF ExerciseDid, Count
  <2>2. CASE Key("settle", e) \notin keys
    <3>1. S = {}
      BY <1>1, <2>2
    <3> QED BY <2>2, <3>1, FS_EmptySet DEF ExerciseDid, Count
  <2> QED BY <2>1, <2>2
<1>3. /\ ExerciseUndid(e, 2) <=> Key("comp-buyer", Contract) \in keys
      /\ ExerciseDid(e, 3) <=> Key("seller", Contract) \in keys
      /\ ExerciseUndid(e, 3) <=> Key("comp-seller", Contract) \in keys
  BY DEF ExerciseDid, ExerciseUndid
<1> QED BY <1>1, <1>2, <1>3 DEF BuyerPaid, SellerGot, Count

(* An exercise the log calls done took the strike once, paid the seller    *)
(* once, took and delivered the shares once, and left one pair of gain     *)
(* rows: ExerciseContract and RecoverExerciseSaga, for any number of       *)
(* faults and retries, under Restricted, when the contract is exercised    *)
(* once.                                                                   *)
THEOREM ExerciseIsPaid ==
    ASSUME NEW CONSTANT e, Attempts = {e}
    PROVE  Spec /\ []Restricted => []ExercisedIsPaid
<1>1. ContractInv(e) => ExercisedIsPaid
  <2> SUFFICES ASSUME ContractInv(e), Committed(e)
               PROVE  /\ contract = "exercised"
                      /\ BuyerPaid = 1 /\ SellerGot = 1 /\ shares = "settled"
                      /\ delivered = 1 /\ gains = {e}
    BY DEF ExercisedIsPaid
  <2>1. Steps(e) = 1..8 /\ ExerciseKnown(e) /\ LossAfter(e)
    BY ExerciseSteps18 DEF ContractInv, OtcInv, TypeInv, DateKnown
  <2>2. ~HasCompensations(e) /\ \A i \in 1..8 : IsCompleted(e, i) /\ comp[e][i] = "none"
    BY <2>1 DEF Committed, HasCompensations
  <2>3. \A i \in 1..7 : ExerciseDid(e, i)
    BY <2>1, <2>2 DEF ExerciseKnown, ExerciseDone
  <2>4. \A i \in 1..3 : ~ExerciseUndid(e, i)
    BY <2>1, <2>2 DEF ExerciseKnown, ExerciseReturned
  <2>5. BuyerPaid = 1 /\ SellerGot = 1
    BY <2>3, <2>4, StrikeCount DEF Count
  <2>6. contract = "exercised" /\ shares = "settled" /\ delivered # 0 /\ e \in gains
    BY <2>3 DEF ExerciseDid
  <2>7. delivered = 1
    BY <2>1, <2>6 DEF ExerciseKnown, DeliveredOnce
  <2>8. gains = {e}
    BY <2>1, <2>6 DEF LossAfter
  <2> QED BY <2>5, <2>6, <2>7, <2>8
<1> QED BY <1>1, ContractInvHolds, PTL

(* An exercise the log calls rolled back gave the money and the shares     *)
(* back, but for a leg whose own answer was lost, and left the contract to *)
(* be exercised or to expire: ExerciseContract, its compensations and      *)
(* their recovery, and the expiry cron, for any number of refused calls,   *)
(* lost answers, failing Backwards and crashes under Restricted, when the  *)
(* contract is exercised once.                                             *)
THEOREM UnwindRestores ==
    ASSUME NEW CONSTANT e, Attempts = {e}
    PROVE  Spec /\ []Restricted => []UnwoundIsRestored
<1>1. ContractInv(e) => UnwoundIsRestored
  <2> SUFFICES ASSUME ContractInv(e), Committed(AcceptSaga), RolledBack(e)
               PROVE  Unexercised
    BY DEF UnwoundIsRestored
  <2>1. /\ Steps(e) = 1..8 /\ e \in Sagas /\ e # AcceptSaga /\ SagaInv /\ RowsAround
        /\ ExerciseKnown(e) /\ DateKnown(e)
    BY ExerciseSteps18 DEF ContractInv, OtcInv, TypeInv
  <2>2. run[e].pc = "idle" /\ Started(e)
    BY DEF RolledBack, Settled
  <2>3. \A i \in 1..8 : <<e, i>> \notin NoBackward
    BY <2>1, OtcAssumption
  <2>4. \A i \in 1..7 : ExerciseDid(e, i) =>
           comp[e][i] = "compensated" \/ (i <= 3 /\ LostBy(e, i))
    <3>1. ASSUME NEW i \in 1..7, ExerciseDid(e, i)
          PROVE  comp[e][i] = "compensated" \/ (i <= 3 /\ LostBy(e, i))
      <4>1. Evident(e, i) \/ (i <= 3 /\ LostBy(e, i))
        BY <2>1, <2>2, <3>1 DEF ExerciseKnown, ExerciseLogged
      <4>2. i \in Steps(e) /\ <<e, i>> \notin NoBackward
        BY <2>1, <2>3
      <4> QED BY <2>1, <4>1, <4>2, EndedStep
    <3> QED BY <3>1
  <2>5. \A i \in 1..3 : /\ ExerciseUndid(e, i) => ExerciseDid(e, i)
                        /\ ExerciseDid(e, i) => ExerciseUndid(e, i) \/ LostBy(e, i)
    BY <2>1, <2>4 DEF ExerciseKnown, ExerciseUndone, ExerciseReturned
  <2>6. \A i \in 4..7 : ~ExerciseDid(e, i)
    BY <2>1, <2>4 DEF ExerciseKnown, ExerciseUndone
  <2>7. /\ BuyerPaid = 0 \/ (BuyerPaid = 1 /\ LostBy(e, 2))
        /\ SellerGot = 0 \/ (SellerGot = 1 /\ LostBy(e, 3))
    BY <2>5, StrikeCount DEF Count
  <2>8. shares # "settled" /\ delivered = 0 /\ e \notin gains /\ contract # "exercised"
    BY <2>6 DEF ExerciseDid
  <2>9. strike = "active" => LostBy(e, 1)
    BY <2>1, <2>5 DEF ExerciseKnown, StrikeHeld
  <2>14. /\ LostBy(e, 1) => LostByAny("reserve_strike")
         /\ LostBy(e, 2) => LostByAny("settle_strike_buyer")
         /\ LostBy(e, 3) => LostByAny("credit_strike_seller")
    <3>1. /\ StepName(e, 1) = "reserve_strike"
          /\ StepName(e, 2) = "settle_strike_buyer"
          /\ StepName(e, 3) = "credit_strike_seller"
      BY <2>1 DEF StepName, ExerciseSteps
    <3>2. e \in Attempts /\ {1, 2, 3} \subseteq Steps(e)
      BY <2>1
    <3> QED BY <3>1, <3>2 DEF LostByAny, Among, LostBy
  <2>10. gains \subseteq {Cron}
    BY <2>1, <2>8 DEF DateKnown, LossAfter
  <2>11. Exists => shares # "none"
    <3>1. IsCompleted(AcceptSaga, 1)
      BY <2>1, AcceptSteps14 DEF Committed
    <3> QED BY <2>1, <3>1 DEF DateKnown, HeldIfFormed
  <2>12. contract = "active" /\ ~past => shares = "active"
    BY <2>1, <2>8, <2>11 DEF RowsAround, Holds, DateKnown, ReleasedAfter, Exists
  <2>13. contract = "expired" => shares = "released"
    BY <2>1, <2>2, <2>8, <2>11 DEF RowsAround, Holds, DateKnown, ExpiredFreed, Exists
  <2> QED BY <2>7, <2>8, <2>9, <2>10, <2>12, <2>13, <2>14 DEF Unexercised
<1> QED BY <1>1, ContractInvHolds, PTL
=============================================================================
