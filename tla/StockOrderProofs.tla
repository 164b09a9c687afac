------------------------- MODULE StockOrderProofs -------------------------
(***************************************************************************)
(* Proofs about StockOrder.  Every saga of an order has three steps.  The  *)
(* proofs first say what each step of the executor does to the fields of   *)
(* its run and to the log (the Effect lemmas), and use nothing else of it. *)
(***************************************************************************)
EXTENDS StockOrder, FiniteSetTheorems, TLAPS

Pcs == {"idle", "record", "call", "mark", "undo", "back", "unmark", "return"}
LogRow == {"fwd", "comp"} \X Nat
Run == [pc : Pcs, at : Nat, done : SUBSET Nat, error : BOOLEAN, row : {None} \cup LogRow]
FwdStatuses == {"pending", "completed", "failed", "dead_letter"}
CompStatuses == {"none", "compensating", "compensated", "dead_letter"}
Step == 1..3

-----------------------------------------------------------------------------
(* The three steps *)

(* Every saga of an order, placement and fill alike, has the steps 1..3.   *)
LEMMA ThreeSteps ==
    ASSUME NEW s \in Sagas
    PROVE  Length[s] = 3 /\ Steps(s) = Step
  BY OrderAssumption DEF FinalizeStep, SharesStep, Steps, Step

(* finalize_order has no Backward, and of a fill only the money step has   *)
(* one.                                                                    *)
LEMMA Irreversible ==
    /\ \A i : <<Placement, i>> \in NoBackward <=> i = 3
    /\ \A t \in Txns : \A i \in Step : <<t, i>> \in NoBackward <=> i # 2
  BY OrderAssumption DEF FinalizeStep, AuditStep, SharesStep, Step

(* rollback works on a step of the run, the last one of those left.        *)
LEMMA LastStep ==
    ASSUME NEW D \in SUBSET Step, D # {}
    PROVE  Max(D) \in D /\ \A y \in D : y <= Max(D)
<1>1. \A y \in D : y = 1 \/ y = 2 \/ y = 3
  BY DEF Step
<1>2. \E x \in D : \A y \in D : x >= y
  <2>1. CASE 3 \in D
    BY <1>1, <2>1
  <2>2. CASE 3 \notin D /\ 2 \in D
    BY <1>1, <2>2
  <2>3. CASE 3 \notin D /\ 2 \notin D
    <3>1. PICK y \in D : TRUE
      OBVIOUS
    <3>2. y = 1 /\ \A z \in D : z = 1
      BY <1>1, <2>3
    <3> QED BY <3>1, <3>2
  <2> QED BY <2>1, <2>2, <2>3
<1> QED BY <1>2 DEF Max

-----------------------------------------------------------------------------
(* What a step of the executor does to its run *)

RunTyped == run \in [Sagas -> Run]

(* The run of s gets the given fields, the other runs stay. *)
Becomes(s, p, a, d, e, w) ==
    /\ run' \in [Sagas -> Run]
    /\ run'[s].pc = p /\ run'[s].at = a /\ run'[s].done = d
    /\ run'[s].error = e /\ run'[s].row = w
    /\ \A u \in Sagas \ {s} : run'[u] = run[u]

Onward(s) == IF run[s].at = 3 THEN "return" ELSE "record"
Beyond(s) == IF run[s].at = 3 THEN 0 ELSE run[s].at + 1

(* Every step of the executor, by the fields of the run it leaves.  The    *)
(* steps after a mark or a skip, or of rollback, work on a step of the run.*)
LEMMA RunEffects ==
    ASSUME RunTyped, NEW s \in Sagas,
           run[s].pc = "undo" /\ run[s].done # {} => Last(s) \in Nat
    PROVE  /\ Execute(s) =>
                Becomes(s, "record", 1, {}, FALSE, None)
           /\ SkipCompleted(s) =>
                Becomes(s, Onward(s), Beyond(s), run[s].done, run[s].error, run[s].row)
           /\ RecordForward(s) =>
                Becomes(s, "call", run[s].at, run[s].done, run[s].error, run[s].row)
           /\ ForwardDone(s) =>
                Becomes(s, "mark", run[s].at, run[s].done, run[s].error, run[s].row)
           /\ ForwardFailed(s) =>
                Becomes(s, "undo", run[s].at, run[s].done, TRUE, run[s].row)
           /\ MarkCompleted(s) \/ MarkCompletedFails(s) =>
                Becomes(s, Onward(s), Beyond(s), run[s].done \cup {run[s].at},
                        run[s].error, run[s].row)
           /\ SkipIrreversible(s) =>
                Becomes(s, run[s].pc, run[s].at, run[s].done \ {Last(s)},
                        run[s].error, run[s].row)
           /\ RecordCompensation(s) =>
                Becomes(s, "back", Last(s), run[s].done, run[s].error, run[s].row)
           /\ BackwardDone(s) =>
                Becomes(s, "unmark", run[s].at, run[s].done, run[s].error, run[s].row)
           /\ MarkCompensated(s) =>
                Becomes(s, "undo", run[s].at, run[s].done \ {run[s].at},
                        run[s].error, run[s].row)
           /\ BackwardFailed(s) =>
                Becomes(s, "undo", run[s].at, run[s].done \ {run[s].at}, TRUE, run[s].row)
           /\ Return(s) =>
                Becomes(s, "idle", 0, {}, FALSE, None)
<1>1. run[s] \in Run /\ Length[s] = 3
  BY ThreeSteps DEF RunTyped
<1>2. run[s].at \in Nat /\ run[s].done \in SUBSET Nat /\ run[s].error \in BOOLEAN
      /\ run[s].row \in {None} \cup LogRow
  BY <1>1 DEF Run
<1>0. Onward(s) \in Pcs /\ Beyond(s) \in Nat
  BY <1>2 DEF Onward, Beyond, Pcs
<1>3. ASSUME NEW r \in Run, run' = [run EXCEPT ![s] = r]
      PROVE  /\ run' \in [Sagas -> Run] /\ run'[s] = r
             /\ \A u \in Sagas \ {s} : run'[u] = run[u]
  BY <1>3 DEF RunTyped
<1>4. Execute(s) =>
        Becomes(s, "record", 1, {}, FALSE, None)
  <2> SUFFICES ASSUME Execute(s)
               PROVE  Becomes(s, "record", 1, {}, FALSE, None)
    OBVIOUS
  <2>1. PICK r : r = [Idle EXCEPT !.pc = "record", !.at = 1]
    OBVIOUS
  <2>2. r \in Run
    BY <1>1, <1>2, <2>1 DEF Run, Pcs, Idle
  <2>3. run' = [run EXCEPT ![s] = r]
    BY <1>1, <2>1 DEF RunTyped, Execute, Idle
  <2> QED BY <1>1, <1>3, <2>1, <2>2, <2>3 DEF Becomes, Run, Idle
<1>5. SkipCompleted(s) =>
        Becomes(s, Onward(s), Beyond(s), run[s].done, run[s].error, run[s].row)
  <2> SUFFICES ASSUME SkipCompleted(s)
               PROVE  Becomes(s, Onward(s), Beyond(s), run[s].done, run[s].error, run[s].row)
    OBVIOUS
  <2>1. PICK r : r = [run[s] EXCEPT !.pc = Onward(s), !.at = Beyond(s), !.done = run[s].done]
    OBVIOUS
  <2>2. r \in Run
    BY <1>0, <1>1, <1>2, <2>1 DEF Run
  <2>3. run' = [run EXCEPT ![s] = r]
    BY <1>1, <2>1 DEF RunTyped, SkipCompleted, Advance, Onward, Beyond
  <2> QED BY <1>1, <1>3, <2>1, <2>2, <2>3 DEF Becomes, Run
<1>6. RecordForward(s) =>
        Becomes(s, "call", run[s].at, run[s].done, run[s].error, run[s].row)
  <2> SUFFICES ASSUME RecordForward(s)
               PROVE  Becomes(s, "call", run[s].at, run[s].done, run[s].error, run[s].row)
    OBVIOUS
  <2>1. PICK r : r = [run[s] EXCEPT !.pc = "call"]
    OBVIOUS
  <2>2. r \in Run
    BY <1>1, <1>2, <2>1 DEF Run, Pcs
  <2>3. run' = [run EXCEPT ![s] = r]
    BY <1>1, <2>1 DEF RunTyped, RecordForward
  <2> QED BY <1>1, <1>3, <2>1, <2>2, <2>3 DEF Becomes, Run
<1>7. ForwardDone(s) =>
        Becomes(s, "mark", run[s].at, run[s].done, run[s].error, run[s].row)
  <2> SUFFICES ASSUME ForwardDone(s)
               PROVE  Becomes(s, "mark", run[s].at, run[s].done, run[s].error, run[s].row)
    OBVIOUS
  <2>1. PICK r : r = [run[s] EXCEPT !.pc = "mark"]
    OBVIOUS
  <2>2. r \in Run
    BY <1>1, <1>2, <2>1 DEF Run, Pcs
  <2>3. run' = [run EXCEPT ![s] = r]
    BY <1>1, <2>1 DEF RunTyped, ForwardDone
  <2> QED BY <1>1, <1>3, <2>1, <2>2, <2>3 DEF Becomes, Run
<1>8. ForwardFailed(s) =>
        Becomes(s, "undo", run[s].at, run[s].done, TRUE, run[s].row)
  <2> SUFFICES ASSUME ForwardFailed(s)
               PROVE  Becomes(s, "undo", run[s].at, run[s].done, TRUE, run[s].row)
    OBVIOUS
  <2>1. PICK r : r = [run[s] EXCEPT !.pc = "undo", !.error = TRUE]
    OBVIOUS
  <2>2. r \in Run
    BY <1>1, <1>2, <2>1 DEF Run, Pcs
  <2>3. run' = [run EXCEPT ![s] = r]
    BY <1>1, <2>1 DEF RunTyped, ForwardFailed
  <2> QED BY <1>1, <1>3, <2>1, <2>2, <2>3 DEF Becomes, Run
<1>9. MarkCompleted(s) \/ MarkCompletedFails(s) =>
        Becomes(s, Onward(s), Beyond(s), run[s].done \cup {run[s].at},
                run[s].error, run[s].row)
  <2> SUFFICES ASSUME MarkCompleted(s) \/ MarkCompletedFails(s)
               PROVE  Becomes(s, Onward(s), Beyond(s), run[s].done \cup {run[s].at},
                              run[s].error, run[s].row)
    OBVIOUS
  <2>1. PICK r : r = [run[s] EXCEPT !.pc = Onward(s), !.at = Beyond(s),
                                 !.done = run[s].done \cup {run[s].at}]
    OBVIOUS
  <2>2. r \in Run
    BY <1>0, <1>1, <1>2, <2>1 DEF Run
  <2>3. run' = [run EXCEPT ![s] = r]
    BY <1>1, <2>1 DEF RunTyped, MarkCompleted, MarkCompletedFails, Advance, Onward,
          Beyond
  <2> QED BY <1>1, <1>3, <2>1, <2>2, <2>3 DEF Becomes, Run
<1>10. SkipIrreversible(s) =>
        Becomes(s, run[s].pc, run[s].at, run[s].done \ {Last(s)},
                run[s].error, run[s].row)
  <2> SUFFICES ASSUME SkipIrreversible(s)
               PROVE  Becomes(s, run[s].pc, run[s].at, run[s].done \ {Last(s)},
                              run[s].error, run[s].row)
    OBVIOUS
  <2>1. PICK r : r = [run[s] EXCEPT !.done = run[s].done \ {Last(s)}]
    OBVIOUS
  <2>2. r \in Run
    BY <1>1, <1>2, <2>1 DEF Run, Pcs
  <2>3. run' = [run EXCEPT ![s] = r]
    BY <1>1, <2>1 DEF RunTyped, SkipIrreversible
  <2> QED BY <1>1, <1>3, <2>1, <2>2, <2>3 DEF Becomes, Run
<1>11. RecordCompensation(s) =>
        Becomes(s, "back", Last(s), run[s].done, run[s].error, run[s].row)
  <2> SUFFICES ASSUME RecordCompensation(s)
               PROVE  Becomes(s, "back", Last(s), run[s].done, run[s].error, run[s].row)
    OBVIOUS
  <2>1. PICK r : r = [run[s] EXCEPT !.pc = "back", !.at = Last(s)]
    OBVIOUS
  <2>2. r \in Run
    BY <1>1, <1>2, <2>1 DEF Run, Pcs, RecordCompensation
  <2>3. run' = [run EXCEPT ![s] = r]
    BY <1>1, <2>1 DEF RunTyped, RecordCompensation
  <2> QED BY <1>1, <1>3, <2>1, <2>2, <2>3 DEF Becomes, Run
<1>12. BackwardDone(s) =>
        Becomes(s, "unmark", run[s].at, run[s].done, run[s].error, run[s].row)
  <2> SUFFICES ASSUME BackwardDone(s)
               PROVE  Becomes(s, "unmark", run[s].at, run[s].done, run[s].error, run[s].row)
    OBVIOUS
  <2>1. PICK r : r = [run[s] EXCEPT !.pc = "unmark"]
    OBVIOUS
  <2>2. r \in Run
    BY <1>1, <1>2, <2>1 DEF Run, Pcs
  <2>3. run' = [run EXCEPT ![s] = r]
    BY <1>1, <2>1 DEF RunTyped, BackwardDone
  <2> QED BY <1>1, <1>3, <2>1, <2>2, <2>3 DEF Becomes, Run
<1>13. MarkCompensated(s) =>
        Becomes(s, "undo", run[s].at, run[s].done \ {run[s].at},
                run[s].error, run[s].row)
  <2> SUFFICES ASSUME MarkCompensated(s)
               PROVE  Becomes(s, "undo", run[s].at, run[s].done \ {run[s].at},
                              run[s].error, run[s].row)
    OBVIOUS
  <2>1. PICK r : r = [run[s] EXCEPT !.pc = "undo", !.done = run[s].done \ {run[s].at}]
    OBVIOUS
  <2>2. r \in Run
    BY <1>1, <1>2, <2>1 DEF Run, Pcs
  <2>3. run' = [run EXCEPT ![s] = r]
    BY <1>1, <2>1 DEF RunTyped, MarkCompensated
  <2> QED BY <1>1, <1>3, <2>1, <2>2, <2>3 DEF Becomes, Run
<1>14. BackwardFailed(s) =>
        Becomes(s, "undo", run[s].at, run[s].done \ {run[s].at}, TRUE, run[s].row)
  <2> SUFFICES ASSUME BackwardFailed(s)
               PROVE  Becomes(s, "undo", run[s].at, run[s].done \ {run[s].at}, TRUE, run[s].row)
    OBVIOUS
  <2>1. PICK r : r = [run[s] EXCEPT !.pc = "undo", !.done = run[s].done \ {run[s].at},
                                 !.error = TRUE]
    OBVIOUS
  <2>2. r \in Run
    BY <1>1, <1>2, <2>1 DEF Run, Pcs
  <2>3. run' = [run EXCEPT ![s] = r]
    BY <1>1, <2>1 DEF RunTyped, BackwardFailed
  <2> QED BY <1>1, <1>3, <2>1, <2>2, <2>3 DEF Becomes, Run
<1>15. Return(s) =>
        Becomes(s, "idle", 0, {}, FALSE, None)
  <2> SUFFICES ASSUME Return(s)
               PROVE  Becomes(s, "idle", 0, {}, FALSE, None)
    OBVIOUS
  <2>1. PICK r : r = Idle
    OBVIOUS
  <2>2. r \in Run
    BY <1>1, <1>2, <2>1 DEF Run, Pcs, Idle
  <2>3. run' = [run EXCEPT ![s] = r]
    BY <1>1, <2>1 DEF RunTyped, Return, Idle
  <2> QED BY <1>1, <1>3, <2>1, <2>2, <2>3 DEF Becomes, Run, Idle
<1> QED
  BY <1>4, <1>5, <1>6, <1>7, <1>8, <1>9, <1>10, <1>11, <1>12, <1>13, <1>14, <1>15

-----------------------------------------------------------------------------
(* What a step does to the log *)

Faults == [crash : Nat, refusal : Nat, back : Nat, mark : Nat]
LogTyped ==
    /\ fwd \in [Sagas -> [Step -> SUBSET FwdStatuses]]
    /\ comp \in [Sagas -> [Step -> CompStatuses]]
    /\ retry \in [Sagas -> 0..MaxRetries]
    /\ faults \in Faults

(* The forward rows of one step become X, the others stay. *)
FwdSet(s, i, X) ==
    /\ fwd' \in [Sagas -> [Step -> SUBSET FwdStatuses]]
    /\ fwd'[s][i] = X
    /\ \A j \in Step \ {i} : fwd'[s][j] = fwd[s][j]
    /\ \A u \in Sagas \ {s} : fwd'[u] = fwd[u]

(* The compensation row of one step becomes x, the others stay. *)
CompSet(s, i, x) ==
    /\ comp' \in [Sagas -> [Step -> CompStatuses]]
    /\ comp'[s][i] = x
    /\ \A j \in Step \ {i} : comp'[s][j] = comp[s][j]
    /\ \A u \in Sagas \ {s} : comp'[u] = comp[u]

(* Saving one forward row, and one compensation row.                       *)
LEMMA LogUpdates ==
    ASSUME LogTyped, NEW s \in Sagas, NEW i \in Step
    PROVE  /\ \A X \in SUBSET FwdStatuses :
                fwd' = [fwd EXCEPT ![s][i] = X] => FwdSet(s, i, X)
           /\ \A x \in CompStatuses :
                comp' = [comp EXCEPT ![s][i] = x] => CompSet(s, i, x)
<1>1. fwd \in [Sagas -> [Step -> SUBSET FwdStatuses]]
      /\ comp \in [Sagas -> [Step -> CompStatuses]]
  BY DEF LogTyped
<1>2. ASSUME NEW X \in SUBSET FwdStatuses, fwd' = [fwd EXCEPT ![s][i] = X]
      PROVE  FwdSet(s, i, X)
  <2>1. fwd[s] \in [Step -> SUBSET FwdStatuses]
    BY <1>1
  <2>2. PICK g : g = [fwd[s] EXCEPT ![i] = X]
    OBVIOUS
  <2>3. g \in [Step -> SUBSET FwdStatuses] /\ g[i] = X
        /\ \A j \in Step \ {i} : g[j] = fwd[s][j]
    BY <2>1, <2>2
  <2>4. fwd' = [fwd EXCEPT ![s] = g]
    BY <1>2, <2>2
  <2>5. fwd' \in [Sagas -> [Step -> SUBSET FwdStatuses]] /\ fwd'[s] = g
        /\ \A u \in Sagas \ {s} : fwd'[u] = fwd[u]
    BY <1>1, <2>3, <2>4
  <2> QED BY <2>3, <2>5 DEF FwdSet
<1>3. ASSUME NEW x \in CompStatuses, comp' = [comp EXCEPT ![s][i] = x]
      PROVE  CompSet(s, i, x)
  <2>1. comp[s] \in [Step -> CompStatuses]
    BY <1>1
  <2>2. PICK g : g = [comp[s] EXCEPT ![i] = x]
    OBVIOUS
  <2>3. g \in [Step -> CompStatuses] /\ g[i] = x
        /\ \A j \in Step \ {i} : g[j] = comp[s][j]
    BY <2>1, <2>2
  <2>4. comp' = [comp EXCEPT ![s] = g]
    BY <1>3, <2>2
  <2>5. comp' \in [Sagas -> [Step -> CompStatuses]] /\ comp'[s] = g
        /\ \A u \in Sagas \ {s} : comp'[u] = comp[u]
    BY <1>1, <2>3, <2>4
  <2> QED BY <2>3, <2>5 DEF CompSet
<1> QED BY <1>2, <1>3

Busy == {"record", "call", "mark", "back", "unmark"}

(* A run works on a step of its saga and rolls back only what can be; a    *)
(* recovery run has a retry left and was started for a row of the log.     *)
OnStep(s) ==
    /\ run[s].at \in {0} \cup Step /\ run[s].done \subseteq Step
    /\ run[s].pc \in Busy => run[s].at \in Step
    /\ run[s].pc \in {"back", "unmark"} => <<s, run[s].at>> \notin NoBackward
    /\ run[s].row # None => run[s].row[2] \in Step /\ retry[s] < MaxRetries

SagaInv == RunTyped /\ LogTyped /\ \A s \in Sagas : OnStep(s)

(* A stuck row is pending in the forward log or a compensation under way.  *)
LEMMA StuckRows ==
    ASSUME NEW s \in Sagas
    PROVE  /\ \A row \in Stuck(s) :
                /\ row \in LogRow /\ row[2] \in Step
                /\ \/ row[1] = "fwd" /\ "pending" \in fwd[s][row[2]]
                   \/ row[1] = "comp" /\ comp[s][row[2]] = "compensating"
           /\ Stuck(s) = {} =>
                \A i \in Step : "pending" \notin fwd[s][i] /\ comp[s][i] # "compensating"
<1>1. Steps(s) = Step /\ Step \subseteq Nat
  BY ThreeSteps DEF Step
<1>2. ASSUME NEW row \in Stuck(s)
      PROVE  /\ row \in LogRow /\ row[2] \in Step
             /\ \/ row[1] = "fwd" /\ "pending" \in fwd[s][row[2]]
                \/ row[1] = "comp" /\ comp[s][row[2]] = "compensating"
  <2>1. CASE \E i \in Step : "pending" \in fwd[s][i] /\ row = <<"fwd", i>>
    BY <1>1, <2>1 DEF LogRow
  <2>2. CASE \E i \in Step : comp[s][i] = "compensating" /\ row = <<"comp", i>>
    BY <1>1, <2>2 DEF LogRow
  <2> QED BY <1>1, <2>1, <2>2 DEF Stuck
<1>3. ASSUME Stuck(s) = {}, NEW i \in Step
      PROVE  "pending" \notin fwd[s][i] /\ comp[s][i] # "compensating"
  <2>1. "pending" \in fwd[s][i] => <<"fwd", i>> \in Stuck(s)
    BY <1>1 DEF Stuck
  <2>2. comp[s][i] = "compensating" => <<"comp", i>> \in Stuck(s)
    BY <1>1 DEF Stuck
  <2> QED BY <1>3, <2>1, <2>2
<1> QED BY <1>2, <1>3

(* The step a rollback works on is one of the run.                         *)
LEMMA LastOfRun ==
    ASSUME SagaInv, NEW s \in Sagas, run[s].done # {}
    PROVE  Last(s) \in run[s].done /\ Last(s) \in Step
  BY LastStep DEF SagaInv, OnStep, Last

(* Every step that writes the log, by the row it leaves.                   *)
LEMMA LogEffects ==
    ASSUME SagaInv, NEW s \in Sagas
    PROVE  /\ ForwardFailed(s) =>
                FwdSet(s, run[s].at, fwd[s][run[s].at] \cup {"failed"})
           /\ MarkCompleted(s) =>
                FwdSet(s, run[s].at, fwd[s][run[s].at] \cup {"completed"})
           /\ MarkCompletedFails(s) =>
                FwdSet(s, run[s].at, fwd[s][run[s].at] \cup {"pending"})
           /\ RecordCompensation(s) =>
                CompSet(s, Last(s), IF comp[s][Last(s)] = "none" THEN "compensating"
                                    ELSE comp[s][Last(s)])
           /\ MarkCompensated(s) => CompSet(s, run[s].at, "compensated")
           /\ BackwardFailed(s) => CompSet(s, run[s].at, "compensating")
           /\ \A row : row[2] \in Step /\ Closed(s, row) =>
                \/ /\ row[1] = "fwd" /\ UNCHANGED comp
                   /\ FwdSet(s, row[2], (fwd[s][row[2]] \ {"pending"}) \cup {"completed"})
                \/ /\ row[1] # "fwd" /\ UNCHANGED fwd
                   /\ CompSet(s, row[2], "compensated")
           /\ \A row : row[2] \in Step /\ MarkDeadLetter(s, row) =>
                \/ /\ row[1] = "fwd" /\ UNCHANGED comp
                   /\ FwdSet(s, row[2], (fwd[s][row[2]] \ {"pending"}) \cup {"dead_letter"})
                \/ /\ row[1] # "fwd" /\ UNCHANGED fwd
                   /\ CompSet(s, row[2], "dead_letter")
<1>1. LogTyped /\ (run[s].pc \in Busy => run[s].at \in Step)
  BY DEF SagaInv, OnStep
<1>2. \A i \in Step : fwd[s][i] \in SUBSET FwdStatuses /\ comp[s][i] \in CompStatuses
  BY <1>1 DEF LogTyped
<1>3. \A i \in Step : \A x \in FwdStatuses :
        /\ fwd[s][i] \cup {x} \in SUBSET FwdStatuses
        /\ (fwd[s][i] \ {"pending"}) \cup {x} \in SUBSET FwdStatuses
  BY <1>2
<1>4. {"pending", "completed", "failed", "dead_letter"} \subseteq FwdStatuses
      /\ {"compensating", "compensated", "dead_letter"} \subseteq CompStatuses
  BY DEF FwdStatuses, CompStatuses
<1>5. ForwardFailed(s) => FwdSet(s, run[s].at, fwd[s][run[s].at] \cup {"failed"})
  <2> SUFFICES ASSUME ForwardFailed(s)
               PROVE  FwdSet(s, run[s].at, fwd[s][run[s].at] \cup {"failed"})
    OBVIOUS
  <2>1. PICK X : X = fwd[s][run[s].at] \cup {"failed"}
    OBVIOUS
  <2>2. run[s].at \in Step /\ X \in SUBSET FwdStatuses
    BY <1>1, <1>3, <1>4, <2>1 DEF ForwardFailed, Busy
  <2>3. fwd' = [fwd EXCEPT ![s][run[s].at] = X]
    BY <2>1 DEF ForwardFailed
  <2> QED BY <1>1, <2>1, <2>2, <2>3, LogUpdates
<1>6. MarkCompleted(s) => FwdSet(s, run[s].at, fwd[s][run[s].at] \cup {"completed"})
  <2> SUFFICES ASSUME MarkCompleted(s)
               PROVE  FwdSet(s, run[s].at, fwd[s][run[s].at] \cup {"completed"})
    OBVIOUS
  <2>1. PICK X : X = fwd[s][run[s].at] \cup {"completed"}
    OBVIOUS
  <2>2. run[s].at \in Step /\ X \in SUBSET FwdStatuses
    BY <1>1, <1>3, <1>4, <2>1 DEF MarkCompleted, Busy
  <2>3. fwd' = [fwd EXCEPT ![s][run[s].at] = X]
    BY <2>1 DEF MarkCompleted
  <2> QED BY <1>1, <2>1, <2>2, <2>3, LogUpdates
<1>7. MarkCompletedFails(s) => FwdSet(s, run[s].at, fwd[s][run[s].at] \cup {"pending"})
  <2> SUFFICES ASSUME MarkCompletedFails(s)
               PROVE  FwdSet(s, run[s].at, fwd[s][run[s].at] \cup {"pending"})
    OBVIOUS
  <2>1. PICK X : X = fwd[s][run[s].at] \cup {"pending"}
    OBVIOUS
  <2>2. run[s].at \in Step /\ X \in SUBSET FwdStatuses
    BY <1>1, <1>3, <1>4, <2>1 DEF MarkCompletedFails, Busy
  <2>3. fwd' = [fwd EXCEPT ![s][run[s].at] = X]
    BY <2>1 DEF MarkCompletedFails
  <2> QED BY <1>1, <2>1, <2>2, <2>3, LogUpdates
<1>8. RecordCompensation(s) =>
        CompSet(s, Last(s), IF comp[s][Last(s)] = "none" THEN "compensating"
                            ELSE comp[s][Last(s)])
  BY <1>1, <1>2, <1>4, LogUpdates, LastOfRun DEF RecordCompensation
<1>9. MarkCompensated(s) => CompSet(s, run[s].at, "compensated")
  BY <1>1, <1>4, LogUpdates DEF MarkCompensated, Busy
<1>10. BackwardFailed(s) => CompSet(s, run[s].at, "compensating")
  BY <1>1, <1>4, LogUpdates DEF BackwardFailed, Busy
<1>11. ASSUME NEW row, row[2] \in Step, Closed(s, row)
       PROVE  \/ /\ row[1] = "fwd" /\ UNCHANGED comp
                 /\ FwdSet(s, row[2], (fwd[s][row[2]] \ {"pending"}) \cup {"completed"})
              \/ /\ row[1] # "fwd" /\ UNCHANGED fwd
                 /\ CompSet(s, row[2], "compensated")
  BY <1>1, <1>3, <1>4, <1>11, LogUpdates DEF Closed
<1>12. ASSUME NEW row, row[2] \in Step, MarkDeadLetter(s, row)
       PROVE  \/ /\ row[1] = "fwd" /\ UNCHANGED comp
                 /\ FwdSet(s, row[2], (fwd[s][row[2]] \ {"pending"}) \cup {"dead_letter"})
              \/ /\ row[1] # "fwd" /\ UNCHANGED fwd
                 /\ CompSet(s, row[2], "dead_letter")
  BY <1>1, <1>3, <1>4, <1>12, LogUpdates DEF MarkDeadLetter
<1> QED
  BY <1>5, <1>6, <1>7, <1>8, <1>9, <1>10, <1>11, <1>12

-----------------------------------------------------------------------------
(* The steps of the executor keep the log and the runs well formed *)

Refused(s) ==
    /\ ForwardFailed(s)
    /\ UNCHANGED faults \/ faults' = [faults EXCEPT !.refusal = @ + 1]
NotUndone(s) == BackwardFailed(s) /\ faults' = [faults EXCEPT !.back = @ + 1]

RunStep(s) ==
    \/ Execute(s) \/ SkipCompleted(s) \/ RecordForward(s) \/ ForwardDone(s) \/ Refused(s)
    \/ MarkCompleted(s) \/ MarkCompletedFails(s)
    \/ SkipIrreversible(s) \/ RecordCompensation(s) \/ BackwardDone(s)
    \/ MarkCompensated(s) \/ NotUndone(s) \/ Return(s)
CronStep(s) ==
    \E row \in Stuck(s) : \/ Recover(s, row) \/ RecoverNothing(s, row)
                          \/ RecoverRefused(s, row) \/ MarkDeadLetter(s, row)
(* A write of the order row is lost: no run and no row of the log moves.   *)
Unsaved == UNCHANGED <<run, fwd, comp, retry>> /\ faults' = [faults EXCEPT !.mark = @ + 1]
SagaMove ==
    \/ \E s \in Sagas : RunStep(s) \/ CronStep(s)
    \/ Crash \/ Unsaved \/ UNCHANGED sagaVars

(* A recovery run starts with the row it was started for.                  *)
LEMMA RecoverEffect ==
    ASSUME SagaInv, NEW s \in Sagas, NEW row \in Stuck(s), Recover(s, row)
    PROVE  \/ /\ HasCompensations(s)
              /\ Becomes(s, "undo", 0, {i \in Step : IsCompleted(s, i)}, FALSE, row)
           \/ /\ ~HasCompensations(s)
              /\ Becomes(s, "record", 1, {}, FALSE, row)
<1>1. run \in [Sagas -> Run] /\ Steps(s) = Step
  BY ThreeSteps DEF SagaInv, RunTyped
<1>2. row \in LogRow
  BY StuckRows
<1>3. PICK D : D = {i \in Step : IsCompleted(s, i)}
  OBVIOUS
<1>4. D \in SUBSET Nat
  BY <1>3 DEF Step
<1>5. PICK r : r = [Idle EXCEPT !.pc = "undo", !.row = row, !.done = D]
  OBVIOUS
<1>6. PICK q : q = [Idle EXCEPT !.pc = "record", !.at = 1, !.row = row]
  OBVIOUS
<1>7. /\ r \in Run /\ r.pc = "undo" /\ r.at = 0 /\ r.done = D /\ r.error = FALSE
      /\ r.row = row
  BY <1>2, <1>4, <1>5 DEF Run, Pcs, Idle
<1>8. /\ q \in Run /\ q.pc = "record" /\ q.at = 1 /\ q.done = {} /\ q.error = FALSE
      /\ q.row = row
  BY <1>2, <1>6 DEF Run, Pcs, Idle
<1>9. run' = [run EXCEPT ![s] = IF HasCompensations(s) THEN r ELSE q]
  BY <1>1, <1>3, <1>5, <1>6 DEF Recover
<1>10. CASE HasCompensations(s)
  <2>1. run' \in [Sagas -> Run] /\ run'[s] = r /\ \A u \in Sagas \ {s} : run'[u] = run[u]
    BY <1>1, <1>7, <1>9, <1>10
  <2> QED BY <1>3, <1>7, <1>10, <2>1 DEF Becomes
<1>11. CASE ~HasCompensations(s)
  <2>1. run' \in [Sagas -> Run] /\ run'[s] = q /\ \A u \in Sagas \ {s} : run'[u] = run[u]
    BY <1>1, <1>8, <1>9, <1>11
  <2> QED BY <1>8, <1>11, <2>1 DEF Becomes
<1> QED BY <1>10, <1>11

(* A crash leaves no run, and a pending row where one was called.          *)
LEMMA CrashEffect ==
    ASSUME SagaInv, Crash
    PROVE  /\ run' \in [Sagas -> Run]
           /\ \A s \in Sagas : run'[s].pc = "idle" /\ run'[s].at = 0 /\ run'[s].done = {}
                               /\ run'[s].error = FALSE /\ run'[s].row = None
           /\ fwd' \in [Sagas -> [Step -> SUBSET FwdStatuses]]
           /\ \A s \in Sagas : \A i \in Step :
                /\ fwd[s][i] \subseteq fwd'[s][i]
                /\ fwd'[s][i] \subseteq fwd[s][i] \cup {"pending"}
           /\ UNCHANGED <<comp, retry>> /\ faults' = [faults EXCEPT !.crash = @ + 1]
<1>1. \A s \in Sagas : Steps(s) = Step
  BY ThreeSteps
<1>2. PICK r : r = Idle
  OBVIOUS
<1>3. /\ r \in Run /\ r.pc = "idle" /\ r.at = 0 /\ r.done = {} /\ r.error = FALSE
      /\ r.row = None
  BY <1>2 DEF Run, Pcs, Idle
<1>4. run' = [s \in Sagas |-> r]
  BY <1>2 DEF Crash
<1>5. run' \in [Sagas -> Run] /\ \A s \in Sagas : run'[s] = r
  BY <1>3, <1>4
<1>6. fwd' = [s \in Sagas |-> [i \in Step |->
                  fwd[s][i] \cup (IF run[s].pc \in {"call", "mark"} /\ run[s].at = i
                                  THEN {"pending"} ELSE {})]]
  BY <1>1 DEF Crash
<1>7. \A s \in Sagas : \A i \in Step :
        /\ fwd'[s][i] = fwd[s][i] \cup (IF run[s].pc \in {"call", "mark"} /\ run[s].at = i
                                        THEN {"pending"} ELSE {})
        /\ fwd[s][i] \in SUBSET FwdStatuses
  BY <1>6 DEF SagaInv, LogTyped
<1>8. \A s \in Sagas : \A i \in Step :
        fwd[s][i] \subseteq fwd'[s][i] /\ fwd'[s][i] \subseteq fwd[s][i] \cup {"pending"}
  BY <1>7
<1>9. \A s \in Sagas : \A i \in Step : fwd'[s][i] \in SUBSET FwdStatuses
  BY <1>7, <1>8 DEF FwdStatuses
<1>10. fwd' \in [Sagas -> [Step -> SUBSET FwdStatuses]]
  BY <1>6, <1>9
<1> QED BY <1>3, <1>5, <1>8, <1>10 DEF Crash

(* No fault is forgotten, and each step meets at most the faults it names. *)
FaultsGrow ==
    /\ faults' \in Faults
    /\ faults.crash <= faults'.crash /\ faults.refusal <= faults'.refusal
    /\ faults.back <= faults'.back /\ faults.mark <= faults'.mark

(* The count of faults stays typed and grows.                              *)
LEMMA FaultsCounted ==
    ASSUME faults \in Faults
    PROVE  /\ UNCHANGED faults => FaultsGrow
           /\ faults' = [faults EXCEPT !.refusal = @ + 1] => FaultsGrow
           /\ faults' = [faults EXCEPT !.back = @ + 1] =>
                FaultsGrow /\ faults'.back > faults.back
           /\ faults' = [faults EXCEPT !.mark = @ + 1] =>
                FaultsGrow /\ faults'.mark > faults.mark
           /\ faults' = [faults EXCEPT !.crash = @ + 1] =>
                FaultsGrow /\ faults'.crash > faults.crash
  BY DEF Faults, FaultsGrow

(* A run that becomes one with a legal position keeps the invariant, and   *)
(* with it the log.                                                        *)
LEMMA KeepsOnStep ==
    ASSUME SagaInv, NEW s \in Sagas, NEW p, NEW a, NEW d, NEW e, NEW w,
           Becomes(s, p, a, d, e, w), UNCHANGED retry,
           a \in {0} \cup Step, d \subseteq Step, p \in Busy => a \in Step,
           p \in {"back", "unmark"} => <<s, a>> \notin NoBackward,
           w # None => w[2] \in Step /\ retry[s] < MaxRetries
    PROVE  RunTyped' /\ \A u \in Sagas : OnStep(u)'
  BY DEF SagaInv, RunTyped, OnStep, Becomes

(* RunStep keeps the runs and the log well formed.                         *)
LEMMA RunStepKeeps ==
    ASSUME SagaInv, NEW s \in Sagas, RunStep(s)
    PROVE  SagaInv' /\ FaultsGrow
<1>1. /\ RunTyped /\ LogTyped /\ faults \in Faults /\ OnStep(s)
      /\ fwd \in [Sagas -> [Step -> SUBSET FwdStatuses]]
      /\ comp \in [Sagas -> [Step -> CompStatuses]] /\ retry \in [Sagas -> 0..MaxRetries]
  BY DEF SagaInv, LogTyped
<1>2. /\ run[s].at \in {0} \cup Step /\ run[s].done \subseteq Step
      /\ run[s].pc \in Busy => run[s].at \in Step
      /\ run[s].pc \in {"back", "unmark"} => <<s, run[s].at>> \notin NoBackward
      /\ run[s].row # None => run[s].row[2] \in Step /\ retry[s] < MaxRetries
  BY <1>1 DEF OnStep
<1>3. Step \subseteq Nat /\ 1 \in Step /\ MaxRetries \in Nat
  BY SagaAssumption DEF Step
<1>4. run[s].done # {} => Last(s) \in Step /\ Last(s) \in Nat
  BY <1>3, LastOfRun
<1>5. run[s].at \in Step => /\ Beyond(s) \in {0} \cup Step
                            /\ Onward(s) \in Busy => Beyond(s) \in Step
                            /\ Onward(s) \notin {"back", "unmark"}
  BY DEF Beyond, Onward, Busy, Step
<1> DEFINE Runs == RunTyped' /\ \A u \in Sagas : OnStep(u)'
<1> SUFFICES Runs /\ LogTyped' /\ FaultsGrow
  BY DEF SagaInv
<1>6. CASE Execute(s)
  <2>1. Becomes(s, "record", 1, {}, FALSE, None)
    BY <1>1, <1>4, <1>6, RunEffects
  <2>2. Runs
    BY <1>3, <1>6, <2>1 DEF Becomes, SagaInv, RunTyped, OnStep, Execute
  <2> QED BY <1>1, <1>6, <2>2, FaultsCounted DEF Execute, LogTyped
<1>7. CASE SkipCompleted(s)
  <2>1. Becomes(s, Onward(s), Beyond(s), run[s].done, run[s].error, run[s].row)
    BY <1>1, <1>4, <1>7, RunEffects
  <2>2. Runs
    BY <1>2, <1>5, <1>7, <2>1, KeepsOnStep DEF SkipCompleted, Busy
  <2> QED BY <1>1, <1>7, <2>2, FaultsCounted DEF SkipCompleted, LogTyped
<1>8. CASE RecordForward(s)
  <2>1. Becomes(s, "call", run[s].at, run[s].done, run[s].error, run[s].row)
    BY <1>1, <1>4, <1>8, RunEffects
  <2>2. Runs
    BY <1>2, <1>8, <2>1, KeepsOnStep DEF RecordForward, Busy
  <2> QED BY <1>1, <1>8, <2>2, FaultsCounted DEF RecordForward, LogTyped
<1>9. CASE ForwardDone(s)
  <2>1. Becomes(s, "mark", run[s].at, run[s].done, run[s].error, run[s].row)
    BY <1>1, <1>4, <1>9, RunEffects
  <2>2. Runs
    BY <1>2, <1>9, <2>1, KeepsOnStep DEF ForwardDone, Busy
  <2> QED BY <1>1, <1>9, <2>2, FaultsCounted DEF ForwardDone, LogTyped
<1>10. CASE Refused(s)
  <2>1. Becomes(s, "undo", run[s].at, run[s].done, TRUE, run[s].row)
    BY <1>1, <1>4, <1>10, RunEffects DEF Refused
  <2>2. Runs
    BY <1>2, <1>10, <2>1, KeepsOnStep DEF Refused, ForwardFailed, Busy
  <2>3. fwd' \in [Sagas -> [Step -> SUBSET FwdStatuses]]
    BY <1>10, LogEffects DEF Refused, FwdSet
  <2>4. FaultsGrow
    BY <1>1, <1>10, FaultsCounted DEF Refused
  <2> QED BY <1>1, <1>10, <2>2, <2>3, <2>4 DEF Refused, ForwardFailed, LogTyped,
        FaultsGrow
<1>11. CASE MarkCompleted(s)
  <2>1. Becomes(s, Onward(s), Beyond(s), run[s].done \cup {run[s].at}, run[s].error,
                run[s].row)
    BY <1>1, <1>4, <1>11, RunEffects
  <2>2. Runs
    BY <1>2, <1>5, <1>11, <2>1, KeepsOnStep DEF MarkCompleted, Busy
  <2>3. fwd' \in [Sagas -> [Step -> SUBSET FwdStatuses]]
    BY <1>11, LogEffects DEF FwdSet
  <2> QED BY <1>1, <1>11, <2>2, <2>3, FaultsCounted DEF MarkCompleted, LogTyped
<1>12. CASE MarkCompletedFails(s)
  <2>1. Becomes(s, Onward(s), Beyond(s), run[s].done \cup {run[s].at}, run[s].error,
                run[s].row)
    BY <1>1, <1>4, <1>12, RunEffects
  <2>2. Runs
    BY <1>2, <1>5, <1>12, <2>1, KeepsOnStep DEF MarkCompletedFails, Busy
  <2>3. fwd' \in [Sagas -> [Step -> SUBSET FwdStatuses]]
    BY <1>12, LogEffects DEF FwdSet
  <2>4. FaultsGrow
    BY <1>1, <1>12, FaultsCounted DEF MarkCompletedFails
  <2> QED BY <1>1, <1>12, <2>2, <2>3, <2>4 DEF MarkCompletedFails, LogTyped, FaultsGrow
<1>13. CASE SkipIrreversible(s)
  <2>1. Becomes(s, run[s].pc, run[s].at, run[s].done \ {Last(s)}, run[s].error,
                run[s].row)
    BY <1>1, <1>4, <1>13, RunEffects
  <2>2. Runs
    BY <1>2, <1>13, <2>1, KeepsOnStep, ZenonT(40) DEF SkipIrreversible, Busy
  <2> QED BY <1>1, <1>13, <2>2, FaultsCounted DEF SkipIrreversible, LogTyped
<1>14. CASE RecordCompensation(s)
  <2>1. Becomes(s, "back", Last(s), run[s].done, run[s].error, run[s].row)
    BY <1>1, <1>4, <1>14, RunEffects
  <2>2. Runs
    BY <1>2, <1>4, <1>14, <2>1, KeepsOnStep DEF RecordCompensation, Busy
  <2>3. comp' \in [Sagas -> [Step -> CompStatuses]]
    BY <1>14, LogEffects DEF CompSet
  <2> QED BY <1>1, <1>14, <2>2, <2>3, FaultsCounted DEF RecordCompensation, LogTyped
<1>15. CASE BackwardDone(s)
  <2>1. Becomes(s, "unmark", run[s].at, run[s].done, run[s].error, run[s].row)
    BY <1>1, <1>4, <1>15, RunEffects
  <2>2. Runs
    BY <1>2, <1>15, <2>1, KeepsOnStep DEF BackwardDone, Busy
  <2> QED BY <1>1, <1>15, <2>2, FaultsCounted DEF BackwardDone, LogTyped
<1>16. CASE MarkCompensated(s)
  <2>1. Becomes(s, "undo", run[s].at, run[s].done \ {run[s].at}, run[s].error,
                run[s].row)
    BY <1>1, <1>4, <1>16, RunEffects
  <2>2. Runs
    BY <1>2, <1>16, <2>1, KeepsOnStep DEF MarkCompensated, Busy
  <2>3. comp' \in [Sagas -> [Step -> CompStatuses]]
    BY <1>16, LogEffects DEF CompSet
  <2> QED BY <1>1, <1>16, <2>2, <2>3, FaultsCounted DEF MarkCompensated, LogTyped
<1>17. CASE NotUndone(s)
  <2>1. Becomes(s, "undo", run[s].at, run[s].done \ {run[s].at}, TRUE, run[s].row)
    BY <1>1, <1>4, <1>17, RunEffects DEF NotUndone
  <2>2. Runs
    BY <1>2, <1>17, <2>1, KeepsOnStep DEF NotUndone, BackwardFailed, Busy
  <2>3. comp' \in [Sagas -> [Step -> CompStatuses]]
    BY <1>17, LogEffects DEF CompSet, NotUndone
  <2>4. FaultsGrow
    BY <1>1, <1>17, FaultsCounted DEF NotUndone
  <2> QED BY <1>1, <1>17, <2>2, <2>3, <2>4 DEF NotUndone, BackwardFailed, LogTyped,
            FaultsGrow
<1>18. CASE Return(s)
  <2>1. Becomes(s, "idle", 0, {}, FALSE, None)
    BY <1>1, <1>4, <1>18, RunEffects
  <2>2. fwd' \in [Sagas -> [Step -> SUBSET FwdStatuses]]
        /\ comp' \in [Sagas -> [Step -> CompStatuses]]
    <3>1. CASE run[s].row = None \/ run[s].error
      BY <1>1, <1>18, <3>1 DEF Return
    <3>2. CASE ~(run[s].row = None \/ run[s].error)
      BY <1>1, <1>2, <1>18, <3>2, LogEffects DEF Return, FwdSet, CompSet
    <3> QED BY <3>1, <3>2
  <2>3. retry' \in [Sagas -> 0..MaxRetries] /\ \A u \in Sagas \ {s} : retry'[u] = retry[u]
    BY <1>1, <1>2, <1>3, <1>18 DEF Return
  <2>4. Runs
    BY <2>1, <2>3 DEF Becomes, SagaInv, RunTyped, OnStep, Busy
  <2> QED BY <1>1, <1>18, <2>2, <2>3, <2>4, FaultsCounted DEF Return, LogTyped
<1> QED
  BY <1>6, <1>7, <1>8, <1>9, <1>10, <1>11, <1>12, <1>13, <1>14, <1>15, <1>16, <1>17,
     <1>18 DEF RunStep

(* A step of the recovery cron keeps the runs and the log well formed.     *)
LEMMA CronStepKeeps ==
    ASSUME SagaInv, NEW s \in Sagas, CronStep(s)
    PROVE  SagaInv' /\ FaultsGrow
<1>1. /\ RunTyped /\ LogTyped /\ faults \in Faults
      /\ fwd \in [Sagas -> [Step -> SUBSET FwdStatuses]]
      /\ comp \in [Sagas -> [Step -> CompStatuses]] /\ retry \in [Sagas -> 0..MaxRetries]
  BY DEF SagaInv, LogTyped
<1>2. PICK row \in Stuck(s) : \/ Recover(s, row) \/ RecoverNothing(s, row)
                              \/ RecoverRefused(s, row) \/ MarkDeadLetter(s, row)
  BY DEF CronStep
<1>3. row[2] \in Step /\ 1 \in Step /\ MaxRetries \in Nat
  BY StuckRows, SagaAssumption DEF Step
<1>4. CASE Recover(s, row)
  <2>1. UNCHANGED <<fwd, comp, retry, faults>> /\ retry[s] < MaxRetries
    BY <1>4 DEF Recover
  <2>2. RunTyped' /\ \A u \in Sagas : OnStep(u)'
    <3>1. CASE Becomes(s, "undo", 0, {i \in Step : IsCompleted(s, i)}, FALSE, row)
      <4>1. {i \in Step : IsCompleted(s, i)} \subseteq Step
        OBVIOUS
      <4> QED BY <1>3, <2>1, <3>1, <4>1, KeepsOnStep DEF Busy
    <3>2. CASE Becomes(s, "record", 1, {}, FALSE, row)
      BY <1>3, <2>1, <3>2 DEF Becomes, SagaInv, RunTyped, OnStep
    <3> QED BY <1>4, <3>1, <3>2, RecoverEffect
  <2> QED BY <1>1, <2>1, <2>2, FaultsCounted DEF SagaInv, LogTyped
<1>5. CASE RecoverNothing(s, row)
  <2>1. fwd' \in [Sagas -> [Step -> SUBSET FwdStatuses]]
        /\ comp' \in [Sagas -> [Step -> CompStatuses]]
    BY <1>1, <1>3, <1>5, LogEffects DEF RecoverNothing, FwdSet, CompSet
  <2>2. UNCHANGED <<run, retry, faults>>
    BY <1>5 DEF RecoverNothing
  <2> QED BY <1>1, <2>1, <2>2, FaultsCounted DEF SagaInv, RunTyped, LogTyped, OnStep
<1>6. CASE RecoverRefused(s, row)
  <2>1. retry' \in [Sagas -> 0..MaxRetries] /\ \A u \in Sagas \ {s} : retry'[u] = retry[u]
    BY <1>1, <1>3, <1>6 DEF RecoverRefused
  <2>2. UNCHANGED <<run, fwd, comp, faults>> /\ run[s].row = None
    BY <1>6 DEF RecoverRefused, Recoverable
  <2> QED BY <1>1, <2>1, <2>2, FaultsCounted DEF SagaInv, RunTyped, LogTyped, OnStep
<1>7. CASE MarkDeadLetter(s, row)
  <2>1. fwd' \in [Sagas -> [Step -> SUBSET FwdStatuses]]
        /\ comp' \in [Sagas -> [Step -> CompStatuses]]
    BY <1>1, <1>3, <1>7, LogEffects DEF FwdSet, CompSet
  <2>2. UNCHANGED <<run, retry, faults>>
    BY <1>7 DEF MarkDeadLetter
  <2> QED BY <1>1, <2>1, <2>2, FaultsCounted DEF SagaInv, RunTyped, LogTyped, OnStep
<1> QED BY <1>2, <1>4, <1>5, <1>6, <1>7

(* Every step of the sagas keeps the runs and the log well formed.         *)
LEMMA SagaMoves ==
    ASSUME SagaInv, SagaMove
    PROVE  SagaInv' /\ FaultsGrow
<1>1. CASE Crash
  <2>1. FaultsGrow
    BY <1>1, CrashEffect, FaultsCounted DEF SagaInv, LogTyped
  <2>2. RunTyped' /\ LogTyped'
    BY <1>1, <2>1, CrashEffect DEF SagaInv, LogTyped, RunTyped, FaultsGrow
  <2>3. \A s \in Sagas : OnStep(s)'
    BY <1>1, CrashEffect DEF OnStep, Busy
  <2> QED BY <2>1, <2>2, <2>3 DEF SagaInv
<1>2. CASE UNCHANGED sagaVars
  <2>1. UNCHANGED <<run, fwd, comp, retry, faults>>
    BY <1>2 DEF sagaVars
  <2> QED BY <2>1, FaultsCounted DEF SagaInv, RunTyped, LogTyped, OnStep
<1>3. CASE Unsaved
  <2>1. UNCHANGED <<run, fwd, comp, retry>> /\ FaultsGrow
    BY <1>3, FaultsCounted DEF Unsaved, SagaInv, LogTyped
  <2> QED BY <2>1 DEF SagaInv, RunTyped, LogTyped, OnStep, FaultsGrow
<1> QED BY <1>1, <1>2, <1>3, RunStepKeeps, CronStepKeeps DEF SagaMove

-----------------------------------------------------------------------------
(* Type correctness *)

OrderRow == [status : {"none", "pending", "approved", "declined", "cancelled"},
             done : BOOLEAN, left : 0..Quantity, version : Nat]
Hold == [status : {"none", "active", "released", "settled"}, left : 0..Needed]
Fill == [qty : 0..Quantity, row : BOOLEAN, money : BOOLEAN, refund : BOOLEAN,
         shares : BOOLEAN]
Job == [pc : {"none", "loop", "wait", "fill", "failed", "save", "abort", "release"},
        seen : OrderRow, txn : Txns \cup {None}, failures : 0..MaxFailures]
Call == [pc : {"none", "update", "release"}, seen : OrderRow]

(* The engine is between reading the order and saving what became of the   *)
(* portion it took.                                                        *)
Filling == job.pc \in {"wait", "fill", "failed", "save", "abort"}

OrderTyped ==
    /\ direction \in {"buy", "sell"} /\ order \in OrderRow /\ planned \in Nat
    /\ hold \in Hold /\ fill \in [Txns -> Fill]
    /\ job \in Job /\ call \in [Callers -> Call]

(* The portion is no more than was left in the copy it was read from, and  *)
(* the engine gives up before its failures reach the limit.                *)
PortionFits ==
    /\ job.failures < MaxFailures
    /\ Filling => job.txn \in Txns /\ fill[job.txn].qty \in 1..job.seen.left
    /\ ~Filling => job.txn = None

TypeInv == SagaInv /\ OrderTyped /\ PortionFits /\ lost \subseteq Sagas

(* The sagas of a step of the system move as SagaMove says.                *)
LEMMA NextMoves ==
    ASSUME TypeInv, [Next]_vars
    PROVE  SagaMove
<1>1. Placement \in Sagas /\ Txns \subseteq Sagas
  BY OrderAssumption
<1>2. CASE CreateOrder
  BY <1>1, <1>2 DEF CreateOrder, SagaMove, RunStep
<1>3. ASSUME NEW s \in Sagas, SagaStep(s)
      PROVE  SagaMove
  <2>1. Forward(s) => RunStep(s)
    BY DEF Forward, RunStep
  <2>2. ForwardRefused(s) \/ ForwardLost(s) => RunStep(s)
    BY DEF ForwardRefused, ForwardLost, RunStep, Refused
  <2>3. Backward(s) => RunStep(s)
    BY DEF Backward, RunStep
  <2>4. BackwardRefused(s) => RunStep(s)
    BY DEF BackwardRefused, RunStep, NotUndone
  <2>5. ExecutorStep(s) => RunStep(s) \/ CronStep(s)
    BY DEF ExecutorStep, RunStep, CronStep
  <2>6. Returns(s) => RunStep(s)
    BY DEF Returns, RunStep
  <2> QED BY <1>3, <2>1, <2>2, <2>3, <2>4, <2>5, <2>6 DEF SagaStep, SagaMove
<1>4. CASE Reconcile
  <2>1. RecoverPlacement => CronStep(Placement)
    BY DEF RecoverPlacement, CronStep
  <2>2. \A t \in Txns : RecoverFill(t) \/ ReconcileMoney(t) \/ ReconcileShares(t) => CronStep(t)
    BY DEF RecoverFill, ReconcileMoney, ReconcileShares, CronStep
  <2> QED BY <1>1, <1>4, <2>1, <2>2 DEF Reconcile, SagaMove
<1>5. CASE Engine
  <2>1. ProcessFill => RunStep(job.txn) /\ job.txn \in Txns
    BY DEF ProcessFill, RunStep, TypeInv, PortionFits, Filling
  <2>2. ASSUME \/ StartOrderExecution \/ LoopReturns \/ FillPortion \/ FillFailed
               \/ SaveFill \/ AbortOrder \/ ReleaseResidualReservation
        PROVE  UNCHANGED sagaVars
    BY <2>2 DEF StartOrderExecution, LoopReturns, FillPortion, FillFailed, SaveFill,
          AbortOrder, ReleaseResidualReservation
  <2> QED BY <1>1, <1>5, <2>1, <2>2 DEF Engine, SagaMove
<1>6. (\E c \in Callers : Read(c)) \/ Supervise \/ CancelOrder \/ CancelRelease
        => UNCHANGED sagaVars
  BY DEF Read, Supervise, CancelOrder, CancelRelease
<1>7. ServiceCrash => Crash
  BY DEF ServiceCrash
<1>8. UNCHANGED vars => UNCHANGED sagaVars
  BY DEF vars
<1>9. SaveFails => Unsaved
  BY DEF SaveFails, Unsaved
<1> QED BY <1>2, <1>3, <1>4, <1>5, <1>6, <1>7, <1>8, <1>9 DEF Next, SagaMove

(* Saving a copy of the right type keeps the row typed.                    *)
LEMMA SavedTyped ==
    ASSUME NEW copy \in OrderRow
    PROVE  /\ Saved(copy) \in OrderRow
           /\ Saved(copy).status = copy.status /\ Saved(copy).done = copy.done
           /\ Saved(copy).left = copy.left /\ Saved(copy).version = copy.version + 1
  BY DEF Saved, OrderRow

(* The hold's operations keep it typed.                                    *)
LEMMA HoldTyped ==
    ASSUME hold \in Hold, direction \in {"buy", "sell"}, UNCHANGED direction
    PROVE  /\ ReleaseHold => hold' \in Hold'
           /\ Reserve => hold' \in Hold'
           /\ \A q \in Nat, b \in BOOLEAN :
                CanSettle(b, q) /\ SettleHold(b, q) => hold' \in Hold'
           /\ UNCHANGED hold => hold' \in Hold'
<1>1. Needed \in Nat /\ Needed' = Needed /\ Hold' = Hold
  BY OrderAssumption DEF Needed, Hold
<1>2. hold.left \in 0..Needed
  BY DEF Hold
<1>3. ReleaseHold => hold' \in Hold
  BY <1>1 DEF ReleaseHold, Hold
<1>4. Reserve => hold' \in Hold
  BY <1>1 DEF Reserve, Hold
<1>5. ASSUME NEW q \in Nat, NEW b \in BOOLEAN, CanSettle(b, q), SettleHold(b, q)
      PROVE  hold' \in Hold
  BY <1>1, <1>2, <1>5 DEF CanSettle, SettleHold, Hold
<1> QED BY <1>1, <1>3, <1>4, <1>5

(* PlacementForward and PlacementBackward keep the order typed.            *)
LEMMA PlacementTyped ==
    ASSUME OrderTyped, UNCHANGED direction, NEW i
    PROVE  (PlacementForward(i) /\ i \in Step) \/ (PlacementBackward(i) /\ i \in {1, 2}) =>
             order' \in OrderRow /\ hold' \in Hold' /\ UNCHANGED fill
<1>1. /\ order \in OrderRow /\ hold \in Hold /\ direction \in {"buy", "sell"}
      /\ Quantity \in Nat
  BY OrderAssumption DEF OrderTyped
<1>2. /\ NoRow \in OrderRow
      /\ [NoRow EXCEPT !.status = "pending", !.left = Quantity] \in OrderRow
      /\ [order EXCEPT !.status = "approved"] \in OrderRow
  <2>1. NoRow \in OrderRow
    BY <1>1 DEF NoRow, OrderRow
  <2>2. [NoRow EXCEPT !.status = "pending", !.left = Quantity] \in OrderRow
    <3>1. PICK q \in OrderRow : q = NoRow
      BY <2>1
    <3>2. PICK r : r = [q EXCEPT !.status = "pending", !.left = Quantity]
      OBVIOUS
    <3>3. Quantity \in 0..Quantity
      BY <1>1
    <3>4. r \in OrderRow
      BY <3>2, <3>3 DEF OrderRow
    <3> QED BY <3>1, <3>2, <3>4
  <2>3. [order EXCEPT !.status = "approved"] \in OrderRow
    BY <1>1 DEF OrderRow
  <2> QED BY <2>1, <2>2, <2>3
<1>3. Saved(order) \in OrderRow /\ Saved([order EXCEPT !.status = "approved"]) \in OrderRow
  BY <1>1, <1>2, SavedTyped
<1>4. ASSUME PlacementForward(i), i \in Step
      PROVE  order' \in OrderRow /\ hold' \in Hold' /\ UNCHANGED fill
  <2>1. CASE i = 1
    BY <1>1, <1>2, <1>4, <2>1, HoldTyped DEF PlacementForward, PersistOrder,
          ReserveStep,
          FinalizeStep
  <2>2. CASE i = 2
    BY <1>1, <1>4, <2>2, HoldTyped DEF PlacementForward, PersistOrder, ReserveStep,
          FinalizeStep
  <2>3. CASE i = 3
    BY <1>1, <1>3, <1>4, <2>3, HoldTyped DEF PlacementForward, PersistOrder,
          ReserveStep,
          FinalizeStep
  <2> QED BY <1>4, <2>1, <2>2, <2>3 DEF Step
<1>5. ASSUME PlacementBackward(i), i \in {1, 2}
      PROVE  order' \in OrderRow /\ hold' \in Hold' /\ UNCHANGED fill
  BY <1>1, <1>2, <1>5, HoldTyped DEF PlacementBackward, PersistOrder, ReserveStep
<1> QED BY <1>4, <1>5

(* FillForward and FillBackward, by the fields of the fill they leave.     *)
LEMMA FillEffects ==
    ASSUME OrderTyped, UNCHANGED direction, NEW t \in Txns
    PROVE  /\ \A i \in Step : CanFill(t, i) /\ FillForward(t, i) =>
                /\ fill' \in [Txns -> Fill] /\ hold' \in Hold' /\ UNCHANGED order
                /\ fill'[t].money = (fill[t].money \/ i = 2)
                /\ fill'[t].shares = (fill[t].shares \/ i = 3)
                /\ fill'[t].qty = fill[t].qty /\ fill'[t].refund = fill[t].refund
                /\ \A u \in Txns \ {t} : fill'[u] = fill[u]
           /\ FillBackward(t) =>
                /\ fill' \in [Txns -> Fill] /\ UNCHANGED <<hold, order>>
                /\ fill'[t].refund = TRUE /\ fill'[t].money = fill[t].money
                /\ fill'[t].shares = fill[t].shares /\ fill'[t].qty = fill[t].qty
                /\ \A u \in Txns \ {t} : fill'[u] = fill[u]
<1>1. /\ fill \in [Txns -> Fill] /\ fill[t] \in Fill /\ hold \in Hold
      /\ direction \in {"buy", "sell"} /\ fill[t].qty \in Nat
      /\ fill[t].money \in BOOLEAN /\ fill[t].shares \in BOOLEAN
  BY OrderAssumption DEF OrderTyped, Fill
<1>2. ASSUME NEW i \in Step, CanFill(t, i), FillForward(t, i)
      PROVE  /\ fill' \in [Txns -> Fill] /\ hold' \in Hold' /\ UNCHANGED order
             /\ fill'[t].money = (fill[t].money \/ i = 2)
             /\ fill'[t].shares = (fill[t].shares \/ i = 3)
             /\ fill'[t].qty = fill[t].qty /\ fill'[t].refund = fill[t].refund
             /\ \A u \in Txns \ {t} : fill'[u] = fill[u]
  <2>1. PICK m \in BOOLEAN, h \in BOOLEAN : m = (fill[t].money \/ i = 2)
                                            /\ h = (fill[t].shares \/ i = 3)
    OBVIOUS
  <2>2. fill' = [fill EXCEPT ![t].money = m, ![t].shares = h]
    BY <1>2, <2>1 DEF FillForward, MoneyStep, SharesStep
  <2>3. /\ fill' \in [Txns -> Fill] /\ fill'[t].money = m /\ fill'[t].shares = h
        /\ fill'[t].qty = fill[t].qty /\ fill'[t].refund = fill[t].refund
        /\ \A u \in Txns \ {t} : fill'[u] = fill[u]
    BY <1>1, <2>2 DEF Fill
  <2>4. hold' \in Hold'
    <3>1. CASE Consumes(i)
      <4>1. Applied(t, i) \in BOOLEAN
        BY <1>1 DEF Applied
      <4>2. CanSettle(Applied(t, i), fill[t].qty) /\ SettleHold(Applied(t, i), fill[t].qty)
        BY <1>2, <3>1 DEF CanFill, FillForward
      <4> QED BY <1>1, <4>1, <4>2, HoldTyped
    <3>2. CASE ~Consumes(i)
      BY <1>1, <1>2, <3>2, HoldTyped DEF FillForward
    <3> QED BY <3>1, <3>2
  <2> QED BY <1>2, <2>1, <2>3, <2>4 DEF FillForward
<1>3. ASSUME FillBackward(t)
      PROVE  /\ fill' \in [Txns -> Fill] /\ UNCHANGED <<hold, order>>
             /\ fill'[t].refund = TRUE /\ fill'[t].money = fill[t].money
             /\ fill'[t].shares = fill[t].shares /\ fill'[t].qty = fill[t].qty
             /\ \A u \in Txns \ {t} : fill'[u] = fill[u]
  BY <1>1, <1>3 DEF FillBackward, Fill
<1> QED BY <1>2, <1>3

(* Nothing of the order's, the engine's and the calls' own state changes.  *)
LEMMA OrderStays ==
    ASSUME OrderTyped, PortionFits, UNCHANGED <<orderVars, job, call>>
    PROVE  OrderTyped' /\ PortionFits'
<1>1. UNCHANGED <<direction, order, planned, hold, fill, job, call>>
  BY DEF orderVars
<1> QED BY <1>1 DEF OrderTyped, PortionFits, Filling, Hold, Needed

(* The steps of a saga keep the order typed.                               *)
LEMMA SagaStepTyped ==
    ASSUME TypeInv, NEW s \in Sagas, SagaStep(s)
    PROVE  OrderTyped' /\ PortionFits'
<1>1. /\ OrderTyped /\ PortionFits /\ OnStep(s)
      /\ order \in OrderRow /\ hold \in Hold /\ fill \in [Txns -> Fill] /\ job \in Job
  BY DEF TypeInv, SagaInv, OrderTyped
<1>2. s = Placement \/ s \in Txns
  BY OrderAssumption
<1>3. CASE Forward(s) \/ ForwardLost(s)
  <2>1. /\ UNCHANGED <<direction, planned, job, call>> /\ run[s].at \in Step
        /\ StepForward(s)
    BY <1>1, <1>3 DEF Forward, ForwardDone, ForwardLost, ForwardFailed, OnStep, Busy
  <2>2. CASE s = Placement
    <3>1. order' \in OrderRow /\ hold' \in Hold' /\ UNCHANGED fill
      BY <1>1, <2>1, <2>2, PlacementTyped DEF StepForward
    <3> QED BY <1>1, <2>1, <3>1 DEF OrderTyped, PortionFits, Filling
  <2>3. CASE s \in Txns
    <3>1. CanFill(s, run[s].at) /\ FillForward(s, run[s].at)
      BY <2>1, <2>3, OrderAssumption DEF StepForward, CanForward
    <3>2. /\ fill' \in [Txns -> Fill] /\ hold' \in Hold' /\ UNCHANGED order
          /\ \A u \in Txns : fill'[u].qty = fill[u].qty
      BY <1>1, <2>1, <2>3, <3>1, FillEffects
    <3> QED BY <1>1, <2>1, <3>2 DEF OrderTyped, PortionFits, Filling
  <2> QED BY <1>2, <2>2, <2>3
<1>4. CASE Backward(s)
  <2>1. /\ UNCHANGED <<direction, planned, job, call>> /\ run[s].at \in Step
        /\ <<s, run[s].at>> \notin NoBackward
    BY <1>1, <1>4 DEF Backward, BackwardDone, OnStep, Busy
  <2>2. CASE s = Placement
    <3>1. run[s].at \in {1, 2}
      BY <2>1, <2>2, Irreversible DEF Step
    <3>2. order' \in OrderRow /\ hold' \in Hold' /\ UNCHANGED fill
      BY <1>1, <1>4, <2>1, <2>2, <3>1, PlacementTyped DEF Backward
    <3> QED BY <1>1, <2>1, <3>2 DEF OrderTyped, PortionFits, Filling
  <2>3. CASE s \in Txns
    <3>1. FillBackward(s)
      BY <1>4, <2>3, OrderAssumption DEF Backward
    <3>2. /\ fill' \in [Txns -> Fill] /\ UNCHANGED <<hold, order>>
          /\ \A u \in Txns : fill'[u].qty = fill[u].qty
      BY <1>1, <2>1, <2>3, <3>1, FillEffects
    <3> QED BY <1>1, <2>1, <3>2 DEF OrderTyped, PortionFits, Filling, Hold, Needed
  <2> QED BY <1>2, <2>2, <2>3
<1>5. CASE ForwardRefused(s) \/ BackwardRefused(s) \/ ExecutorStep(s)
  BY <1>1, <1>5, OrderStays DEF ForwardRefused, BackwardRefused, ExecutorStep
<1>6. CASE Returns(s)
  <2>1. UNCHANGED <<direction, order, planned, hold, fill, call, lost>>
    BY <1>6 DEF Returns, orderVars
  <2>2. CASE UNCHANGED job
    BY <1>1, <2>1, <2>2, OrderStays DEF orderVars
  <2>3. ASSUME NEW p \in {"failed", "save"}, job.txn = s, run[s].row = None,
               job' = [job EXCEPT !.pc = p]
        PROVE  OrderTyped' /\ PortionFits'
    <3>1. /\ job' \in Job /\ job'.pc = p /\ job'.txn = job.txn /\ job'.seen = job.seen
          /\ job'.failures = job.failures
      BY <1>1, <2>3 DEF Job
    <3>2. Filling
      BY <1>1, <2>3, OrderAssumption DEF PortionFits
    <3> QED BY <1>1, <2>1, <3>1, <3>2 DEF OrderTyped, PortionFits, Filling, Hold, Needed
  <2> QED BY <1>6, <2>2, <2>3 DEF Returns
<1> QED BY <1>3, <1>4, <1>5, <1>6 DEF SagaStep

(* The records without content, and a copy read from the row, are typed.   *)
LEMMA EmptyTyped ==
    /\ NoRow \in OrderRow /\ NoFill \in Fill /\ NoJob \in Job /\ NoCall \in Call
    /\ NoJob.pc = "none" /\ NoJob.txn = None /\ NoJob.failures = 0
    /\ NoCall.pc = "none"
<1>1. Quantity \in Nat /\ MaxFailures \in Nat /\ 0 \in 0..Quantity /\ 0 \in 0..MaxFailures
  BY OrderAssumption
<1>2. NoRow \in OrderRow
  BY <1>1 DEF NoRow, OrderRow
<1>3. NoFill \in Fill
  BY <1>1 DEF NoFill, Fill
<1>4. NoJob \in Job /\ NoJob.pc = "none" /\ NoJob.txn = None /\ NoJob.failures = 0
  BY <1>1, <1>2 DEF NoJob, Job
<1>5. NoCall \in Call /\ NoCall.pc = "none"
  BY <1>2 DEF NoCall, Call
<1> QED BY <1>2, <1>3, <1>4, <1>5

(* The job starts over with nothing but its position and its failures.     *)
Restarts(p, n) ==
    /\ job' \in Job /\ job'.pc = p /\ job'.txn = None /\ job'.failures = n

(* The job a step of the engine starts or ends with.                       *)
LEMMA JobRestarts ==
    /\ \A p \in {"loop", "release"} : job' = [NoJob EXCEPT !.pc = p] => Restarts(p, 0)
    /\ \A n \in 0..MaxFailures :
         job' = [NoJob EXCEPT !.pc = "loop", !.failures = n] => Restarts("loop", n)
    /\ job' = NoJob => Restarts("none", 0)
<1>1. PICK q \in Job : q = NoJob
  BY EmptyTyped
<1>2. q.pc = "none" /\ q.txn = None /\ q.failures = 0
  BY <1>1, EmptyTyped
<1>3. ASSUME NEW p \in {"loop", "release"}, job' = [NoJob EXCEPT !.pc = p]
      PROVE  Restarts(p, 0)
  <2>1. job' = [q EXCEPT !.pc = p]
    BY <1>1, <1>3
  <2> QED BY <1>2, <2>1 DEF Restarts, Job
<1>4. ASSUME NEW n \in 0..MaxFailures, job' = [NoJob EXCEPT !.pc = "loop", !.failures = n]
      PROVE  Restarts("loop", n)
  <2>1. job' = [q EXCEPT !.pc = "loop", !.failures = n]
    BY <1>1, <1>4
  <2> QED BY <1>2, <2>1 DEF Restarts, Job
<1>5. job' = NoJob => Restarts("none", 0)
  BY EmptyTyped DEF Restarts
<1> QED BY <1>3, <1>4, <1>5

(* The steps of the engine keep the order typed.                           *)
LEMMA EngineTyped ==
    ASSUME TypeInv, Engine
    PROVE  OrderTyped' /\ PortionFits'
<1>1. /\ OrderTyped /\ PortionFits /\ direction \in {"buy", "sell"} /\ planned \in Nat
      /\ order \in OrderRow /\ hold \in Hold /\ fill \in [Txns -> Fill] /\ job \in Job
      /\ call \in [Callers -> Call] /\ job.seen \in OrderRow /\ job.failures \in 0..MaxFailures
  BY DEF TypeInv, SagaInv, OrderTyped, Job
<1>2. MaxFailures \in Nat \ {0} /\ Quantity \in Nat
  BY OrderAssumption
<1>3. ASSUME NEW p, NEW n \in 0..MaxFailures, n < MaxFailures,
             p \in {"none", "loop", "release"}, Restarts(p, n)
      PROVE  PortionFits'
  BY <1>3 DEF Restarts, PortionFits, Filling
<1>4. \A d \in BOOLEAN : EndOfJob(d) => \E p \in {"none", "loop", "release"} : Restarts(p, 0)
  BY JobRestarts DEF EndOfJob
<1>5. ASSUME UNCHANGED <<direction, planned, order, hold, call>>, fill' \in [Txns -> Fill],
             job' \in Job
      PROVE  OrderTyped'
  BY <1>1, <1>5 DEF OrderTyped, Hold, Needed
<1>6. CASE StartOrderExecution
  <2>1. Restarts("loop", 0) /\ UNCHANGED <<direction, planned, order, hold, call, fill>>
    BY <1>6, JobRestarts DEF StartOrderExecution, orderVars
  <2>2. PortionFits'
    BY <1>2, <1>3, <2>1
  <2> QED BY <1>1, <1>5, <2>1, <2>2 DEF Restarts
<1>7. CASE LoopReturns
  <2>1. Restarts("none", 0) /\ UNCHANGED <<direction, planned, order, hold, call, fill>>
    BY <1>7, JobRestarts DEF LoopReturns, orderVars
  <2>2. PortionFits'
    BY <1>2, <1>3, <2>1
  <2> QED BY <1>1, <1>5, <2>1, <2>2 DEF Restarts
<1>8. CASE FillPortion
  <2>1. PICK q \in 1..order.left :
           LET t == CHOOSE u \in Txns : fill[u].qty = 0 IN
           /\ fill' = [fill EXCEPT ![t].qty = q, ![t].row = TRUE]
           /\ job' = [job EXCEPT !.pc = "wait", !.seen = order, !.txn = t]
    BY <1>8 DEF FillPortion
  <2>2. PICK t : t = CHOOSE u \in Txns : fill[u].qty = 0
    OBVIOUS
  <2>3. t \in Txns /\ fill[t].qty = 0
    BY <1>8, <2>2 DEF FillPortion
  <2>4. fill' = [fill EXCEPT ![t].qty = q, ![t].row = TRUE]
        /\ job' = [job EXCEPT !.pc = "wait", !.seen = order, !.txn = t]
    BY <2>1, <2>2
  <2>5. order.left \in 0..Quantity /\ q \in 0..Quantity
    BY <1>1, <1>2 DEF OrderRow
  <2>6. fill' \in [Txns -> Fill] /\ fill'[t].qty = q
    BY <1>1, <2>3, <2>4, <2>5 DEF Fill
  <2>7. job' \in Job /\ job'.pc = "wait" /\ job'.seen = order /\ job'.txn = t
        /\ job'.failures = job.failures
    BY <1>1, <2>3, <2>4 DEF Job
  <2>8. PortionFits'
    BY <1>1, <2>3, <2>6, <2>7 DEF PortionFits, Filling
  <2> QED BY <1>5, <1>8, <2>6, <2>7, <2>8 DEF FillPortion
<1>9. CASE ProcessFill
  <2>1. job' \in Job /\ job'.pc = "fill" /\ job'.seen = job.seen /\ job'.txn = job.txn
        /\ job'.failures = job.failures
    BY <1>1, <1>9 DEF ProcessFill, Job
  <2>2. UNCHANGED <<direction, planned, order, hold, call, fill>>
    BY <1>9 DEF ProcessFill, orderVars
  <2>3. PortionFits'
    BY <1>1, <1>9, <2>1, <2>2 DEF ProcessFill, PortionFits, Filling
  <2> QED BY <1>1, <1>5, <2>1, <2>2, <2>3
<1>10. CASE FillFailed
  <2>1. job.txn \in Txns /\ UNCHANGED <<direction, planned, order, hold, call>>
    BY <1>1, <1>10 DEF FillFailed, PortionFits, Filling
  <2>2. fill' \in [Txns -> Fill] /\ \A u \in Txns : fill'[u].qty = fill[u].qty
    BY <1>1, <1>10, <2>1 DEF FillFailed, Fill
  <2>3. CASE job.failures + 1 >= MaxFailures
    <3>1. job' \in Job /\ job'.pc = "abort" /\ job'.seen = job.seen /\ job'.txn = job.txn
          /\ job'.failures = job.failures
      BY <1>1, <1>10, <2>3 DEF FillFailed, Job
    <3>2. PortionFits'
      BY <1>1, <1>10, <2>1, <2>2, <3>1 DEF FillFailed, PortionFits, Filling
    <3> QED BY <1>5, <2>1, <2>2, <3>1, <3>2
  <2>4. CASE ~(job.failures + 1 >= MaxFailures)
    <3>1. job.failures + 1 \in 0..MaxFailures /\ job.failures + 1 < MaxFailures
      BY <1>1, <1>2, <2>4
    <3>2. Restarts("loop", job.failures + 1)
      BY <1>10, <2>4, <3>1, JobRestarts DEF FillFailed
    <3>3. PortionFits'
      BY <1>3, <3>1, <3>2
    <3> QED BY <1>5, <2>1, <2>2, <3>2, <3>3 DEF Restarts
  <2> QED BY <2>3, <2>4
<1>11. CASE SaveFill
  <2>1. PICK l : l = job.seen.left - fill[job.txn].qty
    OBVIOUS
  <2>2. l \in 0..Quantity
    BY <1>1, <1>2, <1>11, <2>1 DEF SaveFill, PortionFits, Filling, OrderRow
  <2>3. PICK c : c = [job.seen EXCEPT !.left = l, !.done = (l = 0)]
    OBVIOUS
  <2>4. c \in OrderRow
    BY <1>1, <2>2, <2>3 DEF OrderRow
  <2>5. Update(c) /\ EndOfJob(l = 0) /\ UNCHANGED <<direction, planned, hold, fill, call>>
    BY <1>11, <2>1, <2>3 DEF SaveFill
  <2>6. order' \in OrderRow
    BY <1>1, <2>4, <2>5, SavedTyped DEF Update
  <2>7. PICK p \in {"none", "loop", "release"} : Restarts(p, 0)
    BY <1>4, <2>5
  <2>8. PortionFits'
    BY <1>2, <1>3, <2>7
  <2> QED BY <1>1, <2>5, <2>6, <2>7, <2>8 DEF OrderTyped, Restarts, Hold, Needed
<1>12. CASE AbortOrder
  <2>1. PICK c : c = [job.seen EXCEPT !.done = TRUE, !.status = "cancelled"]
    OBVIOUS
  <2>2. c \in OrderRow
    BY <1>1, <2>1 DEF OrderRow
  <2>3. Update(c) /\ EndOfJob(TRUE) /\ UNCHANGED <<direction, planned, hold, fill, call>>
    BY <1>12, <2>1 DEF AbortOrder
  <2>4. order' \in OrderRow
    BY <1>1, <2>2, <2>3, SavedTyped DEF Update
  <2>5. PICK p \in {"none", "loop", "release"} : Restarts(p, 0)
    BY <1>4, <2>3
  <2>6. PortionFits'
    BY <1>2, <1>3, <2>5
  <2> QED BY <1>1, <2>3, <2>4, <2>5, <2>6 DEF OrderTyped, Restarts, Hold, Needed
<1>13. CASE ReleaseResidualReservation
  <2>1. Restarts("none", 0) /\ UNCHANGED <<direction, planned, order, fill, call>>
    BY <1>13, JobRestarts DEF ReleaseResidualReservation
  <2>2. hold' \in Hold'
    BY <1>1, <1>13, HoldTyped DEF ReleaseResidualReservation
  <2>3. PortionFits'
    BY <1>2, <1>3, <2>1
  <2> QED BY <1>1, <2>1, <2>2, <2>3 DEF OrderTyped, Restarts
<1> QED
  BY <1>6, <1>7, <1>8, <1>9, <1>10, <1>11, <1>12, <1>13 DEF Engine

(* The calls that read and save the order, and a crash, keep it typed.     *)
LEMMA CallsTyped ==
    ASSUME TypeInv,
           \/ \E c \in Callers : Read(c)
           \/ Supervise \/ CancelOrder \/ CancelRelease \/ ServiceCrash
    PROVE  OrderTyped' /\ PortionFits'
<1>1. /\ OrderTyped /\ PortionFits /\ direction \in {"buy", "sell"} /\ planned \in Nat
      /\ order \in OrderRow /\ hold \in Hold /\ fill \in [Txns -> Fill] /\ job \in Job
      /\ call \in [Callers -> Call] /\ \A c \in Callers : call[c].seen \in OrderRow
  BY DEF TypeInv, SagaInv, OrderTyped, Call
<1>2. Callers = {"supervisor", "owner"}
  BY DEF Callers
<1>3. ASSUME NEW c \in Callers, Read(c)
      PROVE  OrderTyped' /\ PortionFits'
  <2>1. UNCHANGED <<direction, order, planned, hold, fill, job>>
    BY <1>3 DEF Read, orderVars
  <2>2. [pc |-> "update", seen |-> order] \in Call
    BY <1>1 DEF Call
  <2>3. call' \in [Callers -> Call]
    BY <1>1, <1>3, <2>2 DEF Read
  <2> QED BY <1>1, <2>1, <2>3 DEF OrderTyped, PortionFits, Filling, Hold, Needed
<1>4. CASE Supervise
  <2>1. PICK v \in {"approved", "declined"} :
          Update([call["supervisor"].seen EXCEPT !.status = v])
    BY <1>4 DEF Supervise
  <2>2. PICK c : c = [call["supervisor"].seen EXCEPT !.status = v]
    OBVIOUS
  <2>3. c \in OrderRow
    BY <1>1, <1>2, <2>2 DEF OrderRow
  <2>4. order' \in OrderRow
    BY <1>1, <2>1, <2>2, <2>3, SavedTyped DEF Update
  <2>5. call' \in [Callers -> Call] /\ UNCHANGED <<direction, planned, hold, fill, job>>
    BY <1>1, <1>2, <1>4, EmptyTyped DEF Supervise
  <2> QED BY <1>1, <2>4, <2>5 DEF OrderTyped, PortionFits, Filling, Hold, Needed
<1>5. CASE CancelOrder
  <2>1. PICK c : c = [call["owner"].seen EXCEPT !.status = "cancelled", !.done = TRUE]
    OBVIOUS
  <2>2. c \in OrderRow
    BY <1>1, <1>2, <2>1 DEF OrderRow
  <2>3. order' \in OrderRow
    BY <1>1, <1>5, <2>1, <2>2, SavedTyped DEF Update, CancelOrder
  <2>4. call["owner"] \in Call /\ [call["owner"] EXCEPT !.pc = "release"] \in Call
    BY <1>1, <1>2 DEF Call
  <2>5. call' \in [Callers -> Call] /\ UNCHANGED <<direction, planned, hold, fill, job>>
    BY <1>1, <1>2, <1>5, <2>4, EmptyTyped DEF CancelOrder
  <2> QED BY <1>1, <2>3, <2>5 DEF OrderTyped, PortionFits, Filling, Hold, Needed
<1>6. CASE CancelRelease
  <2>1. hold' \in Hold'
    BY <1>1, <1>6, HoldTyped DEF CancelRelease
  <2>2. call' \in [Callers -> Call] /\ UNCHANGED <<direction, planned, order, fill, job>>
    BY <1>1, <1>2, <1>6, EmptyTyped DEF CancelRelease
  <2> QED BY <1>1, <2>1, <2>2 DEF OrderTyped, PortionFits, Filling
<1>7. CASE ServiceCrash
  <2>1. Restarts("none", 0) /\ UNCHANGED <<direction, planned, order, hold, fill>>
    BY <1>7, JobRestarts DEF ServiceCrash, orderVars
  <2>2. call' \in [Callers -> Call]
    BY <1>7, EmptyTyped DEF ServiceCrash
  <2> QED BY <1>1, <2>1, <2>2, OrderAssumption
          DEF OrderTyped, PortionFits, Filling, Hold, Needed, Restarts
<1> QED BY <1>3, <1>4, <1>5, <1>6, <1>7

(* A job whose save was lost ends as if it had been written.               *)
LEMMA SaveFailsTyped ==
    ASSUME TypeInv, SaveFails
    PROVE  OrderTyped' /\ PortionFits'
<1>1. OrderTyped /\ PortionFits /\ job \in Job
  BY DEF TypeInv, OrderTyped
<1>2. \E p \in {"none", "loop", "release"} : Restarts(p, 0)
  BY <1>1, JobRestarts DEF SaveFails, EndOfJob
<1>3. UNCHANGED <<direction, order, planned, hold, fill, call>>
  BY DEF SaveFails, orderVars
<1> QED
  BY <1>1, <1>2, <1>3, OrderAssumption DEF OrderTyped, PortionFits, Filling, Hold,
     Needed, Restarts

(* Answers are only lost, and only by ForwardLost.                         *)
LEMMA LostGrows ==
    ASSUME [Next]_vars
    PROVE  \/ UNCHANGED lost
           \/ \E s \in Sagas : ForwardLost(s) /\ lost' = lost \cup {s}
<1>1. ASSUME NEW s \in Sagas, SagaStep(s)
      PROVE  UNCHANGED lost \/ (ForwardLost(s) /\ lost' = lost \cup {s})
  BY <1>1 DEF SagaStep, Forward, ForwardRefused, ForwardLost, Backward, BackwardRefused,
     ExecutorStep, Returns, orderVars
<1>2. Engine => UNCHANGED lost
  BY DEF Engine, StartOrderExecution, LoopReturns, FillPortion, ProcessFill, FillFailed,
     SaveFill, AbortOrder, ReleaseResidualReservation, orderVars
<1>3. Reconcile => UNCHANGED lost
  BY DEF Reconcile, RecoverPlacement, RecoverFill, ReconcileMoney, ReconcileShares,
     orderVars
<1>4. CreateOrder \/ SaveFails \/ ServiceCrash \/ UNCHANGED vars => UNCHANGED lost
  BY DEF CreateOrder, SaveFails, ServiceCrash, orderVars, vars
<1>5. (\E c \in Callers : Read(c)) \/ Supervise \/ CancelOrder \/ CancelRelease
        => UNCHANGED lost
  BY DEF Read, Supervise, CancelOrder, CancelRelease, orderVars
<1> QED BY <1>1, <1>2, <1>3, <1>4, <1>5 DEF Next

(* The type invariant is inductive.                                        *)
LEMMA TypeStep ==
    ASSUME TypeInv, [Next]_vars
    PROVE  TypeInv' /\ FaultsGrow
<1>1. SagaInv' /\ FaultsGrow
  BY NextMoves, SagaMoves DEF TypeInv
<1>2. OrderTyped /\ PortionFits
  BY DEF TypeInv
<1>6. lost' \subseteq Sagas
  BY LostGrows DEF TypeInv
<1> SUFFICES OrderTyped' /\ PortionFits'
  BY <1>1, <1>6 DEF TypeInv
<1>3. CASE CreateOrder
  BY <1>2, <1>3, OrderStays DEF CreateOrder
<1>4. CASE Reconcile
  <2>1. CASE RecoverPlacement
    <3>1. planned' \in Nat
      BY <1>2, <2>1 DEF RecoverPlacement, OrderTyped, OrderRow
    <3> QED BY <1>2, <2>1, <3>1
            DEF RecoverPlacement, OrderTyped, PortionFits, Filling, Hold, Needed
  <2>2. ASSUME NEW t \in Txns, RecoverFill(t) \/ ReconcileMoney(t) \/ ReconcileShares(t)
        PROVE  OrderTyped' /\ PortionFits'
    BY <1>2, <2>2, OrderStays DEF RecoverFill, ReconcileMoney, ReconcileShares
  <2> QED BY <1>4, <2>1, <2>2 DEF Reconcile
<1>5. CASE UNCHANGED vars
  BY <1>2, <1>5, OrderStays DEF vars
<1> QED BY <1>3, <1>4, <1>5, SagaStepTyped, EngineTyped, CallsTyped, SaveFailsTyped
       DEF Next

(* The initial state is typed.                                             *)
LEMMA TypeInit == ASSUME Init PROVE TypeInv
<1>1. \A s \in Sagas : Steps(s) = Step
  BY ThreeSteps
<1>2. PICK r : r = Idle
  OBVIOUS
<1>3. /\ r \in Run /\ r.pc = "idle" /\ r.at = 0 /\ r.done = {} /\ r.error = FALSE
      /\ r.row = None
  BY <1>2 DEF Run, Pcs, Idle
<1>4. run = [s \in Sagas |-> r]
  BY <1>2 DEF Init, SagaInit
<1>5. run \in [Sagas -> Run] /\ \A s \in Sagas : run[s] = r
  BY <1>3, <1>4
<1>6. /\ fwd = [s \in Sagas |-> [i \in Step |-> {}]]
      /\ comp = [s \in Sagas |-> [i \in Step |-> "none"]]
  BY <1>1 DEF Init, SagaInit
<1>7. LogTyped
  BY <1>6, SagaAssumption DEF LogTyped, Init, SagaInit, NoFaults, Faults, FwdStatuses,
        CompStatuses
<1>8. SagaInv
  BY <1>3, <1>5, <1>7 DEF SagaInv, RunTyped, OnStep, Busy
<1>9. hold \in Hold
  BY OrderAssumption DEF Init, Hold, Needed
<1>10. fill \in [Txns -> Fill] /\ call \in [Callers -> Call]
  BY EmptyTyped DEF Init
<1>11. OrderTyped
  BY <1>9, <1>10, EmptyTyped DEF OrderTyped, Init
<1>12. PortionFits
  BY EmptyTyped, OrderAssumption DEF PortionFits, Filling, Init
<1> QED BY <1>8, <1>11, <1>12 DEF TypeInv, Init

(* The order, its hold, its fills and the log of its sagas are well formed *)
(* in every reachable state, after any number of crashes and recoveries:   *)
(* in particular a portion never takes the row below zero, and no retry    *)
(* count passes maxSagaRecoveryRetries.                                    *)
THEOREM TypeCorrect == Spec => []OrderTypeOK
<1>1. TypeInv => OrderTypeOK
  <2> SUFFICES ASSUME TypeInv PROVE OrderTypeOK
    OBVIOUS
  <2>1. SagaTypeOK
    <3>1. run \in [Sagas -> Run]
      BY DEF TypeInv, SagaInv, RunTyped
    <3>2. \A s \in Sagas : Steps(s) = Step
      BY ThreeSteps
    <3>3. \A s \in Sagas :
            /\ run[s].at \in {0} \cup Step /\ run[s].done \subseteq Step
            /\ fwd[s] \in [Step -> SUBSET FwdStatuses]
            /\ comp[s] \in [Step -> CompStatuses]
            /\ retry[s] \in 0..MaxRetries
      BY DEF TypeInv, SagaInv, LogTyped, OnStep
    <3> QED BY <3>1, <3>2, <3>3
            DEF SagaTypeOK, Run, Pcs, LogRow, FwdStatuses, CompStatuses
  <2>2. /\ direction \in {"buy", "sell"} /\ order \in OrderRow
        /\ hold \in Hold /\ fill \in [Txns -> Fill] /\ job \in Job
        /\ lost \subseteq Sagas
    BY DEF TypeInv, OrderTyped
  <2> QED BY <2>1, <2>2 DEF OrderTypeOK, OrderRow, Hold, Fill, Job
<1>2. TypeInv /\ [Next]_vars => TypeInv'
  BY TypeStep
<1> QED BY <1>1, <1>2, TypeInit, PTL DEF Spec

-----------------------------------------------------------------------------
(* A fill is whole *)

Going == {"record", "call", "mark"}

(* The money step of a fill is completed in the log before the shares move,*)
(* and is taken back only by a run that has not moved them.                *)
FillSound(t) ==
    /\ comp[t][1] = "none" /\ comp[t][3] = "none"
    /\ run[t].row # None => run[t].row[1] = "fwd" /\ run[t].row[2] = 1
    /\ run[t].pc \in Going \cup {"return"} => comp[t][2] = "none"
    /\ run[t].pc \in Going /\ run[t].at = 3 => IsCompleted(t, 2)
    /\ run[t].pc \in {"call", "mark"} /\ run[t].at = 2 => ~IsCompleted(t, 2)
    /\ run[t].pc = "mark" /\ run[t].at = 2 => fill[t].money
    /\ IsCompleted(t, 2) => fill[t].money
    /\ fill[t].refund => comp[t][2] # "none"
    /\ comp[t][2] # "none" => IsCompleted(t, 2)
    /\ run[t].pc \in {"back", "unmark"} => comp[t][2] # "none" /\ 2 \in run[t].done
    /\ fill[t].shares => comp[t][2] = "none" /\ IsCompleted(t, 2)
    /\ 2 \in run[t].done => IsCompleted(t, 2)
    /\ 2 \in run[t].done /\ fill[t].shares =>
          run[t].pc = "return" \/ (run[t].pc = "mark" /\ run[t].at = 3)

(* Without a crash or a failed reversal a run is the only one of its fill, *)
(* and leaves it with both legs or with neither, unless an answer was lost.*)
FillClean(t) ==
    /\ \A i \in Step : "pending" \notin fwd[t][i]
    /\ comp[t][2] = "compensating" => run[t].pc \in {"back", "unmark"}
    /\ run[t].pc \in Going => \A i \in Step : i >= run[t].at => ~IsCompleted(t, i)
    /\ run[t].pc \in {"record", "call"} /\ run[t].at # 3 => ~fill[t].money
    /\ run[t].pc = "mark" /\ run[t].at = 1 => ~fill[t].money
    /\ run[t].pc \in Going /\ run[t].at = 3 => 2 \in run[t].done
    /\ run[t].pc = "mark" /\ run[t].at = 3 => fill[t].shares
    /\ run[t].pc = "return" => fill[t].shares
    /\ run[t].pc = "undo" /\ fill[t].money => 2 \in run[t].done \/ fill[t].refund \/ t \in lost
    /\ run[t].pc = "unmark" => fill[t].refund
    /\ t \in lost => fwd[t][2] # {}
    /\ run[t].pc = "idle" /\ fill[t].money => fill[t].shares \/ fill[t].refund \/ t \in lost

Unbroken == faults.crash = 0 /\ faults.back = 0
FillInv == \A t \in Txns : FillSound(t) /\ (Unbroken => FillClean(t))

(* A step that leaves the run, the log and the legs of a fill alone keeps  *)
(* what is known of it.                                                    *)
LEMMA FillFrame ==
    ASSUME NEW t \in Txns, FillSound(t), Unbroken => FillClean(t), Unbroken' => Unbroken,
           t \in lost' <=> t \in lost,
           run'[t] = run[t], fwd'[t] = fwd[t], comp'[t] = comp[t],
           fill'[t].money = fill[t].money, fill'[t].refund = fill[t].refund,
           fill'[t].shares = fill[t].shares
    PROVE  FillSound(t)' /\ (Unbroken' => FillClean(t)')
  BY DEF FillSound, FillClean, IsCompleted

(* A step of one saga leaves the run and the log of every other one.       *)
LEMMA OtherSaga ==
    ASSUME SagaInv, NEW t \in Sagas, NEW s \in Sagas, s # t, RunStep(s) \/ CronStep(s)
    PROVE  run'[t] = run[t] /\ fwd'[t] = fwd[t] /\ comp'[t] = comp[t]
<1>1. RunTyped
  BY DEF SagaInv
<1>2. run[s].pc = "undo" /\ run[s].done # {} => Last(s) \in Nat
  BY LastOfRun DEF Step
<1>3. run'[t] = run[t]
  <2>1. CASE RunStep(s)
    BY <1>1, <1>2, <2>1, RunEffects DEF RunStep, Refused, NotUndone, Becomes
  <2>2. CASE CronStep(s)
    <3>1. PICK row \in Stuck(s) : \/ Recover(s, row) \/ RecoverNothing(s, row)
                                  \/ RecoverRefused(s, row) \/ MarkDeadLetter(s, row)
      BY <2>2 DEF CronStep
    <3>2. CASE Recover(s, row)
      BY <1>1, <3>2, RecoverEffect DEF Becomes
    <3> QED BY <3>1, <3>2 DEF RecoverNothing, RecoverRefused, MarkDeadLetter
  <2> QED BY <2>1, <2>2
<1>4. fwd'[t] = fwd[t] /\ comp'[t] = comp[t]
  <2>1. /\ fwd \in [Sagas -> [Step -> SUBSET FwdStatuses]]
        /\ comp \in [Sagas -> [Step -> CompStatuses]]
    BY <1>1 DEF SagaInv, LogTyped
  <2>2. ASSUME NEW row, Closed(s, row)
        PROVE  fwd'[t] = fwd[t] /\ comp'[t] = comp[t]
    BY <1>1, <2>1, <2>2 DEF Closed
  <2>3. CASE RunStep(s)
    <3>1. CASE Return(s)
      BY <2>2, <3>1 DEF Return
    <3> QED BY <1>1, <2>1, <2>3, <3>1
            DEF RunStep, Execute, SkipCompleted, RecordForward, ForwardDone, Refused,
                ForwardFailed, MarkCompleted, MarkCompletedFails, SkipIrreversible,
                RecordCompensation, BackwardDone, MarkCompensated, NotUndone,
                BackwardFailed
  <2>4. CASE CronStep(s)
    <3>1. PICK row \in Stuck(s) : \/ Recover(s, row) \/ RecoverNothing(s, row)
                                  \/ RecoverRefused(s, row) \/ MarkDeadLetter(s, row)
      BY <2>4 DEF CronStep
    <3>2. CASE MarkDeadLetter(s, row)
      BY <1>1, <2>1, <3>2 DEF MarkDeadLetter
    <3> QED BY <2>2, <3>1, <3>2 DEF Recover, RecoverNothing, RecoverRefused
  <2> QED BY <2>3, <2>4
<1> QED BY <1>3, <1>4

(* Only what works on a fill touches its run, its log or its legs.         *)
LEMMA FillOwnSteps ==
    ASSUME TypeInv, Next, NEW t \in Txns,
           ~SagaStep(t), ~RecoverFill(t), ~ReconcileMoney(t), ~ReconcileShares(t),
           ~(ProcessFill /\ job.txn = t), ~ServiceCrash
    PROVE  /\ run'[t] = run[t] /\ fwd'[t] = fwd[t] /\ comp'[t] = comp[t]
           /\ fill'[t].money = fill[t].money /\ fill'[t].refund = fill[t].refund
           /\ fill'[t].shares = fill[t].shares
<1>1. /\ SagaInv /\ OrderTyped /\ RunTyped /\ fill \in [Txns -> Fill]
      /\ t \in Sagas /\ Placement \in Sagas /\ t # Placement
      /\ Txns \subseteq Sagas /\ PortionFits
  BY OrderAssumption DEF TypeInv, SagaInv, OrderTyped
<1>3. \A s \in Sagas \ {t} : RunStep(s) \/ CronStep(s) =>
        run'[t] = run[t] /\ fwd'[t] = fwd[t] /\ comp'[t] = comp[t]
  BY <1>1, OtherSaga
<1> DEFINE Same == run'[t] = run[t] /\ fwd'[t] = fwd[t] /\ comp'[t] = comp[t]
           Legs == /\ fill'[t].money = fill[t].money /\ fill'[t].refund = fill[t].refund
                   /\ fill'[t].shares = fill[t].shares
<1> SUFFICES Same /\ Legs
  OBVIOUS
<1>4. CASE CreateOrder
  BY <1>1, <1>3, <1>4 DEF CreateOrder, RunStep, orderVars
<1>5. ASSUME NEW s \in Sagas, s # t, SagaStep(s)
      PROVE  Same /\ Legs
  <2>1. Same
    <3>1. SagaStep(s) => RunStep(s) \/ CronStep(s)
      BY DEF SagaStep, Forward, ForwardRefused, ForwardLost, Backward,
             BackwardRefused, ExecutorStep, Returns, RunStep, CronStep, Refused, NotUndone
    <3> QED BY <1>3, <1>5, <3>1
  <2>2. Legs
    <3>1. CASE Forward(s) \/ ForwardLost(s)
      <4>1. run[s].at \in Step /\ UNCHANGED direction /\ StepForward(s)
        BY <1>1, <3>1 DEF Forward, ForwardDone, ForwardLost, ForwardFailed, SagaInv,
           OnStep, Busy
      <4>2. CASE s = Placement
        BY <1>1, <4>1, <4>2, PlacementTyped DEF StepForward
      <4>3. CASE s \in Txns
        <5>1. CanFill(s, run[s].at) /\ FillForward(s, run[s].at)
          BY <4>1, <4>3, OrderAssumption DEF StepForward, CanForward
        <5>2. \A u \in Txns \ {s} : fill'[u] = fill[u]
          BY <1>1, <4>1, <4>3, <5>1, FillEffects
        <5> QED BY <1>5, <5>2
      <4> QED BY <4>2, <4>3, OrderAssumption
    <3>2. CASE Backward(s)
      <4>1. /\ run[s].at \in Step /\ <<s, run[s].at>> \notin NoBackward
            /\ UNCHANGED direction
        BY <1>1, <3>2 DEF Backward, BackwardDone, SagaInv, OnStep, Busy
      <4>2. CASE s = Placement
        <5>1. run[s].at \in {1, 2}
          BY <4>1, <4>2, Irreversible DEF Step
        <5> QED BY <1>1, <3>2, <4>1, <4>2, <5>1, PlacementTyped DEF Backward
      <4>3. CASE s \in Txns
        <5>1. FillBackward(s)
          BY <3>2, <4>3, OrderAssumption DEF Backward
        <5>2. \A u \in Txns \ {s} : fill'[u] = fill[u]
          BY <1>1, <4>1, <4>3, <5>1, FillEffects
        <5> QED BY <1>5, <5>2
      <4> QED BY <4>2, <4>3, OrderAssumption
    <3> QED BY <1>5, <3>1, <3>2 DEF SagaStep, ForwardRefused, BackwardRefused,
            ExecutorStep, Returns, orderVars
  <2> QED BY <2>1, <2>2
<1>6. CASE Reconcile
  <2>1. CASE RecoverPlacement
    <3>1. CronStep(Placement)
      BY <2>1 DEF RecoverPlacement, CronStep
    <3> QED BY <1>1, <1>3, <2>1, <3>1 DEF RecoverPlacement
  <2>2. ASSUME NEW u \in Txns, u # t,
               RecoverFill(u) \/ ReconcileMoney(u) \/ ReconcileShares(u)
        PROVE  Same /\ Legs
    <3>1. CronStep(u)
      BY <2>2 DEF RecoverFill, ReconcileMoney, ReconcileShares, CronStep
    <3> QED BY <1>1, <1>3, <2>2, <3>1
            DEF RecoverFill, ReconcileMoney, ReconcileShares, orderVars
  <2> QED BY <1>6, <2>1, <2>2 DEF Reconcile
<1>7. CASE Engine
  <2>1. CASE ProcessFill
    <3>1. RunStep(job.txn) /\ job.txn \in Txns /\ job.txn # t
      BY <1>1, <2>1 DEF ProcessFill, RunStep, PortionFits, Filling
    <3> QED BY <1>1, <1>3, <2>1, <3>1 DEF ProcessFill, orderVars
  <2>2. CASE FillPortion
    <3>1. PICK u, q : fill' = [fill EXCEPT ![u].qty = q, ![u].row = TRUE]
      BY <2>2 DEF FillPortion
    <3>2. Legs
      BY <1>1, <3>1 DEF Fill
    <3> QED BY <2>2, <3>2 DEF FillPortion, sagaVars
  <2>3. CASE FillFailed
    <3>1. Legs
      BY <1>1, <2>3 DEF FillFailed, Fill
    <3> QED BY <2>3, <3>1 DEF FillFailed, sagaVars
  <2>4. CASE StartOrderExecution \/ LoopReturns \/ SaveFill \/ AbortOrder
             \/ ReleaseResidualReservation
    BY <2>4 DEF StartOrderExecution, LoopReturns, SaveFill, AbortOrder,
          ReleaseResidualReservation, sagaVars, orderVars
  <2> QED BY <1>7, <2>1, <2>2, <2>3, <2>4 DEF Engine
<1>8. CASE (\E c \in Callers : Read(c)) \/ Supervise \/ CancelOrder \/ CancelRelease
  BY <1>8 DEF Read, Supervise, CancelOrder, CancelRelease, sagaVars, orderVars
<1>9. CASE SaveFails
  BY <1>9 DEF SaveFails, orderVars
<1> QED BY <1>4, <1>5, <1>6, <1>7, <1>8, <1>9 DEF Next

(* The steps of the executor keep a fill sound, and clean where nothing    *)
(* broke it.  No write of the log is lost.                                 *)
LEMMA FillRunSteps ==
    ASSUME TypeInv, NEW t \in Txns, FillSound(t), Unbroken => FillClean(t),
           Unbroken' => Unbroken, faults'.mark = 0,
           SagaStep(t) \/ (ProcessFill /\ job.txn = t)
    PROVE  FillSound(t)' /\ (Unbroken' => FillClean(t)')
<1>1. /\ SagaInv /\ OrderTyped /\ RunTyped /\ LogTyped /\ OnStep(t) /\ fill \in [Txns -> Fill]
      /\ t \in Sagas /\ t # Placement /\ fill[t] \in Fill /\ faults.mark \in Nat
  BY OrderAssumption DEF TypeInv, SagaInv, OrderTyped, LogTyped, Faults
<1>2. /\ run[t].done \subseteq Step /\ (run[t].pc \in Busy => run[t].at \in Step)
      /\ run[t].pc \in {"back", "unmark"} => run[t].at = 2
      /\ \A i \in Step : i = 1 \/ i = 2 \/ i = 3
      /\ 1 \in Step /\ 2 \in Step /\ 3 \in Step
  <2>1. /\ \A i \in Step : i = 1 \/ i = 2 \/ i = 3
        /\ 1 \in Step /\ 2 \in Step /\ 3 \in Step
    BY DEF Step
  <2>2. run[t].done \subseteq Step /\ (run[t].pc \in Busy => run[t].at \in Step)
    BY <1>1 DEF OnStep
  <2>3. run[t].pc \in {"back", "unmark"} => run[t].at = 2
    BY <1>1, <2>2, Irreversible DEF OnStep, Busy
  <2> QED BY <2>1, <2>2, <2>3
<1>3. run[t].pc = "undo" /\ run[t].done # {} => /\ Last(t) \in Nat /\ Last(t) \in Step
                                               /\ Last(t) \in run[t].done
  BY <1>1, <1>2, LastOfRun
<1>4. /\ fill[t].money \in BOOLEAN /\ fill[t].refund \in BOOLEAN /\ fill[t].shares \in BOOLEAN
  BY <1>1 DEF Fill
<1> DEFINE Goal == FillSound(t)' /\ (Unbroken' => FillClean(t)')
           Legs == /\ fill'[t].money = fill[t].money /\ fill'[t].refund = fill[t].refund
                   /\ fill'[t].shares = fill[t].shares /\ lost' = lost
           Log == fwd'[t] = fwd[t] /\ comp'[t] = comp[t]
<1> SUFFICES Goal
  OBVIOUS
<1>5. CASE ProcessFill /\ job.txn = t
  <2>1. Execute(t)
    BY <1>5 DEF ProcessFill
  <2>2. run'[t].pc = "record" /\ run'[t].at = 1 /\ run'[t].done = {} /\ run'[t].row = None
    BY <1>1, <1>3, <2>1, RunEffects DEF Becomes
  <2>3. Log /\ Legs
    BY <1>5, <2>1 DEF ProcessFill, Execute, orderVars
  <2>4. \A i \in Step : ~IsCompleted(t, i)
    BY <1>1, <2>1, ThreeSteps DEF Execute, Started, IsCompleted
  <2>5. run[t].pc = "idle" /\ (\A i \in Step : fwd[t][i] = {})
    BY <1>1, <2>1, ThreeSteps DEF Execute, Started
  <2>6. FillSound(t)'
    BY <1>2, <2>2, <2>3, <2>4 DEF FillSound, IsCompleted, Going
  <2>7. Unbroken' => FillClean(t)'
    BY <1>2, <2>2, <2>3, <2>4, <2>5, <2>6 DEF FillSound, FillClean, IsCompleted, Going
  <2> QED BY <2>6, <2>7
<1>6. CASE SkipCompleted(t) /\ UNCHANGED <<orderVars, job, call>>
  <2>1. /\ run'[t].pc = Onward(t) /\ run'[t].at = Beyond(t) /\ run'[t].done = run[t].done
        /\ run'[t].row = run[t].row
    BY <1>1, <1>3, <1>6, RunEffects DEF Becomes
  <2>2. /\ Log /\ Legs /\ run[t].pc = "record" /\ IsCompleted(t, run[t].at)
        /\ run[t].at \in Step
    BY <1>2, <1>6 DEF SkipCompleted, orderVars, Busy
  <2>3. FillSound(t)'
    <3>1. CASE run[t].at = 1
      BY <2>1, <2>2, <3>1 DEF FillSound, IsCompleted, Going, Onward, Beyond
    <3>2. CASE run[t].at = 2
      BY <2>1, <2>2, <3>2 DEF FillSound, IsCompleted, Going, Onward, Beyond
    <3>3. CASE run[t].at = 3
      BY <2>1, <2>2, <3>3 DEF FillSound, IsCompleted, Going, Onward, Beyond
    <3> QED BY <1>2, <2>2, <3>1, <3>2, <3>3
  <2>4. ~Unbroken'
    BY <2>2 DEF FillClean, Going, Step
  <2> QED BY <2>3, <2>4
<1>7. CASE RecordForward(t) /\ UNCHANGED <<orderVars, job, call>>
  <2>1. /\ run'[t].pc = "call" /\ run'[t].at = run[t].at /\ run'[t].done = run[t].done
        /\ run'[t].row = run[t].row
    BY <1>1, <1>3, <1>7, RunEffects DEF Becomes
  <2>2. /\ Log /\ Legs /\ run[t].pc = "record" /\ ~IsCompleted(t, run[t].at)
        /\ run[t].at \in Step
    BY <1>2, <1>7 DEF RecordForward, orderVars, Busy
  <2>3. FillSound(t)'
    BY <1>2, <2>1, <2>2 DEF FillSound, IsCompleted, Going
  <2>4. Unbroken' => FillClean(t)'
    BY <1>2, <2>1, <2>2 DEF FillClean, IsCompleted, Going
  <2> QED BY <2>3, <2>4
<1>8. CASE Forward(t)
  <2>1. /\ run'[t].pc = "mark" /\ run'[t].at = run[t].at /\ run'[t].done = run[t].done
        /\ run'[t].row = run[t].row
    BY <1>1, <1>3, <1>8, RunEffects DEF Becomes, Forward
  <2>2. Log /\ run[t].pc = "call" /\ run[t].at \in Step /\ UNCHANGED <<direction, lost>>
    BY <1>2, <1>8 DEF Forward, ForwardDone, Busy
  <2>3. CanFill(t, run[t].at) /\ FillForward(t, run[t].at)
    BY <1>1, <1>8 DEF Forward, StepForward, CanForward
  <2>4. /\ fill'[t].money = (fill[t].money \/ run[t].at = 2)
        /\ fill'[t].shares = (fill[t].shares \/ run[t].at = 3)
        /\ fill'[t].refund = fill[t].refund
    BY <1>1, <2>2, <2>3, FillEffects
  <2>5. FillSound(t)'
    BY <1>2, <1>4, <2>1, <2>2, <2>4 DEF FillSound, IsCompleted, Going
  <2>6. Unbroken' => FillClean(t)'
    <3>1. CASE run[t].at = 1
      BY <1>2, <1>4, <2>1, <2>2, <2>4, <3>1 DEF FillClean, IsCompleted, Going
    <3>2. CASE run[t].at = 2
      BY <1>2, <1>4, <2>1, <2>2, <2>4, <3>2 DEF FillClean, IsCompleted, Going
    <3>3. CASE run[t].at = 3
      <4>1. fill'[t].shares /\ (fill'[t].money <=> fill[t].money)
        <5>1. run[t].at # 2
          BY <3>3
        <5>2. fill'[t].money <=> fill[t].money
          BY <2>4, <5>1, Zenon
        <5>3. fill'[t].shares
          BY <2>4, <3>3, Zenon
        <5> QED BY <5>2, <5>3
      <4> QED BY <1>2, <2>1, <2>2, <2>4, <3>3, <4>1 DEF FillClean, IsCompleted, Going
    <3> QED BY <1>2, <2>2, <3>1, <3>2, <3>3
  <2> QED BY <2>5, <2>6
<1>9. CASE ForwardRefused(t)
  <2>1. /\ run'[t].pc = "undo" /\ run'[t].at = run[t].at /\ run'[t].done = run[t].done
        /\ run'[t].row = run[t].row
    BY <1>1, <1>3, <1>9, RunEffects DEF Becomes, ForwardRefused
  <2>2. /\ Legs /\ comp'[t] = comp[t] /\ run[t].pc = "call" /\ run[t].at \in Step
    BY <1>2, <1>9 DEF ForwardRefused, ForwardFailed, orderVars, Busy
  <2>3. FwdSet(t, run[t].at, fwd[t][run[t].at] \cup {"failed"})
    BY <1>1, <1>9, LogEffects DEF ForwardRefused
  <2>4. \A i \in Step : /\ IsCompleted(t, i)' <=> IsCompleted(t, i)
                        /\ "pending" \in fwd'[t][i] <=> "pending" \in fwd[t][i]
                        /\ fwd[t][i] # {} => fwd'[t][i] # {}
    <3>1. /\ fwd'[t][run[t].at] = fwd[t][run[t].at] \cup {"failed"}
          /\ \A j \in Step \ {run[t].at} : fwd'[t][j] = fwd[t][j]
      BY <2>3 DEF FwdSet
    <3>2. \A i \in Step : fwd'[t][i] = fwd[t][i] \/ fwd'[t][i] = fwd[t][i] \cup {"failed"}
      BY <3>1
    <3> QED BY <3>2 DEF IsCompleted
  <2>5. FillSound(t)'
    BY <1>2, <2>1, <2>2, <2>4 DEF FillSound, Going
  <2>6. Unbroken' => FillClean(t)'
    BY <1>2, <2>1, <2>2, <2>4 DEF FillClean, Going
  <2> QED BY <2>5, <2>6
<1>10. CASE MarkCompleted(t) /\ UNCHANGED <<orderVars, job, call>>
  <2>1. /\ run'[t].pc = Onward(t) /\ run'[t].at = Beyond(t)
        /\ run'[t].done = run[t].done \cup {run[t].at} /\ run'[t].row = run[t].row
    BY <1>1, <1>3, <1>10, RunEffects DEF Becomes
  <2>2. /\ Legs /\ comp'[t] = comp[t] /\ run[t].pc = "mark" /\ run[t].at \in Step
    BY <1>2, <1>10 DEF MarkCompleted, orderVars, Busy
  <2>3. FwdSet(t, run[t].at, fwd[t][run[t].at] \cup {"completed"})
    BY <1>1, <1>10, LogEffects
  <2>4. /\ \A i \in Step : "pending" \in fwd'[t][i] <=> "pending" \in fwd[t][i]
        /\ \A i \in Step : IsCompleted(t, i)' <=> IsCompleted(t, i) \/ i = run[t].at
        /\ \A i \in Step : fwd[t][i] # {} => fwd'[t][i] # {}
    <3>1. /\ fwd'[t][run[t].at] = fwd[t][run[t].at] \cup {"completed"}
          /\ \A j \in Step \ {run[t].at} : fwd'[t][j] = fwd[t][j]
      BY <2>3 DEF FwdSet
    <3>2. ASSUME NEW i \in Step
          PROVE  /\ "pending" \in fwd'[t][i] <=> "pending" \in fwd[t][i]
                 /\ "completed" \in fwd'[t][i] <=> "completed" \in fwd[t][i] \/ i = run[t].at
                 /\ fwd[t][i] # {} => fwd'[t][i] # {}
      BY <2>2, <3>1
    <3> QED BY <3>2 DEF IsCompleted
  <2>5. CASE run[t].at = 1
    <3>1. run'[t].pc = "record" /\ run'[t].at = 2
      BY <2>1, <2>5 DEF Onward, Beyond
    <3>2. FillSound(t)'
      BY <1>2, <2>1, <2>2, <2>4, <2>5, <3>1 DEF FillSound, Going
    <3>3. Unbroken' => FillClean(t)'
      BY <1>2, <2>1, <2>2, <2>4, <2>5, <3>1 DEF FillClean, Going
    <3> QED BY <3>2, <3>3
  <2>6. CASE run[t].at = 2
    <3>1. run'[t].pc = "record" /\ run'[t].at = 3
      BY <2>1, <2>6 DEF Onward, Beyond
    <3>2. FillSound(t)'
      BY <1>2, <2>1, <2>2, <2>4, <2>6, <3>1 DEF FillSound, Going
    <3>3. Unbroken' => FillClean(t)'
      BY <1>2, <2>1, <2>2, <2>4, <2>6, <3>1 DEF FillClean, Going
    <3> QED BY <3>2, <3>3
  <2>7. CASE run[t].at = 3
    <3>1. run'[t].pc = "return" /\ run'[t].at = 0
      BY <2>1, <2>7 DEF Onward, Beyond
    <3>2. FillSound(t)'
      BY <1>2, <2>1, <2>2, <2>4, <2>7, <3>1 DEF FillSound, Going
    <3>3. Unbroken' => FillClean(t)'
      BY <1>2, <2>1, <2>2, <2>4, <2>7, <3>1 DEF FillClean, Going
    <3> QED BY <3>2, <3>3
  <2> QED BY <1>2, <2>2, <2>5, <2>6, <2>7
<1>11. ~MarkCompletedFails(t)
  <2>1. MarkCompletedFails(t) => faults'.mark > faults.mark
    BY <1>1, FaultsCounted DEF MarkCompletedFails, LogTyped
  <2> QED BY <1>1, <2>1
<1>12. CASE SkipIrreversible(t) /\ UNCHANGED <<orderVars, job, call>>
  <2>1. /\ run'[t].pc = run[t].pc /\ run'[t].at = run[t].at
        /\ run'[t].done = run[t].done \ {Last(t)}
        /\ run'[t].row = run[t].row
    BY <1>1, <1>3, <1>12, RunEffects DEF Becomes
  <2>2. Log /\ Legs /\ run[t].pc = "undo" /\ Last(t) # 2
    BY <1>3, <1>12, Irreversible DEF SkipIrreversible, orderVars
  <2>3. FillSound(t)'
    BY <1>2, <2>1, <2>2 DEF FillSound, IsCompleted, Going
  <2>4. Unbroken' => FillClean(t)'
    BY <1>2, <2>1, <2>2 DEF FillClean, IsCompleted, Going
  <2> QED BY <2>3, <2>4
<1>13. CASE RecordCompensation(t) /\ UNCHANGED <<orderVars, job, call>>
  <2>1. /\ run'[t].pc = "back" /\ run'[t].at = Last(t) /\ run'[t].done = run[t].done
        /\ run'[t].row = run[t].row
    BY <1>1, <1>3, <1>13, RunEffects DEF Becomes
  <2>2. /\ Legs /\ fwd'[t] = fwd[t] /\ run[t].pc = "undo" /\ Last(t) = 2
        /\ 2 \in run[t].done
    BY <1>2, <1>3, <1>13, Irreversible DEF RecordCompensation, orderVars
  <2>3. /\ comp'[t][1] = comp[t][1] /\ comp'[t][3] = comp[t][3] /\ comp'[t][2] # "none"
    <3>1. CompSet(t, 2, IF comp[t][2] = "none" THEN "compensating" ELSE comp[t][2])
      BY <1>1, <1>13, <2>2, LogEffects
    <3> QED BY <1>2, <3>1 DEF CompSet
  <2>4. FillSound(t)'
    BY <1>2, <2>1, <2>2, <2>3 DEF FillSound, IsCompleted, Going
  <2>5. Unbroken' => FillClean(t)'
    BY <1>2, <2>1, <2>2, <2>3 DEF FillClean, IsCompleted, Going
  <2> QED BY <2>4, <2>5
<1>14. CASE Backward(t)
  <2>1. /\ run'[t].pc = "unmark" /\ run'[t].at = run[t].at /\ run'[t].done = run[t].done
        /\ run'[t].row = run[t].row
    BY <1>1, <1>3, <1>14, RunEffects DEF Becomes, Backward
  <2>2. Log /\ run[t].pc = "back" /\ UNCHANGED <<direction, lost>>
    BY <1>14 DEF Backward, BackwardDone
  <2>3. /\ fill'[t].money = fill[t].money /\ fill'[t].shares = fill[t].shares
        /\ fill'[t].refund = TRUE
    BY <1>1, <1>14, <2>2, FillEffects DEF Backward
  <2>4. FillSound(t)'
    BY <1>2, <2>1, <2>2, <2>3 DEF FillSound, IsCompleted, Going
  <2>5. Unbroken' => FillClean(t)'
    BY <1>2, <2>1, <2>2, <2>3 DEF FillClean, IsCompleted, Going
  <2> QED BY <2>4, <2>5
<1>15. CASE MarkCompensated(t) /\ UNCHANGED <<orderVars, job, call>>
  <2>1. /\ run'[t].pc = "undo" /\ run'[t].at = run[t].at
        /\ run'[t].done = run[t].done \ {run[t].at}
        /\ run'[t].row = run[t].row
    BY <1>1, <1>3, <1>15, RunEffects DEF Becomes
  <2>2. Legs /\ fwd'[t] = fwd[t] /\ run[t].pc = "unmark" /\ run[t].at = 2
    BY <1>2, <1>15 DEF MarkCompensated, orderVars
  <2>3. /\ comp'[t][1] = comp[t][1] /\ comp'[t][3] = comp[t][3]
        /\ comp'[t][2] = "compensated"
    <3>1. CompSet(t, 2, "compensated")
      BY <1>1, <1>15, <2>2, LogEffects
    <3> QED BY <1>2, <3>1 DEF CompSet
  <2>4. FillSound(t)'
    BY <1>2, <2>1, <2>2, <2>3 DEF FillSound, IsCompleted, Going
  <2>5. Unbroken' => FillClean(t)'
    BY <1>2, <2>1, <2>2, <2>3 DEF FillClean, IsCompleted, Going
  <2> QED BY <2>4, <2>5
<1>16. CASE BackwardRefused(t)
  <2>1. /\ run'[t].pc = "undo" /\ run'[t].at = run[t].at
        /\ run'[t].done = run[t].done \ {run[t].at}
        /\ run'[t].row = run[t].row
    BY <1>1, <1>3, <1>16, RunEffects DEF Becomes, BackwardRefused
  <2>2. Legs /\ fwd'[t] = fwd[t] /\ run[t].pc = "back" /\ run[t].at = 2
    BY <1>2, <1>16 DEF BackwardRefused, BackwardFailed, orderVars
  <2>3. /\ comp'[t][1] = comp[t][1] /\ comp'[t][3] = comp[t][3]
        /\ comp'[t][2] = "compensating"
    <3>1. CompSet(t, 2, "compensating")
      BY <1>1, <1>16, <2>2, LogEffects DEF BackwardRefused
    <3> QED BY <1>2, <3>1 DEF CompSet
  <2>4. FillSound(t)'
    BY <1>2, <2>1, <2>2, <2>3 DEF FillSound, IsCompleted, Going
  <2>5. ~Unbroken'
    <3>1. faults \in Faults /\ faults' = [faults EXCEPT !.back = @ + 1]
      BY <1>1, <1>16 DEF BackwardRefused, LogTyped
    <3>2. faults'.back > faults.back /\ faults.back \in Nat
      BY <3>1, FaultsCounted DEF Faults
    <3> QED BY <3>2 DEF Unbroken
  <2> QED BY <2>4, <2>5
<1>17. CASE Returns(t)
  <2>1. /\ run'[t].pc = "idle" /\ run'[t].at = 0 /\ run'[t].done = {}
        /\ run'[t].row = None
    BY <1>1, <1>3, <1>17, RunEffects DEF Becomes, Returns
  <2>2. /\ Legs
        /\ run[t].pc = "return" \/ (run[t].pc = "undo" /\ run[t].done = {})
    BY <1>17 DEF Returns, Return, orderVars
  <2>3. /\ comp'[t] = comp[t]
        /\ \A i \in Step : "pending" \in fwd'[t][i] => "pending" \in fwd[t][i]
        /\ IsCompleted(t, 2)' <=> IsCompleted(t, 2)
        /\ fwd[t][2] # {} => fwd'[t][2] # {}
    <3>1. CASE run[t].row = None \/ run[t].error
      BY <1>17, <3>1 DEF Returns, Return, IsCompleted
    <3>2. CASE ~(run[t].row = None \/ run[t].error)
      <4>1. /\ run[t].row[1] = "fwd" /\ run[t].row[2] = 1 /\ Closed(t, run[t].row)
        BY <1>17, <3>2 DEF Returns, Return, FillSound
      <4>2. /\ UNCHANGED comp
            /\ FwdSet(t, 1, (fwd[t][1] \ {"pending"}) \cup {"completed"})
        BY <1>1, <1>2, <4>1, LogEffects
      <4> QED BY <1>2, <4>2 DEF FwdSet, IsCompleted
    <3> QED BY <3>1, <3>2
  <2>4. FillSound(t)'
    BY <1>2, <2>1, <2>2, <2>3 DEF FillSound, Going
  <2>5. Unbroken' => FillClean(t)'
    BY <1>2, <2>1, <2>2, <2>3 DEF FillClean, Going
  <2> QED BY <2>4, <2>5
<1>18. ASSUME NEW row \in Stuck(t), MarkDeadLetter(t, row), UNCHANGED <<orderVars, job, call>>
       PROVE  Goal
  <2>1. /\ UNCHANGED run /\ Legs /\ run[t].pc = "idle"
    BY <1>18 DEF MarkDeadLetter, Recoverable, orderVars
  <2>2. /\ row[2] \in Step
        /\ \/ row[1] = "fwd" /\ "pending" \in fwd[t][row[2]]
           \/ row[1] = "comp" /\ comp[t][row[2]] = "compensating"
    BY <1>1, StuckRows
  <2>3. ~Unbroken'
    BY <1>2, <2>1, <2>2 DEF FillSound, FillClean
  <2>4. /\ comp'[t][1] = "none" /\ comp'[t][3] = "none"
        /\ comp'[t][2] # "none" <=> comp[t][2] # "none"
        /\ IsCompleted(t, 2)' <=> IsCompleted(t, 2)
    <3>1. CASE row[1] = "fwd"
      <4>1. /\ UNCHANGED comp
            /\ FwdSet(t, row[2], (fwd[t][row[2]] \ {"pending"}) \cup {"dead_letter"})
        BY <1>1, <1>18, <2>2, <3>1, LogEffects
      <4> QED BY <1>2, <2>2, <4>1 DEF FwdSet, IsCompleted, FillSound
    <3>2. CASE row[1] # "fwd"
      <4>1. UNCHANGED fwd /\ CompSet(t, row[2], "dead_letter") /\ row[2] = 2
        BY <1>1, <1>2, <1>18, <2>2, <3>2, LogEffects DEF FillSound
      <4> QED BY <1>2, <2>2, <3>2, <4>1 DEF CompSet, IsCompleted, FillSound
    <3> QED BY <3>1, <3>2
  <2>5. FillSound(t)'
    BY <1>2, <2>1, <2>4 DEF FillSound, Going
  <2> QED BY <2>3, <2>5
<1>19. CASE ForwardLost(t)
  <2>1. /\ run'[t].pc = "undo" /\ run'[t].at = run[t].at /\ run'[t].done = run[t].done
        /\ run'[t].row = run[t].row
    BY <1>1, <1>3, <1>19, RunEffects DEF Becomes, ForwardLost
  <2>2. /\ comp'[t] = comp[t] /\ run[t].pc = "call" /\ run[t].at = 2 /\ UNCHANGED direction
        /\ t \in lost'
    BY <1>1, <1>2, <1>19 DEF ForwardLost, ForwardFailed, RemoteStep, MoneyStep, Busy
  <2>3. FwdSet(t, run[t].at, fwd[t][run[t].at] \cup {"failed"})
    BY <1>1, <1>2, <1>19, <2>2, LogEffects DEF ForwardLost
  <2>4. \A i \in Step : /\ IsCompleted(t, i)' <=> IsCompleted(t, i)
                        /\ "pending" \in fwd'[t][i] <=> "pending" \in fwd[t][i]
    <3>1. /\ fwd'[t][run[t].at] = fwd[t][run[t].at] \cup {"failed"}
          /\ \A j \in Step \ {run[t].at} : fwd'[t][j] = fwd[t][j]
      BY <2>3 DEF FwdSet
    <3>2. \A i \in Step : fwd'[t][i] = fwd[t][i] \/ fwd'[t][i] = fwd[t][i] \cup {"failed"}
      BY <3>1
    <3> QED BY <3>2 DEF IsCompleted
  <2>5. CanFill(t, 2) /\ FillForward(t, 2)
    BY <1>1, <1>19, <2>2 DEF ForwardLost, StepForward, CanForward
  <2>6. /\ fill'[t].money = (fill[t].money \/ 2 = 2)
        /\ fill'[t].shares = (fill[t].shares \/ 2 = 3)
        /\ fill'[t].refund = fill[t].refund
    BY <1>1, <1>2, <2>2, <2>5, FillEffects
  <2>7. fill'[t].money /\ (fill'[t].shares <=> fill[t].shares) /\ fwd'[t][2] # {}
    <3>1. 2 # 3
      OBVIOUS
    <3>2. fill'[t].money
      BY <2>6, Zenon
    <3>3. fill'[t].shares <=> fill[t].shares
      BY <2>6, <3>1, Zenon
    <3>4. fwd'[t][2] # {}
      BY <1>2, <2>2, <2>3 DEF FwdSet
    <3> QED BY <3>2, <3>3, <3>4
  <2>8. FillSound(t)'
    BY <1>2, <2>1, <2>2, <2>4, <2>6, <2>7 DEF FillSound, Going
  <2>9. Unbroken' => FillClean(t)'
    BY <1>2, <2>1, <2>2, <2>4, <2>6, <2>7 DEF FillClean, Going
  <2> QED BY <2>8, <2>9
<1> QED
  BY <1>5, <1>6, <1>7, <1>8, <1>9, <1>10, <1>11, <1>12, <1>13, <1>14, <1>15, <1>16,
        <1>17,
     <1>18, <1>19 DEF SagaStep, ExecutorStep

(* The recovery cron keeps a fill sound, and finds nothing to do where     *)
(* nothing broke it.                                                       *)
LEMMA FillCronSteps ==
    ASSUME TypeInv, NEW t \in Txns, FillSound(t), Unbroken => FillClean(t),
           Unbroken' => Unbroken,
           RecoverFill(t) \/ ReconcileMoney(t) \/ ReconcileShares(t)
    PROVE  FillSound(t)' /\ (Unbroken' => FillClean(t)')
<1>1. SagaInv /\ t \in Sagas
  BY OrderAssumption DEF TypeInv
<1>2. /\ \A i \in Step : i = 1 \/ i = 2 \/ i = 3
      /\ 1 \in Step /\ 2 \in Step /\ 3 \in Step
  BY DEF Step
<1>3. PICK row \in Stuck(t) :
        /\ Recoverable(t, row)
        /\ \/ row[2] = 1 /\ (Recover(t, row) \/ RecoverRefused(t, row))
           \/ row[2] = 2 /\ fill[t].money /\ RecoverNothing(t, row)
           \/ row[2] = 3 /\ RecoverNothing(t, row)
  BY DEF RecoverFill, ReconcileMoney, ReconcileShares, AuditStep, MoneyStep, SharesStep,
         Recover, RecoverRefused, RecoverNothing
<1>4. /\ row \in LogRow /\ row[2] \in Step
      /\ \/ row[1] = "fwd" /\ "pending" \in fwd[t][row[2]]
         \/ row[1] = "comp" /\ comp[t][row[2]] = "compensating"
  BY <1>1, StuckRows
<1>5. UNCHANGED fill
  BY DEF RecoverFill, ReconcileMoney, ReconcileShares, orderVars
<1>6. ~Unbroken'
  BY <1>2, <1>3, <1>4 DEF FillSound, FillClean, Recoverable
<1>7. CASE row[2] = 1 /\ Recover(t, row)
  <2>1. row[1] = "fwd" /\ UNCHANGED <<fwd, comp>> /\ run[t].pc = "idle"
    BY <1>3, <1>4, <1>7 DEF FillSound, Recover, Recoverable
  <2>2. CASE HasCompensations(t)
    <3>1. /\ run'[t].pc = "undo" /\ run'[t].row = row
          /\ run'[t].done = {i \in Step : IsCompleted(t, i)}
      BY <1>1, <1>7, <2>2, RecoverEffect DEF Becomes
    <3>2. comp[t][2] # "none"
      BY <1>1, <1>2, <2>2, ThreeSteps DEF HasCompensations, FillSound
    <3>3. 2 \in run'[t].done <=> IsCompleted(t, 2)
      BY <1>2, <3>1
    <3>4. FillSound(t)'
      BY <1>5, <1>7, <2>1, <3>1, <3>2, <3>3 DEF FillSound, IsCompleted, Going
    <3> QED BY <1>6, <3>4
  <2>3. CASE ~HasCompensations(t)
    <3>1. /\ run'[t].pc = "record" /\ run'[t].row = row /\ run'[t].at = 1
          /\ run'[t].done = {}
      BY <1>1, <1>7, <2>3, RecoverEffect DEF Becomes
    <3>2. comp[t][2] = "none"
      BY <1>1, <1>2, <2>3, ThreeSteps DEF HasCompensations
    <3>3. FillSound(t)'
      BY <1>5, <1>7, <2>1, <3>1, <3>2 DEF FillSound, IsCompleted, Going
    <3> QED BY <1>6, <3>3
  <2> QED BY <2>2, <2>3
<1>8. CASE row[2] = 1 /\ RecoverRefused(t, row)
  BY <1>5, <1>6, <1>8 DEF RecoverRefused, FillSound, IsCompleted
<1>9. CASE RecoverNothing(t, row) /\ (row[2] = 3 \/ (row[2] = 2 /\ fill[t].money))
  <2>1. UNCHANGED run /\ Closed(t, row) /\ run[t].pc = "idle"
    BY <1>3, <1>9 DEF RecoverNothing, Recoverable
  <2>2. /\ comp'[t][1] = "none" /\ comp'[t][3] = "none"
        /\ comp'[t][2] # "none" <=> comp[t][2] # "none"
        /\ IsCompleted(t, 2) => IsCompleted(t, 2)'
        /\ IsCompleted(t, 2)' => fill[t].money
    <3>1. CASE row[1] = "fwd"
      <4>1. /\ UNCHANGED comp
            /\ FwdSet(t, row[2], (fwd[t][row[2]] \ {"pending"}) \cup {"completed"})
        BY <1>1, <1>4, <2>1, <3>1, LogEffects
      <4> QED BY <1>2, <1>4, <1>9, <4>1 DEF FwdSet, IsCompleted, FillSound
    <3>2. CASE row[1] # "fwd"
      <4>1. UNCHANGED fwd /\ CompSet(t, row[2], "compensated") /\ row[2] = 2
        BY <1>1, <1>2, <1>4, <2>1, <3>2, LogEffects DEF FillSound
      <4> QED BY <1>2, <1>4, <3>2, <4>1 DEF CompSet, IsCompleted, FillSound
    <3> QED BY <3>1, <3>2
  <2>3. FillSound(t)'
    BY <1>5, <2>1, <2>2 DEF FillSound, Going
  <2> QED BY <1>6, <2>3
<1> QED BY <1>3, <1>7, <1>8, <1>9

(* Every step keeps every fill sound, and clean where nothing broke it.    *)
LEMMA FillStep ==
    ASSUME TypeInv, FillInv, [Next]_vars, faults'.mark = 0
    PROVE  FillInv'
<1> SUFFICES ASSUME NEW t \in Txns
             PROVE  FillSound(t)' /\ (Unbroken' => FillClean(t)')
  BY DEF FillInv
<1>1. FillSound(t) /\ (Unbroken => FillClean(t)) /\ t \in Sagas
  BY OrderAssumption DEF FillInv
<1>2. Unbroken' => Unbroken
  <2>1. FaultsGrow /\ faults \in Faults
    BY TypeStep DEF TypeInv, SagaInv, LogTyped
  <2> QED BY <2>1 DEF FaultsGrow, Faults, Unbroken
<1>3. CASE SagaStep(t) \/ (ProcessFill /\ job.txn = t)
  BY <1>1, <1>2, <1>3, FillRunSteps
<1>4. CASE RecoverFill(t) \/ ReconcileMoney(t) \/ ReconcileShares(t)
  BY <1>1, <1>2, <1>4, FillCronSteps
<1>5. CASE ServiceCrash
  <2>1. Crash /\ UNCHANGED fill /\ SagaInv
    BY <1>5 DEF ServiceCrash, orderVars, TypeInv
  <2>2. /\ run'[t].pc = "idle" /\ run'[t].done = {} /\ run'[t].row = None
        /\ comp'[t] = comp[t]
        /\ \A i \in Step : fwd[t][i] \subseteq fwd'[t][i]
                           /\ fwd'[t][i] \subseteq fwd[t][i] \cup {"pending"}
    BY <1>1, <2>1, CrashEffect
  <2>3. IsCompleted(t, 2)' <=> IsCompleted(t, 2)
    BY <2>2 DEF IsCompleted, Step
  <2>4. FillSound(t)'
    BY <1>1, <2>1, <2>2, <2>3 DEF FillSound, Going
  <2>5. ~Unbroken'
    <3>1. faults \in Faults /\ faults' = [faults EXCEPT !.crash = @ + 1]
      BY <2>1, CrashEffect DEF SagaInv, LogTyped
    <3>2. faults'.crash > faults.crash /\ faults.crash \in Nat
      BY <3>1, FaultsCounted DEF Faults
    <3> QED BY <3>2 DEF Unbroken
  <2> QED BY <2>4, <2>5
<1>6. CASE UNCHANGED vars
  BY <1>1, <1>2, <1>6, FillFrame DEF vars, sagaVars, orderVars
<1>7. CASE /\ Next /\ ~SagaStep(t) /\ ~RecoverFill(t) /\ ~ReconcileMoney(t)
           /\ ~ReconcileShares(t) /\ ~(ProcessFill /\ job.txn = t) /\ ~ServiceCrash
  <2>1. t \in lost' <=> t \in lost
    BY <1>7, LostGrows DEF SagaStep
  <2> QED BY <1>1, <1>2, <1>7, <2>1, FillOwnSteps, FillFrame
<1> QED BY <1>3, <1>4, <1>5, <1>6, <1>7

(* No fill has begun at the beginning.                                     *)
LEMMA FillInit == ASSUME Init PROVE FillInv
<1>1. ASSUME NEW t \in Txns
      PROVE  FillSound(t) /\ FillClean(t)
  <2>1. t \in Sagas /\ Steps(t) = Step /\ 1 \in Step /\ 2 \in Step /\ 3 \in Step
    BY OrderAssumption, ThreeSteps DEF Step
  <2>2. /\ run[t].pc = "idle" /\ run[t].done = {} /\ run[t].row = None
        /\ \A i \in Step : fwd[t][i] = {} /\ comp[t][i] = "none"
    BY <2>1 DEF Init, SagaInit, Idle
  <2>3. ~fill[t].money /\ ~fill[t].refund /\ ~fill[t].shares /\ t \notin lost
    BY DEF Init, NoFill
  <2> QED BY <2>1, <2>2, <2>3 DEF FillSound, FillClean, IsCompleted, Going
<1> QED BY <1>1 DEF FillInv

(* Shares move only in a fill whose money moved and was not given back,    *)
(* after any number of crashes, refusals and recovery runs; without a      *)
(* crash or a failed reversal a fill that ended moved both legs or         *)
(* neither, but for the money of one whose own answer was lost.  The       *)
(* premise: no write of the log or of the order row has been lost.         *)
THEOREM FillIsWholeHolds == Spec => [](faults.mark = 0 => FillIsWhole)
<1> DEFINE Known == TypeInv /\ (faults.mark = 0 => FillInv)
<1>1. Init => Known
  BY TypeInit, FillInit
<1>2. Known /\ [Next]_vars => Known'
  <2>1. TypeInv /\ [Next]_vars => (faults'.mark = 0 => faults.mark = 0)
    BY TypeStep DEF FaultsGrow, TypeInv, SagaInv, LogTyped, Faults
  <2> QED BY <2>1, TypeStep, FillStep
<1>3. Known => (faults.mark = 0 => FillIsWhole)
  <2> SUFFICES ASSUME TypeInv, FillInv PROVE FillIsWhole
    OBVIOUS
  <2>1. \A t \in Txns : FillSound(t) /\ (Unbroken => FillClean(t))
    BY DEF FillInv
  <2>2. Delivered \subseteq Paid
    BY <2>1 DEF Delivered, Paid, FillSound
  <2>3. ASSUME Unbroken, NEW t \in Txns, Settled(t)
        PROVE  t \in Paid => t \in Delivered \/ t \in lost
    BY <2>1, <2>2, <2>3 DEF Delivered, Paid, FillClean, Settled
  <2> QED BY <2>2, <2>3 DEF FillIsWhole, Unbroken
<1> HIDE DEF Known
<1> QED BY <1>1, <1>2, <1>3, PTL DEF Spec

-----------------------------------------------------------------------------
(* Verdicts stand: a caller's copy of the order is fresh or refused *)

Begun == \E i \in Step : fwd[Placement][i] # {}

(* The placement saga has not created the row yet. *)
Unplaced ==
    \/ run[Placement].pc = "idle" /\ ~Begun
    \/ run[Placement].pc \in {"record", "call"} /\ run[Placement].at = 1

(* Without a crash and with no write of the log lost the placement goes    *)
(* forward once, on the row it created: a recovery run can only roll back. *)
PlacementLog ==
    /\ \A i \in Step : "pending" \notin fwd[Placement][i]
    /\ \A i \in Step :
         i \in run[Placement].done \/ comp[Placement][i] # "none" => fwd[Placement][i] # {}
    /\ run[Placement].row # None => fwd[Placement][run[Placement].row[2]] # {}
    /\ run[Placement].pc \in {"back", "unmark"} => fwd[Placement][run[Placement].at] # {}
    /\ run[Placement].pc \in {"undo", "back", "unmark", "return"} => Begun
    /\ run[Placement].pc \in Going /\ run[Placement].at # 1 => Begun

PlacementOnce ==
    /\ PlacementLog
    /\ run[Placement].pc \in Going \/ Unplaced => planned = 0
    /\ Unplaced => ~Exists /\ job.pc = "none" /\ \A c \in Callers : call[c].pc = "none"

(* A copy is the row itself or older than it. *)
Copied(seen) ==
    Exists => seen.version <= order.version /\ (seen.version = order.version => seen = order)

CopiesSound ==
    /\ Exists /\ order.version = 0 => order.status = "pending"
    /\ Filling => Copied(job.seen) /\ job.seen.status = "approved" /\ ~job.seen.done
    /\ call["supervisor"].pc = "update" =>
         Copied(call["supervisor"].seen) /\ call["supervisor"].seen.status = "pending"
    /\ call["owner"].pc = "update" =>
         /\ Copied(call["owner"].seen) /\ ~call["owner"].seen.done
         /\ call["owner"].seen.status \in {"pending", "approved"}

CalmInv == Undisturbed => PlacementOnce /\ CopiesSound

(* The steps of the placement saga: it is begun once, and goes forward only*)
(* from its beginning.                                                     *)
LEMMA PlacementRuns ==
    ASSUME TypeInv, PlacementLog, faults'.mark = 0,
           CreateOrder \/ SagaStep(Placement) \/ RecoverPlacement
    PROVE  /\ PlacementLog'
           /\ Unplaced' => Unplaced
           /\ run'[Placement].pc \in Going => run[Placement].pc \in Going \/ Unplaced
           /\ RecoverPlacement => ~Unplaced' /\ run'[Placement].pc \notin Going
           /\ Forward(Placement) => ~Unplaced'
<1>1. /\ SagaInv /\ RunTyped /\ LogTyped /\ OnStep(Placement) /\ Placement \in Sagas
      /\ faults.mark \in Nat
  BY OrderAssumption DEF TypeInv, SagaInv, LogTyped, Faults
<1>2. /\ run[Placement].done \subseteq Step
      /\ run[Placement].pc \in Busy => run[Placement].at \in Step
      /\ \A i \in Step : i = 1 \/ i = 2 \/ i = 3
  BY <1>1 DEF OnStep, Step
<1>3. run[Placement].pc = "undo" /\ run[Placement].done # {} =>
        Last(Placement) \in Nat /\ Last(Placement) \in Step
        /\ Last(Placement) \in run[Placement].done
  BY <1>1, LastOfRun DEF Step
<1> DEFINE Log == fwd'[Placement] = fwd[Placement] /\ comp'[Placement] = comp[Placement]
           Grown == /\ \A i \in Step : fwd[Placement][i] # {} => fwd'[Placement][i] # {}
                    /\ \A i \in Step : "pending" \notin fwd'[Placement][i]
           Ahead == /\ Unplaced' => Unplaced
                    /\ run'[Placement].pc \in Going =>
                          run[Placement].pc \in Going \/ Unplaced
           Goal == /\ PlacementLog' /\ Ahead
                   /\ RecoverPlacement => ~Unplaced' /\ run'[Placement].pc \notin Going
                   /\ Forward(Placement) => ~Unplaced'
<1> SUFFICES Goal
  OBVIOUS
<1>4. RecoverPlacement => run[Placement].pc = "idle"
  BY DEF RecoverPlacement, Recover, RecoverNothing, Recoverable
<1>5. Forward(Placement) => run[Placement].pc = "call"
  BY DEF Forward, ForwardDone
<1>6. CASE CreateOrder
  <2>1. Execute(Placement)
    BY <1>6 DEF CreateOrder
  <2>2. /\ run'[Placement].pc = "record" /\ run'[Placement].at = 1
        /\ run'[Placement].done = {} /\ run'[Placement].row = None
    BY <1>1, <1>3, <2>1, RunEffects DEF Becomes
  <2>3. /\ Log /\ run[Placement].pc = "idle" /\ ~Begun
    BY <1>1, <2>1, ThreeSteps DEF Execute, Started, Begun
  <2>4. Unplaced
    BY <2>3 DEF Unplaced
  <2>5. ~RecoverPlacement
    <3>1. \A i \in Step : fwd[Placement][i] = {} /\ comp[Placement][i] = "none"
      BY <2>3 DEF Begun, PlacementLog
    <3>2. Stuck(Placement) = {}
      BY <1>1, <3>1, StuckRows
    <3> QED BY <3>2 DEF RecoverPlacement
  <2> QED BY <1>5, <2>2, <2>3, <2>4, <2>5 DEF PlacementLog, Going
<1>7. CASE SkipCompleted(Placement) /\ UNCHANGED <<orderVars, job, call>>
  <2>1. /\ run'[Placement].pc = Onward(Placement) /\ run'[Placement].at = Beyond(Placement)
        /\ run'[Placement].done = run[Placement].done
        /\ run'[Placement].row = run[Placement].row
    BY <1>1, <1>3, <1>7, RunEffects DEF Becomes
  <2>2. /\ Log /\ run[Placement].pc = "record" /\ run[Placement].at \in Step /\ Begun
    BY <1>2, <1>7 DEF SkipCompleted, Busy, IsCompleted, Begun
  <2>3. \/ run'[Placement].pc = "return"
        \/ run'[Placement].pc = "record" /\ run'[Placement].at # 1
    BY <1>2, <2>1, <2>2 DEF Onward, Beyond
  <2>4. Begun' /\ ~Unplaced'
    BY <2>2, <2>3 DEF Begun, Unplaced
  <2> QED BY <1>4, <1>5, <2>1, <2>2, <2>3, <2>4 DEF PlacementLog, Going
<1>8. CASE RecordForward(Placement) /\ UNCHANGED <<orderVars, job, call>>
  <2>1. /\ run'[Placement].pc = "call" /\ run'[Placement].at = run[Placement].at
        /\ run'[Placement].done = run[Placement].done
        /\ run'[Placement].row = run[Placement].row
    BY <1>1, <1>3, <1>8, RunEffects DEF Becomes
  <2>2. Log /\ run[Placement].pc = "record"
    BY <1>2, <1>3, <1>8 DEF RecordForward
  <2>3. (Begun' <=> Begun) /\ (Unplaced' => Unplaced)
    BY <2>1, <2>2 DEF Begun, Unplaced
  <2> QED BY <1>4, <1>5, <2>1, <2>2, <2>3 DEF PlacementLog, Going, Unplaced
<1>9. CASE Forward(Placement)
  <2>1. /\ run'[Placement].pc = "mark" /\ run'[Placement].at = run[Placement].at
        /\ run'[Placement].done = run[Placement].done
        /\ run'[Placement].row = run[Placement].row
    BY <1>1, <1>3, <1>9, RunEffects DEF Becomes, Forward
  <2>2. Log /\ run[Placement].pc = "call"
    BY <1>2, <1>3, <1>9 DEF Forward, ForwardDone
  <2>3. (Begun' <=> Begun) /\ (Unplaced' => Unplaced)
    BY <2>1, <2>2 DEF Begun, Unplaced
  <2> QED BY <1>4, <1>5, <2>1, <2>2, <2>3 DEF PlacementLog, Going, Unplaced
<1>10. CASE ForwardRefused(Placement) \/ ForwardLost(Placement)
  <2>1. /\ run'[Placement].pc = "undo" /\ run'[Placement].at = run[Placement].at
        /\ run'[Placement].done = run[Placement].done
        /\ run'[Placement].row = run[Placement].row
    BY <1>1, <1>3, <1>10, RunEffects DEF Becomes, ForwardRefused, ForwardLost
  <2>2. /\ comp'[Placement] = comp[Placement] /\ run[Placement].pc = "call"
        /\ run[Placement].at \in Step
    BY <1>2, <1>10 DEF ForwardRefused, ForwardLost, ForwardFailed, Busy
  <2>3. FwdSet(Placement, run[Placement].at, fwd[Placement][run[Placement].at] \cup {"failed"})
    BY <1>1, <1>10, LogEffects DEF ForwardRefused, ForwardLost
  <2>4. Grown /\ Begun'
    <3>1. /\ fwd'[Placement][run[Placement].at] =
               fwd[Placement][run[Placement].at] \cup {"failed"}
          /\ \A j \in Step \ {run[Placement].at} : fwd'[Placement][j] = fwd[Placement][j]
      BY <2>3 DEF FwdSet
    <3>2. \A i \in Step : "pending" \notin fwd[Placement][i]
      BY DEF PlacementLog
    <3>3. \A i \in Step : "pending" \notin fwd'[Placement][i]
      BY <3>1, <3>2
    <3> QED BY <2>2, <3>1, <3>3 DEF Begun
  <2>5. ~Unplaced'
    BY <2>1 DEF Unplaced
  <2>6. run[Placement].row # None => run[Placement].row[2] \in Step
    BY <1>1 DEF OnStep
  <2> QED BY <1>4, <1>5, <2>1, <2>2, <2>4, <2>5, <2>6, <1>2 DEF PlacementLog, Going
<1>11. CASE MarkCompleted(Placement) /\ UNCHANGED <<orderVars, job, call>>
  <2>1. /\ run'[Placement].pc = Onward(Placement) /\ run'[Placement].at = Beyond(Placement)
        /\ run'[Placement].done = run[Placement].done \cup {run[Placement].at}
        /\ run'[Placement].row = run[Placement].row
    BY <1>1, <1>3, <1>11, RunEffects DEF Becomes
  <2>2. /\ comp'[Placement] = comp[Placement] /\ run[Placement].pc = "mark"
        /\ run[Placement].at \in Step
    BY <1>2, <1>11 DEF MarkCompleted, Busy
  <2>3. FwdSet(Placement, run[Placement].at,
               fwd[Placement][run[Placement].at] \cup {"completed"})
    BY <1>1, <1>11, LogEffects
  <2>4. Grown /\ Begun' /\ fwd'[Placement][run[Placement].at] # {}
    <3>1. /\ fwd'[Placement][run[Placement].at] =
               fwd[Placement][run[Placement].at] \cup {"completed"}
          /\ \A j \in Step \ {run[Placement].at} : fwd'[Placement][j] = fwd[Placement][j]
      BY <2>3 DEF FwdSet
    <3>2. \A i \in Step : "pending" \notin fwd[Placement][i]
      BY DEF PlacementLog
    <3>3. \A i \in Step : "pending" \notin fwd'[Placement][i]
      BY <3>1, <3>2
    <3> QED BY <2>2, <3>1, <3>3 DEF Begun
  <2>5. \/ run'[Placement].pc = "return"
        \/ run'[Placement].pc = "record" /\ run'[Placement].at # 1
    BY <1>2, <2>1, <2>2 DEF Onward, Beyond
  <2>6. ~Unplaced'
    BY <2>4, <2>5 DEF Unplaced
  <2>7. run[Placement].row # None => run[Placement].row[2] \in Step
    BY <1>1 DEF OnStep
  <2> QED BY <1>2, <1>4, <1>5, <2>1, <2>2, <2>4, <2>5, <2>6, <2>7 DEF PlacementLog,
        Going
<1>12. ~MarkCompletedFails(Placement)
  <2>1. MarkCompletedFails(Placement) => faults'.mark > faults.mark
    BY <1>1, FaultsCounted DEF MarkCompletedFails, LogTyped
  <2> QED BY <1>1, <2>1
<1>13. CASE SkipIrreversible(Placement) /\ UNCHANGED <<orderVars, job, call>>
  <2>1. /\ run'[Placement].pc = run[Placement].pc /\ run'[Placement].at = run[Placement].at
        /\ run'[Placement].done = run[Placement].done \ {Last(Placement)}
        /\ run'[Placement].row = run[Placement].row
    BY <1>1, <1>3, <1>13, RunEffects DEF Becomes
  <2>2. Log /\ run[Placement].pc = "undo"
    BY <1>2, <1>3, <1>13 DEF SkipIrreversible
  <2>3. (Begun' <=> Begun) /\ (Unplaced' => Unplaced)
    BY <2>1, <2>2 DEF Begun, Unplaced
  <2> QED BY <1>4, <1>5, <2>1, <2>2, <2>3 DEF PlacementLog, Going, Unplaced
<1>14. CASE RecordCompensation(Placement) /\ UNCHANGED <<orderVars, job, call>>
  <2>1. /\ run'[Placement].pc = "back" /\ run'[Placement].at = Last(Placement)
        /\ run'[Placement].done = run[Placement].done
        /\ run'[Placement].row = run[Placement].row
    BY <1>1, <1>3, <1>14, RunEffects DEF Becomes
  <2>2. /\ fwd'[Placement] = fwd[Placement] /\ run[Placement].pc = "undo"
        /\ Last(Placement) \in Step /\ Last(Placement) \in run[Placement].done
    BY <1>3, <1>14 DEF RecordCompensation
  <2>3. \A j \in Step \ {Last(Placement)} : comp'[Placement][j] = comp[Placement][j]
    BY <1>1, <1>14, LogEffects DEF CompSet
  <2>4. (Begun' <=> Begun) /\ ~Unplaced'
    BY <2>1, <2>2 DEF Begun, Unplaced
  <2> QED BY <1>4, <1>5, <2>1, <2>2, <2>3, <2>4 DEF PlacementLog, Going
<1>15. CASE Backward(Placement)
  <2>1. /\ run'[Placement].pc = "unmark" /\ run'[Placement].at = run[Placement].at
        /\ run'[Placement].done = run[Placement].done
        /\ run'[Placement].row = run[Placement].row
    BY <1>1, <1>3, <1>15, RunEffects DEF Becomes, Backward
  <2>2. Log /\ run[Placement].pc = "back"
    BY <1>2, <1>3, <1>15 DEF Backward, BackwardDone
  <2>3. (Begun' <=> Begun) /\ (Unplaced' => Unplaced)
    BY <2>1, <2>2 DEF Begun, Unplaced
  <2> QED BY <1>4, <1>5, <2>1, <2>2, <2>3 DEF PlacementLog, Going, Unplaced
<1>16. CASE (MarkCompensated(Placement) \/ BackwardFailed(Placement)) /\ SagaStep(Placement)
  <2>1. /\ run'[Placement].pc = "undo" /\ run'[Placement].row = run[Placement].row
        /\ run'[Placement].done = run[Placement].done \ {run[Placement].at}
    BY <1>1, <1>3, <1>16, RunEffects DEF Becomes
  <2>2. /\ fwd'[Placement] = fwd[Placement] /\ run[Placement].pc \in {"back", "unmark"}
        /\ run[Placement].at \in Step
    BY <1>2, <1>16 DEF MarkCompensated, BackwardFailed, Busy
  <2>3. \A j \in Step \ {run[Placement].at} : comp'[Placement][j] = comp[Placement][j]
    BY <1>1, <1>16, LogEffects DEF CompSet
  <2>4. (Begun' <=> Begun) /\ ~Unplaced'
    BY <2>1, <2>2 DEF Begun, Unplaced
  <2> QED BY <1>4, <1>5, <2>1, <2>2, <2>3, <2>4 DEF PlacementLog, Going
<1>17. CASE Returns(Placement)
  <2>1. /\ run'[Placement].pc = "idle" /\ run'[Placement].done = {}
        /\ run'[Placement].row = None
    BY <1>1, <1>3, <1>17, RunEffects DEF Becomes, Returns
  <2>2. run[Placement].pc \in {"return", "undo"} /\ Begun
    BY <1>17 DEF Returns, Return, PlacementLog
  <2>3. Grown /\ \A i \in Step : comp'[Placement][i] # "none" => fwd'[Placement][i] # {}
    <3>1. CASE run[Placement].row = None \/ run[Placement].error
      BY <1>17, <3>1 DEF Returns, Return, PlacementLog
    <3>2. CASE ~(run[Placement].row = None \/ run[Placement].error)
      <4>1. /\ run[Placement].row[2] \in Step /\ Closed(Placement, run[Placement].row)
            /\ fwd[Placement][run[Placement].row[2]] # {}
        BY <1>1, <1>17, <3>2 DEF Returns, Return, OnStep, PlacementLog
      <4>2. CASE run[Placement].row[1] = "fwd"
        <5>1. /\ UNCHANGED comp
              /\ FwdSet(Placement, run[Placement].row[2],
                        (fwd[Placement][run[Placement].row[2]] \ {"pending"})
                        \cup {"completed"})
          BY <1>1, <4>1, <4>2, LogEffects
        <5>2. /\ fwd'[Placement][run[Placement].row[2]] =
                   (fwd[Placement][run[Placement].row[2]] \ {"pending"}) \cup {"completed"}
              /\ \A j \in Step \ {run[Placement].row[2]} :
                   fwd'[Placement][j] = fwd[Placement][j]
          BY <5>1 DEF FwdSet
        <5> QED BY <5>1, <5>2 DEF PlacementLog
      <4>3. CASE run[Placement].row[1] # "fwd"
        <5>1. /\ UNCHANGED fwd
              /\ \A j \in Step \ {run[Placement].row[2]} :
                   comp'[Placement][j] = comp[Placement][j]
          BY <1>1, <4>1, <4>3, LogEffects DEF CompSet
        <5> QED BY <4>1, <5>1 DEF PlacementLog
      <4> QED BY <4>2, <4>3
    <3> QED BY <3>1, <3>2
  <2>4. Begun' /\ ~Unplaced'
    BY <2>1, <2>2, <2>3 DEF Begun, Unplaced
  <2> QED BY <1>4, <1>5, <2>1, <2>2, <2>3, <2>4 DEF PlacementLog, Going
<1>18. ASSUME NEW row \in Stuck(Placement)
       PROVE  /\ row[2] \in Step /\ row[1] = "comp" /\ row \in LogRow
              /\ comp[Placement][row[2]] # "none" /\ fwd[Placement][row[2]] # {} /\ Begun
  <2>1. /\ row[2] \in Step /\ row \in LogRow
        /\ \/ row[1] = "fwd" /\ "pending" \in fwd[Placement][row[2]]
           \/ row[1] = "comp" /\ comp[Placement][row[2]] = "compensating"
    BY <1>1, StuckRows
  <2> QED BY <2>1 DEF PlacementLog, Begun
<1>19. ASSUME NEW row \in Stuck(Placement), MarkDeadLetter(Placement, row)
       PROVE  Goal
  <2>1. UNCHANGED run /\ run[Placement].pc = "idle"
    BY <1>19 DEF MarkDeadLetter, Recoverable
  <2>2. /\ UNCHANGED fwd
        /\ \A j \in Step \ {row[2]} : comp'[Placement][j] = comp[Placement][j]
    BY <1>1, <1>18, <1>19, LogEffects, ZenonT(40) DEF CompSet
  <2>3. Begun' /\ ~Unplaced'
    BY <1>18, <2>1, <2>2 DEF Begun, Unplaced
  <2> QED BY <1>5, <1>18, <2>1, <2>2, <2>3 DEF PlacementLog, Going
<1>20. CASE RecoverPlacement
  <2>1. PICK row \in Stuck(Placement) :
          Recover(Placement, row) \/ RecoverNothing(Placement, row)
    BY <1>20 DEF RecoverPlacement
  <2>2. CASE Recover(Placement, row)
    <3>1. HasCompensations(Placement) /\ UNCHANGED <<fwd, comp>>
      BY <1>1, <1>18, <2>2, ThreeSteps DEF HasCompensations, Recover
    <3>2. /\ run'[Placement].pc = "undo" /\ run'[Placement].row = row
          /\ run'[Placement].done = {i \in Step : IsCompleted(Placement, i)}
      BY <1>1, <2>2, <3>1, RecoverEffect DEF Becomes
    <3>3. Begun' /\ ~Unplaced'
      BY <1>18, <3>1, <3>2 DEF Begun, Unplaced
    <3> QED BY <1>4, <1>5, <1>18, <1>20, <3>1, <3>2, <3>3
            DEF PlacementLog, Going, IsCompleted
  <2>3. CASE RecoverNothing(Placement, row)
    <3>1. UNCHANGED run /\ Closed(Placement, row) /\ run[Placement].pc = "idle"
      BY <2>3 DEF RecoverNothing, Recoverable
    <3>2. /\ UNCHANGED fwd
          /\ \A j \in Step \ {row[2]} : comp'[Placement][j] = comp[Placement][j]
      BY <1>1, <1>18, <3>1, LogEffects, ZenonT(40) DEF CompSet
    <3>3. Begun' /\ ~Unplaced'
      BY <1>18, <3>1, <3>2 DEF Begun, Unplaced
    <3> QED BY <1>5, <1>18, <3>1, <3>2, <3>3 DEF PlacementLog, Going
  <2> QED BY <2>1, <2>2, <2>3
<1> QED
  BY <1>6, <1>7, <1>8, <1>9, <1>10, <1>11, <1>12, <1>13, <1>14, <1>15, <1>16, <1>17,
        <1>19,
     <1>20 DEF SagaStep, ExecutorStep, BackwardRefused

(* Only its own steps, and a crash, touch the run and the log of the       *)
(* placement; only recovery gives it another copy of the order.            *)
LEMMA PlacementAlone ==
    ASSUME TypeInv, [Next]_vars,
           ~CreateOrder, ~SagaStep(Placement), ~RecoverPlacement, ~ServiceCrash
    PROVE  /\ run'[Placement] = run[Placement] /\ fwd'[Placement] = fwd[Placement]
           /\ comp'[Placement] = comp[Placement] /\ planned' = planned
<1>1. /\ SagaInv /\ Placement \in Sagas /\ Txns \subseteq Sagas /\ PortionFits
      /\ Placement \notin Txns
  BY OrderAssumption DEF TypeInv
<1>2. \A s \in Sagas \ {Placement} : RunStep(s) \/ CronStep(s) =>
        /\ run'[Placement] = run[Placement] /\ fwd'[Placement] = fwd[Placement]
        /\ comp'[Placement] = comp[Placement]
  BY <1>1, OtherSaga
<1>3. ASSUME NEW s \in Sagas \ {Placement}, SagaStep(s)
      PROVE  (RunStep(s) \/ CronStep(s)) /\ planned' = planned
  <2>1. RunStep(s) \/ CronStep(s)
    BY <1>3 DEF SagaStep, Forward, ForwardRefused, ForwardLost, Backward,
          BackwardRefused, ExecutorStep, Returns, RunStep, CronStep, Refused, NotUndone
  <2> QED BY <1>3, <2>1 DEF SagaStep, Forward, ForwardRefused, ForwardLost, Backward,
        BackwardRefused, ExecutorStep, Returns, orderVars
<1>4. CASE Reconcile
  <2>1. PICK t \in Txns : RecoverFill(t) \/ ReconcileMoney(t) \/ ReconcileShares(t)
    BY <1>4 DEF Reconcile
  <2>2. CronStep(t) /\ planned' = planned
    BY <2>1 DEF RecoverFill, ReconcileMoney, ReconcileShares, CronStep, orderVars
  <2> QED BY <1>1, <1>2, <2>2
<1>5. CASE Engine
  <2>1. CASE ProcessFill
    <3>1. RunStep(job.txn) /\ job.txn \in Txns
      BY <1>1, <2>1 DEF ProcessFill, RunStep, PortionFits, Filling
    <3> QED BY <1>1, <1>2, <2>1, <3>1 DEF ProcessFill, orderVars
  <2> QED BY <1>5, <2>1
          DEF Engine, StartOrderExecution, LoopReturns, FillPortion, FillFailed,
                SaveFill,
              AbortOrder, ReleaseResidualReservation, sagaVars, orderVars
<1>6. CASE (\E c \in Callers : Read(c)) \/ Supervise \/ CancelOrder \/ CancelRelease
           \/ SaveFails \/ UNCHANGED vars
  BY <1>6 DEF Read, SaveFails, Supervise, CancelOrder, CancelRelease, sagaVars, orderVars, vars
<1> QED BY <1>2, <1>3, <1>4, <1>5, <1>6 DEF Next

(* The row is saved from a copy that is the row, with one more version.    *)
Saves(seen) == Fresh(seen) /\ order'.version = order.version + 1

(* What a step may do to the order row.                                    *)
OrderMove ==
    \/ UNCHANGED order
    \/ /\ Forward(Placement) /\ run[Placement].at = 1 /\ ~Exists
       /\ order'.status = "pending" /\ ~order'.done
       /\ order'.left = Quantity /\ order'.version = 0
    \/ /\ Forward(Placement) /\ run[Placement].at = 3
       /\ Exists /\ planned = order.version /\ order'.version = order.version + 1
       /\ order'.status \in {"approved", order.status}
       /\ order'.done = order.done /\ order'.left = order.left
    \/ Backward(Placement) /\ run[Placement].at = 1 /\ order' = NoRow
    \/ /\ SaveFill /\ Saves(job.seen) /\ order'.status = job.seen.status
       /\ order'.left = job.seen.left - fill[job.txn].qty
       /\ (order'.done <=> order'.left = 0)
    \/ /\ AbortOrder /\ Saves(job.seen) /\ order'.status = "cancelled" /\ order'.done
       /\ order'.left = job.seen.left
    \/ /\ Supervise /\ Saves(call["supervisor"].seen)
       /\ order'.status \in {"approved", "declined"}
       /\ order'.done = call["supervisor"].seen.done
       /\ order'.left = call["supervisor"].seen.left
    \/ /\ CancelOrder /\ Saves(call["owner"].seen)
       /\ order'.status = "cancelled" /\ order'.done
       /\ order'.left = call["owner"].seen.left

(* Every step moves the row as OrderMove says, or leaves it.               *)
LEMMA OrderMoves ==
    ASSUME TypeInv, [Next]_vars
    PROVE  OrderMove
<1>1. /\ OrderTyped /\ PortionFits /\ SagaInv /\ order \in OrderRow /\ job.seen \in OrderRow
      /\ call["supervisor"].seen \in OrderRow /\ call["owner"].seen \in OrderRow
      /\ Quantity \in Nat /\ Placement \in Sagas /\ Placement \notin Txns
      /\ fill \in [Txns -> Fill] /\ planned \in Nat
  BY OrderAssumption DEF TypeInv, OrderTyped, Job, Call, Callers
<1>2. ASSUME NEW seen \in OrderRow, NEW copy \in OrderRow, copy.version = seen.version,
             Update(copy)
      PROVE  \/ UNCHANGED order
             \/ /\ Saves(seen) /\ order'.status = copy.status /\ order'.done = copy.done
                /\ order'.left = copy.left
  <2>1. CASE ~Fresh(copy)
    BY <1>2, <2>1 DEF Update
  <2>2. CASE Fresh(copy)
    <3>1. order' = Saved(copy) /\ Fresh(seen) /\ copy.version = order.version
      BY <1>2, <2>2 DEF Update, Fresh
    <3> QED BY <3>1, SavedTyped DEF Saves
  <2> QED BY <2>1, <2>2
<1>3. CASE Forward(Placement)
  <2>1. /\ run[Placement].at \in Step /\ CanPlace(run[Placement].at)
        /\ PlacementForward(run[Placement].at)
    BY <1>1, <1>3 DEF Forward, StepForward, ForwardDone, CanForward, SagaInv, OnStep, Busy
  <2>2. CASE run[Placement].at = 1
    <3>1. order' = IF Exists THEN order
                   ELSE [NoRow EXCEPT !.status = "pending", !.left = Quantity]
      BY <2>1, <2>2 DEF PlacementForward, PersistOrder, ReserveStep, FinalizeStep
    <3>2. PICK r : r = [NoRow EXCEPT !.status = "pending", !.left = Quantity]
      OBVIOUS
    <3>3. r.status = "pending" /\ r.left = Quantity /\ r.done = FALSE /\ r.version = 0
      BY <3>2 DEF NoRow
    <3> QED BY <1>3, <2>2, <3>1, <3>2, <3>3 DEF OrderMove
  <2>3. CASE run[Placement].at = 2
    BY <2>1, <2>3 DEF PlacementForward, PersistOrder, ReserveStep, FinalizeStep,
          OrderMove
  <2>4. CASE run[Placement].at = 3
    <3>1. Fresh([order EXCEPT !.version = planned])
      BY <2>1, <2>4 DEF CanPlace, FinalizeStep
    <3>2. PICK c : c = [order EXCEPT !.version = planned]
      OBVIOUS
    <3>3. c.version = planned
      BY <1>1, <3>2 DEF OrderRow
    <3>4. Exists /\ planned = order.version
      BY <3>1, <3>2, <3>3 DEF Fresh
    <3>5. PICK v \in OrderRow : /\ order' = Saved(v)
                                /\ v = [order EXCEPT !.status = "approved"] \/ v = order
      <4>1. [order EXCEPT !.status = "approved"] \in OrderRow
        BY <1>1 DEF OrderRow
      <4> QED BY <1>1, <2>1, <2>4, <4>1
              DEF PlacementForward, PersistOrder, ReserveStep, FinalizeStep
    <3>6. /\ v.status \in {"approved", order.status} /\ v.done = order.done
          /\ v.left = order.left /\ v.version = order.version
      BY <1>1, <3>5 DEF OrderRow
    <3> QED BY <1>3, <2>4, <3>4, <3>5, <3>6, SavedTyped DEF OrderMove
  <2> QED BY <2>1, <2>2, <2>3, <2>4 DEF Step
<1>4. CASE Backward(Placement)
  <2>1. /\ run[Placement].at \in Step /\ <<Placement, run[Placement].at>> \notin NoBackward
        /\ PlacementBackward(run[Placement].at)
    BY <1>1, <1>4 DEF Backward, BackwardDone, SagaInv, OnStep, Busy
  <2>2. run[Placement].at \in {1, 2}
    BY <2>1, Irreversible DEF Step
  <2> QED BY <1>4, <2>1, <2>2 DEF PlacementBackward, PersistOrder, ReserveStep,
        OrderMove
<1>5. ASSUME NEW s \in Sagas, SagaStep(s), ~Forward(Placement), ~Backward(Placement)
      PROVE  UNCHANGED order
  <2>1. s = Placement \/ s \in Txns
    BY OrderAssumption
  <2>2. CASE Forward(s) \/ ForwardLost(s)
    <3>1. StepForward(s)
      BY <2>2 DEF Forward, ForwardLost
    <3>2. CASE s \in Txns
      BY <1>1, <3>1, <3>2 DEF StepForward, FillForward
    <3>3. CASE s = Placement
      <4>1. ForwardLost(Placement) /\ run[s].at = 2
        BY <1>5, <2>2, <3>3 DEF ForwardLost, RemoteStep, ReserveStep
      <4> QED BY <3>1, <3>3, <4>1 DEF StepForward, PlacementForward, PersistOrder,
            ReserveStep, FinalizeStep
    <3> QED BY <2>1, <3>2, <3>3
  <2>3. CASE Backward(s)
    BY <1>1, <1>5, <2>1, <2>3 DEF Backward, FillBackward
  <2> QED BY <1>5, <2>2, <2>3 DEF SagaStep, ForwardRefused, BackwardRefused,
        ExecutorStep,
                Returns, orderVars
<1>6. CASE SaveFill
  <2>1. PICK l : l = job.seen.left - fill[job.txn].qty
    OBVIOUS
  <2>2. l \in 0..Quantity
    BY <1>1, <1>6, <2>1 DEF SaveFill, PortionFits, Filling, OrderRow
  <2>3. PICK c : c = [job.seen EXCEPT !.left = l, !.done = (l = 0)]
    OBVIOUS
  <2>4. /\ c \in OrderRow /\ c.version = job.seen.version /\ c.status = job.seen.status
        /\ c.left = l /\ (c.done <=> l = 0)
    BY <1>1, <2>2, <2>3 DEF OrderRow
  <2>5. Update(c)
    BY <1>6, <2>1, <2>3 DEF SaveFill
  <2> QED BY <1>1, <1>2, <1>6, <2>1, <2>4, <2>5 DEF OrderMove
<1>7. CASE AbortOrder
  <2>1. PICK c : c = [job.seen EXCEPT !.done = TRUE, !.status = "cancelled"]
    OBVIOUS
  <2>2. /\ c \in OrderRow /\ c.version = job.seen.version /\ c.status = "cancelled"
        /\ c.left = job.seen.left /\ c.done = TRUE
    BY <1>1, <2>1 DEF OrderRow
  <2>3. Update(c)
    BY <1>7, <2>1 DEF AbortOrder
  <2> QED BY <1>1, <1>2, <1>7, <2>2, <2>3 DEF OrderMove
<1>8. CASE Supervise
  <2>1. PICK v \in {"approved", "declined"} :
          Update([call["supervisor"].seen EXCEPT !.status = v])
    BY <1>8 DEF Supervise
  <2>2. PICK c : c = [call["supervisor"].seen EXCEPT !.status = v]
    OBVIOUS
  <2>3. /\ c \in OrderRow /\ c.version = call["supervisor"].seen.version /\ c.status = v
        /\ c.left = call["supervisor"].seen.left /\ c.done = call["supervisor"].seen.done
    BY <1>1, <2>2 DEF OrderRow
  <2>4. Update(c)
    BY <2>1, <2>2
  <2> QED BY <1>1, <1>2, <1>8, <2>3, <2>4 DEF OrderMove
<1>9. CASE CancelOrder
  <2>1. PICK c : c = [call["owner"].seen EXCEPT !.status = "cancelled", !.done = TRUE]
    OBVIOUS
  <2>2. /\ c \in OrderRow /\ c.version = call["owner"].seen.version /\ c.status = "cancelled"
        /\ c.left = call["owner"].seen.left /\ c.done = TRUE
    BY <1>1, <2>1 DEF OrderRow
  <2>3. Update(c)
    BY <1>9, <2>1 DEF CancelOrder
  <2> QED BY <1>1, <1>2, <1>9, <2>2, <2>3 DEF OrderMove
<1>10. CASE CreateOrder \/ SaveFails \/ Reconcile \/ UNCHANGED vars \/ CancelRelease \/ ServiceCrash
            \/ \E c \in Callers : Read(c)
  BY <1>10 DEF CreateOrder, SaveFails, Reconcile, RecoverPlacement, RecoverFill, ReconcileMoney,
               ReconcileShares, CancelRelease, ServiceCrash, Read, vars, orderVars, OrderMove
<1>11. CASE Engine /\ ~SaveFill /\ ~AbortOrder
  BY <1>11 DEF Engine, StartOrderExecution, LoopReturns, FillPortion, ProcessFill,
               FillFailed, ReleaseResidualReservation, orderVars, OrderMove
<1> QED
  <2>1. (\E s \in Sagas : SagaStep(s)) => OrderMove
    BY <1>3, <1>4, <1>5 DEF OrderMove
  <2> QED BY <2>1, <1>6, <1>7, <1>8, <1>9, <1>10, <1>11 DEF Next

(* A copy is taken from the row as it is, and kept until it is saved.      *)
LEMMA CopyMoves ==
    ASSUME TypeInv, [Next]_vars
    PROVE  /\ Filling' =>
                \/ Filling /\ job'.seen = job.seen
                \/ job'.seen = order /\ Active /\ UNCHANGED order
           /\ \A c \in Callers : call'[c].pc = "update" =>
                \/ call[c].pc = "update" /\ call'[c].seen = call[c].seen
                \/ call'[c].seen = order /\ Read(c) /\ UNCHANGED order
           /\ ~Exists /\ job.pc = "none" => job'.pc = "none"
           /\ ~Exists => \A c \in Callers : call[c].pc = "none" => call'[c].pc = "none"
<1>1. /\ job \in Job /\ call \in [Callers -> Call] /\ PortionFits
  BY DEF TypeInv, OrderTyped
<1>2. ASSUME UNCHANGED call
      PROVE  \A c \in Callers : call'[c].pc = "update" =>
                call[c].pc = "update" /\ call'[c].seen = call[c].seen
  BY <1>2
<1> DEFINE Jobs == /\ Filling' => \/ Filling /\ job'.seen = job.seen
                                  \/ job'.seen = order /\ Active /\ UNCHANGED order
                   /\ ~Exists /\ job.pc = "none" => job'.pc = "none"
           Calls == /\ \A c \in Callers : call'[c].pc = "update" =>
                          \/ call[c].pc = "update" /\ call'[c].seen = call[c].seen
                          \/ call'[c].seen = order /\ Read(c) /\ UNCHANGED order
                    /\ ~Exists => \A c \in Callers :
                          call[c].pc = "none" => call'[c].pc = "none"
<1> SUFFICES Jobs /\ Calls
  OBVIOUS
<1>3. UNCHANGED job => Jobs
  BY DEF Filling
<1>4. UNCHANGED call => Calls
  OBVIOUS
<1>5. ASSUME NEW p \in {"none", "loop", "release"}, NEW n, Restarts(p, n),
             job.pc # "none" \/ Exists
      PROVE  Jobs
  BY <1>5 DEF Restarts, Filling
<1>6. ASSUME NEW s \in Sagas, SagaStep(s)
      PROVE  Jobs /\ UNCHANGED call
  <2>1. CASE Returns(s)
    <3>1. CASE UNCHANGED job
      BY <1>3, <2>1, <3>1 DEF Returns
    <3>2. ASSUME NEW p \in {"failed", "save"}, job.txn = s, job' = [job EXCEPT !.pc = p]
          PROVE  Jobs
      <4>1. job'.seen = job.seen
        BY <1>1, <3>2 DEF Job
      <4>2. Filling
        BY <1>1, <3>2, OrderAssumption DEF PortionFits
      <4> QED BY <4>1, <4>2 DEF Filling
    <3> QED BY <2>1, <3>1, <3>2 DEF Returns
  <2> QED BY <1>3, <1>6, <2>1 DEF SagaStep, Forward, ForwardRefused, ForwardLost, Backward,
                BackwardRefused, ExecutorStep
<1>7. CASE CreateOrder \/ Reconcile \/ UNCHANGED vars
  BY <1>3, <1>4, <1>7 DEF CreateOrder, Reconcile, RecoverPlacement, RecoverFill,
               ReconcileMoney, ReconcileShares, vars
<1>8. CASE Engine
  <2>1. UNCHANGED call
    BY <1>8 DEF Engine, StartOrderExecution, LoopReturns, FillPortion, ProcessFill,
               FillFailed, SaveFill, AbortOrder, ReleaseResidualReservation
  <2>2. CASE StartOrderExecution
    BY <1>5, <2>2, JobRestarts DEF StartOrderExecution, Active, Exists
  <2>3. CASE LoopReturns \/ ReleaseResidualReservation
    BY <1>5, <2>3, JobRestarts DEF LoopReturns, ReleaseResidualReservation
  <2>4. CASE FillPortion
    <3>1. PICK t : job' = [job EXCEPT !.pc = "wait", !.seen = order, !.txn = t]
      BY <2>4 DEF FillPortion
    <3>2. job'.seen = order
      BY <1>1, <3>1 DEF Job
    <3> QED BY <2>4, <3>2 DEF FillPortion
  <2>5. CASE ProcessFill
    BY <1>1, <2>5 DEF ProcessFill, Filling, Job
  <2>6. CASE FillFailed
    <3>1. CASE job.failures + 1 >= MaxFailures
      BY <1>1, <2>6, <3>1 DEF FillFailed, Filling, Job
    <3>2. CASE ~(job.failures + 1 >= MaxFailures)
      <4>1. job.failures + 1 \in 0..MaxFailures
        BY <1>1, <3>2, OrderAssumption DEF Job
      <4> QED BY <1>5, <2>6, <3>2, <4>1, JobRestarts DEF FillFailed
    <3> QED BY <3>1, <3>2
  <2>7. CASE SaveFill \/ AbortOrder
    <3>1. PICK d \in BOOLEAN : EndOfJob(d)
      BY <2>7 DEF SaveFill, AbortOrder
    <3>2. PICK p \in {"none", "loop", "release"} : Restarts(p, 0)
      BY <3>1, JobRestarts DEF EndOfJob
    <3> QED BY <1>5, <2>7, <3>2 DEF SaveFill, AbortOrder
  <2> QED BY <1>4, <1>8, <2>1, <2>2, <2>3, <2>4, <2>5, <2>6, <2>7 DEF Engine
<1>9. ASSUME NEW c \in Callers, Read(c)
      PROVE  Jobs /\ Calls
  <2>1. /\ UNCHANGED <<job, order>> /\ call'[c] = [pc |-> "update", seen |-> order]
        /\ Exists /\ \A d \in Callers \ {c} : call'[d] = call[d]
    BY <1>1, <1>9 DEF Read, orderVars, Exists
  <2> QED BY <1>3, <1>9, <2>1
<1>10. CASE Supervise \/ CancelRelease
  <2>1. PICK c \in Callers : UNCHANGED job /\ call' = [call EXCEPT ![c] = NoCall]
    BY <1>10 DEF Supervise, CancelRelease, Callers
  <2> QED BY <1>1, <1>3, <2>1, EmptyTyped
<1>11. CASE CancelOrder
  <2>1. /\ call["owner"].pc = "update" /\ call["owner"] \in Call /\ UNCHANGED job
        /\ "owner" \in Callers
    BY <1>1, <1>11 DEF CancelOrder, Callers
  <2>2. PICK r : call' = [call EXCEPT !["owner"] = r]
                 /\ (r = [call["owner"] EXCEPT !.pc = "release"] \/ r = NoCall)
    BY <1>1, <1>11, <2>1 DEF CancelOrder
  <2>3. r.pc # "update"
    BY <2>1, <2>2, EmptyTyped DEF Call
  <2>4. call'["owner"] = r /\ \A d \in Callers \ {"owner"} : call'[d] = call[d]
    BY <1>1, <2>1, <2>2
  <2> QED BY <1>3, <2>1, <2>3, <2>4
<1>12. CASE ServiceCrash
  <2>1. Restarts("none", 0) /\ \A c \in Callers : call'[c].pc = "none"
    BY <1>12, JobRestarts, EmptyTyped DEF ServiceCrash
  <2> QED BY <2>1 DEF Restarts, Filling
<1>13. CASE SaveFails
  <2>1. PICK p \in {"none", "loop", "release"} : Restarts(p, 0)
    BY <1>13, JobRestarts DEF SaveFails, EndOfJob
  <2>2. UNCHANGED call /\ job.pc # "none"
    BY <1>13 DEF SaveFails
  <2> QED BY <1>4, <1>5, <2>1, <2>2
<1> QED BY <1>4, <1>6, <1>7, <1>8, <1>9, <1>10, <1>11, <1>12, <1>13 DEF Next

(* A step that disturbs nothing came from a state where nothing was.       *)
LEMMA StaysUndisturbed ==
    ASSUME TypeInv, [Next]_vars, Undisturbed'
    PROVE  Undisturbed /\ faults'.mark = 0 /\ ~ServiceCrash /\ ~SaveFails
<1>1. FaultsGrow /\ faults \in Faults
  BY TypeStep DEF TypeInv, SagaInv, LogTyped
<1>2. Undisturbed /\ faults'.mark = 0
  BY <1>1 DEF FaultsGrow, Faults, Undisturbed
<1>3. ServiceCrash => faults'.crash > faults.crash
  BY <1>1, FaultsCounted DEF ServiceCrash, Crash
<1>4. SaveFails => faults'.mark > faults.mark
  BY <1>1, FaultsCounted DEF SaveFails
<1> QED BY <1>1, <1>2, <1>3, <1>4 DEF Faults, Undisturbed

(* A copy stays the row itself or older than it while the row moves.       *)
LEMMA CopyKept ==
    ASSUME TypeInv, OrderMove, ~(Forward(Placement) /\ run[Placement].at = 1 /\ ~Exists),
           NEW seen \in OrderRow, Copied(seen)
    PROVE  Copied(seen)'
<1>1. order.version \in Nat /\ seen.version \in Nat
  BY DEF TypeInv, OrderTyped, OrderRow
<1>2. CASE UNCHANGED order
  BY <1>2 DEF Copied, Exists
<1>3. CASE order' = NoRow
  BY <1>3 DEF Copied, Exists, NoRow
<1>4. CASE Exists /\ order'.version = order.version + 1
  BY <1>1, <1>4 DEF Copied
<1> QED BY <1>2, <1>3, <1>4 DEF OrderMove, Saves, Fresh

(* Every undisturbed step moves the placement as PlacementRuns says, or    *)
(* leaves it.                                                              *)
LEMMA PlacementMoves ==
    ASSUME TypeInv, PlacementLog, [Next]_vars, faults'.mark = 0, ~ServiceCrash
    PROVE  /\ PlacementLog'
           /\ Unplaced' => Unplaced
           /\ run'[Placement].pc \in Going => run[Placement].pc \in Going \/ Unplaced
           /\ RecoverPlacement => ~Unplaced' /\ run'[Placement].pc \notin Going
           /\ Forward(Placement) => ~Unplaced'
<1> DEFINE Mine == CreateOrder \/ SagaStep(Placement) \/ RecoverPlacement
<1>1. CASE Mine
  BY <1>1, PlacementRuns
<1>2. CASE ~Mine
  <2>1. /\ run'[Placement] = run[Placement] /\ fwd'[Placement] = fwd[Placement]
        /\ comp'[Placement] = comp[Placement]
    BY <1>2, PlacementAlone
  <2>2. ~Forward(Placement)
    BY <1>2 DEF SagaStep
  <2> QED BY <1>2, <2>1, <2>2 DEF PlacementLog, Unplaced, Begun
<1> QED BY <1>1, <1>2

(* Every undisturbed step keeps the placement single and the copies sound. *)
LEMMA CalmStep ==
    ASSUME TypeInv, CalmInv, [Next]_vars
    PROVE  CalmInv'
<1> SUFFICES ASSUME Undisturbed'
             PROVE  PlacementOnce' /\ CopiesSound'
  BY DEF CalmInv
<1>1. faults'.mark = 0 /\ ~ServiceCrash /\ PlacementOnce /\ CopiesSound
  BY StaysUndisturbed DEF CalmInv
<1>2. /\ OrderMove /\ order \in OrderRow /\ job.seen \in OrderRow
      /\ \A c \in Callers : call[c].seen \in OrderRow
  BY OrderMoves DEF TypeInv, OrderTyped, Job, Call
<1> DEFINE Created == Forward(Placement) /\ run[Placement].at = 1 /\ ~Exists
<1>3. /\ PlacementLog'
      /\ Unplaced' => Unplaced
      /\ run'[Placement].pc \in Going => run[Placement].pc \in Going \/ Unplaced
      /\ RecoverPlacement => ~Unplaced' /\ run'[Placement].pc \notin Going
      /\ Forward(Placement) => ~Unplaced'
  BY <1>1, PlacementMoves DEF PlacementOnce
<1>4. ~RecoverPlacement => planned' = planned
  <2>1. CASE CreateOrder \/ SagaStep(Placement)
    BY <2>1 DEF CreateOrder, SagaStep, Forward, ForwardRefused, ForwardLost, Backward,
          BackwardRefused, ExecutorStep, Returns, orderVars
  <2> QED BY <1>1, <2>1, PlacementAlone
<1>5. Created => Unplaced
  BY DEF Forward, ForwardDone, Unplaced
<1>6. Unplaced' => /\ ~Exists' /\ job'.pc = "none"
                   /\ \A c \in Callers : call'[c].pc = "none"
  <2> SUFFICES ASSUME Unplaced'
               PROVE  ~Exists' /\ job'.pc = "none" /\ \A c \in Callers : call'[c].pc = "none"
    OBVIOUS
  <2>1. ~Exists /\ job.pc = "none" /\ (\A c \in Callers : call[c].pc = "none")
        /\ ~Forward(Placement)
    BY <1>1, <1>3 DEF PlacementOnce
  <2>2. ~Exists'
    BY <1>2, <2>1 DEF OrderMove, Saves, Fresh, Exists, NoRow
  <2> QED BY <2>1, <2>2, CopyMoves
<1>7. PlacementOnce'
  BY <1>1, <1>3, <1>4, <1>6 DEF PlacementOnce
<1>8. CASE Created
  <2>1. /\ UNCHANGED <<job, call>>
        /\ job.pc = "none" /\ \A c \in Callers : call[c].pc = "none"
    BY <1>1, <1>5, <1>8 DEF Forward, PlacementOnce
  <2>2. Exists' => order'.status = "pending"
    BY <1>2, <1>8 DEF OrderMove, Saves, Fresh, Exists, NoRow
  <2> QED BY <1>7, <2>1, <2>2 DEF CopiesSound, Filling, Callers
<1>9. CASE ~Created
  <2>1. \A seen \in OrderRow : Copied(seen) => Copied(seen)'
    BY <1>2, <1>9, CopyKept
  <2>2. UNCHANGED order => \A seen : seen = order => Copied(seen)'
    BY <1>2 DEF Copied, OrderRow
  <2>3. Exists' /\ order'.version = 0 => order'.status = "pending"
    BY <1>1, <1>2 DEF OrderMove, Saves, Fresh, CopiesSound, OrderRow, Exists, NoRow
  <2>4. Filling' => Copied(job.seen)' /\ job'.seen.status = "approved" /\ ~job'.seen.done
    BY <1>1, <1>2, <2>1, <2>2, CopyMoves DEF CopiesSound, Active
  <2>5. call'["supervisor"].pc = "update" =>
          /\ Copied(call["supervisor"].seen)'
          /\ call'["supervisor"].seen.status = "pending"
    BY <1>1, <1>2, <2>1, <2>2, CopyMoves DEF CopiesSound, Callers, Read
  <2>6. call'["owner"].pc = "update" =>
         /\ Copied(call["owner"].seen)' /\ ~call'["owner"].seen.done
         /\ call'["owner"].seen.status \in {"pending", "approved"}
    BY <1>1, <1>2, <2>1, <2>2, CopyMoves DEF CopiesSound, Callers, Read, Exists,
          OrderRow
  <2> QED BY <1>7, <2>3, <2>4, <2>5, <2>6 DEF CopiesSound
<1> QED BY <1>8, <1>9

(* Nothing is placed, read or taken at the beginning.                      *)
LEMMA CalmInit == ASSUME Init PROVE CalmInv
<1>1. Placement \in Sagas /\ Steps(Placement) = Step
  BY OrderAssumption, ThreeSteps
<1>2. /\ run[Placement].pc = "idle" /\ run[Placement].done = {} /\ run[Placement].row = None
      /\ \A i \in Step : fwd[Placement][i] = {} /\ comp[Placement][i] = "none"
  BY <1>1 DEF Init, SagaInit, Idle
<1>3. /\ ~Exists /\ planned = 0 /\ job.pc = "none"
      /\ \A c \in Callers : call[c].pc = "none"
  BY EmptyTyped DEF Init, Exists, NoRow
<1>4. PlacementLog
  BY <1>2 DEF PlacementLog, Going
<1>5. PlacementOnce
  BY <1>3, <1>4 DEF PlacementOnce
<1>6. CopiesSound
  BY <1>3 DEF CopiesSound, Filling, Callers
<1> QED BY <1>5, <1>6 DEF CalmInv

(* DeclineOrder is final: while no crash and no lost write of the log sends*)
(* the placement through recovery, no save by the placement, the engine,   *)
(* the supervisor or the owner overwrites the verdict, whatever copy of the*)
(* row it works on.                                                        *)
THEOREM VerdictStands == Spec => VerdictStandsUndisturbed
<1> DEFINE Known == TypeInv /\ CalmInv
           Verdict == Undisturbed /\ order.status = "declined" =>
                        order'.status \in {"declined", "none"}
<1>1. Init => Known
  BY TypeInit, CalmInit
<1>2. Known /\ [Next]_vars => Known'
  BY TypeStep, CalmStep
<1>3. Known /\ [Next]_vars => [Verdict]_order
  <2> SUFFICES ASSUME TypeInv, CalmInv, [Next]_vars, Undisturbed,
                      order.status = "declined"
               PROVE  order'.status \in {"declined", "none"}
    OBVIOUS
  <2>1. /\ OrderMove /\ PlacementOnce /\ CopiesSound /\ Exists /\ order.version \in Nat
        /\ order.version # 0
    BY OrderMoves DEF CalmInv, Exists, CopiesSound, TypeInv, OrderTyped, OrderRow
  <2>2. Forward(Placement) => planned # order.version
    BY <2>1 DEF Forward, ForwardDone, PlacementOnce, Going
  <2>3. \A seen : Copied(seen) /\ Fresh(seen) => seen = order
    BY <2>1 DEF Copied, Fresh
  <2>4. ~(SaveFill /\ Saves(job.seen)) /\ ~(AbortOrder /\ Saves(job.seen))
    BY <2>1, <2>3 DEF SaveFill, AbortOrder, Saves, CopiesSound, Filling
  <2>5. ~(Supervise /\ Saves(call["supervisor"].seen))
    BY <2>1, <2>3 DEF Supervise, Saves, CopiesSound
  <2>6. ~(CancelOrder /\ Saves(call["owner"].seen))
    BY <2>1, <2>3 DEF CancelOrder, Saves, CopiesSound
  <2> QED BY <2>1, <2>2, <2>4, <2>5, <2>6 DEF OrderMove, NoRow
<1> HIDE DEF Known, Verdict
<1>4. Spec => [][Verdict]_order
  BY <1>1, <1>2, <1>3, PTL DEF Spec
<1> QED BY <1>4 DEF VerdictStandsUndisturbed, Verdict

-----------------------------------------------------------------------------
(* An order moves exactly its quantity *)

(* While nothing is disturbed a fill is run once, by the engine, and its   *)
(* run has moved the shares when it ends without an error, and only then.  *)
FillOnce(t) ==
    /\ run[t].pc # "idle" => job.pc = "fill" /\ job.txn = t /\ run[t].row = None
    /\ fill[t].qty = 0 \/ (job.pc = "wait" /\ job.txn = t) =>
         run[t].pc = "idle" /\ \A i \in Step : fwd[t][i] = {}
    /\ \A i \in Step : "pending" \notin fwd[t][i]
    /\ run[t].pc \in Going => \A i \in Step : i >= run[t].at => ~IsCompleted(t, i)
    /\ run[t].pc \in Going \cup {"return"} => ~run[t].error
    /\ run[t].pc \in {"undo", "back", "unmark"} => run[t].error
    /\ run[t].pc # "idle" =>
         (fill[t].shares <=> run[t].pc = "return" \/ (run[t].pc = "mark" /\ run[t].at = 3))

(* What the engine's own portion has moved *)
PortionMoved ==
    /\ job.pc \in {"failed", "abort"} => ~fill[job.txn].shares
    /\ job.pc = "save" => fill[job.txn].shares

(* The units delivered and the units left add up to the order: in the copy *)
(* the engine fills from, and in the row of an approved order.             *)
LeftAddsUp ==
    /\ Units(Delivered) <= Quantity
    /\ Filling => Units(Delivered \ {job.txn}) = Quantity - job.seen.left
    /\ order.status = "approved" /\ Filling => order = job.seen
    /\ order.status = "approved" /\ ~Filling => Units(Delivered) = Quantity - order.left
    /\ order.status = "approved" => (order.done <=> order.left = 0)
    /\ order.status = "pending" => order.left = Quantity /\ ~order.done
    /\ order.status \in {"pending", "declined"} \/ Unplaced =>
         ~Filling /\ Units(Delivered) = 0

FilledInv == Undisturbed => (\A t \in Txns : FillOnce(t)) /\ PortionMoved /\ LeftAddsUp

(* The units of the fills of T, as f has them. *)
Counted(f, T) == Cardinality(UNION {{t} \X (1 .. f[t].qty) : t \in T})

(* The units of finitely many fills are finite, and those of one fill are  *)
(* its quantity.                                                           *)
LEMMA UnitsFinite ==
    ASSUME NEW T, IsFiniteSet(T), NEW f, \A t \in T : f[t].qty \in Nat
    PROVE  /\ IsFiniteSet(UNION {{t} \X (1 .. f[t].qty) : t \in T})
           /\ \A t \in T : /\ IsFiniteSet({t} \X (1 .. f[t].qty))
                           /\ Cardinality({t} \X (1 .. f[t].qty)) = f[t].qty
<1> DEFINE U == {{t} \X (1 .. f[t].qty) : t \in T}
           g == [t \in T |-> {t} \X (1 .. f[t].qty)]
<1>1. g \in Surjection(T, U)
  BY DEF Surjection
<1>2. ASSUME NEW t \in T
      PROVE  /\ IsFiniteSet({t} \X (1 .. f[t].qty))
             /\ Cardinality({t} \X (1 .. f[t].qty)) = f[t].qty
  <2>1. PICK q \in Nat : q = f[t].qty
    OBVIOUS
  <2>2. IsFiniteSet(1 .. q) /\ Cardinality(1 .. q) = q
    <3>1. 1 \in Int /\ q \in Int
      OBVIOUS
    <3> QED BY SMTT(40), <3>1, FS_Interval
  <2>3. IsFiniteSet({t}) /\ Cardinality({t}) = 1
    BY FS_Singleton
  <2>4. /\ IsFiniteSet({t} \X (1 .. f[t].qty))
        /\ Cardinality({t} \X (1 .. f[t].qty)) = 1 * Cardinality(1 .. f[t].qty)
    BY <2>1, <2>2, <2>3, FS_Product
  <2> QED BY <2>1, <2>2, <2>4
<1>3. \A u \in U : IsFiniteSet(u)
  BY <1>2
<1> HIDE DEF U, g
<1>4. IsFiniteSet(U)
  BY <1>1, FS_Surjection
<1>5. IsFiniteSet(UNION U)
  BY <1>3, <1>4, FS_UNION
<1> QED BY <1>2, <1>5 DEF U

(* The units of T are those of one fill and those of the others.           *)
LEMMA CountedSplit ==
    ASSUME NEW T, IsFiniteSet(T), NEW f, \A u \in T : f[u].qty \in Nat, NEW t
    PROVE  /\ Counted(f, T) \in Nat
           /\ t \in T => Counted(f, T) = Counted(f, T \ {t}) + f[t].qty
<1> DEFINE All == UNION {{u} \X (1 .. f[u].qty) : u \in T}
           Others == UNION {{u} \X (1 .. f[u].qty) : u \in T \ {t}}
           Own == {t} \X (1 .. f[t].qty)
<1>1. IsFiniteSet(All) /\ Counted(f, T) = Cardinality(All)
  BY UnitsFinite DEF Counted
<1>2. Counted(f, T) \in Nat
  BY <1>1, FS_CardinalityType
<1>3. ASSUME t \in T
      PROVE  Counted(f, T) = Counted(f, T \ {t}) + f[t].qty
  <2>1. IsFiniteSet(T \ {t}) /\ \A u \in T \ {t} : f[u].qty \in Nat
    BY FS_RemoveElement
  <2>2. IsFiniteSet(Others) /\ Counted(f, T \ {t}) = Cardinality(Others)
    BY <2>1, UnitsFinite DEF Counted
  <2>3. IsFiniteSet(Own) /\ Cardinality(Own) = f[t].qty /\ f[t].qty \in Nat
    <3>1. \A u \in T : /\ IsFiniteSet({u} \X (1 .. f[u].qty))
                      /\ Cardinality({u} \X (1 .. f[u].qty)) = f[u].qty
      BY UnitsFinite, ZenonT(40)
    <3>2. f[t].qty \in Nat
      BY <1>3
    <3> QED BY <1>3, <3>1, <3>2, ZenonT(40)
  <2>4. All = Others \cup Own /\ Others \cap Own = {}
    BY <1>3
  <2> HIDE DEF All, Others, Own
  <2>5. Cardinality(Others \cup Own) = Cardinality(Others) + Cardinality(Own)
                                       - Cardinality(Others \cap Own)
    BY <2>2, <2>3, FS_Union
  <2>6. Cardinality(Others \cap Own) = 0 /\ Cardinality(Others) \in Nat
    BY <2>2, <2>4, FS_EmptySet, FS_CardinalityType
  <2> QED BY <1>1, <2>2, <2>3, <2>4, <2>5, <2>6
<1> QED BY <1>2, <1>3

(* Units depend on the quantities alone, and no fill has none.             *)
LEMMA CountedSame ==
    ASSUME NEW T, NEW f, NEW g, \A t \in T : g[t].qty = f[t].qty
    PROVE  Counted(g, T) = Counted(f, T)
<1>1. UNION {{t} \X (1 .. g[t].qty) : t \in T} = UNION {{t} \X (1 .. f[t].qty) : t \in T}
  OBVIOUS
<1> QED BY <1>1 DEF Counted

(* The units of the order's transactions, in these terms.                  *)
LEMMA UnitsCounted ==
    ASSUME TypeInv
    PROVE  /\ Units(Delivered) = Counted(fill, Delivered)
           /\ \A t : Units(Delivered \ {t}) = Counted(fill, Delivered \ {t})
           /\ \A t : Counted(fill, Delivered \ {t}) \in Nat
           /\ Counted(fill, Delivered) \in Nat
           /\ \A t \in Delivered :
                Counted(fill, Delivered) = Counted(fill, Delivered \ {t}) + fill[t].qty
           /\ \A t : t \notin Delivered => Delivered \ {t} = Delivered
           /\ Quantity \in Nat \ {0}
<1>1. fill \in [Txns -> Fill] /\ Quantity \in Nat \ {0} /\ Txns \subseteq Sagas
  BY OrderAssumption DEF TypeInv, OrderTyped
<1>2. \A t \in Txns : fill[t].qty \in Nat
  BY <1>1 DEF Fill
<1>3. /\ IsFiniteSet(Delivered) /\ Delivered \subseteq Txns
      /\ \A t : IsFiniteSet(Delivered \ {t})
  <2>1. IsFiniteSet(Txns) /\ Delivered \subseteq Txns
    BY <1>1, SagaAssumption, FS_Subset DEF Delivered
  <2>2. \A t : Delivered \ {t} \subseteq Txns
    BY <2>1
  <2> QED BY <2>1, <2>2, FS_Subset
<1>4. ASSUME NEW t
      PROVE  /\ Counted(fill, Delivered \ {t}) \in Nat /\ Counted(fill, Delivered) \in Nat
             /\ t \in Delivered =>
                  Counted(fill, Delivered) = Counted(fill, Delivered \ {t}) + fill[t].qty
  <2>1. \A u \in Delivered : fill[u].qty \in Nat
    BY <1>2, <1>3
  <2>2. \A u \in Delivered \ {t} : fill[u].qty \in Nat
    BY <2>1
  <2> QED BY <1>3, <2>1, <2>2, CountedSplit
<1> QED BY <1>1, <1>4 DEF Units, Counted

(* The engine takes transaction t for a portion of the order.              *)
Taken(t) ==
    /\ FillPortion /\ job.pc = "loop" /\ Active /\ fill[t].qty = 0
    /\ job'.pc = "wait" /\ job'.txn = t /\ job'.seen = order
    /\ fill'[t].qty \in 1..order.left /\ fill'[t].shares = fill[t].shares
    /\ \A u \in Txns \ {t} : fill'[u] = fill[u]

(* FillPortion takes a transaction that has no quantity yet.               *)
LEMMA PortionTaken ==
    ASSUME TypeInv, FillPortion
    PROVE  \E t \in Txns : Taken(t)
<1>0. job \in Job /\ fill \in [Txns -> Fill] /\ order \in OrderRow
  BY DEF TypeInv, OrderTyped
<1>1. PICK q \in 1..order.left :
         LET t == CHOOSE u \in Txns : fill[u].qty = 0 IN
         /\ fill' = [fill EXCEPT ![t].qty = q, ![t].row = TRUE]
         /\ job' = [job EXCEPT !.pc = "wait", !.seen = order, !.txn = t]
  BY DEF FillPortion
<1>2. PICK t : t = CHOOSE u \in Txns : fill[u].qty = 0
  OBVIOUS
<1>3. t \in Txns /\ fill[t].qty = 0
  BY <1>2 DEF FillPortion
<1>4. fill' = [fill EXCEPT ![t].qty = q, ![t].row = TRUE]
      /\ job' = [job EXCEPT !.pc = "wait", !.seen = order, !.txn = t]
  BY <1>1, <1>2
<1>5. /\ fill'[t].qty = q /\ fill'[t].shares = fill[t].shares
      /\ \A u \in Txns \ {t} : fill'[u] = fill[u]
  BY <1>0, <1>3, <1>4 DEF Fill
<1>6. job'.pc = "wait" /\ job'.seen = order /\ job'.txn = t
  BY <1>0, <1>3, <1>4 DEF Job
<1>7. Taken(t)
  BY <1>3, <1>5, <1>6 DEF FillPortion, Taken
<1> QED BY <1>3, <1>7

SameCopy == job'.txn = job.txn /\ job'.seen = job.seen

(* What a step that loses nothing may do to the engine's goroutine.        *)
JobMove ==
    \/ UNCHANGED job
    \/ ~Filling /\ ~Filling'
    \/ \E t \in Txns : Taken(t)
    \/ ProcessFill /\ job.pc = "wait" /\ job'.pc = "fill" /\ SameCopy
    \/ /\ Filling /\ job.txn \in Txns /\ Returns(job.txn) /\ run[job.txn].row = None
       /\ job'.pc = (IF run[job.txn].error THEN "failed" ELSE "save") /\ SameCopy
    \/ FillFailed /\ job.pc = "failed" /\ job'.pc = "abort" /\ SameCopy
    \/ (FillFailed \/ SaveFill \/ AbortOrder) /\ ~Filling'

(* Every such step moves the goroutine as JobMove says, or leaves it.      *)
LEMMA JobMoves ==
    ASSUME TypeInv, [Next]_vars, ~ServiceCrash, ~SaveFails
    PROVE  JobMove
<1>1. job \in Job /\ PortionFits /\ fill \in [Txns -> Fill] /\ order \in OrderRow
  BY DEF TypeInv, OrderTyped
<1>2. ASSUME NEW p \in {"none", "loop", "release"}, NEW n, Restarts(p, n)
      PROVE  ~Filling'
  BY <1>2 DEF Restarts, Filling
<1>3. ASSUME NEW s \in Sagas, SagaStep(s)
      PROVE  JobMove
  <2>1. CASE Returns(s) /\ ~UNCHANGED job
    <3>1. /\ job.txn = s /\ run[s].row = None
          /\ job' = [job EXCEPT !.pc = IF run[s].error THEN "failed" ELSE "save"]
      BY <2>1 DEF Returns
    <3>2. PICK p : p = IF run[s].error THEN "failed" ELSE "save"
      OBVIOUS
    <3>3. job' = [job EXCEPT !.pc = p]
      BY <3>1, <3>2
    <3>4. job'.pc = p /\ SameCopy
      BY <1>1, <3>3 DEF Job, SameCopy
    <3>5. Filling /\ job.txn \in Txns
      BY <1>1, <3>1, OrderAssumption DEF PortionFits
    <3> QED BY <2>1, <3>1, <3>2, <3>4, <3>5 DEF JobMove
  <2>2. CASE ~Returns(s)
    BY <1>3, <2>2 DEF SagaStep, Forward, ForwardRefused, ForwardLost, Backward,
                BackwardRefused, ExecutorStep, JobMove
  <2> QED BY <2>1, <2>2 DEF JobMove
<1>4. CASE CreateOrder \/ Reconcile \/ UNCHANGED vars \/ Supervise \/ CancelOrder
           \/ CancelRelease \/ \E c \in Callers : Read(c)
  BY <1>4 DEF CreateOrder, Reconcile, RecoverPlacement, RecoverFill, ReconcileMoney,
              ReconcileShares, vars, Supervise, CancelOrder, CancelRelease, Read, JobMove
<1>5. CASE Engine
  <2>1. CASE StartOrderExecution \/ LoopReturns \/ ReleaseResidualReservation
    <3>1. PICK p \in {"none", "loop", "release"} : Restarts(p, 0)
      BY <2>1, JobRestarts DEF StartOrderExecution, LoopReturns,
            ReleaseResidualReservation
    <3>2. ~Filling
      BY <2>1 DEF StartOrderExecution, LoopReturns, ReleaseResidualReservation, Filling
    <3> QED BY <1>2, <3>1, <3>2 DEF JobMove
  <2>2. CASE FillPortion
    BY <2>2, PortionTaken DEF JobMove
  <2>3. CASE ProcessFill
    <3>1. job.pc = "wait" /\ job' = [job EXCEPT !.pc = "fill"]
      BY <2>3 DEF ProcessFill
    <3>2. job'.pc = "fill" /\ SameCopy
      BY <1>1, <3>1 DEF Job, SameCopy
    <3> QED BY <2>3, <3>1, <3>2 DEF JobMove
  <2>4. CASE FillFailed
    <3>1. CASE job.failures + 1 >= MaxFailures
      <4>1. job.pc = "failed" /\ job' = [job EXCEPT !.pc = "abort"]
        BY <2>4, <3>1 DEF FillFailed
      <4>2. job'.pc = "abort" /\ SameCopy
        BY <1>1, <4>1 DEF Job, SameCopy
      <4> QED BY <2>4, <4>1, <4>2 DEF JobMove
    <3>2. CASE ~(job.failures + 1 >= MaxFailures)
      <4>1. job.failures + 1 \in 0..MaxFailures
        BY <1>1, <3>2, OrderAssumption DEF Job
      <4>2. Restarts("loop", job.failures + 1)
        BY <2>4, <3>2, <4>1, JobRestarts DEF FillFailed
      <4> QED BY <1>2, <2>4, <4>2 DEF JobMove
    <3> QED BY <3>1, <3>2
  <2>5. CASE SaveFill \/ AbortOrder
    <3>1. PICK d \in BOOLEAN : EndOfJob(d)
      BY <2>5 DEF SaveFill, AbortOrder
    <3>2. PICK p \in {"none", "loop", "release"} : Restarts(p, 0)
      BY <3>1, JobRestarts DEF EndOfJob
    <3> QED BY <1>2, <2>5, <3>2 DEF JobMove
  <2> QED BY <1>5, <2>1, <2>2, <2>3, <2>4, <2>5 DEF Engine
<1> QED BY <1>3, <1>4, <1>5 DEF Next

(* A step leaves every quantity and delivery, takes a transaction for a    *)
(* portion, or delivers a fill.                                            *)
LEMMA DeliveryMoves ==
    ASSUME TypeInv, [Next]_vars
    PROVE  \/ /\ \A u \in Txns : fill'[u].qty = fill[u].qty
              /\ \A u \in Txns : fill'[u].shares = fill[u].shares
           \/ \E t \in Txns : Taken(t)
           \/ \E t \in Txns : /\ Forward(t) /\ run[t].at = 3 /\ fill'[t].shares
                              /\ \A u \in Txns : fill'[u].qty = fill[u].qty
                              /\ \A u \in Txns \ {t} : fill'[u] = fill[u]
<1> DEFINE Kept == /\ \A u \in Txns : fill'[u].qty = fill[u].qty
                   /\ \A u \in Txns : fill'[u].shares = fill[u].shares
<1>1. /\ OrderTyped /\ SagaInv /\ PortionFits /\ fill \in [Txns -> Fill]
      /\ Placement \in Sagas /\ Placement \notin Txns
  BY OrderAssumption DEF TypeInv, OrderTyped
<1>2. UNCHANGED fill => Kept
  OBVIOUS
<1>3. ASSUME NEW t \in Txns, Forward(t) \/ ForwardLost(t)
      PROVE  \/ Kept
             \/ /\ Forward(t) /\ run[t].at = 3 /\ fill'[t].shares
                /\ \A u \in Txns : fill'[u].qty = fill[u].qty
                /\ \A u \in Txns \ {t} : fill'[u] = fill[u]
  <2>1. /\ run[t].at \in Step /\ UNCHANGED direction
        /\ CanFill(t, run[t].at) /\ FillForward(t, run[t].at)
    BY <1>1, <1>3, OrderAssumption DEF Forward, ForwardDone, ForwardLost, ForwardFailed,
          SagaInv, OnStep, Busy, StepForward, CanForward
  <2>2. /\ fill'[t].shares = (fill[t].shares \/ run[t].at = 3)
        /\ fill'[t].qty = fill[t].qty
        /\ \A u \in Txns \ {t} : fill'[u] = fill[u]
    BY <1>1, <2>1, FillEffects
  <2>3. fill[t].shares \in BOOLEAN
    BY <1>1 DEF Fill
  <2>4. CASE run[t].at = 3
    <3>1. fill'[t].shares
      BY <2>2, <2>4, Zenon
    <3>2. ~ForwardLost(t)
      BY <1>1, <2>4 DEF ForwardLost, RemoteStep, MoneyStep
    <3> QED BY <1>3, <2>2, <2>4, <3>1, <3>2
  <2>5. CASE run[t].at # 3
    <3>1. fill'[t].shares = fill[t].shares
      BY <2>2, <2>3, <2>5, Zenon
    <3> QED BY <2>2, <3>1
  <2> QED BY <2>4, <2>5
<1>4. ASSUME NEW t \in Txns, Backward(t)
      PROVE  Kept
  <2>1. UNCHANGED direction /\ FillBackward(t)
    BY <1>1, <1>4 DEF Backward
  <2>2. /\ fill'[t].shares = fill[t].shares /\ fill'[t].qty = fill[t].qty
        /\ \A u \in Txns \ {t} : fill'[u] = fill[u]
    BY <1>1, <2>1, FillEffects
  <2> QED BY <2>2
<1>5. Forward(Placement) \/ ForwardLost(Placement) \/ Backward(Placement) => UNCHANGED fill
  <2>1. /\ Forward(Placement) \/ ForwardLost(Placement) =>
             run[Placement].at \in Step /\ UNCHANGED direction /\ StepForward(Placement)
        /\ Backward(Placement) => /\ run[Placement].at \in Step /\ UNCHANGED direction
                                  /\ <<Placement, run[Placement].at>> \notin NoBackward
    BY <1>1 DEF Forward, ForwardDone, ForwardLost, ForwardFailed, Backward, BackwardDone,
       SagaInv, OnStep, Busy
  <2>2. Backward(Placement) => run[Placement].at \in {1, 2}
    BY <2>1, Irreversible DEF Step
  <2> QED BY <1>1, <2>1, <2>2, PlacementTyped DEF StepForward, Backward
<1>6. ASSUME NEW s \in Sagas, SagaStep(s), ~Forward(s), ~ForwardLost(s), ~Backward(s)
      PROVE  UNCHANGED fill
  BY <1>6 DEF SagaStep, ForwardRefused, BackwardRefused, ExecutorStep, Returns,
        orderVars
<1>7. CASE FillPortion
  BY <1>7, PortionTaken
<1>8. CASE FillFailed
  BY <1>1, <1>8 DEF FillFailed, Fill
<1>9. CASE Engine /\ ~FillPortion /\ ~FillFailed
  BY <1>2, <1>9 DEF Engine, StartOrderExecution, LoopReturns, ProcessFill, SaveFill,
               AbortOrder, ReleaseResidualReservation, orderVars
<1>10. CASE CreateOrder \/ SaveFails \/ Reconcile \/ UNCHANGED vars \/ Supervise \/ CancelOrder
           \/ CancelRelease \/ ServiceCrash \/ \E c \in Callers : Read(c)
  BY <1>2, <1>10 DEF CreateOrder, SaveFails, Reconcile, RecoverPlacement, RecoverFill,
        ReconcileMoney,
              ReconcileShares, vars, Supervise, CancelOrder, CancelRelease, Read,
              ServiceCrash, orderVars
<1> QED
  <2>1. ASSUME NEW s \in Sagas, SagaStep(s)
        PROVE  \/ Kept
               \/ \E t \in Txns : /\ Forward(t) /\ run[t].at = 3 /\ fill'[t].shares
                                  /\ \A u \in Txns : fill'[u].qty = fill[u].qty
                                  /\ \A u \in Txns \ {t} : fill'[u] = fill[u]
    <3>1. s = Placement \/ s \in Txns
      BY OrderAssumption
    <3> QED BY <1>2, <1>3, <1>4, <1>5, <1>6, <2>1, <3>1
  <2> QED BY <1>7, <1>8, <1>9, <1>10, <2>1 DEF Next

(* The run of the engine's own fill keeps FillOnce; no recovery run of a   *)
(* fill starts, because no forward row is stuck.                           *)
LEMMA FillOnceRuns ==
    ASSUME TypeInv, [Next]_vars, NEW t \in Txns, FillSound(t), FillOnce(t),
           faults'.mark = 0, ~ServiceCrash,
           \/ SagaStep(t) \/ (ProcessFill /\ job.txn = t)
           \/ RecoverFill(t) \/ ReconcileMoney(t) \/ ReconcileShares(t)
    PROVE  FillOnce(t)'
<1>1. /\ SagaInv /\ RunTyped /\ LogTyped /\ OnStep(t) /\ t \in Sagas /\ OrderTyped
      /\ PortionFits /\ fill \in [Txns -> Fill] /\ job \in Job /\ faults.mark \in Nat
      /\ fill[t].shares \in BOOLEAN /\ t # Placement
  BY OrderAssumption DEF TypeInv, SagaInv, LogTyped, Faults, OrderTyped, Fill
<1>2. /\ run[t].pc \in Busy => run[t].at \in Step
      /\ \A i \in Step : i = 1 \/ i = 2 \/ i = 3
      /\ 1 \in Step /\ 2 \in Step /\ 3 \in Step
  BY <1>1 DEF OnStep, Step
<1>3. run[t].pc = "undo" /\ run[t].done # {} => Last(t) \in Nat
  BY <1>1, LastOfRun DEF Step
<1> DEFINE Log == fwd'[t] = fwd[t]
           Same == UNCHANGED job /\ fill'[t].qty = fill[t].qty
           Shares == fill'[t].shares = fill[t].shares
<1>4. ASSUME run[t].pc = "idle", run'[t] = run[t], Log, Same, Shares
      PROVE  FillOnce(t)'
  BY <1>4 DEF FillOnce, Going, IsCompleted
<1>5. \A row \in Stuck(t) : row[2] = 2 /\ row[1] = "comp" /\ row \in LogRow
  <2>1. \A row \in Stuck(t) :
          /\ row[2] \in Step /\ row \in LogRow
          /\ \/ row[1] = "fwd" /\ "pending" \in fwd[t][row[2]]
             \/ row[1] = "comp" /\ comp[t][row[2]] = "compensating"
    BY <1>1, StuckRows
  <2> QED BY <1>2, <2>1 DEF FillOnce, FillSound
<1>6. CASE RecoverFill(t) \/ ReconcileMoney(t) \/ ReconcileShares(t)
  <2>1. PICK row \in Stuck(t) : RecoverNothing(t, row) /\ UNCHANGED <<orderVars, job, call>>
    BY <1>5, <1>6 DEF RecoverFill, ReconcileMoney, ReconcileShares, AuditStep,
          SharesStep
  <2>2. run[t].pc = "idle" /\ UNCHANGED run /\ Closed(t, row)
    BY <2>1 DEF RecoverNothing, Recoverable
  <2>3. UNCHANGED fwd
    BY <1>5, <2>1, <2>2 DEF Closed
  <2> QED BY <1>4, <2>1, <2>2, <2>3 DEF orderVars
<1>7. ASSUME NEW row \in Stuck(t), MarkDeadLetter(t, row), UNCHANGED <<orderVars, job, call>>
      PROVE  FillOnce(t)'
  <2>1. run[t].pc = "idle" /\ UNCHANGED run /\ UNCHANGED fwd
    BY <1>5, <1>7 DEF MarkDeadLetter, Recoverable
  <2> QED BY <1>4, <1>7, <2>1 DEF orderVars
<1>8. CASE ProcessFill /\ job.txn = t
  <2>1. Execute(t) /\ job.pc = "wait" /\ UNCHANGED <<fill, fwd>>
    BY <1>8 DEF ProcessFill, orderVars, Execute
  <2>2. /\ run'[t].pc = "record" /\ run'[t].at = 1 /\ run'[t].error = FALSE
        /\ run'[t].row = None
    BY <1>1, <1>3, <2>1, RunEffects DEF Becomes
  <2>3. job'.pc = "fill" /\ job'.txn = t
    BY <1>1, <1>8 DEF ProcessFill, Job
  <2>4. \A i \in Step : fwd[t][i] = {}
    BY <1>8, <2>1 DEF FillOnce
  <2>5. ~fill[t].shares /\ fill[t].qty # 0
    BY <1>1, <1>2, <1>8, <2>1, <2>4 DEF FillSound, IsCompleted, PortionFits, Filling
  <2> QED BY <2>1, <2>2, <2>3, <2>4, <2>5 DEF FillOnce, Going, IsCompleted
<1>10. run[t].pc # "idle" =>
         /\ job.pc = "fill" /\ job.txn = t /\ run[t].row = None /\ fill[t].qty # 0
  BY DEF FillOnce
<1>11. ~SkipCompleted(t)
  <2>1. SkipCompleted(t) => /\ run[t].pc = "record" /\ IsCompleted(t, run[t].at)
                            /\ run[t].at \in Step /\ run[t].at \in Nat
    BY <1>2 DEF SkipCompleted, Busy, Step
  <2> QED BY <2>1 DEF FillOnce, Going
<1>12. ~MarkCompletedFails(t)
  <2>1. MarkCompletedFails(t) => faults'.mark > faults.mark
    BY <1>1, FaultsCounted DEF MarkCompletedFails, LogTyped
  <2> QED BY <1>1, <2>1
<1>13. CASE RecordForward(t) /\ UNCHANGED <<orderVars, job, call>>
  <2>1. /\ run'[t].pc = "call" /\ run'[t].at = run[t].at
        /\ run'[t].error = run[t].error /\ run'[t].row = run[t].row
    BY <1>1, <1>3, <1>13, RunEffects DEF Becomes
  <2>2. Log /\ Same /\ Shares /\ run[t].pc = "record"
    BY <1>13 DEF RecordForward, orderVars
  <2>3. \A i \in Step : IsCompleted(t, i)' <=> IsCompleted(t, i)
    BY <2>2 DEF IsCompleted
  <2> QED BY <1>10, <2>1, <2>2, <2>3 DEF FillOnce, Going
<1>14. CASE Forward(t)
  <2>1. /\ run'[t].pc = "mark" /\ run'[t].at = run[t].at
        /\ run'[t].error = run[t].error /\ run'[t].row = run[t].row
    BY <1>1, <1>3, <1>14, RunEffects DEF Becomes, Forward
  <2>2. /\ Log /\ run[t].pc = "call" /\ UNCHANGED <<job, direction>> /\ run[t].at \in Step
        /\ CanFill(t, run[t].at) /\ FillForward(t, run[t].at)
    BY <1>1, <1>2, <1>14 DEF Forward, StepForward, ForwardDone, CanForward, Busy
  <2>3. /\ fill'[t].shares = (fill[t].shares \/ run[t].at = 3)
        /\ fill'[t].qty = fill[t].qty
    BY <1>1, <2>2, FillEffects
  <2>4. ~fill[t].shares
    BY <2>2 DEF FillOnce
  <2>5. fill'[t].shares <=> run[t].at = 3
    BY <2>3, <2>4, Zenon
  <2>6. \A i \in Step : IsCompleted(t, i)' <=> IsCompleted(t, i)
    BY <2>2 DEF IsCompleted
  <2> QED BY <1>10, <2>1, <2>2, <2>3, <2>5, <2>6 DEF FillOnce, Going
<1>15. CASE ForwardRefused(t) \/ ForwardLost(t)
  <2>1. /\ run'[t].pc = "undo" /\ run'[t].error = TRUE /\ run'[t].row = run[t].row
    BY <1>1, <1>3, <1>15, RunEffects DEF Becomes, ForwardRefused, ForwardLost
  <2>2. Same /\ Shares /\ run[t].pc = "call" /\ run[t].at \in Step
    <3>1. run[t].pc = "call" /\ run[t].at \in Step /\ UNCHANGED <<job, direction>>
      BY <1>2, <1>15 DEF ForwardRefused, ForwardLost, ForwardFailed, orderVars, Busy
    <3>2. CASE ForwardRefused(t)
      BY <3>1, <3>2 DEF ForwardRefused, orderVars
    <3>3. CASE ForwardLost(t)
      <4>1. run[t].at = 2 /\ CanFill(t, 2) /\ FillForward(t, 2)
        BY <1>1, <3>3 DEF ForwardLost, RemoteStep, MoneyStep, StepForward, CanForward
      <4>2. fill'[t].shares = (fill[t].shares \/ 2 = 3) /\ fill'[t].qty = fill[t].qty
        BY <1>1, <1>2, <3>1, <4>1, FillEffects
      <4>3. 2 # 3
        OBVIOUS
      <4>4. Shares
        BY <1>1, <4>2, <4>3, Zenon
      <4> QED BY <3>1, <4>2, <4>4
    <3> QED BY <1>15, <3>1, <3>2, <3>3
  <2>3. FwdSet(t, run[t].at, fwd[t][run[t].at] \cup {"failed"})
    BY <1>1, <1>15, LogEffects DEF ForwardRefused, ForwardLost
  <2>4. \A i \in Step : "pending" \notin fwd'[t][i]
    <3>1. /\ fwd'[t][run[t].at] = fwd[t][run[t].at] \cup {"failed"}
          /\ \A j \in Step \ {run[t].at} : fwd'[t][j] = fwd[t][j]
      BY <2>3 DEF FwdSet
    <3>2. \A i \in Step : "pending" \notin fwd[t][i]
      BY DEF FillOnce
    <3> QED BY <3>1, <3>2
  <2> QED BY <1>10, <2>1, <2>2, <2>4 DEF FillOnce, Going
<1>16. CASE MarkCompleted(t) /\ UNCHANGED <<orderVars, job, call>>
  <2>1. /\ run'[t].pc = Onward(t) /\ run'[t].at = Beyond(t)
        /\ run'[t].error = run[t].error /\ run'[t].row = run[t].row
    BY <1>1, <1>3, <1>16, RunEffects DEF Becomes
  <2>2. Same /\ Shares /\ run[t].pc = "mark" /\ run[t].at \in Step /\ run[t].at \in Nat
    BY <1>2, <1>16 DEF MarkCompleted, orderVars, Busy, Step
  <2>3. FwdSet(t, run[t].at, fwd[t][run[t].at] \cup {"completed"})
    BY <1>1, <1>16, LogEffects
  <2>4. /\ fwd'[t][run[t].at] = fwd[t][run[t].at] \cup {"completed"}
        /\ \A j \in Step \ {run[t].at} : fwd'[t][j] = fwd[t][j]
    BY <2>3 DEF FwdSet
  <2>5. \A i \in Step : "pending" \notin fwd'[t][i]
    <3>1. \A i \in Step : "pending" \notin fwd[t][i]
      BY DEF FillOnce
    <3> QED BY <2>4, <3>1
  <2>6. CASE run[t].at = 3
    <3>1. run'[t].pc = "return"
      BY <2>1, <2>6 DEF Onward
    <3>2. fill[t].shares
      BY <2>2, <2>6 DEF FillOnce
    <3> QED BY <1>10, <2>1, <2>2, <2>5, <3>1, <3>2 DEF FillOnce, Going
  <2>7. CASE run[t].at # 3
    <3>1. run'[t].pc = "record" /\ run'[t].at = run[t].at + 1
      BY <2>1, <2>7 DEF Onward, Beyond
    <3>2. \A i \in Step : i >= run[t].at + 1 => ~IsCompleted(t, i)'
      <4>1. ASSUME NEW i \in Step, i >= run[t].at + 1
            PROVE  i \in Step \ {run[t].at} /\ i >= run[t].at
        BY <2>2, <4>1 DEF Step
      <4>2. \A i \in Step : i >= run[t].at => ~IsCompleted(t, i)
        BY <2>2 DEF FillOnce, Going
      <4> QED BY <2>4, <4>1, <4>2 DEF IsCompleted
    <3>3. ~fill[t].shares
      BY <2>2, <2>7 DEF FillOnce
    <3> QED BY <1>10, <2>1, <2>2, <2>5, <3>1, <3>2, <3>3 DEF FillOnce, Going
  <2> QED BY <2>6, <2>7
<1>17. CASE (SkipIrreversible(t) \/ RecordCompensation(t) \/ MarkCompensated(t))
            /\ UNCHANGED <<orderVars, job, call>>
  <2>1. /\ run'[t].pc \in {"undo", "back"} /\ run'[t].error = run[t].error
        /\ run'[t].row = run[t].row /\ run[t].pc \in {"undo", "unmark"}
    BY <1>1, <1>3, <1>17, RunEffects
       DEF Becomes, SkipIrreversible, RecordCompensation, MarkCompensated
  <2>2. Log /\ Same /\ Shares
    BY <1>17 DEF SkipIrreversible, RecordCompensation, MarkCompensated, orderVars
  <2> QED BY <1>10, <2>1, <2>2 DEF FillOnce, Going
<1>18. CASE Backward(t)
  <2>1. /\ run'[t].pc = "unmark" /\ run'[t].error = run[t].error /\ run'[t].row = run[t].row
    BY <1>1, <1>3, <1>18, RunEffects DEF Becomes, Backward
  <2>2. Log /\ run[t].pc = "back" /\ UNCHANGED <<job, direction>> /\ FillBackward(t)
    BY <1>1, <1>18 DEF Backward, BackwardDone
  <2>3. Shares /\ fill'[t].qty = fill[t].qty
    BY <1>1, <2>2, FillEffects
  <2> QED BY <1>10, <2>1, <2>2, <2>3 DEF FillOnce, Going
<1>19. CASE BackwardRefused(t)
  <2>1. /\ run'[t].pc = "undo" /\ run'[t].error = TRUE /\ run'[t].row = run[t].row
    BY <1>1, <1>3, <1>19, RunEffects DEF Becomes, BackwardRefused
  <2>2. Log /\ Same /\ Shares /\ run[t].pc = "back"
    BY <1>19 DEF BackwardRefused, BackwardFailed, orderVars
  <2> QED BY <1>10, <2>1, <2>2 DEF FillOnce, Going
<1>20. CASE Returns(t)
  <2>1. run'[t].pc = "idle" /\ run'[t].row = None
    BY <1>1, <1>3, <1>20, RunEffects DEF Becomes, Returns
  <2>2. run[t].pc # "idle"
    BY <1>20 DEF Returns, Return
  <2>3. Log /\ fill'[t].qty = fill[t].qty /\ Shares
    BY <1>10, <1>20, <2>2 DEF Returns, Return, orderVars
  <2>4. job'.pc # "wait"
    <3>1. job'.pc = IF run[t].error THEN "failed" ELSE "save"
      BY <1>1, <1>10, <1>20, <2>2 DEF Returns, Job
    <3> QED BY <3>1
  <2> QED BY <1>10, <2>1, <2>2, <2>3, <2>4 DEF FillOnce, Going
<1> QED
  BY <1>6, <1>7, <1>8, <1>11, <1>12, <1>13, <1>14, <1>15, <1>16, <1>17, <1>18, <1>19,
        <1>20
     DEF SagaStep, ExecutorStep

(* Every undisturbed step keeps FillOnce of every fill.                    *)
LEMMA FillOnceStep ==
    ASSUME TypeInv, [Next]_vars, FillInv, \A u \in Txns : FillOnce(u),
           faults'.mark = 0, ~ServiceCrash, ~SaveFails
    PROVE  \A u \in Txns : FillOnce(u)'
<1> SUFFICES ASSUME NEW t \in Txns
             PROVE  FillOnce(t)'
  OBVIOUS
<1>1. /\ FillSound(t) /\ FillOnce(t) /\ t \in Sagas /\ PortionFits
      /\ fill \in [Txns -> Fill] /\ fill[t].qty \in Nat
  BY OrderAssumption DEF FillInv, TypeInv, OrderTyped, Fill
<1> DEFINE Own == \/ SagaStep(t) \/ (ProcessFill /\ job.txn = t)
                  \/ RecoverFill(t) \/ ReconcileMoney(t) \/ ReconcileShares(t)
<1>2. CASE Own
  BY <1>1, <1>2, FillOnceRuns
<1>3. CASE ~Own
  <2>1. run'[t] = run[t] /\ fwd'[t] = fwd[t] /\ fill'[t].shares = fill[t].shares
    <3>1. CASE Next
      BY <1>3, <3>1, FillOwnSteps
    <3>2. CASE UNCHANGED vars
      BY <3>2 DEF vars, sagaVars, orderVars
    <3> QED BY <3>1, <3>2
  <2>2. fill'[t].qty = 0 => fill[t].qty = 0
    BY <1>1, DeliveryMoves DEF Taken
  <2>3. JobMove
    BY JobMoves
  <2>4. ~(job.txn = t /\ Returns(job.txn))
    BY <1>3 DEF SagaStep
  <2>5. job.pc = "fill" /\ job.txn = t => UNCHANGED job
    BY <1>3, <2>3, <2>4 DEF JobMove, Filling, Taken, FillFailed, SaveFill, AbortOrder
  <2>6. job'.pc = "wait" /\ job'.txn = t =>
          (job.pc = "wait" /\ job.txn = t) \/ fill[t].qty = 0
    BY <2>3 DEF JobMove, Filling, Taken
  <2>7. \A i \in Step : IsCompleted(t, i)' <=> IsCompleted(t, i)
    BY <2>1 DEF IsCompleted
  <2> QED BY <1>1, <2>1, <2>2, <2>5, <2>6, <2>7 DEF FillOnce
<1> QED BY <1>2, <1>3

(* A portion the engine gives up has moved no shares, one it counts has.   *)
LEMMA PortionStep ==
    ASSUME TypeInv, [Next]_vars, \A u \in Txns : FillOnce(u), PortionMoved,
           ~ServiceCrash, ~SaveFails
    PROVE  PortionMoved'
<1>1. /\ JobMove /\ PortionFits /\ fill \in [Txns -> Fill]
      /\ \A u \in Txns : fill[u].shares \in BOOLEAN
  BY JobMoves DEF TypeInv, OrderTyped, Fill
<1>2. ASSUME job.pc # "fill"
      PROVE  \A u \in Txns : fill'[u].shares = fill[u].shares
  <2>1. \A t \in Txns : Forward(t) => run[t].pc # "idle"
    BY DEF Forward, ForwardDone
  <2>2. \A t \in Txns : ~Forward(t)
    BY <1>2, <2>1 DEF FillOnce
  <2> QED BY <2>2, DeliveryMoves DEF Taken
<1>3. CASE UNCHANGED job
  BY <1>1, <1>2, <1>3 DEF PortionMoved, PortionFits, Filling
<1>4. CASE /\ Filling /\ job.txn \in Txns /\ Returns(job.txn)
           /\ job'.pc = (IF run[job.txn].error THEN "failed" ELSE "save") /\ SameCopy
  <2>1. UNCHANGED fill /\ run[job.txn].pc \in {"return", "undo"}
    BY <1>4 DEF Returns, Return, orderVars
  <2>2. FillOnce(job.txn)
    BY <1>4
  <2>3. CASE run[job.txn].pc = "return"
    <3>1. fill[job.txn].shares /\ ~run[job.txn].error
      BY <2>2, <2>3 DEF FillOnce
    <3> QED BY <1>4, <2>1, <3>1 DEF PortionMoved, SameCopy
  <2>4. CASE run[job.txn].pc = "undo"
    <3>1. ~fill[job.txn].shares /\ run[job.txn].error
      BY <2>2, <2>4 DEF FillOnce
    <3> QED BY <1>4, <2>1, <3>1 DEF PortionMoved, SameCopy
  <2> QED BY <2>1, <2>3, <2>4
<1>5. CASE FillFailed /\ job.pc = "failed" /\ job'.pc = "abort" /\ SameCopy
  BY <1>1, <1>2, <1>5 DEF PortionMoved, SameCopy, PortionFits, Filling
<1>6. CASE job'.pc \in {"wait", "fill"} \/ ~Filling'
  BY <1>6 DEF PortionMoved, Filling
<1> QED BY <1>1, <1>3, <1>4, <1>5, <1>6 DEF JobMove, Taken

(* SaveFill and AbortOrder end the portion, and save it if they can.       *)
LEMMA PortionEnds ==
    ASSUME TypeInv, SaveFill \/ AbortOrder
    PROVE  /\ Filling /\ ~Filling' /\ UNCHANGED fill
           /\ Fresh(job.seen) => order'.version = order.version + 1
<1>1. /\ job.seen \in OrderRow /\ PortionFits /\ Quantity \in Nat
      /\ fill \in [Txns -> Fill]
  BY OrderAssumption DEF TypeInv, OrderTyped, Job
<1>2. PICK d \in BOOLEAN : EndOfJob(d)
  BY DEF SaveFill, AbortOrder
<1>3. PICK p \in {"none", "loop", "release"} : Restarts(p, 0)
  BY <1>2, JobRestarts DEF EndOfJob
<1>4. PICK c \in OrderRow : Update(c) /\ c.version = job.seen.version
  <2>1. CASE SaveFill
    <3>1. PICK l : l = job.seen.left - fill[job.txn].qty
      OBVIOUS
    <3>2. l \in 0..Quantity
      BY <1>1, <2>1, <3>1 DEF SaveFill, PortionFits, Filling, OrderRow
    <3>3. PICK c : c = [job.seen EXCEPT !.left = l, !.done = (l = 0)]
      OBVIOUS
    <3>4. c \in OrderRow /\ c.version = job.seen.version
      BY <1>1, <3>2, <3>3 DEF OrderRow
    <3>5. Update(c)
      BY <2>1, <3>1, <3>3 DEF SaveFill
    <3> QED BY <3>4, <3>5
  <2>2. CASE AbortOrder
    <3>1. PICK c : c = [job.seen EXCEPT !.done = TRUE, !.status = "cancelled"]
      OBVIOUS
    <3>2. c \in OrderRow /\ c.version = job.seen.version
      BY <1>1, <3>1 DEF OrderRow
    <3>3. Update(c)
      BY <2>2, <3>1 DEF AbortOrder
    <3> QED BY <3>2, <3>3
  <2> QED BY <2>1, <2>2
<1>5. Fresh(job.seen) => order'.version = order.version + 1
  <2>1. Fresh(job.seen) => Fresh(c) /\ c.version = order.version
    BY <1>4 DEF Fresh
  <2> QED BY <1>4, <2>1, SavedTyped DEF Update
<1> QED BY <1>3, <1>5 DEF Restarts, Filling, SaveFill, AbortOrder

(* The moves that leave every delivery: the row changes only to a copy     *)
(* that is the row, and the engine goes on with the copy it has.           *)
LEMMA LeftKept ==
    ASSUME TypeInv, [Next]_vars, ~ServiceCrash, ~SaveFails, FillInv, \A u \in Txns : FillOnce(u),
           PortionMoved, LeftAddsUp, PlacementOnce, CopiesSound, Unplaced' => Unplaced,
           ~\E t \in Txns : Taken(t),
           \A u \in Txns : fill'[u].qty = fill[u].qty,
           \A u \in Txns : fill'[u].shares = fill[u].shares
    PROVE  LeftAddsUp'
<1>1. /\ OrderMove /\ JobMove /\ order \in OrderRow /\ order.version \in Nat
      /\ PortionFits /\ Quantity \in Nat \ {0} /\ order.left \in Nat
      /\ fill \in [Txns -> Fill] /\ job.seen \in OrderRow /\ job.seen.left \in Nat
  BY OrderMoves, JobMoves, OrderAssumption DEF TypeInv, OrderTyped, OrderRow, Job
<1>2. Delivered' = Delivered /\ Delivered \subseteq Txns
  BY DEF Delivered
<1>3. Units(Delivered)' = Units(Delivered)
      /\ (SameCopy => Units(Delivered \ {job.txn})' = Units(Delivered \ {job.txn}))
  <2>1. Counted(fill', Delivered) = Counted(fill, Delivered)
    BY <1>2, CountedSame
  <2>2. Counted(fill', Delivered \ {job.txn}) = Counted(fill, Delivered \ {job.txn})
    BY <1>2, CountedSame
  <2> QED BY <1>2, <2>1, <2>2 DEF Units, Counted, SameCopy
<1>4. Filling' => Filling /\ SameCopy
  BY <1>1 DEF JobMove, Filling, SameCopy
<1>5. \A seen : Copied(seen) /\ Fresh(seen) => seen = order
  BY DEF Copied, Fresh
<1>6. /\ Supervise /\ Saves(call["supervisor"].seen) =>
           order.status = "pending" /\ call["supervisor"].seen = order /\ UNCHANGED job
      /\ Forward(Placement) /\ planned = order.version /\ Exists =>
           order.status = "pending" /\ UNCHANGED job
      /\ Forward(Placement) /\ run[Placement].at = 1 => Unplaced /\ UNCHANGED job
  BY <1>1, <1>5 DEF Supervise, Saves, CopiesSound, Forward, ForwardDone, PlacementOnce,
        Going, Unplaced
<1>7. (SaveFill \/ AbortOrder) /\ Saves(job.seen) => Filling /\ ~Filling' /\ job.seen = order
  BY <1>5, PortionEnds DEF Saves, CopiesSound
<1>8. Filling' /\ order'.status = "approved" => order' = job'.seen
  BY <1>1, <1>4, <1>6, <1>7 DEF OrderMove, LeftAddsUp, SameCopy, NoRow
<1>9. ASSUME order'.status = "approved", ~Filling'
      PROVE  Units(Delivered) = Quantity - order'.left
  <2>1. CASE UNCHANGED order /\ ~Filling
    BY <1>9, <2>1 DEF LeftAddsUp
  <2>2. CASE UNCHANGED order /\ Filling
    <3>1. order = job.seen /\ Fresh(job.seen)
      BY <1>9, <2>2 DEF LeftAddsUp, Fresh, Exists
    <3>2. ~SaveFill /\ ~AbortOrder
      BY <1>1, <2>2, <3>1, PortionEnds
    <3>3. FillFailed
      BY <1>1, <1>9, <2>2, <3>2 DEF JobMove, Filling
    <3>4. ~fill[job.txn].shares
      BY <3>3 DEF FillFailed, PortionMoved
    <3>5. Delivered \ {job.txn} = Delivered
      BY <3>4 DEF Delivered
    <3> QED BY <2>2, <3>1, <3>5 DEF LeftAddsUp
  <2>3. CASE SaveFill /\ Saves(job.seen) /\ order'.left = job.seen.left - fill[job.txn].qty
    <3>1. job.txn \in Delivered
      BY <1>1, <2>3 DEF SaveFill, PortionMoved, PortionFits, Filling, Delivered
    <3>2. /\ Units(Delivered) = Units(Delivered \ {job.txn}) + fill[job.txn].qty
          /\ Units(Delivered \ {job.txn}) \in Nat
      BY <3>1, UnitsCounted
    <3>3. Units(Delivered \ {job.txn}) = Quantity - job.seen.left
      BY <1>7, <2>3 DEF LeftAddsUp
    <3>4. fill[job.txn].qty \in Nat
      BY <1>1, <1>2, <3>1 DEF Fill
    <3> QED BY <1>1, <2>3, <3>2, <3>3, <3>4
  <2>4. CASE order.status = "pending" /\ order'.left = order.left
    BY <1>1, <2>4 DEF LeftAddsUp
  <2> QED BY <1>1, <1>6, <1>9, <2>1, <2>2, <2>3, <2>4 DEF OrderMove, NoRow
<1>10. order'.status = "approved" => (order'.done <=> order'.left = 0)
  BY <1>1, <1>6 DEF OrderMove, LeftAddsUp, NoRow
<1>11. order'.status = "pending" => order'.left = Quantity /\ ~order'.done
  BY <1>1, <1>6, <1>7 DEF OrderMove, LeftAddsUp, NoRow, CopiesSound
<1>12. ASSUME order'.status \in {"pending", "declined"} \/ Unplaced'
       PROVE  ~Filling' /\ Units(Delivered) = 0
  <2>1. CASE Unplaced'
    BY <1>4, <2>1 DEF LeftAddsUp
  <2>2. CASE order'.status \in {"pending", "declined"}
    BY <1>1, <1>4, <1>6, <1>7, <2>2 DEF OrderMove, LeftAddsUp, NoRow, CopiesSound
  <2> QED BY <1>12, <2>1, <2>2
<1> QED BY <1>3, <1>4, <1>8, <1>9, <1>10, <1>11, <1>12 DEF LeftAddsUp, SameCopy

(* A portion taken, and a portion delivered, keep the count.               *)
LEMMA LeftMoved ==
    ASSUME TypeInv, TypeInv', FillInv, \A u \in Txns : FillOnce(u), LeftAddsUp,
           PlacementOnce, Unplaced' => Unplaced, NEW t \in Txns,
           \/ Taken(t)
           \/ /\ Forward(t) /\ run[t].at = 3 /\ fill'[t].shares
              /\ \A u \in Txns : fill'[u].qty = fill[u].qty
              /\ \A u \in Txns \ {t} : fill'[u] = fill[u]
    PROVE  LeftAddsUp'
<1>1. /\ order \in OrderRow /\ order.left \in Nat /\ Quantity \in Nat \ {0}
      /\ fill \in [Txns -> Fill] /\ job.seen \in OrderRow /\ job.seen.left \in Nat
      /\ PortionFits /\ PortionFits' /\ FillSound(t) /\ FillOnce(t)
      /\ Txns \subseteq Sagas /\ t # Placement
  BY OrderAssumption DEF TypeInv, OrderTyped, OrderRow, Job, FillInv
<1>2. /\ Units(Delivered)' = Counted(fill', Delivered')
      /\ Units(Delivered \ {job.txn})' = Counted(fill', Delivered' \ {job'.txn})
  BY DEF Units, Counted
<1>3. /\ Units(Delivered) = Counted(fill, Delivered) /\ Counted(fill, Delivered) \in Nat
      /\ Delivered \subseteq Txns
  BY UnitsCounted DEF Delivered
<1>4. CASE Taken(t)
  <2>1. /\ UNCHANGED <<order, run, fwd>> /\ Active /\ ~Filling /\ Filling'
        /\ job'.seen = order /\ job'.txn = t /\ Exists
    BY <1>4 DEF Taken, FillPortion, Filling, sagaVars, Active, Exists
  <2>2. t \notin Delivered
    <3>1. fwd[t][2] = {}
      BY <1>1, <1>4 DEF FillOnce, Taken, Step
    <3> QED BY <1>1, <3>1 DEF FillSound, IsCompleted, Delivered
  <2>3. Delivered' = Delivered /\ Delivered \ {t} = Delivered
    BY <1>4, <2>2 DEF Taken, Delivered
  <2>4. Counted(fill', Delivered) = Counted(fill, Delivered)
    <3>1. \A u \in Delivered : fill'[u].qty = fill[u].qty
      BY <1>3, <1>4, <2>2 DEF Taken
    <3> QED BY <3>1, CountedSame
  <2>5. ~Unplaced'
    BY <2>1 DEF PlacementOnce
  <2>6. /\ Units(Delivered)' = Units(Delivered)
        /\ Units(Delivered \ {job.txn})' = Units(Delivered)
    BY <1>2, <1>3, <2>1, <2>3, <2>4
  <2> QED BY <2>1, <2>5, <2>6 DEF LeftAddsUp, Active
<1>5. CASE /\ Forward(t) /\ run[t].at = 3 /\ fill'[t].shares
           /\ \A u \in Txns : fill'[u].qty = fill[u].qty
           /\ \A u \in Txns \ {t} : fill'[u] = fill[u]
  <2>1. run[t].pc = "call" /\ UNCHANGED <<job, order>>
    BY <1>1, <1>5 DEF Forward, StepForward, ForwardDone, FillForward
  <2>2. job.pc = "fill" /\ job.txn = t /\ t \notin Delivered
    BY <1>1, <2>1 DEF FillOnce, Delivered
  <2>3. Filling /\ Filling'
    BY <2>1, <2>2 DEF Filling
  <2>4. Delivered' = Delivered \cup {t} /\ Delivered' \ {t} = Delivered
        /\ Delivered \ {t} = Delivered
    BY <1>5, <2>2 DEF Delivered
  <2>5. Counted(fill', Delivered) = Counted(fill, Delivered)
    BY <1>3, <1>5, CountedSame
  <2>6. Counted(fill', Delivered') = Counted(fill', Delivered' \ {t}) + fill'[t].qty
    <3>1. IsFiniteSet(Delivered')
      <4>1. IsFiniteSet(Txns) /\ Delivered' \subseteq Txns
        BY <1>1, SagaAssumption, FS_Subset DEF Delivered
      <4> QED BY <4>1, FS_Subset
    <3>2. \A u \in Delivered' : fill'[u].qty \in Nat
      BY <1>1, <1>5 DEF Delivered, Fill
    <3>3. t \in Delivered'
      BY <2>4
    <3> QED BY <3>1, <3>2, <3>3, CountedSplit
  <2>7. fill'[t].qty \in 1..job.seen.left
    BY <1>1, <1>5, <2>2, <2>3 DEF PortionFits
  <2>8. Counted(fill, Delivered) = Quantity - job.seen.left
    BY <1>3, <2>2, <2>3, <2>4 DEF LeftAddsUp
  <2>9. /\ Units(Delivered)' <= Quantity
        /\ Units(Delivered \ {job.txn})' = Quantity - job.seen.left
    <3>1. job' = job /\ job'.txn = t
      BY <2>1, <2>2
    <3>2. Units(Delivered \ {job.txn})' = Counted(fill', Delivered' \ {t})
      BY <1>2, <3>1
    <3>3. Counted(fill', Delivered' \ {t}) = Quantity - job.seen.left
      BY <2>4, <2>5, <2>8
    <3>4. Units(Delivered)' = (Quantity - job.seen.left) + fill'[t].qty
      BY <1>2, <2>6, <3>3
    <3>5. PICK q \in 1..job.seen.left : q = fill'[t].qty
      BY <2>7
    <3>6. PICK total : total = Units(Delivered)'
      OBVIOUS
    <3>7. total = (Quantity - job.seen.left) + q
      BY <3>4, <3>5, <3>6
    <3>8. total <= Quantity
      BY <1>1, <3>5, <3>7
    <3> QED BY <3>2, <3>3, <3>6, <3>8
  <2> QED BY <2>1, <2>3, <2>9 DEF LeftAddsUp
<1> QED BY <1>4, <1>5

(* Every undisturbed step keeps the count of what was delivered.           *)
LEMMA FilledStep ==
    ASSUME TypeInv, CalmInv, FilledInv, faults.mark = 0 => FillInv, [Next]_vars
    PROVE  FilledInv'
<1> SUFFICES ASSUME Undisturbed'
             PROVE  (\A t \in Txns : FillOnce(t)') /\ PortionMoved' /\ LeftAddsUp'
  BY DEF FilledInv
<1>1. Undisturbed /\ faults'.mark = 0 /\ ~ServiceCrash /\ ~SaveFails /\ TypeInv'
  BY StaysUndisturbed, TypeStep
<1>2. /\ PlacementOnce /\ CopiesSound /\ FillInv /\ PortionMoved /\ LeftAddsUp
      /\ \A u \in Txns : FillOnce(u)
  BY <1>1 DEF CalmInv, FilledInv, Undisturbed
<1>3. (\A t \in Txns : FillOnce(t)') /\ PortionMoved'
  BY <1>1, <1>2, FillOnceStep, PortionStep
<1>4. Unplaced' => Unplaced
  BY <1>1, <1>2, PlacementMoves DEF PlacementOnce
<1>5. LeftAddsUp'
  <2>1. CASE \E t \in Txns : Taken(t)
    BY <1>1, <1>2, <1>4, <2>1, LeftMoved
  <2>2. CASE \E t \in Txns : /\ Forward(t) /\ run[t].at = 3 /\ fill'[t].shares
                             /\ \A u \in Txns : fill'[u].qty = fill[u].qty
                             /\ \A u \in Txns \ {t} : fill'[u] = fill[u]
    BY <1>1, <1>2, <1>4, <2>2, LeftMoved
  <2>3. CASE /\ ~\E t \in Txns : Taken(t)
             /\ \A u \in Txns : fill'[u].qty = fill[u].qty
             /\ \A u \in Txns : fill'[u].shares = fill[u].shares
    BY <1>1, <1>2, <1>4, <2>3, LeftKept
  <2> QED BY <2>1, <2>2, <2>3, DeliveryMoves
<1> QED BY <1>3, <1>5

(* Nothing is delivered at the beginning.                                  *)
LEMMA FilledInit == ASSUME Init PROVE FilledInv
<1>1. ASSUME NEW t \in Txns
      PROVE  FillOnce(t) /\ ~fill[t].shares
  <2>1. t \in Sagas /\ Steps(t) = Step
    BY OrderAssumption, ThreeSteps
  <2>2. run[t].pc = "idle" /\ \A i \in Step : fwd[t][i] = {}
    BY <2>1 DEF Init, SagaInit, Idle
  <2>3. ~fill[t].shares
    BY DEF Init, NoFill
  <2> QED BY <2>2, <2>3 DEF FillOnce, Going
<1>2. /\ job.pc = "none" /\ ~Filling /\ order.status = "none"
      /\ Quantity \in Nat
  BY EmptyTyped, OrderAssumption DEF Init, NoRow, Filling
<1>3. Delivered = {}
  BY <1>1 DEF Delivered
<1>4. Units(Delivered) = 0
  <2>1. UNION {{t} \X (1 .. fill[t].qty) : t \in {}} = {}
    OBVIOUS
  <2> QED BY <1>3, <2>1, FS_EmptySet DEF Units
<1> QED BY <1>1, <1>2, <1>4 DEF FilledInv, PortionMoved, LeftAddsUp

(* While nothing is disturbed an order moves no more than its quantity,    *)
(* whichever call changes its row during a fill, and one that is approved  *)
(* and done moved all of it, in whatever portions the engine chose.        *)
THEOREM FilledExactlyHolds == Spec => []FilledExactly
<1> DEFINE Known == /\ TypeInv /\ CalmInv /\ FilledInv
                    /\ faults.mark = 0 => FillInv
<1>1. Init => Known
  BY TypeInit, CalmInit, FilledInit, FillInit
<1>2. Known /\ [Next]_vars => Known'
  <2>1. TypeInv /\ [Next]_vars => (faults'.mark = 0 => faults.mark = 0)
    BY TypeStep DEF FaultsGrow, TypeInv, SagaInv, LogTyped, Faults
  <2> QED BY <2>1, TypeStep, CalmStep, FilledStep, FillStep
<1>3. Known => FilledExactly
  <2> SUFFICES ASSUME Known, Undisturbed
               PROVE  /\ Units(Delivered) <= Quantity
                      /\ order.status = "approved" /\ order.done => Units(Delivered) = Quantity
    BY DEF FilledExactly
  <2>1. CopiesSound /\ LeftAddsUp /\ Quantity \in Nat
    BY OrderAssumption DEF CalmInv, FilledInv
  <2> QED BY <2>1 DEF CopiesSound, LeftAddsUp
<1> HIDE DEF Known
<1> QED BY <1>1, <1>2, <1>3, PTL DEF Spec

-----------------------------------------------------------------------------
(* Nothing stays held for an order that is over *)

Untroubled == Undisturbed /\ faults.back = 0 /\ Placement \notin lost
Undoing == {"undo", "back", "unmark"}

(* Untroubled, the placement is run once: forward step by step, or forward *)
(* to a refusal and then back through every step it had done.              *)
PlacementStage ==
    /\ run[Placement].row = None
    /\ \A i \in Step : comp[Placement][i] = "compensating" =>
         run[Placement].pc \in {"back", "unmark"} /\ run[Placement].at = i
    /\ run[Placement].pc \in Going =>
         \A i \in Step : /\ i \in run[Placement].done <=> i < run[Placement].at
                         /\ i >= run[Placement].at => ~IsCompleted(Placement, i)
    /\ run[Placement].pc = "return" => run[Placement].done = Step
    /\ run[Placement].pc \in Undoing => 3 \notin run[Placement].done
    /\ run[Placement].pc \in {"back", "unmark"} =>
         /\ run[Placement].at \in run[Placement].done
         /\ \A i \in run[Placement].done : i <= run[Placement].at

(* The row is there from persist_order on, until its Backward has run.     *)
RowStands ==
    \/ run[Placement].pc = "mark" /\ run[Placement].at = 1
    \/ /\ run[Placement].pc # "idle" /\ 1 \in run[Placement].done
       /\ ~(run[Placement].pc = "unmark" /\ run[Placement].at = 1)
    => Exists

(* The hold is the placement's while it runs, and an order's afterwards.   *)
HoldOwned ==
    hold.status = "active" =>
      \/ run[Placement].pc = "mark" /\ run[Placement].at = 2
      \/ /\ run[Placement].pc # "idle" /\ 2 \in run[Placement].done
         /\ ~(run[Placement].pc = "unmark" /\ run[Placement].at = 2)
      \/ run[Placement].pc = "idle" /\ Exists

(* The shares of a sell's hold are those it has not delivered.             *)
SharesLeft ==
    direction = "sell" =>
      /\ hold.status = "none" => Units(Delivered) = 0
      /\ hold.status = "active" =>
           hold.left > 0 /\ hold.left = Quantity - Units(Delivered)

(* Somebody still has the money of a buy that is over to release: the      *)
(* engine, the owner's call, or a placement that is going to be refused.   *)
ReleaseOwed ==
    direction = "buy" /\ Exists /\ order.done /\ hold.status = "active" =>
      \/ job.pc = "release" \/ call["owner"].pc = "release"
      \/ run[Placement].pc \in Undoing
      \/ /\ run[Placement].pc \in Going
         /\ ~(run[Placement].pc = "mark" /\ run[Placement].at = 3)

OpenUntilDone == order.status \in {"pending", "declined"} => ~order.done

HoldInv ==
    Untroubled =>
      PlacementStage /\ RowStands /\ HoldOwned /\ SharesLeft /\ ReleaseOwed /\ OpenUntilDone

PlacementIs(p, a, d) ==
    run'[Placement].pc = p /\ run'[Placement].at = a /\ run'[Placement].done = d

(* A step of the placement's run that has no effect on the order.          *)
PlacementTurns ==
    /\ UNCHANGED <<orderVars, job, call>>
    /\ \/ run[Placement].pc = "idle" /\ ~Begun /\ PlacementIs("record", 1, {})
       \/ run[Placement].pc = "record"
          /\ PlacementIs("call", run[Placement].at, run[Placement].done)
       \/ run[Placement].pc = "call"
          /\ PlacementIs("undo", run[Placement].at, run[Placement].done)
       \/ run[Placement].pc = "mark"
          /\ PlacementIs(Onward(Placement), Beyond(Placement),
                         run[Placement].done \cup {run[Placement].at})
       \/ run[Placement].pc = "undo" /\ Last(Placement) \in run[Placement].done
          /\ PlacementIs("back", Last(Placement), run[Placement].done)
       \/ run[Placement].pc = "unmark"
          /\ PlacementIs("undo", run[Placement].at, run[Placement].done \ {run[Placement].at})
       \/ /\ \/ run[Placement].pc = "return"
             \/ run[Placement].pc = "undo" /\ run[Placement].done = {}
          /\ PlacementIs("idle", 0, {})

(* What an untroubled step may do to the run of the placement.             *)
PlacementMove ==
    \/ ~Forward(Placement) /\ ~Backward(Placement) /\ run'[Placement] = run[Placement]
    \/ PlacementTurns
    \/ /\ Forward(Placement) /\ run[Placement].pc = "call"
       /\ PlacementIs("mark", run[Placement].at, run[Placement].done)
    \/ /\ Backward(Placement) /\ run[Placement].pc = "back"
       /\ PlacementIs("unmark", run[Placement].at, run[Placement].done)

(* Untroubled steps move the placement as PlacementMove says, and keep it  *)
(* on its one way forward or back.                                         *)
LEMMA PlacementStageRuns ==
    ASSUME TypeInv, PlacementLog, PlacementStage, faults'.mark = 0, faults'.back = 0,
           ~ForwardLost(Placement), CreateOrder \/ SagaStep(Placement) \/ RecoverPlacement
    PROVE  PlacementStage' /\ PlacementMove
<1>1. /\ SagaInv /\ RunTyped /\ LogTyped /\ OnStep(Placement) /\ Placement \in Sagas
      /\ faults \in Faults /\ faults.mark \in Nat /\ faults.back \in Nat
      /\ job.txn # Placement
  BY OrderAssumption DEF TypeInv, SagaInv, LogTyped, Faults, OrderTyped, Job
<1>2. /\ run[Placement].done \subseteq Step
      /\ run[Placement].pc \in Busy => run[Placement].at \in Step
      /\ \A i \in Step : i = 1 \/ i = 2 \/ i = 3
      /\ 1 \in Step /\ 2 \in Step /\ 3 \in Step
  BY <1>1 DEF OnStep, Step
<1>3. run[Placement].pc = "undo" /\ run[Placement].done # {} =>
        /\ Last(Placement) \in Nat /\ Last(Placement) \in Step
        /\ Last(Placement) \in run[Placement].done
        /\ \A i \in run[Placement].done : i <= Last(Placement)
  <2>1. run[Placement].done # {} =>
          /\ Last(Placement) \in run[Placement].done
          /\ \A i \in run[Placement].done : i <= Last(Placement)
    BY <1>2, LastStep DEF Last
  <2> QED BY <1>2, <2>1 DEF Step
<1>4. run[Placement].pc = "idle" => Stuck(Placement) = {}
  <2>1. SUFFICES ASSUME run[Placement].pc = "idle", NEW row \in Stuck(Placement)
                 PROVE  FALSE
    OBVIOUS
  <2>2. /\ row[2] \in Step
        /\ \/ row[1] = "fwd" /\ "pending" \in fwd[Placement][row[2]]
           \/ row[1] = "comp" /\ comp[Placement][row[2]] = "compensating"
    BY <1>1, StuckRows
  <2> QED BY <2>1, <2>2 DEF PlacementLog, PlacementStage
<1> DEFINE Goal == PlacementStage' /\ PlacementMove
           Log == fwd'[Placement] = fwd[Placement] /\ comp'[Placement] = comp[Placement]
           Rest == UNCHANGED <<orderVars, job, call>>
<1> SUFFICES Goal
  OBVIOUS
<1>5. CASE CreateOrder
  <2>1. Execute(Placement) /\ Rest
    BY <1>5 DEF CreateOrder
  <2>2. /\ run'[Placement].pc = "record" /\ run'[Placement].at = 1
        /\ run'[Placement].done = {} /\ run'[Placement].row = None
    BY <1>1, <1>3, <2>1, RunEffects DEF Becomes
  <2>3. /\ Log /\ run[Placement].pc = "idle" /\ ~Begun
    BY <1>1, <2>1, ThreeSteps DEF Execute, Started, Begun
  <2>4. \A i \in Step : ~IsCompleted(Placement, i)' /\ ~(i < 1)
    BY <1>2, <2>3 DEF Begun, IsCompleted
  <2>5. PlacementStage'
    BY <2>2, <2>3, <2>4 DEF PlacementStage, Going, Undoing
  <2>6. PlacementMove
    BY <2>1, <2>2, <2>3 DEF PlacementMove, PlacementTurns, PlacementIs
  <2> QED BY <2>5, <2>6
<1>6. ~(SkipCompleted(Placement))
  <2>1. SkipCompleted(Placement) => run[Placement].pc = "record" /\ run[Placement].at \in Step
            /\ IsCompleted(Placement, run[Placement].at)
    BY <1>2 DEF SkipCompleted, Busy
  <2> QED BY <1>2, <2>1 DEF PlacementStage, Going
<1>7. CASE RecordForward(Placement) /\ Rest
  <2>1. /\ run'[Placement].pc = "call" /\ run'[Placement].at = run[Placement].at
        /\ run'[Placement].done = run[Placement].done
        /\ run'[Placement].row = run[Placement].row
    BY <1>1, <1>3, <1>7, RunEffects DEF Becomes
  <2>2. Log /\ run[Placement].pc = "record"
    BY <1>2, <1>3, <1>7 DEF RecordForward
  <2>5. PlacementStage'
    BY <2>1, <2>2 DEF PlacementStage, Going, Undoing, IsCompleted
  <2>6. PlacementMove
    BY <1>7, <2>1, <2>2 DEF PlacementMove, PlacementTurns, PlacementIs
  <2> QED BY <2>5, <2>6
<1>8. CASE Forward(Placement)
  <2>1. /\ run'[Placement].pc = "mark" /\ run'[Placement].at = run[Placement].at
        /\ run'[Placement].done = run[Placement].done
        /\ run'[Placement].row = run[Placement].row
    BY <1>1, <1>3, <1>8, RunEffects DEF Becomes, Forward
  <2>2. Log /\ run[Placement].pc = "call"
    BY <1>2, <1>3, <1>8 DEF Forward, ForwardDone
  <2>5. PlacementStage'
    BY <2>1, <2>2 DEF PlacementStage, Going, Undoing, IsCompleted
  <2>6. PlacementMove
    BY <1>8, <2>1, <2>2 DEF PlacementMove, PlacementTurns, PlacementIs
  <2> QED BY <2>5, <2>6
<1>9. CASE ForwardRefused(Placement)
  <2>1. /\ run'[Placement].pc = "undo" /\ run'[Placement].at = run[Placement].at
        /\ run'[Placement].done = run[Placement].done
        /\ run'[Placement].row = run[Placement].row
    BY <1>1, <1>3, <1>9, RunEffects DEF Becomes, ForwardRefused
  <2>2. /\ comp'[Placement] = comp[Placement] /\ run[Placement].pc = "call"
        /\ run[Placement].at \in Step /\ Rest
    BY <1>2, <1>9 DEF ForwardRefused, ForwardFailed, Busy
  <2>3. 3 \notin run[Placement].done
    BY <1>2, <2>2 DEF PlacementStage, Going
  <2>5. PlacementStage'
    BY <2>1, <2>2, <2>3 DEF PlacementStage, Going, Undoing
  <2>6. PlacementMove
    BY <2>1, <2>2 DEF PlacementMove, PlacementTurns, PlacementIs
  <2> QED BY <2>5, <2>6
<1>10. CASE MarkCompleted(Placement) /\ Rest
  <2>1. /\ run'[Placement].pc = Onward(Placement) /\ run'[Placement].at = Beyond(Placement)
        /\ run'[Placement].done = run[Placement].done \cup {run[Placement].at}
        /\ run'[Placement].row = run[Placement].row
    BY <1>1, <1>3, <1>10, RunEffects DEF Becomes
  <2>2. /\ comp'[Placement] = comp[Placement] /\ run[Placement].pc = "mark"
        /\ run[Placement].at \in Step
    BY <1>2, <1>10 DEF MarkCompleted, Busy
  <2>3. \A j \in Step \ {run[Placement].at} : fwd'[Placement][j] = fwd[Placement][j]
    BY <1>1, <1>10, LogEffects DEF FwdSet
  <2>4. \A i \in Step : /\ i \in run[Placement].done <=> i < run[Placement].at
                        /\ i >= run[Placement].at => ~IsCompleted(Placement, i)
    BY <2>2 DEF PlacementStage, Going
  <2>5. ASSUME run[Placement].at = 3 PROVE PlacementStage'
    <3>1. run'[Placement].pc = "return" /\ run'[Placement].done = Step
      BY <1>2, <2>1, <2>4, <2>5 DEF Onward
    <3> QED BY <2>1, <2>2, <3>1 DEF PlacementStage, Going, Undoing
  <2>6. ASSUME run[Placement].at \in {1, 2} PROVE PlacementStage'
    <3>1. run'[Placement].pc = "record" /\ run'[Placement].at = run[Placement].at + 1
      BY <2>1, <2>6 DEF Onward, Beyond
    <3>2. \A i \in Step : i \in run'[Placement].done <=> i < run'[Placement].at
      BY <1>2, <2>1, <2>4, <2>6, <3>1
    <3>3. \A i \in Step : i >= run'[Placement].at => ~IsCompleted(Placement, i)'
      BY <1>2, <2>3, <2>4, <2>6, <3>1 DEF IsCompleted
    <3> QED BY <2>1, <2>2, <3>1, <3>2, <3>3 DEF PlacementStage, Going, Undoing
  <2>7. PlacementStage'
    BY <1>2, <2>2, <2>5, <2>6
  <2>8. PlacementMove
    BY <1>10, <2>1, <2>2 DEF PlacementMove, PlacementTurns, PlacementIs
  <2> QED BY <2>7, <2>8
<1>11. ~MarkCompletedFails(Placement)
  <2>1. MarkCompletedFails(Placement) => faults'.mark > faults.mark
    BY <1>1, FaultsCounted DEF MarkCompletedFails, LogTyped
  <2> QED BY <1>1, <2>1
<1>12. ~SkipIrreversible(Placement)
  <2>1. SkipIrreversible(Placement) =>
          run[Placement].pc = "undo" /\ run[Placement].done # {} /\ Last(Placement) = 3
    BY Irreversible DEF SkipIrreversible
  <2> QED BY <1>3, <2>1 DEF PlacementStage, Undoing
<1>13. CASE RecordCompensation(Placement) /\ Rest
  <2>1. /\ run'[Placement].pc = "back" /\ run'[Placement].at = Last(Placement)
        /\ run'[Placement].done = run[Placement].done
        /\ run'[Placement].row = run[Placement].row
    BY <1>1, <1>3, <1>13, RunEffects DEF Becomes
  <2>2. /\ run[Placement].pc = "undo"
        /\ Last(Placement) \in Step /\ Last(Placement) \in run[Placement].done
        /\ \A i \in run[Placement].done : i <= Last(Placement)
    BY <1>3, <1>13 DEF RecordCompensation
  <2>3. \A j \in Step \ {Last(Placement)} : comp'[Placement][j] = comp[Placement][j]
    BY <1>1, <1>13, LogEffects DEF CompSet
  <2>5. PlacementStage'
    BY <2>1, <2>2, <2>3 DEF PlacementStage, Going, Undoing
  <2>6. PlacementMove
    BY <1>13, <2>1, <2>2 DEF PlacementMove, PlacementTurns, PlacementIs
  <2> QED BY <2>5, <2>6
<1>14. CASE Backward(Placement)
  <2>1. /\ run'[Placement].pc = "unmark" /\ run'[Placement].at = run[Placement].at
        /\ run'[Placement].done = run[Placement].done
        /\ run'[Placement].row = run[Placement].row
    BY <1>1, <1>3, <1>14, RunEffects DEF Becomes, Backward
  <2>2. Log /\ run[Placement].pc = "back"
    BY <1>2, <1>3, <1>14 DEF Backward, BackwardDone
  <2>5. PlacementStage'
    BY <2>1, <2>2 DEF PlacementStage, Going, Undoing
  <2>6. PlacementMove
    BY <1>14, <2>1, <2>2 DEF PlacementMove, PlacementTurns, PlacementIs
  <2> QED BY <2>5, <2>6
<1>15. CASE MarkCompensated(Placement) /\ Rest
  <2>1. /\ run'[Placement].pc = "undo" /\ run'[Placement].row = run[Placement].row
        /\ run'[Placement].done = run[Placement].done \ {run[Placement].at}
        /\ run'[Placement].at = run[Placement].at
    BY <1>1, <1>3, <1>15, RunEffects DEF Becomes
  <2>2. run[Placement].pc = "unmark" /\ run[Placement].at \in Step
    BY <1>2, <1>15 DEF MarkCompensated, Busy
  <2>3. /\ \A j \in Step \ {run[Placement].at} : comp'[Placement][j] = comp[Placement][j]
        /\ comp'[Placement][run[Placement].at] = "compensated"
    BY <1>1, <1>15, LogEffects DEF CompSet
  <2>5. PlacementStage'
    BY <2>1, <2>2, <2>3 DEF PlacementStage, Going, Undoing
  <2>6. PlacementMove
    BY <1>15, <2>1, <2>2 DEF PlacementMove, PlacementTurns, PlacementIs
  <2> QED BY <2>5, <2>6
<1>16. ~BackwardRefused(Placement)
  <2>1. BackwardRefused(Placement) => faults'.back > faults.back
    BY <1>1, FaultsCounted DEF BackwardRefused
  <2> QED BY <1>1, <2>1
<1>17. CASE Returns(Placement)
  <2>1. /\ run'[Placement].pc = "idle" /\ run'[Placement].done = {}
        /\ run'[Placement].row = None /\ run'[Placement].at = 0
    BY <1>1, <1>3, <1>17, RunEffects DEF Becomes, Returns
  <2>2. /\ Rest /\ comp'[Placement] = comp[Placement]
        /\ \/ run[Placement].pc = "return"
           \/ run[Placement].pc = "undo" /\ run[Placement].done = {}
    BY <1>1, <1>17 DEF Returns, Return, PlacementStage
  <2>5. PlacementStage'
    BY <2>1, <2>2 DEF PlacementStage, Going, Undoing
  <2>6. PlacementMove
    BY <2>1, <2>2 DEF PlacementMove, PlacementTurns, PlacementIs
  <2> QED BY <2>5, <2>6
<1>18. ASSUME NEW row \in Stuck(Placement)
       PROVE  ~MarkDeadLetter(Placement, row) /\ ~RecoverPlacement
  BY <1>4, <1>18 DEF MarkDeadLetter, Recoverable, RecoverPlacement, Recover,
        RecoverNothing
<1>19. ~RecoverPlacement
  BY <1>18 DEF RecoverPlacement
<1> QED
  BY <1>5, <1>6, <1>7, <1>8, <1>9, <1>10, <1>11, <1>12, <1>13, <1>14, <1>15, <1>16,
        <1>17,
     <1>18, <1>19 DEF SagaStep, ExecutorStep

(* Every untroubled step keeps the placement on its way.                   *)
LEMMA PlacementStageStep ==
    ASSUME TypeInv, PlacementLog, PlacementStage, [Next]_vars, ~ServiceCrash,
           ~ForwardLost(Placement), faults'.mark = 0, faults'.back = 0
    PROVE  PlacementStage' /\ PlacementMove
<1> DEFINE Mine == CreateOrder \/ SagaStep(Placement) \/ RecoverPlacement
<1>1. CASE Mine
  BY <1>1, PlacementStageRuns
<1>2. CASE ~Mine
  <2>1. /\ run'[Placement] = run[Placement] /\ fwd'[Placement] = fwd[Placement]
        /\ comp'[Placement] = comp[Placement]
    BY <1>2, PlacementAlone
  <2>2. ~Forward(Placement) /\ ~Backward(Placement)
    BY <1>2 DEF SagaStep
  <2>3. PlacementStage'
    BY <2>1 DEF PlacementStage, IsCompleted
  <2> QED BY <2>1, <2>2, <2>3 DEF PlacementMove
<1> QED BY <1>1, <1>2

(* Transaction t takes its quantity from the hold.                         *)
Settles(t) ==
    /\ Forward(t) \/ ForwardLost(t)
    /\ Consumes(run[t].at) /\ hold.status = "active"
    /\ fill[t].qty <= hold.left /\ hold'.left = hold.left - fill[t].qty
    /\ hold'.status = (IF hold.left = fill[t].qty THEN "settled" ELSE "active")

(* What a step may do to the hold.                                         *)
HoldMove ==
    \/ UNCHANGED hold
    \/ /\ Forward(Placement) /\ run[Placement].at = 2 /\ hold.status = "none"
       /\ hold'.status = "active" /\ hold'.left = Needed
    \/ hold'.status = "released"
    \/ \E t \in Txns : Settles(t)

(* Every step moves the hold as HoldMove says; whoever releases it leaves  *)
(* it without anything.                                                    *)
LEMMA HoldMoves ==
    ASSUME TypeInv, [Next]_vars, ~ForwardLost(Placement)
    PROVE  /\ HoldMove /\ UNCHANGED direction
           /\ \/ Backward(Placement) /\ run[Placement].at = 2
              \/ ReleaseResidualReservation \/ CancelRelease
              => hold'.status # "active"
<1>1. /\ OrderTyped /\ SagaInv /\ hold \in Hold /\ fill \in [Txns -> Fill]
      /\ Placement \in Sagas /\ Placement \notin Txns /\ Sagas = {Placement} \cup Txns
  BY OrderAssumption DEF TypeInv, OrderTyped
<1>2. ReleaseHold => HoldMove /\ hold'.status # "active"
  BY DEF ReleaseHold, HoldMove
<1>3. Backward(Placement) /\ run[Placement].at = 2 => ReleaseHold
  BY DEF Backward, PlacementBackward, PersistOrder, ReserveStep
<1>4. ReleaseResidualReservation \/ CancelRelease => ReleaseHold /\ UNCHANGED direction
  BY DEF ReleaseResidualReservation, CancelRelease
<1> SUFFICES HoldMove /\ UNCHANGED direction
  BY <1>2, <1>3, <1>4
<1>5. UNCHANGED hold => HoldMove
  BY DEF HoldMove
<1>6. CASE Forward(Placement)
  <2>1. run[Placement].at \in Step /\ PlacementForward(run[Placement].at) /\ UNCHANGED direction
    BY <1>1, <1>6 DEF Forward, StepForward, ForwardDone, SagaInv, OnStep, Busy
  <2>2. CASE run[Placement].at # 2
    <3>1. CASE run[Placement].at = 1
      BY <1>5, <2>1, <3>1 DEF PlacementForward, PersistOrder, ReserveStep, FinalizeStep
    <3>2. CASE run[Placement].at = 3
      BY <1>5, <2>1, <3>2 DEF PlacementForward, PersistOrder, ReserveStep, FinalizeStep
    <3> QED BY <2>1, <2>2, <3>1, <3>2 DEF Step
  <2>3. CASE run[Placement].at = 2
    <3>1. Reserve
      BY <2>1, <2>3 DEF PlacementForward, PersistOrder, ReserveStep, FinalizeStep
    <3>2. UNCHANGED hold \/ (hold.status = "none" /\ hold' = [status |-> "active", left |-> Needed])
      BY <3>1 DEF Reserve
    <3> QED BY <1>5, <1>6, <2>1, <2>3, <3>2 DEF HoldMove
  <2> QED BY <2>2, <2>3
<1>7. ASSUME NEW t \in Txns, Forward(t) \/ ForwardLost(t)
      PROVE  HoldMove /\ UNCHANGED direction
  <2>1. /\ CanFill(t, run[t].at) /\ FillForward(t, run[t].at) /\ UNCHANGED direction
    BY <1>1, <1>7 DEF Forward, ForwardLost, StepForward, CanForward
  <2>2. CASE Consumes(run[t].at) /\ ~Applied(t, run[t].at)
    <3>1. PICK q : q = fill[t].qty
      OBVIOUS
    <3>2. /\ hold.status = "active" /\ q <= hold.left
          /\ hold' = [status |-> IF hold.left = q THEN "settled" ELSE "active",
                      left |-> hold.left - q]
      BY <2>1, <2>2, <3>1 DEF CanFill, CanSettle, FillForward, SettleHold
    <3>3. Settles(t)
      BY <1>7, <2>2, <3>1, <3>2 DEF Settles
    <3> QED BY <2>1, <3>3 DEF HoldMove
  <2>3. CASE ~(Consumes(run[t].at) /\ ~Applied(t, run[t].at))
    <3>1. UNCHANGED hold
      BY <2>1, <2>3 DEF FillForward, SettleHold
    <3> QED BY <1>5, <2>1, <3>1
  <2> QED BY <2>2, <2>3
<1>8. CASE Backward(Placement)
  <2>1. /\ run[Placement].at \in {1, 2} /\ PlacementBackward(run[Placement].at)
        /\ UNCHANGED direction
    <3>1. run[Placement].at \in Step /\ run[Placement].at # 3
      BY <1>1, <1>8, Irreversible DEF Backward, BackwardDone, SagaInv, OnStep, Busy
    <3> QED BY <1>8, <3>1 DEF Backward, Step
  <2>2. UNCHANGED hold \/ ReleaseHold
    BY <2>1 DEF PlacementBackward, PersistOrder, ReserveStep
  <2> QED BY <1>2, <1>5, <2>1, <2>2
<1>9. ASSUME NEW t \in Txns, Backward(t)
      PROVE  HoldMove /\ UNCHANGED direction
  BY <1>1, <1>5, <1>9 DEF Backward, FillBackward
<1>10. ASSUME NEW s \in Sagas, SagaStep(s)
       PROVE  HoldMove /\ UNCHANGED direction
  <2>1. CASE ForwardRefused(s) \/ BackwardRefused(s) \/ ExecutorStep(s) \/ Returns(s)
    BY <1>5, <2>1 DEF ForwardRefused, BackwardRefused, ExecutorStep, Returns, orderVars
  <2> QED BY <1>1, <1>6, <1>7, <1>8, <1>9, <1>10, <2>1 DEF SagaStep
<1>11. CASE CreateOrder \/ Reconcile
  BY <1>5, <1>11 DEF CreateOrder, Reconcile, RecoverPlacement, RecoverFill,
        ReconcileMoney,
        ReconcileShares, orderVars
<1>12. CASE Engine
  BY <1>2, <1>4, <1>5, <1>12 DEF Engine, StartOrderExecution, LoopReturns, FillPortion,
        ProcessFill, FillFailed, SaveFill, AbortOrder, orderVars
<1>13. CASE (\E c \in Callers : Read(c)) \/ Supervise \/ CancelOrder \/ CancelRelease
            \/ SaveFails \/ ServiceCrash \/ UNCHANGED vars
  BY <1>2, <1>4, <1>5, <1>13 DEF Read, Supervise, CancelOrder, SaveFails, ServiceCrash,
        orderVars, vars
<1> QED BY <1>10, <1>11, <1>12, <1>13 DEF Next

(* persist_order leaves a row, and finalize_order finds the one that       *)
(* persist_order left.                                                     *)
LEMMA PlacementWrites ==
    ASSUME TypeInv, Forward(Placement)
    PROVE  /\ run[Placement].at = 1 => Exists'
           /\ run[Placement].at = 3 =>
                Exists /\ planned = order.version /\ order'.done = order.done
<1>1. order \in OrderRow /\ planned \in Nat
  BY DEF TypeInv, OrderTyped
<1>2. CanPlace(run[Placement].at) /\ PlacementForward(run[Placement].at)
  BY DEF Forward, StepForward, CanForward
<1>3. CASE run[Placement].at = 1
  <2>1. order' = IF Exists THEN order
                 ELSE [NoRow EXCEPT !.status = "pending", !.left = Quantity]
    BY <1>2, <1>3 DEF PlacementForward, PersistOrder, ReserveStep, FinalizeStep
  <2>2. PICK r : r = [NoRow EXCEPT !.status = "pending", !.left = Quantity]
    OBVIOUS
  <2>3. r.status = "pending"
    BY <2>2 DEF NoRow
  <2> QED BY <1>3, <2>1, <2>2, <2>3 DEF Exists
<1>4. CASE run[Placement].at = 3
  <2>1. Exists /\ planned = order.version
    <3>1. PICK copy : copy = [order EXCEPT !.version = planned]
      OBVIOUS
    <3>2. copy.version = planned /\ Fresh(copy)
      BY <1>1, <1>2, <1>4, <3>1 DEF CanPlace, FinalizeStep, OrderRow
    <3> QED BY <3>2 DEF Fresh
  <2>2. \/ order' = Saved([order EXCEPT !.status = "approved"])
        \/ order' = Saved(order)
    BY <1>2, <1>4 DEF PlacementForward, PersistOrder, ReserveStep, FinalizeStep
  <2>3. PICK copy : copy = [order EXCEPT !.status = "approved"]
    OBVIOUS
  <2>4. copy \in OrderRow /\ copy.done = order.done
    BY <1>1, <2>3 DEF OrderRow
  <2>5. order'.done = order.done
    BY <1>1, <2>2, <2>3, <2>4, SavedTyped
  <2> QED BY <1>4, <2>1, <2>5
<1> QED BY <1>3, <1>4

(* A row goes only with persist_order's Backward.                          *)
LEMMA RowKept ==
    ASSUME TypeInv, OrderMove, CopiesSound, Exists,
           ~(Backward(Placement) /\ run[Placement].at = 1)
    PROVE  Exists'
<1>1. SaveFill /\ Saves(job.seen) => job.seen.status = "approved"
  BY DEF SaveFill, CopiesSound, Filling
<1>2. CASE UNCHANGED order
  BY <1>2 DEF Exists
<1>3. CASE order'.status # "none"
  BY <1>3 DEF Exists
<1> QED BY <1>1, <1>2, <1>3 DEF OrderMove, Exists

(* The row stands from one step to the next.                               *)
LEMMA RowStandsStep ==
    ASSUME TypeInv, [Next]_vars, PlacementStage, RowStands, CopiesSound, PlacementMove
    PROVE  RowStands'
<1>1. OrderMove
  BY OrderMoves
<1>2. Exists /\ ~(Backward(Placement) /\ run[Placement].at = 1) => Exists'
  BY <1>1, RowKept
<1>3. CASE ~Forward(Placement) /\ ~Backward(Placement) /\ run'[Placement] = run[Placement]
  BY <1>2, <1>3 DEF RowStands
<1>4. CASE /\ Forward(Placement) /\ run[Placement].pc = "call"
           /\ PlacementIs("mark", run[Placement].at, run[Placement].done)
  <2>1. run[Placement].at = 1 => Exists'
    BY <1>4, PlacementWrites
  <2>2. ~Backward(Placement)
    BY <1>4 DEF Backward, BackwardDone
  <2> QED BY <1>2, <1>4, <2>1, <2>2 DEF RowStands, PlacementIs
<1>5. CASE /\ Backward(Placement) /\ run[Placement].pc = "back"
           /\ PlacementIs("unmark", run[Placement].at, run[Placement].done)
  BY <1>2, <1>5 DEF RowStands, PlacementIs
<1>6. CASE PlacementTurns
  <2>1. Exists => Exists'
    BY <1>6 DEF PlacementTurns, orderVars, Exists
  <2> QED BY <1>6, <2>1 DEF PlacementTurns, PlacementIs, RowStands, Onward, Beyond
<1> QED BY <1>3, <1>4, <1>5, <1>6 DEF PlacementMove

(* The hold stays the placement's, or passes to the order it placed.       *)
LEMMA HoldOwnedStep ==
    ASSUME TypeInv, [Next]_vars, PlacementOnce, CopiesSound, PlacementStage, RowStands,
           HoldOwned, PlacementMove, ~ForwardLost(Placement)
    PROVE  HoldOwned'
<1>1. OrderMove /\ HoldMove
  BY OrderMoves, HoldMoves
<1>2. /\ Exists /\ ~(Backward(Placement) /\ run[Placement].at = 1) => Exists'
      /\ Backward(Placement) /\ run[Placement].at = 2 => hold'.status # "active"
  BY <1>1, RowKept, HoldMoves
<1> SUFFICES ASSUME hold'.status = "active" PROVE HoldOwned'
  BY DEF HoldOwned
<1>3. hold.status = "active" \/ (Forward(Placement) /\ run[Placement].at = 2)
  BY <1>1 DEF HoldMove, Settles
<1>4. CASE ~Forward(Placement) /\ ~Backward(Placement) /\ run'[Placement] = run[Placement]
  BY <1>2, <1>3, <1>4 DEF HoldOwned
<1>5. CASE /\ Forward(Placement) /\ run[Placement].pc = "call"
           /\ PlacementIs("mark", run[Placement].at, run[Placement].done)
  BY <1>3, <1>5 DEF HoldOwned, PlacementIs
<1>6. CASE /\ Backward(Placement) /\ run[Placement].pc = "back"
           /\ PlacementIs("unmark", run[Placement].at, run[Placement].done)
  <2>1. ~Forward(Placement)
    BY <1>6 DEF Forward, ForwardDone
  <2> QED BY <1>2, <1>3, <1>6, <2>1 DEF HoldOwned, PlacementIs
<1>7. CASE PlacementTurns
  <2>1. (Exists' <=> Exists) /\ hold.status = "active"
    BY <1>7 DEF PlacementTurns, orderVars, Exists
  <2>2. run[Placement].pc = "idle" /\ ~Begun => ~Exists
    BY DEF PlacementOnce, Unplaced
  <2>3. run[Placement].pc = "return" => Exists
    <3>1. 1 \in Step
      BY DEF Step
    <3> QED BY <3>1 DEF PlacementStage, RowStands
  <2> QED BY <1>7, <2>1, <2>2, <2>3 DEF PlacementTurns, PlacementIs, HoldOwned,
        Onward, Beyond
<1> QED BY <1>4, <1>5, <1>6, <1>7 DEF PlacementMove

(* A pending or declined order is not done.                                *)
LEMMA OpenStep ==
    ASSUME TypeInv, [Next]_vars, CopiesSound, OpenUntilDone
    PROVE  OpenUntilDone'
<1>1. OrderMove
  BY OrderMoves
<1>2. Supervise /\ Saves(call["supervisor"].seen) => ~call["supervisor"].seen.done
  <2>1. ASSUME Supervise, Saves(call["supervisor"].seen)
        PROVE  call["supervisor"].seen = order /\ order.status = "pending"
    BY <2>1 DEF Supervise, Saves, Fresh, CopiesSound, Copied
  <2> QED BY <2>1 DEF OpenUntilDone
<1>3. SaveFill /\ Saves(job.seen) => job.seen.status = "approved"
  BY DEF SaveFill, CopiesSound, Filling
<1> QED BY <1>1, <1>2, <1>3 DEF OrderMove, OpenUntilDone, NoRow

(* Whoever owes a release keeps owing it until the hold is released.       *)
LEMMA ReleaseKept ==
    ASSUME TypeInv, [Next]_vars, ~ServiceCrash, ~SaveFails
    PROVE  /\ job.pc = "release" => job'.pc = "release" \/ ReleaseResidualReservation
           /\ call["owner"].pc = "release" => call'["owner"].pc = "release" \/ CancelRelease
<1>1. /\ job \in Job /\ call \in [Callers -> Call] /\ PortionFits /\ "owner" \in Callers
      /\ None \notin Sagas
  BY OrderAssumption DEF TypeInv, OrderTyped, Callers
<1>2. job.pc = "release" => job.txn = None
  BY <1>1 DEF PortionFits, Filling
<1> DEFINE Jobs == job.pc = "release" => job'.pc = "release" \/ ReleaseResidualReservation
           Calls == call["owner"].pc = "release" =>
                      call'["owner"].pc = "release" \/ CancelRelease
<1>3. UNCHANGED job => Jobs
  OBVIOUS
<1>4. UNCHANGED call => Calls
  OBVIOUS
<1>5. ASSUME NEW s \in Sagas, SagaStep(s)
      PROVE  Jobs /\ Calls
  <2>1. UNCHANGED call
    BY <1>5 DEF SagaStep, Forward, ForwardRefused, ForwardLost, Backward, BackwardRefused,
          ExecutorStep, Returns
  <2>2. Jobs
    BY <1>1, <1>2, <1>3, <1>5 DEF SagaStep, Forward, ForwardRefused, ForwardLost,
          Backward, BackwardRefused, ExecutorStep, Returns
  <2> QED BY <1>4, <2>1, <2>2
<1>6. CASE CreateOrder \/ Reconcile
  BY <1>6 DEF CreateOrder, Reconcile, RecoverPlacement, RecoverFill, ReconcileMoney,
        ReconcileShares
<1>7. CASE Engine
  BY <1>7 DEF Engine, StartOrderExecution, LoopReturns, FillPortion, ProcessFill,
        FillFailed,
        SaveFill, AbortOrder, ReleaseResidualReservation
<1>8. ASSUME NEW c \in Callers, Read(c)
      PROVE  Jobs /\ Calls
  BY <1>1, <1>8 DEF Read
<1>9. CASE Supervise \/ CancelOrder \/ CancelRelease \/ UNCHANGED vars
  BY <1>1, <1>9 DEF Supervise, CancelOrder, CancelRelease, vars
<1> QED BY <1>5, <1>6, <1>7, <1>8, <1>9 DEF Next

(* Whoever ends a buy owes the release of its hold.                        *)
LEMMA ReleaseTaken ==
    ASSUME TypeInv, OrderMove, direction = "buy", Exists', order'.done,
           CopiesSound, OpenUntilDone, PlacementOnce
    PROVE  \/ UNCHANGED order /\ Exists /\ order.done
              /\ ~(Forward(Placement) /\ run[Placement].at = 3)
           \/ job'.pc = "release" \/ call'["owner"].pc = "release"
<1>1. /\ job \in Job /\ call \in [Callers -> Call] /\ "owner" \in Callers
      /\ order \in OrderRow /\ job.seen \in OrderRow
  BY DEF TypeInv, OrderTyped, Callers, Job
<1>3. ~(Forward(Placement) /\ run[Placement].at = 3)
  <2>1. SUFFICES ASSUME Forward(Placement), run[Placement].at = 3 PROVE ~order'.done
    OBVIOUS
  <2>2. Exists /\ planned = order.version /\ order'.done = order.done
    BY <2>1, PlacementWrites
  <2>3. planned = 0
    BY <2>1 DEF Forward, ForwardDone, PlacementOnce, Going
  <2>4. order.status = "pending"
    BY <2>2, <2>3 DEF CopiesSound
  <2> QED BY <2>2, <2>4 DEF OpenUntilDone
<1>4. CASE UNCHANGED order
  BY <1>3, <1>4 DEF Exists
<1>5. ASSUME SaveFill, order'.left = job.seen.left - fill[job.txn].qty,
             order'.left = 0
      PROVE  job'.pc = "release"
  <2>1. EndOfJob(TRUE)
    BY <1>5 DEF SaveFill
  <2>2. job' = [NoJob EXCEPT !.pc = "release"]
    BY <2>1 DEF EndOfJob
  <2> QED BY <2>2 DEF NoJob
<1>6. AbortOrder => job'.pc = "release"
  <2>1. AbortOrder => job' = [NoJob EXCEPT !.pc = "release"]
    BY DEF AbortOrder, EndOfJob
  <2> QED BY <2>1 DEF NoJob
<1>7. CASE Supervise /\ Saves(call["supervisor"].seen)
           /\ order'.done = call["supervisor"].seen.done
  <2>1. call["supervisor"].seen = order /\ order.status = "pending"
    BY <1>7 DEF Supervise, Saves, Fresh, CopiesSound, Copied
  <2> QED BY <1>7, <2>1 DEF OpenUntilDone
<1>8. CASE CancelOrder /\ Saves(call["owner"].seen)
  <2>1. call'["owner"] = [call["owner"] EXCEPT !.pc = "release"]
    BY <1>1, <1>8 DEF CancelOrder, Saves
  <2> QED BY <1>1, <2>1 DEF Call
<1>9. order' # NoRow
  BY DEF NoRow, Exists
<1>10. CASE /\ SaveFill /\ order'.left = job.seen.left - fill[job.txn].qty
            /\ (order'.done <=> order'.left = 0)
  BY <1>5, <1>10
<1>11. CASE ~UNCHANGED order
  BY <1>3, <1>6, <1>7, <1>8, <1>9, <1>10, <1>11 DEF OrderMove
<1> QED BY <1>4, <1>11

(* A release that is owed stays owed until the hold has been released.     *)
LEMMA ReleaseOwedStep ==
    ASSUME TypeInv, [Next]_vars, ~ServiceCrash, PlacementOnce, CopiesSound, OpenUntilDone,
           PlacementStage, HoldOwned, ReleaseOwed, PlacementMove,
           ~SaveFails, ~ForwardLost(Placement)
    PROVE  ReleaseOwed'
<1>1. /\ OrderMove /\ HoldMove /\ UNCHANGED direction
      /\ \/ Backward(Placement) /\ run[Placement].at = 2
         \/ ReleaseResidualReservation \/ CancelRelease
         => hold'.status # "active"
  BY OrderMoves, HoldMoves
<1> SUFFICES ASSUME direction = "buy", Exists', order'.done, hold'.status = "active",
                    job'.pc # "release", call'["owner"].pc # "release"
             PROVE  \/ run'[Placement].pc \in Undoing
                    \/ /\ run'[Placement].pc \in Going
                       /\ ~(run'[Placement].pc = "mark" /\ run'[Placement].at = 3)
  BY <1>1 DEF ReleaseOwed
<1>2. Exists /\ order.done /\ ~(Forward(Placement) /\ run[Placement].at = 3)
  BY <1>1, ReleaseTaken
<1>3. job.pc # "release" /\ call["owner"].pc # "release"
  BY <1>1, ReleaseKept
<1>4. hold.status = "active" \/ (Forward(Placement) /\ run[Placement].at = 2)
  BY <1>1 DEF HoldMove, Settles
<1>5. hold.status = "active" =>
        \/ run[Placement].pc \in Undoing
        \/ /\ run[Placement].pc \in Going
           /\ ~(run[Placement].pc = "mark" /\ run[Placement].at = 3)
  BY <1>2, <1>3 DEF ReleaseOwed
<1>6. CASE ~Forward(Placement) /\ ~Backward(Placement) /\ run'[Placement] = run[Placement]
  BY <1>4, <1>5, <1>6
<1>7. CASE /\ Forward(Placement) /\ run[Placement].pc = "call"
           /\ PlacementIs("mark", run[Placement].at, run[Placement].done)
  BY <1>2, <1>7 DEF PlacementIs, Going
<1>8. CASE /\ Backward(Placement) /\ run[Placement].pc = "back"
           /\ PlacementIs("unmark", run[Placement].at, run[Placement].done)
  BY <1>8 DEF PlacementIs, Undoing
<1>9. CASE PlacementTurns
  <2>1. hold.status = "active"
    BY <1>9 DEF PlacementTurns, orderVars
  <2>2. run[Placement].pc = "undo" => run[Placement].done # {}
    BY <2>1 DEF HoldOwned
  <2>3. CASE run[Placement].pc \in Undoing
    BY <1>9, <2>2, <2>3 DEF PlacementTurns, PlacementIs, Undoing
  <2>4. CASE run[Placement].pc \in Going
             /\ ~(run[Placement].pc = "mark" /\ run[Placement].at = 3)
    BY <1>9, <2>4 DEF PlacementTurns, PlacementIs, Undoing, Going, Onward
  <2> QED BY <1>5, <2>1, <2>3, <2>4
<1> QED BY <1>6, <1>7, <1>8, <1>9 DEF PlacementMove

(* Transaction t delivers its quantity.                                    *)
Delivers(t) ==
    /\ Forward(t) /\ run[t].at = 3 /\ t \notin Delivered
    /\ Units(Delivered)' = Units(Delivered) + fill[t].qty

(* A step leaves what was delivered, or delivers one fill.                 *)
LEMMA UnitsMove ==
    ASSUME TypeInv, TypeInv', FillInv, \A u \in Txns : FillOnce(u), [Next]_vars
    PROVE  \/ Units(Delivered)' = Units(Delivered) /\ Delivered' = Delivered
           \/ \E t \in Txns : Delivers(t)
<1>1. /\ fill \in [Txns -> Fill] /\ fill' \in [Txns -> Fill]
      /\ Txns \subseteq Sagas /\ Placement \notin Txns
  BY OrderAssumption DEF TypeInv, OrderTyped
<1>2. Units(Delivered)' = Counted(fill', Delivered')
  BY DEF Units, Counted
<1>3. /\ Units(Delivered) = Counted(fill, Delivered) /\ Delivered \subseteq Txns
  BY UnitsCounted DEF Delivered
<1>4. CASE /\ \A u \in Txns : fill'[u].qty = fill[u].qty
           /\ \A u \in Txns : fill'[u].shares = fill[u].shares
  <2>1. Delivered' = Delivered
    BY <1>4 DEF Delivered
  <2>2. Counted(fill', Delivered) = Counted(fill, Delivered)
    BY <1>3, <1>4, CountedSame
  <2> QED BY <1>2, <1>3, <2>1, <2>2
<1>5. ASSUME NEW t \in Txns, Taken(t)
      PROVE  Units(Delivered)' = Units(Delivered) /\ Delivered' = Delivered
  <2>1. t \notin Delivered
    <3>1. fwd[t][2] = {}
      BY <1>1, <1>5 DEF FillOnce, Taken, Step
    <3> QED BY <1>1, <3>1 DEF FillInv, FillSound, IsCompleted, Delivered
  <2>2. Delivered' = Delivered
    BY <1>5, <2>1 DEF Taken, Delivered
  <2>3. \A u \in Delivered : fill'[u].qty = fill[u].qty
    BY <1>3, <1>5, <2>1 DEF Taken
  <2>4. Counted(fill', Delivered) = Counted(fill, Delivered)
    BY <2>3, CountedSame
  <2> QED BY <1>2, <1>3, <2>2, <2>4
<1>6. ASSUME NEW t \in Txns, Forward(t), run[t].at = 3, fill'[t].shares,
             \A u \in Txns : fill'[u].qty = fill[u].qty,
             \A u \in Txns \ {t} : fill'[u] = fill[u]
      PROVE  Delivers(t)
  <2>1. run[t].pc = "call"
    BY <1>6 DEF Forward, ForwardDone
  <2>2. t \notin Delivered
    BY <2>1 DEF FillOnce, Delivered
  <2>3. Delivered' = Delivered \cup {t} /\ Delivered' \ {t} = Delivered
    BY <1>6, <2>2 DEF Delivered
  <2>4. Counted(fill', Delivered) = Counted(fill, Delivered)
    BY <1>3, <1>6, CountedSame
  <2>5. Counted(fill', Delivered') = Counted(fill', Delivered' \ {t}) + fill'[t].qty
    <3>1. IsFiniteSet(Delivered')
      <4>1. IsFiniteSet(Txns) /\ Delivered' \subseteq Txns
        BY <1>1, SagaAssumption, FS_Subset DEF Delivered
      <4> QED BY <4>1, FS_Subset
    <3>2. \A u \in Delivered' : fill'[u].qty \in Nat
      BY <1>1 DEF Delivered, Fill
    <3>3. t \in Delivered'
      BY <2>3
    <3> QED BY <3>1, <3>2, <3>3, CountedSplit
  <2>6. Units(Delivered)' = Units(Delivered) + fill[t].qty
    BY <1>2, <1>3, <1>6, <2>3, <2>4, <2>5
  <2> QED BY <1>6, <2>2, <2>6 DEF Delivers
<1> QED BY <1>4, <1>5, <1>6, DeliveryMoves

(* The shares of the hold and the shares delivered add up to the order.    *)
LEMMA SharesLeftStep ==
    ASSUME TypeInv, TypeInv', FillInv, \A u \in Txns : FillOnce(u), [Next]_vars, SharesLeft,
           ~ForwardLost(Placement)
    PROVE  SharesLeft'
<1>1. /\ HoldMove /\ UNCHANGED direction
      /\ Quantity \in Nat \ {0} /\ Placement \notin Txns
      /\ hold \in Hold /\ fill \in [Txns -> Fill] /\ SagaInv /\ Sagas = {Placement} \cup Txns
  BY HoldMoves, OrderAssumption DEF TypeInv, OrderTyped
<1> SUFFICES ASSUME direction = "sell"
             PROVE  /\ hold'.status = "none" => Units(Delivered)' = 0
                    /\ hold'.status = "active" =>
                         hold'.left > 0 /\ hold'.left = Quantity - Units(Delivered)'
  BY <1>1 DEF SharesLeft
<1>2. /\ Needed = Quantity /\ hold.left \in Nat /\ \A t \in Txns : fill[t].qty \in Nat
      /\ \A i : Consumes(i) <=> i = 3
  BY <1>1 DEF Needed, Hold, Fill, Consumes, SharesStep, MoneyStep
<1>3. /\ hold.status = "none" => Units(Delivered) = 0
      /\ hold.status = "active" => hold.left > 0 /\ hold.left = Quantity - Units(Delivered)
  BY DEF SharesLeft
<1>4. PICK n \in Nat : n = Units(Delivered)
  BY UnitsCounted
<1>5. ASSUME NEW t \in Txns, Delivers(t)
      PROVE  /\ hold.status = "active" /\ fill[t].qty <= hold.left
             /\ hold'.left = hold.left - fill[t].qty
             /\ hold'.status = (IF hold.left = fill[t].qty THEN "settled" ELSE "active")
  <2>1. CanFill(t, 3) /\ FillForward(t, 3) /\ ~fill[t].shares
    BY <1>1, <1>5 DEF Delivers, Forward, StepForward, CanForward, Delivered
  <2>2. CanSettle(FALSE, fill[t].qty) /\ SettleHold(FALSE, fill[t].qty)
    <3>1. Applied(t, 3) <=> fill[t].shares
      BY DEF Applied, MoneyStep
    <3> QED BY <1>2, <2>1, <3>1 DEF CanFill, FillForward, CanSettle, SettleHold
  <2>3. PICK q : q = fill[t].qty
    OBVIOUS
  <2>4. /\ hold.status = "active" /\ q <= hold.left
        /\ hold' = [status |-> IF hold.left = q THEN "settled" ELSE "active",
                    left |-> hold.left - q]
    BY <2>2, <2>3 DEF CanSettle, SettleHold
  <2> QED BY <2>3, <2>4
<1>6. ASSUME NEW t \in Txns, Delivers(t)
      PROVE  /\ hold'.status # "none"
             /\ hold'.status = "active" =>
                  hold'.left > 0 /\ hold'.left = Quantity - Units(Delivered)'
  <2>1. PICK q \in Nat : q = fill[t].qty
    BY <1>2
  <2>2. Units(Delivered)' = n + q
    BY <1>4, <1>6, <2>1 DEF Delivers
  <2>3. hold.left = Quantity - n /\ q <= hold.left /\ hold'.left = hold.left - q
        /\ hold'.status = (IF hold.left = q THEN "settled" ELSE "active")
    BY <1>3, <1>4, <1>5, <1>6, <2>1
  <2>4. hold'.left = Quantity - (n + q) /\ (hold.left # q => hold'.left > 0)
    BY <1>1, <1>2, <2>3
  <2> QED BY <2>2, <2>3, <2>4
<1>7. ASSUME Units(Delivered)' = Units(Delivered), Delivered' = Delivered
      PROVE  /\ hold'.status = "none" => Units(Delivered)' = 0
             /\ hold'.status = "active" =>
                  hold'.left > 0 /\ hold'.left = Quantity - Units(Delivered)'
  <2>1. CASE UNCHANGED hold
    BY <1>3, <1>7, <2>1
  <2>2. CASE hold.status = "none" /\ hold'.status = "active" /\ hold'.left = Needed
    BY <1>1, <1>2, <1>3, <1>7, <2>2
  <2>3. CASE hold'.status = "released"
    BY <2>3
  <2>4. ASSUME NEW t \in Txns, Settles(t) PROVE FALSE
    <3>1. run[t].at = 3 /\ t # Placement
      BY <1>1, <1>2, <2>4 DEF Settles
    <3>5. ~ForwardLost(t)
      BY <3>1 DEF ForwardLost, RemoteStep, MoneyStep
    <3>6. Forward(t) /\ run[t].pc = "call"
      BY <2>4, <3>5 DEF Settles, Forward, ForwardDone
    <3>2. t \notin Delivered
      BY <3>1, <3>6 DEF FillOnce, Delivered
    <3>3. t \in Delivered'
      <4>1. CanFill(t, 3) /\ FillForward(t, 3) /\ OrderTyped /\ 3 \in Step
        BY <1>1, <3>1, <3>6 DEF Forward, StepForward, CanForward, TypeInv, Step
      <4>2. fill'[t].shares = (fill[t].shares \/ 3 = 3)
        BY <1>1, <4>1, FillEffects
      <4> QED BY <4>2 DEF Delivered
    <3> QED BY <1>7, <3>2, <3>3
  <2> QED BY <1>1, <2>1, <2>2, <2>3, <2>4 DEF HoldMove
<1> QED BY <1>6, <1>7, UnitsMove

(* Every untroubled step keeps the hold accounted for.                     *)
LEMMA HoldStep ==
    ASSUME TypeInv, faults.mark = 0 => FillInv, CalmInv, FilledInv, HoldInv, [Next]_vars
    PROVE  HoldInv'
<1> SUFFICES ASSUME Untroubled'
             PROVE  /\ PlacementStage' /\ RowStands' /\ HoldOwned' /\ SharesLeft'
                    /\ ReleaseOwed' /\ OpenUntilDone'
  BY DEF HoldInv
<1>1. Undisturbed /\ faults'.mark = 0 /\ ~ServiceCrash /\ ~SaveFails /\ TypeInv'
  BY StaysUndisturbed, TypeStep DEF Untroubled
<1>8. Placement \notin lost /\ ~ForwardLost(Placement)
  <2>1. lost \subseteq lost'
    BY LostGrows
  <2>2. ForwardLost(Placement) => Placement \in lost'
    BY DEF ForwardLost
  <2> QED BY <2>1, <2>2 DEF Untroubled
<1>2. faults.back = 0 /\ faults'.back = 0
  <2>1. FaultsGrow /\ faults \in Faults
    BY TypeStep DEF TypeInv, SagaInv, LogTyped
  <2> QED BY <2>1 DEF FaultsGrow, Faults, Untroubled
<1>3. /\ PlacementOnce /\ CopiesSound /\ PlacementLog /\ FillInv
      /\ \A t \in Txns : FillOnce(t)
      /\ PlacementStage /\ RowStands /\ HoldOwned /\ SharesLeft /\ ReleaseOwed
      /\ OpenUntilDone
  BY <1>1, <1>2, <1>8 DEF CalmInv, PlacementOnce, FilledInv, HoldInv, Untroubled, Undisturbed
<1>4. PlacementStage' /\ PlacementMove
  BY <1>1, <1>2, <1>3, <1>8, PlacementStageStep
<1>5. RowStands' /\ HoldOwned' /\ OpenUntilDone'
  BY <1>3, <1>4, <1>8, RowStandsStep, HoldOwnedStep, OpenStep
<1>6. ReleaseOwed'
  BY <1>1, <1>3, <1>4, <1>8, ReleaseOwedStep
<1>7. SharesLeft'
  BY <1>1, <1>3, <1>8, SharesLeftStep
<1> QED BY <1>4, <1>5, <1>6, <1>7

(* Nothing is held and nothing has begun.                                  *)
LEMMA HoldInit == ASSUME Init PROVE HoldInv
<1>1. Placement \in Sagas /\ Steps(Placement) = Step
  BY OrderAssumption, ThreeSteps
<1>2. /\ run[Placement].pc = "idle" /\ run[Placement].row = None
      /\ \A i \in Step : comp[Placement][i] = "none"
  BY <1>1 DEF Init, SagaInit, Idle
<1>3. hold.status = "none" /\ order.status = "none"
  BY DEF Init, NoRow
<1>4. PlacementStage
  BY <1>2 DEF PlacementStage, Going, Undoing
<1>5. \A t \in Txns : ~fill[t].shares
  BY DEF Init, NoFill
<1>6. Units(Delivered) = 0
  <2>1. Delivered = {}
    BY <1>5 DEF Delivered
  <2>2. UNION {{t} \X (1 .. fill[t].qty) : t \in {}} = {}
    OBVIOUS
  <2> QED BY <2>1, <2>2, FS_EmptySet DEF Units
<1> QED BY <1>2, <1>3, <1>4, <1>6
        DEF HoldInv, RowStands, HoldOwned, SharesLeft, ReleaseOwed, OpenUntilDone

(* Nothing stays held for an order that is over: without a crash, a lost   *)
(* write of the log or of the order, a failed Backward or a lost answer of *)
(* the placement's own ReserveFunds, for any quantity, any number of       *)
(* portions and any interleaving of placement, engine, supervisor and      *)
(* owner, a hold that is left when nobody works on the order belongs to    *)
(* one that is still open, or to a sell that was cancelled.                *)
THEOREM ClosedHoldsNothingHolds == Spec => []ClosedHoldsNothing
<1> DEFINE Known == /\ TypeInv /\ CalmInv /\ FilledInv /\ HoldInv
                    /\ faults.mark = 0 => FillInv
<1>1. Init => Known
  BY TypeInit, FillInit, CalmInit, FilledInit, HoldInit
<1>2. Known /\ [Next]_vars => Known'
  <2>1. TypeInv /\ [Next]_vars => (faults'.mark = 0 => faults.mark = 0)
    BY TypeStep DEF FaultsGrow, TypeInv, SagaInv, LogTyped, Faults
  <2> QED BY <2>1, TypeStep, FillStep, CalmStep, FilledStep, HoldStep
<1>3. Known => ClosedHoldsNothing
  <2>1. SUFFICES ASSUME Known, Untroubled, Quiet, hold.status = "active",
                        ~(Exists /\ ~order.done)
                 PROVE  direction = "sell" /\ order.status = "cancelled"
    BY DEF ClosedHoldsNothing, Untroubled
  <2>2. /\ run[Placement].pc = "idle" /\ job.pc = "none" /\ call["owner"].pc = "none"
        /\ direction \in {"buy", "sell"} /\ order \in OrderRow /\ order.left \in Nat
    BY <2>1, OrderAssumption DEF Quiet, Settled, Callers, TypeInv, OrderTyped, OrderRow
  <2>3. HoldOwned /\ SharesLeft /\ ReleaseOwed /\ OpenUntilDone /\ LeftAddsUp /\ ~Filling
    BY <2>1, <2>2 DEF HoldInv, FilledInv, Untroubled, Filling
  <2>4. Exists /\ order.done
    BY <2>1, <2>2, <2>3 DEF HoldOwned
  <2>5. direction = "sell"
    BY <2>1, <2>2, <2>3, <2>4 DEF ReleaseOwed, Undoing, Going
  <2>6. order.status # "approved"
    <3>1. hold.left > 0 /\ hold.left = Quantity - Units(Delivered)
      BY <2>1, <2>3, <2>5 DEF SharesLeft
    <3>2. order.status = "approved" => Units(Delivered) = Quantity
      BY <2>2, <2>3, <2>4, OrderAssumption DEF LeftAddsUp
    <3> QED BY <3>1, <3>2, OrderAssumption
  <2> QED BY <2>2, <2>3, <2>4, <2>5, <2>6 DEF OpenUntilDone, Exists, OrderRow
<1> HIDE DEF Known
<1> QED BY <1>1, <1>2, <1>3, PTL DEF Spec
=============================================================================
