------------------------- MODULE TransferSagaProofs -------------------------
(***************************************************************************)
(* Proofs about TransferSaga, for every number of steps, executions,       *)
(* retries and crashes.                                                    *)
(***************************************************************************)
EXTENDS TransferSaga, Integers, TLAPS

-----------------------------------------------------------------------------
(* The inductive invariant of RefundsMatchLog *)

Through == {"completed", "complete", "undo", "backward", "compensated"}

(* What the position of an execution says of the ledger and of its row:    *)
(* the steps behind it went through, so those it walks back over did too.  *)
Position(r) ==
    LET i == pc[r].step IN
    /\ pc[r].at \in {"record", "forward"} => \A s \in Step : s < i => s \in applied
    /\ pc[r].at \in Through =>
          \A s \in Step : s <= i => s \in applied
    /\ pc[r].at \in {"backward", "compensated"} => comp[Row(r)] # "none"
    /\ At(r, "compensated") => <<"inline", r, i>> \in refunds
    /\ At(r, "complete") => i = Steps

(* A row of the log is written only for a step that went through, and the  *)
(* recovery loop only works on rows that exist.                            *)
RowsAreOfApplied ==
    /\ \A x \in Rows : comp[x] # "none" => x[2] \in applied
    /\ \A x \in recovering : comp[x] # "none"

LogInv ==
    /\ TypeOK
    /\ \A r \in Runs : Position(r)
    /\ RowsAreOfApplied
    /\ RefundsMatchLog

-----------------------------------------------------------------------------
(* Type correctness *)

(* Where a jump leads, and that the other executions stay where they are. *)
LEMMA GotoPC ==
    ASSUME TypeOK, NEW r \in Runs, NEW l \in Labels, NEW i \in Step, Goto(r, l, i)
    PROVE  /\ pc' \in [Runs -> [at : Labels, step : Step]]
           /\ pc'[r].at = l
           /\ pc'[r].step = i
           /\ \A q \in Runs : q # r => pc'[q] = pc[q]
BY DEF TypeOK, Goto

(* The rollback of the steps below i starts at the one below it, if any. *)
LEMMA RollbackPC ==
    ASSUME TypeOK, NEW r \in Runs, NEW i \in Step, RollbackBelow(r, i)
    PROVE  /\ pc' \in [Runs -> [at : Labels, step : Step]]
           /\ \/ i > 1 /\ pc'[r].at = "undo" /\ pc'[r].step = i - 1
              \/ i = 1 /\ pc'[r].at = "fail" /\ pc'[r].step = 1
           /\ \A q \in Runs : q # r => pc'[q] = pc[q]
<1>1. /\ 1 \in Step
      /\ i > 1 => i - 1 \in Step
      /\ i > 1 \/ i = 1
      /\ "undo" \in Labels /\ "fail" \in Labels
  BY SagaAssumption DEF Step, Labels
<1>2. CASE i > 1
  BY <1>1, <1>2, GotoPC DEF RollbackBelow
<1>3. CASE i = 1
  BY <1>1, <1>3, GotoPC DEF RollbackBelow
<1> QED BY <1>1, <1>2, <1>3

(* Every operation keeps every column's type. *)
LEMMA TypeStep == TypeOK /\ [Next]_vars => TypeOK'
<1> SUFFICES ASSUME TypeOK, [Next]_vars PROVE TypeOK'
  OBVIOUS
<1>1. /\ 1 \in Step /\ Steps \in Step
      /\ \A i \in Step : i < Steps => i + 1 \in Step
  BY SagaAssumption DEF Step
<1>2. ASSUME NEW r \in Runs, ExecuteTransfer(r) \/ Execution(r) PROVE TypeOK'
  <2>1. Row(r) \in Rows /\ pc[r].step \in Step /\ pc[r].at \in Labels
    BY DEF TypeOK, Row, Rows
  <2>2. CASE ExecuteTransfer(r)
    BY <1>1, <2>1, <2>2, GotoPC DEF TypeOK, ExecuteTransfer, Ends, Labels, ledger
  <2>3. CASE MarkProcessing(r)
    <3>1. exposed' \subseteq Rows
      BY <2>3 DEF MarkProcessing, TypeOK, Rows
    <3> QED BY <1>1, <2>1, <2>3, <3>1, GotoPC DEF TypeOK, MarkProcessing, Labels, ledger
  <2>4. CASE MarkProcessingFails(r)
    BY <1>1, <2>1, <2>4, GotoPC DEF TypeOK, MarkProcessingFails, Ends, Labels, ledger
  <2>5. CASE Refuse(r)
    BY <1>1, <2>1, <2>5, GotoPC DEF TypeOK, Refuse, Ends, Labels, Writes, ledger
  <2>6. CASE MarkTransfer(r)
    BY <1>1, <2>1, <2>6, GotoPC DEF TypeOK, MarkTransfer, Ends, Labels, Writes, ledger
  <2>7. CASE RecordForward(r)
    BY <1>1, <2>1, <2>7, GotoPC DEF TypeOK, RecordForward, Ends, Labels, ledger
  <2>8. CASE RecordForwardFails(r)
    BY <1>1, <2>1, <2>8, RollbackPC DEF TypeOK, RecordForwardFails, ledger
  <2>9. CASE Forward(r)
    BY <1>1, <2>1, <2>9, GotoPC DEF TypeOK, Forward, Ends, Labels, ledger
  <2>10. CASE ForwardFails(r)
    BY <1>1, <2>1, <2>10, RollbackPC DEF TypeOK, ForwardFails, Writes, Unanswered,
          ledger
  <2>11. CASE MarkCompleted(r)
    BY <1>1, <2>1, <2>11, GotoPC DEF TypeOK, MarkCompleted, Ends, Labels, Writes, ledger
  <2>12. CASE RecordCompensation(r)
    BY <1>1, <2>1, <2>12, GotoPC DEF TypeOK, RecordCompensation, Ends, Labels, ledger
  <2>13. CASE RecordCompensationFails(r)
    BY <1>1, <2>1, <2>13, RollbackPC DEF TypeOK, RecordCompensationFails, ledger
  <2>14. CASE Backward(r)
    BY <1>1, <2>1, <2>14, GotoPC DEF TypeOK, Backward, Ends, Labels, ledger
  <2>15. CASE BackwardFails(r)
    BY <1>1, <2>1, <2>15, RollbackPC DEF TypeOK, BackwardFails, Unanswered, ledger
  <2>16. CASE MarkCompensated(r)
    BY <1>1, <2>1, <2>16, RollbackPC DEF TypeOK, MarkCompensated, Writes, ledger
  <2> QED BY <1>2, <2>2, <2>3, <2>4, <2>5, <2>6, <2>7, <2>8, <2>9, <2>10, <2>11,
        <2>12, <2>13, <2>14, <2>15, <2>16 DEF Execution
<1>3. CASE RecoveryTick
  BY <1>3 DEF TypeOK, RecoveryTick, ledger
<1>4. ASSUME NEW x \in recovering, Recovery(x) PROVE TypeOK'
  <2>1. x \in Rows /\ x[1] \in Runs /\ x[2] \in Step
    BY DEF TypeOK, Rows
  <2>2. CASE RecoverySucceeds(x)
    BY <2>1, <2>2 DEF TypeOK, RecoverySucceeds, Writes
  <2>3. CASE RecoveryFails(x)
    BY <2>1, <2>3, SagaAssumption DEF TypeOK, RecoveryFails, Writes, Unanswered
  <2> QED BY <1>4, <2>2, <2>3 DEF Recovery
<1>5. CASE Crash
  <2>1. exposed' \subseteq Rows
    BY <1>5 DEF TypeOK, Crash, Row, Rows
  <2> QED BY <1>5, <2>1, SagaAssumption DEF TypeOK, Crash, At, Labels, ledger
<1>6. CASE UNCHANGED vars
  BY <1>6 DEF TypeOK, vars
<1> QED BY <1>2, <1>3, <1>4, <1>5, <1>6 DEF Next

-----------------------------------------------------------------------------
(* Refunds match the log *)

(* What an execution that does not move relies on only grows. *)
LEMMA PositionKept ==
    ASSUME TypeOK, NEW q \in Runs, Position(q), pc'[q] = pc[q],
           applied \subseteq applied', refunds \subseteq refunds',
           \A x \in Rows : comp[x] # "none" => comp'[x] # "none"
    PROVE  Position(q)'
<1>1. Row(q) \in Rows /\ Row(q)' = Row(q)
  BY DEF TypeOK, Row, Rows
<1> QED BY <1>1 DEF Position, At

(* Where the position says that the step went through, so did all before. *)
LEMMA PassedSteps ==
    ASSUME TypeOK, NEW r \in Runs, Position(r), pc[r].at \in Through
    PROVE  /\ pc[r].step \in applied
           /\ \A s \in Step : s <= pc[r].step => s \in applied
           /\ \A s \in Step : s < pc[r].step => s \in applied
<1>1. pc[r].step \in Step
  BY DEF TypeOK
<1>2. \A s \in Step : s <= pc[r].step => s \in applied
  BY DEF Position
<1>3. \A s \in Step : s < pc[r].step => s <= pc[r].step
  BY <1>1, SagaAssumption DEF Step
<1>4. pc[r].step <= pc[r].step
  BY <1>1, SagaAssumption DEF Step
<1> QED BY <1>1, <1>2, <1>3, <1>4

(* A rollback starts, or goes on, below a step whose predecessors went     *)
(* through.                                                                *)
LEMMA RollbackPosition ==
    ASSUME TypeOK, NEW r \in Runs, NEW i \in Step, RollbackBelow(r, i),
           \A s \in Step : s < i => s \in applied, applied \subseteq applied'
    PROVE  Position(r)' /\ \A q \in Runs : q # r => pc'[q] = pc[q]
<1>1. \A s \in Step : s \in Int
  BY SagaAssumption DEF Step
<1>2. CASE pc'[r].at = "undo" /\ pc'[r].step = i - 1
  <2>1. \A s \in Step : s <= i - 1 => s \in applied'
    BY <1>1
  <2> QED BY <1>2, <2>1, RollbackPC DEF Position, At, Through
<1>3. CASE pc'[r].at = "fail"
  BY <1>3, RollbackPC DEF Position, At, Through
<1> QED BY <1>2, <1>3, RollbackPC

(* A step that leaves the log of compensations and the ledger as they are  *)
(* leaves the rows and the refunds in step.                                *)
LEMMA LogUntouched ==
    ASSUME TypeOK, RowsAreOfApplied, RefundsMatchLog,
           applied \subseteq applied', UNCHANGED <<refunds, comp, recovering>>
    PROVE  RowsAreOfApplied' /\ RefundsMatchLog'
BY DEF RowsAreOfApplied, RefundsMatchLog

(* One step of any operation keeps the log and the ledger in step. *)
LEMMA LogStep == LogInv /\ [Next]_vars => LogInv'
<1> SUFFICES ASSUME LogInv, [Next]_vars PROVE LogInv'
  OBVIOUS
<1> USE DEF LogInv
<1>1. TypeOK'
  BY TypeStep
<1>2. ASSUME NEW r \in Runs, ExecuteTransfer(r) \/ Execution(r) PROVE LogInv'
  <2> DEFINE i == pc[r].step
  <2>1. /\ Row(r) = <<r, i>> /\ Row(r) \in Rows
        /\ i \in Step /\ i \in Nat /\ i >= 1 /\ i <= Steps /\ Steps \in Nat
        /\ 1 \in Step /\ Steps \in Step /\ (i < Steps => i + 1 \in Step)
        /\ pc[r].at \in Labels
        /\ \A s \in Step : s \in Nat /\ s >= 1
    BY SagaAssumption DEF TypeOK, Row, Rows, Step
  <2> DEFINE Keeps == /\ RowsAreOfApplied' /\ RefundsMatchLog' /\ Position(r)'
                      /\ applied \subseteq applied' /\ refunds \subseteq refunds'
                      /\ \A x \in Rows : comp[x] # "none" => comp'[x] # "none"
                      /\ \A q \in Runs : q # r => pc'[q] = pc[q]
  <2>2. ASSUME ExecuteTransfer(r) PROVE Keeps
    <3>1. applied \subseteq applied' /\ UNCHANGED <<refunds, comp, recovering>>
      BY <2>2 DEF ExecuteTransfer, ledger
    <3>2. Position(r)' /\ \A q \in Runs : q # r => pc'[q] = pc[q]
      BY <1>1, <2>1, <2>2, <3>1, GotoPC DEF ExecuteTransfer, Ends, Labels, Position,
            At, Through
    <3> QED BY <3>1, <3>2, LogUntouched
  <2>3. ASSUME MarkProcessing(r) PROVE Keeps
    <3>1. applied \subseteq applied' /\ UNCHANGED <<refunds, comp, recovering>>
      BY <2>3 DEF MarkProcessing, ledger
    <3>2. Position(r)' /\ \A q \in Runs : q # r => pc'[q] = pc[q]
      <4>1. pc'[r].at = "record" /\ pc'[r].step = 1 /\ \A q \in Runs : q # r => pc'[q] = pc[q]
        BY <2>1, <2>3, GotoPC DEF MarkProcessing, Labels
      <4> QED BY <2>1, <4>1 DEF Position, At, Through
    <3> QED BY <3>1, <3>2, LogUntouched
  <2>4. ASSUME MarkProcessingFails(r) PROVE Keeps
    <3>1. applied \subseteq applied' /\ UNCHANGED <<refunds, comp, recovering>>
      BY <2>4 DEF MarkProcessingFails, ledger
    <3>2. Position(r)' /\ \A q \in Runs : q # r => pc'[q] = pc[q]
      BY <1>1, <2>1, <2>4, <3>1, GotoPC DEF MarkProcessingFails, Ends, Labels,
            Position, At, Through
    <3> QED BY <3>1, <3>2, LogUntouched
  <2>5. ASSUME Refuse(r) PROVE Keeps
    <3>1. applied \subseteq applied' /\ UNCHANGED <<refunds, comp, recovering>>
      BY <2>5 DEF Refuse, ledger
    <3>2. Position(r)' /\ \A q \in Runs : q # r => pc'[q] = pc[q]
      BY <1>1, <2>1, <2>5, <3>1, GotoPC DEF Refuse, Ends, Labels, Writes, Position,
            At, Through
    <3> QED BY <3>1, <3>2, LogUntouched
  <2>6. ASSUME MarkTransfer(r) PROVE Keeps
    <3>1. applied \subseteq applied' /\ UNCHANGED <<refunds, comp, recovering>>
      BY <2>6 DEF MarkTransfer, ledger
    <3>2. Position(r)' /\ \A q \in Runs : q # r => pc'[q] = pc[q]
      BY <1>1, <2>1, <2>6, <3>1, GotoPC DEF MarkTransfer, Ends, Labels, Writes,
            Position, At, Through
    <3> QED BY <3>1, <3>2, LogUntouched
  <2>7. ASSUME RecordForward(r) PROVE Keeps
    <3>1. applied \subseteq applied' /\ UNCHANGED <<refunds, comp, recovering>>
      BY <2>7 DEF RecordForward, ledger
    <3>2. Position(r)' /\ \A q \in Runs : q # r => pc'[q] = pc[q]
      BY <1>1, <2>1, <2>7, <3>1, GotoPC DEF RecordForward, Ends, Labels, Position, At,
            Through
    <3> QED BY <3>1, <3>2, LogUntouched
  <2>8. ASSUME RecordForwardFails(r) PROVE Keeps
    <3>1. applied \subseteq applied' /\ UNCHANGED <<refunds, comp, recovering>>
      BY <2>8 DEF RecordForwardFails, ledger
    <3>2. Position(r)' /\ \A q \in Runs : q # r => pc'[q] = pc[q]
      <4>1. \A s \in Step : s < i => s \in applied
        BY <2>1, <2>8 DEF RecordForwardFails, Position, At, Through
      <4> QED BY <2>1, <2>8, <3>1, <4>1, RollbackPosition DEF RecordForwardFails
    <3> QED BY <3>1, <3>2, LogUntouched
  <2>9. ASSUME Forward(r) PROVE Keeps
    <3>1. applied \subseteq applied' /\ UNCHANGED <<refunds, comp, recovering>>
      BY <2>9 DEF Forward, ledger
    <3>2. Position(r)' /\ \A q \in Runs : q # r => pc'[q] = pc[q]
      BY <1>1, <2>1, <2>9, <3>1, GotoPC DEF Forward, Ends, Labels, Position, At, Through
    <3> QED BY <3>1, <3>2, LogUntouched
  <2>10. ASSUME ForwardFails(r) PROVE Keeps
    <3>1. applied \subseteq applied' /\ UNCHANGED <<refunds, comp, recovering>>
      BY <2>10 DEF ForwardFails, ledger, Unanswered
    <3>2. Position(r)' /\ \A q \in Runs : q # r => pc'[q] = pc[q]
      <4>1. \A s \in Step : s < i => s \in applied
        BY <2>1, <2>10 DEF ForwardFails, Position, At, Through
      <4> QED BY <2>1, <2>10, <3>1, <4>1, RollbackPosition DEF ForwardFails
    <3> QED BY <3>1, <3>2, LogUntouched
  <2>11. ASSUME MarkCompleted(r) PROVE Keeps
    <3>1. applied \subseteq applied' /\ UNCHANGED <<refunds, comp, recovering>>
      BY <2>11 DEF MarkCompleted, ledger
    <3>2. Position(r)' /\ \A q \in Runs : q # r => pc'[q] = pc[q]
      <4>1. \A s \in Step : s <= i => s \in applied'
        BY <2>11, <3>1, PassedSteps DEF MarkCompleted, At, Through
      <4>2. CASE i < Steps
        <5>1. \A s \in Step : s < i + 1 => s \in applied'
          BY <2>1, <4>1, SagaAssumption DEF Step
        <5>2. pc'[r].at = "record" /\ pc'[r].step = i + 1 /\ \A q \in Runs : q # r => pc'[q] = pc[q]
          BY <2>1, <2>11, <4>2, GotoPC DEF MarkCompleted, Labels
        <5> QED BY <5>1, <5>2 DEF Position, At, Through
      <4>3. CASE i = Steps
        <5>1. pc'[r].at = "complete" /\ pc'[r].step = i /\ \A q \in Runs : q # r => pc'[q] = pc[q]
          BY <2>1, <2>11, <4>3, GotoPC DEF MarkCompleted, Labels
        <5> QED BY <4>1, <4>3, <5>1 DEF Position, At, Through
      <4> QED BY <2>1, <4>2, <4>3
    <3> QED BY <3>1, <3>2, LogUntouched
  <2>12. ASSUME RecordCompensationFails(r) PROVE Keeps
    <3>1. applied \subseteq applied' /\ UNCHANGED <<refunds, comp, recovering>>
      BY <2>12 DEF RecordCompensationFails, ledger
    <3>2. Position(r)' /\ \A q \in Runs : q # r => pc'[q] = pc[q]
      <4>1. \A s \in Step : s < i => s \in applied
        BY <2>12, PassedSteps DEF RecordCompensationFails, At, Through
      <4> QED BY <2>1, <2>12, <3>1, <4>1, RollbackPosition DEF RecordCompensationFails
    <3> QED BY <3>1, <3>2, LogUntouched
  <2>13. ASSUME RecordCompensation(r) PROVE Keeps
    <3>1. /\ applied' = applied /\ recovering' = recovering /\ refunds \subseteq refunds'
          /\ \A x \in Rows : comp[x] # "none" => comp'[x] # "none"
      BY <2>1, <2>13 DEF RecordCompensation, ledger, TypeOK
    <3>2. Position(r)' /\ \A q \in Runs : q # r => pc'[q] = pc[q]
      <4>1. \A s \in Step : s <= i => s \in applied
        BY <2>13, PassedSteps DEF RecordCompensation, At, Through
      <4>2. comp'[Row(r)] # "none"
        BY <2>1, <2>13 DEF RecordCompensation, TypeOK
      <4>3. /\ pc'[r].at = "backward" /\ pc'[r].step = i
            /\ \A q \in Runs : q # r => pc'[q] = pc[q]
        BY <2>1, <2>13, GotoPC DEF RecordCompensation, Labels
      <4> QED BY <3>1, <4>1, <4>2, <4>3 DEF Position, At, Through, Row
    <3>3. RowsAreOfApplied'
      <4>1. i \in applied /\ \A x \in Rows : x # Row(r) => comp'[x] = comp[x]
        <5>1. i \in applied
          BY <2>13, PassedSteps DEF RecordCompensation, At, Through
        <5> QED BY <2>1, <2>13, <5>1 DEF RecordCompensation, TypeOK
      <4> QED BY <2>1, <3>1, <4>1 DEF RowsAreOfApplied, TypeOK
    <3>4. RefundsMatchLog'
      BY <2>1, <2>13, <3>1 DEF RecordCompensation, Ends, Labels, Position, At,
            Through, TypeOK, RefundsMatchLog, ledger, Rows
    <3> QED BY <3>1, <3>2, <3>3, <3>4
  <2>14. ASSUME Backward(r) PROVE Keeps
    <3>1. /\ applied' = applied /\ recovering' = recovering /\ refunds \subseteq refunds'
          /\ \A x \in Rows : comp[x] # "none" => comp'[x] # "none"
      BY <2>1, <2>14 DEF Backward, ledger, TypeOK
    <3>2. Position(r)' /\ \A q \in Runs : q # r => pc'[q] = pc[q]
      BY <1>1, <2>1, <2>14, <3>1, GotoPC DEF Backward, Ends, Labels, Position, At,
            Through, TypeOK, Row
    <3>3. RowsAreOfApplied'
      BY <2>1, <2>14, <3>1 DEF Backward, Ends, Labels, Position, At, Through, TypeOK,
            RowsAreOfApplied, ledger
    <3>4. RefundsMatchLog'
      <4>1. comp[<<r, i>>] # "none" /\ i \in applied
        BY <2>1, <2>14, PassedSteps DEF Backward, Position, At, Through
      <4>2. refunds' = refunds \cup {<<"inline", r, i>>} /\ comp' = comp
        BY <2>14 DEF Backward
      <4> QED BY <3>1, <4>1, <4>2 DEF RefundsMatchLog
    <3> QED BY <3>1, <3>2, <3>3, <3>4
  <2>15. ASSUME BackwardFails(r) PROVE Keeps
    <3>1. /\ applied' = applied /\ recovering' = recovering /\ refunds \subseteq refunds'
          /\ \A x \in Rows : comp[x] # "none" => comp'[x] # "none"
      BY <2>1, <2>15 DEF BackwardFails, ledger, TypeOK, Unanswered
    <3>2. Position(r)' /\ \A q \in Runs : q # r => pc'[q] = pc[q]
      <4>1. \A s \in Step : s < i => s \in applied
        BY <2>15, PassedSteps DEF BackwardFails, At, Through
      <4> QED BY <2>1, <2>15, <3>1, <4>1, RollbackPosition DEF BackwardFails
    <3>3. RowsAreOfApplied'
      BY <2>1, <2>15, <3>1 DEF BackwardFails, Unanswered, Position, At, Through,
            TypeOK, RowsAreOfApplied, ledger
    <3>4. refunds' \subseteq refunds \cup {<<"inline", r, i>>} /\ comp' = comp
      BY <2>15 DEF BackwardFails, Unanswered
    <3>5. RefundsMatchLog'
      BY <2>1, <2>15, <3>1, <3>4 DEF BackwardFails, Position, At, Through,
            RefundsMatchLog
    <3> QED BY <3>1, <3>2, <3>3, <3>5
  <2>16. ASSUME MarkCompensated(r) PROVE Keeps
    <3>1. /\ applied' = applied /\ recovering' = recovering /\ refunds \subseteq refunds'
          /\ \A x \in Rows : comp[x] # "none" => comp'[x] # "none"
      BY <2>1, <2>16 DEF MarkCompensated, ledger, TypeOK, Writes
    <3>2. Position(r)' /\ \A q \in Runs : q # r => pc'[q] = pc[q]
      <4>1. \A s \in Step : s < i => s \in applied
        BY <2>16, PassedSteps DEF MarkCompensated, At, Through
      <4> QED BY <2>1, <2>16, <3>1, <4>1, RollbackPosition DEF MarkCompensated
    <3>3. RowsAreOfApplied'
      BY <2>1, <2>16, <3>1 DEF MarkCompensated, Writes, Position, At, Through, TypeOK,
            RowsAreOfApplied, ledger
    <3>4. RefundsMatchLog'
      BY <2>1, <2>16, <3>1 DEF MarkCompensated, Writes, Position, At, Through, TypeOK,
            RefundsMatchLog, ledger, Rows
    <3> QED BY <3>1, <3>2, <3>3, <3>4
  <2>17. Keeps
    BY <1>2, <2>2, <2>3, <2>4, <2>5, <2>6, <2>7, <2>8, <2>9, <2>10, <2>11, <2>12,
          <2>13, <2>14, <2>15, <2>16 DEF Execution
  <2> QED BY <1>1, <2>17, PositionKept
<1>3. CASE RecoveryTick
  BY <1>1, <1>3, PositionKept DEF RecoveryTick, ledger, RowsAreOfApplied,
        RefundsMatchLog
<1>4. ASSUME NEW x \in recovering, Recovery(x) PROVE LogInv'
  <2>1. /\ x \in Rows /\ x[1] \in Runs /\ x[2] \in Step /\ x = <<x[1], x[2]>>
        /\ comp[x] # "none" /\ x[2] \in applied
    BY DEF TypeOK, Rows, RowsAreOfApplied
  <2>2. /\ applied' = applied /\ pc' = pc /\ refunds \subseteq refunds'
        /\ refunds' \subseteq refunds \cup {<<"recovery", x[1], x[2]>>}
        /\ recovering' = recovering \ {x}
    BY <1>4 DEF Recovery, RecoverySucceeds, RecoveryFails, Unanswered
  <2>3. /\ \A y \in Rows : y # x => comp'[y] = comp[y]
        /\ comp'[x] # "none"
        /\ comp'[x] = "completed" => comp[x] = "completed" \/ <<"recovery", x[1], x[2]>> \in refunds'
    BY <1>4, <2>1 DEF TypeOK, Recovery, RecoverySucceeds, RecoveryFails, Writes
  <2>4. \A r \in Runs : Position(r)'
    BY <2>2, <2>3, PositionKept
  <2>5. RowsAreOfApplied'
    BY <2>1, <2>2, <2>3 DEF RowsAreOfApplied, TypeOK
  <2>6. RefundsMatchLog'
    <3>1. ASSUME NEW k \in refunds' PROVE k[3] \in applied' /\ comp'[<<k[2], k[3]>>] # "none"
      <4>1. CASE k \in refunds
        <5>1. <<k[2], k[3]>> \in Rows /\ k[3] \in applied /\ comp[<<k[2], k[3]>>] # "none"
          BY <4>1 DEF RefundsMatchLog, TypeOK, Rows
        <5> QED BY <2>2, <2>3, <5>1
      <4>2. CASE k = <<"recovery", x[1], x[2]>>
        BY <2>1, <2>2, <2>3, <4>2
      <4> QED BY <2>2, <4>1, <4>2
    <3>2. ASSUME NEW y \in Rows, comp'[y] = "completed"
          PROVE  \E who \in {"inline", "recovery"} : <<who, y[1], y[2]>> \in refunds'
      BY <2>2, <2>3, <3>2 DEF RefundsMatchLog
    <3> QED BY <3>1, <3>2 DEF RefundsMatchLog
  <2> QED BY <1>1, <2>4, <2>5, <2>6
<1>5. CASE Crash
  <2>1. /\ applied' = applied /\ refunds' = refunds /\ comp' = comp /\ recovering' = {}
        /\ \A r \in Runs : pc'[r] = pc[r] \/ pc'[r].at = "ended"
    BY <1>5 DEF Crash, ledger, TypeOK
  <2>2. \A r \in Runs : Position(r)'
    BY <2>1, PositionKept DEF Position, At, Through
  <2> QED BY <1>1, <2>1, <2>2 DEF RowsAreOfApplied, RefundsMatchLog
<1>6. CASE UNCHANGED vars
  BY <1>1, <1>6, PositionKept DEF vars, RowsAreOfApplied, RefundsMatchLog
<1> QED BY <1>2, <1>3, <1>4, <1>5, <1>6 DEF Next

(* The log and the ledger start in step. *)
LEMMA LogInit == Init => LogInv
BY SagaAssumption DEF Init, LogInv, TypeOK, Position, At, Through, Row, Rows, Step,
      Labels,
       RowsAreOfApplied, RefundsMatchLog

(* Statuses, keys and positions are of their kinds in every state of every *)
(* instance.                                                               *)
THEOREM TypeCorrect == Spec => []TypeOK
<1>1. Init => TypeOK
  BY LogInit DEF LogInv
<1> QED BY <1>1, TypeStep, PTL DEF Spec

(* Whatever the number of executions, faults and crashes: money is given   *)
(* back only for a step that took it, under a row recorded before the      *)
(* call, and a row says completed only when the money is back.             *)
THEOREM RefundsMatchLogHolds == Spec => []RefundsMatchLog
<1>1. LogInv => RefundsMatchLog
  BY DEF LogInv
<1> QED BY <1>1, LogInit, LogStep, PTL DEF Spec

-----------------------------------------------------------------------------
(* One execution *)

SingleRun == \E r : Runs = {r}

(* One execution, no write or answer is lost: a crash may come at any      *)
(* time, and the recovery loop may run beside the execution.               *)
Answered == SingleRun /\ Faults \subseteq {"overlap"}

Ahead == {"idle", "mark", "record", "forward", "completed", "complete"}

(* What the position of the one execution says of the transfer's status, ... *)
StatusFollows(r) ==
    /\ pc[r].at \in {"idle", "mark"} => status = "pending_verification"
    /\ pc[r].at \in {"record", "forward", "fail"} \cup Through => status = "processing"

(* ... of the steps that went through: none that is still ahead, ...       *)
NoneAhead(r) ==
    /\ pc[r].at \in {"idle", "mark"} => applied = {}
    /\ pc[r].at \in {"record", "forward"} => \A s \in applied : s < pc[r].step
    /\ pc[r].at = "completed" => \A s \in applied : s <= pc[r].step
    /\ pc[r].at = "complete" => applied = Step

(* ... and of their rows: none on the way forward, then those above the    *)
(* walk, in the end all.                                                   *)
RowsFollow(r) ==
    /\ pc[r].at \in Ahead => \A x \in Rows : comp[x] = "none"
    /\ pc[r].at = "undo" => \A s \in applied : s > pc[r].step => comp[<<r, s>>] # "none"
    /\ pc[r].at \in {"backward", "compensated"} =>
          \A s \in applied : s >= pc[r].step => comp[<<r, s>>] # "none"
    /\ pc[r].at = "fail" => \A s \in applied : comp[<<r, s>>] # "none"

(* What the final status says. *)
Verdict(r) ==
    /\ status = "completed" => applied = Step /\ \A x \in Rows : comp[x] = "none"
    /\ status = "failed" => \A s \in applied : comp[<<r, s>>] # "none"

Progress(r) == StatusFollows(r) /\ NoneAhead(r) /\ RowsFollow(r) /\ Verdict(r)

ProgressInv == LogInv /\ \A r \in Runs : Progress(r)

(* A step of the one execution, or of the recovery loop beside it, or a    *)
(* crash keeps all that.                                                   *)
LEMMA ProgressStep ==
    ASSUME Answered, ProgressInv, [Next]_vars
    PROVE  ProgressInv'
<1>1. LogInv /\ LogInv' /\ TypeOK /\ TypeOK'
  BY LogStep DEF ProgressInv, LogInv
<1>2. PICK r \in Runs : Runs = {r}
  BY DEF Answered, SingleRun
<1>3. /\ ~ "db" \in Faults /\ ~ "lost" \in Faults
      /\ StatusFollows(r) /\ NoneAhead(r) /\ RowsFollow(r) /\ Verdict(r) /\ Position(r)
  BY DEF Answered, ProgressInv, LogInv, Progress
<1> DEFINE i == pc[r].step
<1>4. /\ i \in Step /\ Row(r) = <<r, i>> /\ Row(r) \in Rows /\ pc[r].at \in Labels
      /\ \A s \in Step : <<r, s>> \in Rows
      /\ 1 \in Step /\ Steps \in Step /\ (i < Steps => i + 1 \in Step)
  BY <1>1, SagaAssumption DEF TypeOK, Row, Rows, Step
<1> DEFINE Goal == StatusFollows(r)' /\ NoneAhead(r)' /\ RowsFollow(r)' /\ Verdict(r)'
<1>5. ASSUME ExecuteTransfer(r) \/ Execution(r) PROVE Goal
  <2>1. CASE ExecuteTransfer(r)
    <3>1. StatusFollows(r)'
      BY <1>1, <1>3, <1>4, <2>1, GotoPC DEF ExecuteTransfer, Ends, Labels, ledger, At,
            StatusFollows, Through
    <3>2. NoneAhead(r)'
      BY <1>1, <1>3, <1>4, <2>1, GotoPC, SagaAssumption DEF ExecuteTransfer, Ends,
            Labels, ledger, At, NoneAhead, Step, TypeOK
    <3>3. RowsFollow(r)'
      BY <1>1, <1>3, <1>4, <2>1, GotoPC, SagaAssumption DEF ExecuteTransfer, Ends,
            Labels, ledger, At, RowsFollow, NoneAhead, Ahead, Step, TypeOK
    <3>4. Verdict(r)'
      BY <1>1, <1>3, <1>4, <2>1 DEF ExecuteTransfer, Ends, Labels, ledger, At,
            Verdict, StatusFollows, NoneAhead, RowsFollow, TypeOK, Through
    <3> QED BY <3>1, <3>2, <3>3, <3>4
  <2>2. CASE MarkProcessing(r)
    <3>1. StatusFollows(r)'
      BY <1>1, <1>3, <1>4, <2>2, GotoPC DEF MarkProcessing, Ends, Labels, ledger, At,
            StatusFollows, Through
    <3>2. NoneAhead(r)'
      BY <1>1, <1>3, <1>4, <2>2, GotoPC, SagaAssumption DEF MarkProcessing, Ends,
            Labels, ledger, At, NoneAhead, Step, TypeOK
    <3>3. RowsFollow(r)'
      BY <1>1, <1>3, <1>4, <2>2, GotoPC, SagaAssumption DEF MarkProcessing, Ends,
            Labels, ledger, At, RowsFollow, NoneAhead, Ahead, Step, TypeOK
    <3>4. Verdict(r)'
      BY <1>1, <1>3, <1>4, <2>2 DEF MarkProcessing, Ends, Labels, ledger, At, Verdict,
            StatusFollows, NoneAhead, RowsFollow, TypeOK, Through
    <3> QED BY <3>1, <3>2, <3>3, <3>4
  <2>3. CASE MarkProcessingFails(r)
    <3>1. StatusFollows(r)'
      BY <1>1, <1>3, <1>4, <2>3, GotoPC DEF MarkProcessingFails, Ends, Labels, ledger,
            At, StatusFollows, Through
    <3>2. NoneAhead(r)'
      BY <1>1, <1>3, <1>4, <2>3, GotoPC, SagaAssumption DEF MarkProcessingFails, Ends,
            Labels, ledger, At, NoneAhead, Step, TypeOK
    <3>3. RowsFollow(r)'
      BY <1>1, <1>3, <1>4, <2>3, GotoPC, SagaAssumption DEF MarkProcessingFails, Ends,
            Labels, ledger, At, RowsFollow, NoneAhead, Ahead, Step, TypeOK
    <3>4. Verdict(r)'
      BY <1>1, <1>3, <1>4, <2>3 DEF MarkProcessingFails, Ends, Labels, ledger, At,
            Verdict, StatusFollows, NoneAhead, RowsFollow, TypeOK, Through
    <3> QED BY <3>1, <3>2, <3>3, <3>4
  <2>4. CASE Refuse(r)
    <3>1. StatusFollows(r)'
      BY <1>1, <1>3, <1>4, <2>4, GotoPC DEF Refuse, Ends, Labels, Writes, ledger, At,
            StatusFollows, Through
    <3>2. NoneAhead(r)'
      BY SMTT(40), <1>1, <1>3, <1>4, <2>4, GotoPC, SagaAssumption DEF Refuse, Ends, Labels,
            Writes, ledger, At, NoneAhead, Step, TypeOK
    <3>3. RowsFollow(r)'
      BY <1>1, <1>3, <1>4, <2>4, GotoPC, SagaAssumption DEF Refuse, Ends, Labels,
            Writes, ledger, At, RowsFollow, NoneAhead, Ahead, Step, TypeOK
    <3>4. Verdict(r)'
      <4>1. status' = "failed" /\ UNCHANGED <<applied, comp>>
        BY <1>3, <2>4 DEF Refuse, Writes, ledger
      <4>2. \A s \in applied : s < 1
        BY <1>3, <2>4 DEF Refuse, At, NoneAhead
      <4>3. applied = {}
        BY <1>1, <4>2, SagaAssumption DEF TypeOK, Step
      <4> QED BY <4>1, <4>3 DEF Verdict
    <3> QED BY <3>1, <3>2, <3>3, <3>4
  <2>5. CASE MarkTransfer(r)
    <3>1. StatusFollows(r)'
      BY <1>1, <1>3, <1>4, <2>5, GotoPC DEF MarkTransfer, Ends, Labels, Writes,
            ledger, At, StatusFollows, Through
    <3>2. NoneAhead(r)'
      BY SMTT(40), <1>1, <1>3, <1>4, <2>5, GotoPC, SagaAssumption DEF MarkTransfer, Ends,
            Labels, Writes, ledger, At, NoneAhead, Step, TypeOK
    <3>3. RowsFollow(r)'
      <4>1. pc'[r].at = "ended"
        BY <1>1, <1>4, <2>5, GotoPC DEF MarkTransfer, Ends, Labels
      <4> QED BY <4>1 DEF RowsFollow, Ahead
    <3>4. Verdict(r)'
      <4>1. UNCHANGED <<applied, comp>>
        BY <2>5 DEF MarkTransfer, ledger
      <4>2. CASE pc[r].at = "complete"
        <5>1. status' = "completed"
          BY <1>3, <2>5, <4>2 DEF MarkTransfer, Writes, At
        <5> QED BY <1>3, <4>1, <4>2, <5>1 DEF Verdict, NoneAhead, RowsFollow, Ahead
      <4>3. CASE pc[r].at = "fail"
        <5>1. status' = "failed"
          BY <1>3, <2>5, <4>3 DEF MarkTransfer, Writes, At
        <5> QED BY <1>3, <4>1, <4>3, <5>1 DEF Verdict, RowsFollow
      <4> QED BY <2>5, <4>2, <4>3 DEF MarkTransfer
    <3> QED BY <3>1, <3>2, <3>3, <3>4
  <2>6. CASE RecordForward(r)
    <3>1. StatusFollows(r)'
      BY <1>1, <1>3, <1>4, <2>6, GotoPC DEF RecordForward, Ends, Labels, ledger, At,
            StatusFollows, Through
    <3>2. NoneAhead(r)'
      <4>1. pc'[r].at = "forward" /\ pc'[r].step = i /\ applied' = applied
        BY <1>1, <1>4, <2>6, GotoPC DEF RecordForward, Labels, ledger
      <4> QED BY <1>3, <2>6, <4>1 DEF RecordForward, At, NoneAhead
    <3>3. RowsFollow(r)'
      BY <1>1, <1>3, <1>4, <2>6, GotoPC, SagaAssumption DEF RecordForward, Ends,
            Labels, ledger, At, RowsFollow, NoneAhead, Ahead, Step, TypeOK
    <3>4. Verdict(r)'
      BY <1>1, <1>3, <1>4, <2>6 DEF RecordForward, Ends, Labels, ledger, At, Verdict,
            StatusFollows, NoneAhead, RowsFollow, TypeOK, Through
    <3> QED BY <3>1, <3>2, <3>3, <3>4
  <2>7. CASE RecordForwardFails(r)
    <3>1. StatusFollows(r)'
      BY <1>1, <1>3, <1>4, <2>7, RollbackPC DEF RecordForwardFails, ledger, At,
            StatusFollows, Through
    <3>2. NoneAhead(r)'
      BY <1>1, <1>3, <1>4, <2>7, RollbackPC, SagaAssumption DEF RecordForwardFails,
            ledger, At, NoneAhead, Step, TypeOK
    <3>3. RowsFollow(r)'
      BY <1>1, <1>3, <1>4, <2>7, RollbackPC, SagaAssumption DEF RecordForwardFails,
            ledger, At, RowsFollow, NoneAhead, Ahead, Step, TypeOK
    <3>4. Verdict(r)'
      BY <1>1, <1>3, <1>4, <2>7 DEF RecordForwardFails, ledger, At, Verdict,
            StatusFollows, NoneAhead, RowsFollow, TypeOK, Through
    <3> QED BY <3>1, <3>2, <3>3, <3>4
  <2>8. CASE Forward(r)
    <3>1. StatusFollows(r)'
      BY <1>1, <1>3, <1>4, <2>8, GotoPC DEF Forward, Ends, Labels, ledger, At,
            StatusFollows, Through
    <3>2. NoneAhead(r)'
      BY <1>1, <1>3, <1>4, <2>8, GotoPC, SagaAssumption DEF Forward, Ends, Labels,
            ledger, At, NoneAhead, Step, TypeOK
    <3>3. RowsFollow(r)'
      BY <1>1, <1>3, <1>4, <2>8, GotoPC, SagaAssumption DEF Forward, Ends, Labels,
            ledger, At, RowsFollow, NoneAhead, Ahead, Step, TypeOK
    <3>4. Verdict(r)'
      BY <1>1, <1>3, <1>4, <2>8 DEF Forward, Ends, Labels, ledger, At, Verdict,
            StatusFollows, NoneAhead, RowsFollow, TypeOK, Through
    <3> QED BY <3>1, <3>2, <3>3, <3>4
  <2>9. CASE ForwardFails(r)
    <3>1. StatusFollows(r)'
      BY <1>1, <1>3, <1>4, <2>9, RollbackPC DEF ForwardFails, Writes, Unanswered,
            ledger, At, StatusFollows, Through
    <3>2. NoneAhead(r)'
      BY <1>1, <1>3, <1>4, <2>9, RollbackPC, SagaAssumption DEF ForwardFails, Writes,
            Unanswered, ledger, At, NoneAhead, Step, TypeOK
    <3>3. RowsFollow(r)'
      BY <1>1, <1>3, <1>4, <2>9, RollbackPC, SagaAssumption DEF ForwardFails, Writes,
            Unanswered, ledger, At, RowsFollow, NoneAhead, Ahead, Step, TypeOK
    <3>4. Verdict(r)'
      BY <1>1, <1>3, <1>4, <2>9 DEF ForwardFails, Writes, Unanswered, ledger, At,
            Verdict, StatusFollows, NoneAhead, RowsFollow, TypeOK, Through
    <3> QED BY <3>1, <3>2, <3>3, <3>4
  <2>10. CASE MarkCompleted(r)
    <3>1. StatusFollows(r)'
      BY <1>1, <1>3, <1>4, <2>10, GotoPC DEF MarkCompleted, Ends, Labels, Writes,
            ledger, At, StatusFollows, Through
    <3>2. NoneAhead(r)'
      <4>1. applied' = applied /\ \A s \in applied : s <= i
        BY <1>3, <2>10 DEF MarkCompleted, At, NoneAhead, ledger
      <4>2. CASE i < Steps
        <5>1. pc'[r].at = "record" /\ pc'[r].step = i + 1
          BY <1>1, <1>4, <2>10, <4>2, GotoPC DEF MarkCompleted, Labels
        <5>2. \A s \in applied' : s < i + 1
          <6>1. applied' \subseteq Int /\ i \in Int
            BY <1>1, <1>4, <4>1 DEF Step, TypeOK
          <6> HIDE DEF i
          <6> QED BY <4>1, <6>1
        <5> QED BY <5>1, <5>2 DEF NoneAhead
      <4>3. CASE i = Steps
        <5>1. pc'[r].at = "complete"
          BY <1>1, <1>4, <2>10, <4>3, GotoPC, SagaAssumption DEF MarkCompleted, Labels
        <5>2. \A s \in Step : s <= i
          BY <4>3, SagaAssumption DEF Step
        <5>3. applied = Step
          BY <1>1, <1>3, <2>10, <5>2, PassedSteps DEF MarkCompleted, At, Through, TypeOK
        <5> QED BY <4>1, <5>1, <5>3 DEF NoneAhead
      <4> QED BY <1>4, <4>2, <4>3, SagaAssumption DEF Step
    <3>3. RowsFollow(r)'
      BY <1>1, <1>3, <1>4, <2>10, GotoPC, SagaAssumption DEF MarkCompleted, Ends,
            Labels, Writes, ledger, At, RowsFollow, NoneAhead, Ahead, Step, TypeOK
    <3>4. Verdict(r)'
      BY <1>1, <1>3, <1>4, <2>10 DEF MarkCompleted, Ends, Labels, Writes, ledger, At,
            Verdict, StatusFollows, NoneAhead, RowsFollow, TypeOK, Through
    <3> QED BY <3>1, <3>2, <3>3, <3>4
  <2>11. CASE RecordCompensation(r)
    <3>1. StatusFollows(r)'
      BY <1>1, <1>3, <1>4, <2>11, GotoPC DEF RecordCompensation, Ends, Labels, ledger,
            At, StatusFollows, Through
    <3>2. NoneAhead(r)'
      BY SMTT(40), <1>1, <1>3, <1>4, <2>11, GotoPC, SagaAssumption DEF RecordCompensation, Ends,
            Labels, ledger, At, NoneAhead, Step, TypeOK
    <3>3. RowsFollow(r)'
      BY <1>1, <1>3, <1>4, <2>11, GotoPC, SagaAssumption DEF RecordCompensation, Ends,
            Labels, ledger, At, RowsFollow, NoneAhead, Ahead, Step, TypeOK
    <3>4. Verdict(r)'
      BY <1>1, <1>3, <1>4, <2>11 DEF RecordCompensation, Ends, Labels, ledger, At,
            Verdict, StatusFollows, NoneAhead, RowsFollow, TypeOK, Through
    <3> QED BY <3>1, <3>2, <3>3, <3>4
  <2>12. CASE RecordCompensationFails(r)
    <3>1. StatusFollows(r)'
      BY <1>1, <1>3, <1>4, <2>12, RollbackPC DEF RecordCompensationFails, ledger, At,
            StatusFollows, Through
    <3>2. NoneAhead(r)'
      BY <1>1, <1>3, <1>4, <2>12, RollbackPC, SagaAssumption
            DEF RecordCompensationFails, ledger, At, NoneAhead, Step, TypeOK
    <3>3. RowsFollow(r)'
      BY <1>1, <1>3, <1>4, <2>12, RollbackPC, SagaAssumption
            DEF RecordCompensationFails, ledger, At, RowsFollow, NoneAhead, Ahead,
            Step, TypeOK
    <3>4. Verdict(r)'
      BY <1>1, <1>3, <1>4, <2>12 DEF RecordCompensationFails, ledger, At, Verdict,
            StatusFollows, NoneAhead, RowsFollow, TypeOK, Through
    <3> QED BY <3>1, <3>2, <3>3, <3>4
  <2>13. CASE Backward(r)
    <3>1. StatusFollows(r)'
      BY <1>1, <1>3, <1>4, <2>13, GotoPC DEF Backward, Ends, Labels, ledger, At,
            StatusFollows, Through
    <3>2. NoneAhead(r)'
      <4>1. pc'[r].at = "compensated"
        BY <1>1, <1>4, <2>13, GotoPC DEF Backward, Labels
      <4> QED BY <4>1 DEF NoneAhead
    <3>3. RowsFollow(r)'
      BY <1>1, <1>3, <1>4, <2>13, GotoPC, SagaAssumption DEF Backward, Ends, Labels,
            ledger, At, RowsFollow, NoneAhead, Ahead, Step, TypeOK
    <3>4. Verdict(r)'
      BY <1>1, <1>3, <1>4, <2>13 DEF Backward, Ends, Labels, ledger, At, Verdict,
            StatusFollows, NoneAhead, RowsFollow, TypeOK, Through
    <3> QED BY <3>1, <3>2, <3>3, <3>4
  <2>14. CASE BackwardFails(r)
    <3>1. StatusFollows(r)'
      BY <1>1, <1>3, <1>4, <2>14, RollbackPC DEF BackwardFails, Unanswered, ledger,
            At, StatusFollows, Through
    <3>2. NoneAhead(r)'
      BY <1>1, <1>3, <1>4, <2>14, RollbackPC, SagaAssumption DEF BackwardFails,
            Unanswered, ledger, At, NoneAhead, Step, TypeOK
    <3>3. RowsFollow(r)'
      BY <1>1, <1>3, <1>4, <2>14, RollbackPC, SagaAssumption DEF BackwardFails,
            Unanswered, ledger, At, RowsFollow, NoneAhead, Ahead, Step, TypeOK
    <3>4. Verdict(r)'
      BY <1>1, <1>3, <1>4, <2>14 DEF BackwardFails, Unanswered, ledger, At, Verdict,
            StatusFollows, NoneAhead, RowsFollow, TypeOK, Through
    <3> QED BY <3>1, <3>2, <3>3, <3>4
  <2>15. CASE MarkCompensated(r)
    <3>1. StatusFollows(r)'
      BY <1>1, <1>3, <1>4, <2>15, RollbackPC DEF MarkCompensated, Writes, ledger, At,
            StatusFollows, Through
    <3>2. NoneAhead(r)'
      BY <1>1, <1>3, <1>4, <2>15, RollbackPC, SagaAssumption DEF MarkCompensated,
            Writes, ledger, At, NoneAhead, Step, TypeOK
    <3>3. RowsFollow(r)'
      <4>1. /\ applied' = applied /\ applied \subseteq Step
            /\ \A x \in Rows : comp[x] # "none" => comp'[x] # "none"
        BY <1>1, <1>4, <2>15 DEF MarkCompensated, Writes, ledger, TypeOK
      <4>2. \A s \in applied : s >= i => comp'[<<r, s>>] # "none"
        BY <1>3, <1>4, <2>15, <4>1 DEF MarkCompensated, At, RowsFollow
      <4> QED BY <1>1, <1>4, <2>15, <4>1, <4>2, RollbackPC, SagaAssumption
            DEF MarkCompensated, RowsFollow, Ahead, Step
    <3>4. Verdict(r)'
      BY <1>1, <1>3, <1>4, <2>15 DEF MarkCompensated, Writes, ledger, At, Verdict,
            StatusFollows, NoneAhead, RowsFollow, TypeOK, Through
    <3> QED BY <3>1, <3>2, <3>3, <3>4
  <2> QED BY <1>5, <2>1, <2>2, <2>3, <2>4, <2>5, <2>6, <2>7, <2>8, <2>9, <2>10, <2>11,
        <2>12, <2>13, <2>14, <2>15 DEF Execution
<1>6. ASSUME RecoveryTick PROVE Goal
  BY <1>3, <1>6 DEF RecoveryTick, ledger, StatusFollows, NoneAhead, RowsFollow, Verdict
<1>7. ASSUME NEW x \in recovering, Recovery(x) PROVE Goal
  <2>1. x \in Rows /\ comp[x] # "none"
    BY <1>1 DEF LogInv, TypeOK, RowsAreOfApplied
  <2>2. /\ applied' = applied /\ pc' = pc /\ status' = status
        /\ \A y \in Rows : comp[y] # "none" => comp'[y] # "none"
    BY <1>1, <1>7, <2>1 DEF TypeOK, Recovery, RecoverySucceeds, RecoveryFails, Writes
  <2>3. pc[r].at \notin Ahead /\ status # "completed"
    BY <1>3, <2>1 DEF RowsFollow, Verdict
  <2> QED BY <1>1, <1>3, <1>4, <2>2, <2>3
        DEF StatusFollows, NoneAhead, RowsFollow, Verdict, Row, TypeOK
<1>8. ASSUME Crash PROVE Goal
  <2>1. /\ UNCHANGED <<status, applied, comp>>
        /\ pc'[r] = pc[r] \/ pc'[r].at = "ended"
    BY <1>1, <1>8 DEF Crash, ledger, TypeOK
  <2> QED BY <1>3, <2>1 DEF StatusFollows, NoneAhead, RowsFollow, Verdict, Ahead,
        Through
<1>9. ASSUME UNCHANGED vars PROVE Goal
  BY <1>3, <1>9 DEF vars, StatusFollows, NoneAhead, RowsFollow, Verdict
<1>10. Goal
  BY <1>2, <1>5, <1>6, <1>7, <1>8, <1>9 DEF Next
<1> QED BY <1>1, <1>2, <1>10 DEF ProgressInv, Progress

(* The one execution starts that way. *)
LEMMA ProgressInit == Init => ProgressInv
BY LogInit DEF Init, ProgressInv, Progress, StatusFollows, NoneAhead, RowsFollow,
      Verdict,
       Ahead, Through, Rows

(* One execution of a transfer with any number of legs, stopped by refusals *)
(* or by crashes and helped by the recovery loop at any time, but with no   *)
(* answer or write lost: a completed transfer moved every leg and gave none *)
(* back, and of a failed one every leg is back or a row says it is owed.    *)
THEOREM AllOrNothingHolds == ASSUME Answered PROVE Spec => []AllOrNothing
<1>1. ProgressInv => AllOrNothing
  <2> SUFFICES ASSUME ProgressInv PROVE AllOrNothing
    OBVIOUS
  <2>1. PICK r \in Runs : Runs = {r}
    BY DEF Answered, SingleRun
  <2>2. Verdict(r) /\ TypeOK /\ RefundsMatchLog
    BY DEF ProgressInv, Progress, LogInv
  <2>3. ASSUME status = "completed" PROVE applied = Step /\ refunds = {}
    <3>1. applied = Step /\ \A x \in Rows : comp[x] = "none"
      BY <2>2, <2>3 DEF Verdict
    <3>2. \A k \in refunds : <<k[2], k[3]>> \in Rows /\ comp[<<k[2], k[3]>>] # "none"
      BY <2>2 DEF TypeOK, RefundsMatchLog, Rows
    <3> QED BY <3>1, <3>2
  <2>4. ASSUME status = "failed", NEW s \in applied PROVE RefundsOf(s) # {} \/ Owed(s)
    <3>1. <<r, s>> \in Rows /\ comp[<<r, s>>] # "none"
      BY <2>2, <2>4 DEF Verdict, TypeOK, Rows
    <3>2. CASE comp[<<r, s>>] = "completed"
      <4>1. PICK who \in {"inline", "recovery"} : <<who, r, s>> \in refunds
        BY <2>2, <3>1, <3>2 DEF RefundsMatchLog
      <4> QED BY <4>1 DEF RefundsOf
    <3>3. CASE comp[<<r, s>>] \in {"compensating", "dead_letter"}
      BY <3>3 DEF Owed
    <3> QED BY <2>2, <3>1, <3>2, <3>3 DEF TypeOK
  <2> QED BY <2>3, <2>4 DEF AllOrNothing
<1>2. ProgressInv /\ [Next]_vars => ProgressInv'
  BY ProgressStep
<1> QED BY <1>1, <1>2, ProgressInit, PTL DEF Spec

-----------------------------------------------------------------------------
(* A step is given back once, save through an exposed row *)

Walking == {"backward", "compensated"}

(* The row that r is compensating. *)
WalksOn(r, x) == pc[r].at \in Walking /\ x = Row(r)

Inline(x) == <<"inline", x[1], x[2]>> \in refunds
ByLoop(x) == <<"recovery", x[1], x[2]>> \in refunds \/ x \in recovering

(* The walk goes down: below it no row of its execution exists. *)
NoRowBelow(r) ==
    /\ pc[r].at \in Ahead => \A s \in Step : comp[<<r, s>>] = "none"
    /\ pc[r].at = "undo" => \A s \in Step : s <= pc[r].step => comp[<<r, s>>] = "none"
    /\ pc[r].at \in Walking => \A s \in Step : s < pc[r].step => comp[<<r, s>>] = "none"

(* What the walk has refunded is closed or about to be, and the recovery   *)
(* loop has nothing to do with it.                                         *)
GivenBackOnce ==
    \A x \in Rows \ exposed :
        /\ Inline(x) => comp[x] = "completed" \/ (At(x[1], "compensated") /\ x = Row(x[1]))
        /\ Inline(x) \/ WalksOn(x[1], x) => ~ByLoop(x)

Begun(r) ==
    \/ pc[r].at \notin {"idle", "mark", "ended"}
    \/ \E s \in Step : comp[<<r, s>>] # "none"

(* Of two executions at work one passed the status check beside the other. *)
SecondIsExposed ==
    /\ \A r \in Runs : Begun(r) => status # "pending_verification"
    /\ \A q, r \in Runs : q # r /\ Begun(q) /\ Begun(r) =>
          {q} \X Step \subseteq exposed \/ {r} \X Step \subseteq exposed

OnceInv ==
    /\ LogInv
    /\ \A r \in Runs : NoRowBelow(r)
    /\ GivenBackOnce
    /\ SecondIsExposed

(* An execution's step leaves the other executions where they are and the  *)
(* recovery loop's list as it is; outside the walk it touches no refund    *)
(* and no row, and the walk is entered and left downwards.                 *)
LEMMA ExecutionMoves ==
    ASSUME TypeOK, NEW r \in Runs, ExecuteTransfer(r) \/ Execution(r)
    PROVE  /\ recovering' = recovering /\ exposed \subseteq exposed'
           /\ \A q \in Runs : q # r => pc'[q] = pc[q]
           /\ \/ /\ UNCHANGED <<refunds, comp>>
                 /\ pc[r].at \notin Walking /\ pc'[r].at \notin Walking
                 /\ pc[r].at \in Ahead \/ pc'[r].at \notin Ahead
                 /\ pc'[r].at = "undo" =>
                       pc[r].at \in Ahead \/ (pc[r].at = "undo" /\ pc'[r].step < pc[r].step)
              \/ RecordCompensation(r) \/ Backward(r) \/ BackwardFails(r)
              \/ MarkCompensated(r)
<1>1. /\ 1 \in Step /\ Steps \in Step /\ pc[r].step \in Step /\ pc[r].at \in Labels
      /\ (pc[r].step < Steps => pc[r].step + 1 \in Step)
  BY SagaAssumption DEF TypeOK, Step
<1> USE DEF Ahead, Walking, At
<1>2. CASE ExecuteTransfer(r)
  BY <1>1, <1>2, GotoPC DEF ExecuteTransfer, Ends, Labels, ledger
<1>3. CASE MarkProcessing(r)
  <2>1. exposed \subseteq exposed' /\ UNCHANGED <<refunds, comp, recovering>>
    BY <1>3 DEF MarkProcessing, ledger
  <2>2. pc[r].at = "mark" /\ pc'[r].at = "record" /\ \A q \in Runs : q # r => pc'[q] = pc[q]
    BY <1>1, <1>3, GotoPC DEF MarkProcessing, Labels
  <2> QED BY <2>1, <2>2
<1>4. CASE MarkProcessingFails(r)
  BY <1>1, <1>4, GotoPC DEF MarkProcessingFails, Ends, Labels, ledger
<1>5. CASE Refuse(r)
  BY <1>1, <1>5, GotoPC DEF Refuse, Ends, Labels, ledger
<1>6. CASE MarkTransfer(r)
  BY <1>1, <1>6, GotoPC DEF MarkTransfer, Ends, Labels, ledger
<1>7. CASE RecordForward(r)
  BY <1>1, <1>7, GotoPC DEF RecordForward, Labels, ledger
<1>8. CASE RecordForwardFails(r)
  BY <1>1, <1>8, RollbackPC DEF RecordForwardFails, ledger
<1>9. CASE Forward(r)
  BY <1>1, <1>9, GotoPC DEF Forward, Labels, ledger
<1>10. CASE ForwardFails(r)
  BY <1>1, <1>10, RollbackPC DEF ForwardFails
<1>11. CASE MarkCompleted(r)
  BY <1>1, <1>11, GotoPC DEF MarkCompleted, Labels, ledger
<1>12. CASE RecordCompensationFails(r)
  <2>1. /\ UNCHANGED <<refunds, comp, recovering, exposed>> /\ pc[r].at = "undo"
        /\ RollbackBelow(r, pc[r].step)
    BY <1>12 DEF RecordCompensationFails, ledger
  <2>2. pc[r].step - 1 < pc[r].step
    BY <1>1, SagaAssumption DEF Step
  <2> QED BY <1>1, <2>1, <2>2, RollbackPC
<1>13. CASE RecordCompensation(r)
  BY <1>1, <1>13, GotoPC DEF RecordCompensation, Labels
<1>14. CASE Backward(r)
  BY <1>1, <1>14, GotoPC DEF Backward, Labels
<1>15. CASE BackwardFails(r)
  <2>1. recovering' = recovering /\ exposed \subseteq exposed'
    BY <1>15 DEF BackwardFails
  <2> QED BY <1>1, <1>15, <2>1, RollbackPC DEF BackwardFails
<1>16. CASE MarkCompensated(r)
  <2>1. recovering' = recovering /\ exposed \subseteq exposed'
    BY <1>16 DEF MarkCompensated
  <2> QED BY <1>1, <1>16, <2>1, RollbackPC DEF MarkCompensated
<1> QED BY <1>2, <1>3, <1>4, <1>5, <1>6, <1>7, <1>8, <1>9, <1>10, <1>11, <1>12,
      <1>13, <1>14, <1>15, <1>16 DEF Execution

(* A row of the log that exists goes on existing, and a row is written     *)
(* only by the walk of its own execution.                                  *)
LEMMA RowsWritten ==
    ASSUME LogInv, [Next]_vars
    PROVE  /\ \A x \in Rows : comp[x] # "none" => comp'[x] # "none"
           /\ \A x \in Rows : comp[x] = "none" /\ comp'[x] # "none" =>
                 x = Row(x[1]) /\ RecordCompensation(x[1])
<1> USE DEF LogInv
<1>1. ASSUME NEW r \in Runs, ExecuteTransfer(r) \/ Execution(r)
      PROVE  /\ \A x \in Rows : comp[x] # "none" => comp'[x] # "none"
             /\ \A x \in Rows : comp[x] = "none" /\ comp'[x] # "none" =>
                   x = Row(r) /\ RecordCompensation(r)
  <2>1. Row(r) \in Rows /\ Row(r)[1] = r
    BY DEF TypeOK, Row, Rows
  <2>2. CASE comp' = comp
    BY <2>2
  <2>3. CASE RecordCompensation(r)
    BY <2>1, <2>3 DEF RecordCompensation, TypeOK
  <2>4. CASE MarkCompensated(r)
    BY <2>1, <2>4 DEF MarkCompensated, Writes, TypeOK, Position, At
  <2> QED BY <1>1, <2>2, <2>3, <2>4, ExecutionMoves DEF Backward, BackwardFails
<1>2. ASSUME NEW x \in recovering, Recovery(x)
      PROVE  \A y \in Rows : (comp[y] # "none") <=> (comp'[y] # "none")
  <2>1. x \in Rows /\ comp[x] # "none"
    BY DEF TypeOK, RowsAreOfApplied
  <2> QED BY <1>2, <2>1 DEF Recovery, RecoverySucceeds, RecoveryFails, Writes, TypeOK
<1>3. CASE RecoveryTick \/ Crash \/ UNCHANGED vars
  BY <1>3 DEF RecoveryTick, Crash, vars
<1>4. \A r \in Runs : Row(r)[1] = r
  BY DEF Row
<1> QED BY <1>1, <1>2, <1>3, <1>4 DEF Next

(* The walk of each execution only goes down. *)
LEMMA NoRowBelowStep ==
    ASSUME OnceInv, [Next]_vars, NEW r \in Runs
    PROVE  NoRowBelow(r)'
<1> USE DEF OnceInv, LogInv
<1>1. /\ TypeOK' /\ NoRowBelow(r) /\ pc[r].step \in Step /\ pc[r].at \in Labels
      /\ \A s \in Step : <<r, s>> \in Rows /\ s \in Nat /\ <<r, s>>[1] = r
      /\ Row(r) = <<r, pc[r].step>>
  BY TypeStep, SagaAssumption DEF TypeOK, Rows, Step, Row
<1>2. CASE pc'[r] = pc[r] /\ \A s \in Step : comp[<<r, s>>] = "none" => comp'[<<r, s>>] = "none"
  BY <1>1, <1>2 DEF NoRowBelow
<1>3. CASE ExecuteTransfer(r) \/ Execution(r)
  <2>1. CASE /\ comp' = comp /\ pc'[r].at \notin Walking
             /\ pc[r].at \in Ahead \/ pc'[r].at \notin Ahead
             /\ pc'[r].at = "undo" =>
                   pc[r].at \in Ahead \/ (pc[r].at = "undo" /\ pc'[r].step < pc[r].step)
    <3>1. ASSUME pc'[r].at \in Ahead, NEW s \in Step PROVE comp'[<<r, s>>] = "none"
      BY <1>1, <2>1, <3>1 DEF NoRowBelow
    <3>2. ASSUME pc'[r].at = "undo", NEW s \in Step, s <= pc'[r].step
          PROVE  comp'[<<r, s>>] = "none"
      <4>1. pc'[r].step \in Nat /\ pc[r].step \in Nat /\ s \in Nat
        BY <1>1, SagaAssumption DEF TypeOK, Step
      <4> QED BY <1>1, <2>1, <3>2, <4>1 DEF NoRowBelow
    <3> QED BY <2>1, <3>1, <3>2 DEF NoRowBelow
  <2>2. CASE RecordCompensation(r)
    <3>1. pc[r].at = "undo" /\ pc'[r].at = "backward" /\ pc'[r].step = pc[r].step
      BY <1>1, <2>2, GotoPC DEF RecordCompensation, Labels, At
    <3>2. \A s \in Step : s < pc[r].step => comp'[<<r, s>>] = comp[<<r, s>>] /\ s <= pc[r].step
      BY <1>1, <2>2, SagaAssumption DEF RecordCompensation, TypeOK, Step
    <3> QED BY <1>1, <3>1, <3>2 DEF NoRowBelow, Ahead, Walking
  <2>3. CASE Backward(r)
    <3>1. /\ pc[r].at = "backward" /\ pc'[r].at = "compensated" /\ pc'[r].step = pc[r].step
          /\ comp' = comp
      BY <1>1, <2>3, GotoPC DEF Backward, Labels, At
    <3> QED BY <1>1, <3>1 DEF NoRowBelow, Ahead, Walking
  <2>4. CASE BackwardFails(r) \/ MarkCompensated(r)
    <3>1. pc[r].at \in Walking /\ RollbackBelow(r, pc[r].step)
      BY <2>4 DEF BackwardFails, MarkCompensated, At, Walking
    <3>2. \A s \in Step : s < pc[r].step => comp'[<<r, s>>] = comp[<<r, s>>]
      BY <1>1, <2>4, SagaAssumption DEF BackwardFails, MarkCompensated, TypeOK, Step, Writes
    <3>3. \A s \in Step : s <= pc[r].step - 1 => s < pc[r].step
      BY <1>1, SagaAssumption DEF Step
    <3> QED BY <1>1, <3>1, <3>2, <3>3, RollbackPC DEF NoRowBelow, Ahead, Walking
  <2> QED BY <1>3, <2>1, <2>2, <2>3, <2>4, ExecutionMoves
<1>4. ASSUME NEW q \in Runs, q # r, ExecuteTransfer(q) \/ Execution(q) PROVE NoRowBelow(r)'
  <2>1. pc'[r] = pc[r]
    BY <1>4, ExecutionMoves
  <2>2. ASSUME NEW s \in Step, comp[<<r, s>>] = "none" PROVE comp'[<<r, s>>] = "none"
    <3>1. Row(q) \in Rows /\ Row(q) # <<r, s>> /\ <<r, s>> \in Rows
      BY <1>4 DEF Row, Rows, TypeOK
    <3> QED BY <1>4, <2>2, <3>1, ExecutionMoves DEF RecordCompensation, Backward,
              BackwardFails, MarkCompensated, Writes, TypeOK
  <2> QED BY <1>2, <2>1, <2>2
<1>5. ASSUME NEW x \in recovering, Recovery(x) PROVE NoRowBelow(r)'
  <2>1. pc' = pc /\ x \in Rows /\ comp[x] # "none"
    BY <1>5 DEF Recovery, RecoverySucceeds, RecoveryFails, RowsAreOfApplied, TypeOK
  <2>2. \A y \in Rows : y # x => comp'[y] = comp[y]
    BY <1>5, <2>1 DEF Recovery, RecoverySucceeds, RecoveryFails, Writes, TypeOK
  <2> QED BY <1>1, <1>2, <2>1, <2>2
<1>6. CASE RecoveryTick \/ UNCHANGED vars
  BY <1>2, <1>6 DEF RecoveryTick, vars
<1>7. CASE Crash
  <2>1. comp' = comp /\ (pc'[r] = pc[r] \/ pc'[r].at = "ended")
    BY <1>7 DEF Crash, TypeOK
  <2> QED BY <1>2, <2>1 DEF NoRowBelow, Ahead, Walking
<1> QED BY <1>3, <1>4, <1>5, <1>6, <1>7 DEF Next

(* A second execution gets past the status check only beside the first,    *)
(* and its rows are exposed as it marks the transfer.                      *)
LEMMA SecondIsExposedStep ==
    ASSUME OnceInv, [Next]_vars
    PROVE  SecondIsExposed'
<1> USE DEF OnceInv, LogInv
<1>1. /\ TypeOK' /\ exposed \subseteq exposed'
      /\ status # "pending_verification" => status' # "pending_verification"
  <2>1. ASSUME NEW r \in Runs, ExecuteTransfer(r) \/ Execution(r)
        PROVE  /\ exposed \subseteq exposed'
               /\ status # "pending_verification" => status' # "pending_verification"
    BY <2>1, ExecutionMoves DEF ExecuteTransfer, Execution, MarkProcessing,
       MarkProcessingFails, Refuse, MarkTransfer, RecordForward, RecordForwardFails,
       Forward, ForwardFails, MarkCompleted, RecordCompensation,
       RecordCompensationFails, Backward, BackwardFails, MarkCompensated, Writes
  <2>2. ASSUME NEW x \in recovering, Recovery(x)
        PROVE  UNCHANGED <<exposed, status>>
    BY <2>2 DEF Recovery, RecoverySucceeds, RecoveryFails
  <2>3. CASE RecoveryTick \/ Crash \/ UNCHANGED vars
    <3>1. exposed \subseteq exposed' /\ status' = status
      BY <2>3 DEF RecoveryTick, Crash, vars
    <3> QED BY <3>1, TypeStep
  <2> QED BY <2>1, <2>2, <2>3, TypeStep DEF Next
<1>2. ASSUME NEW q \in Runs, Begun(q)', ~Begun(q) PROVE MarkProcessing(q)
  <2>1. /\ pc[q].at \in {"idle", "mark", "ended"}
        /\ \A s \in Step : <<q, s>> \in Rows /\ comp[<<q, s>>] = "none" /\ <<q, s>>[1] = q
    BY <1>2 DEF Begun, Rows
  <2>2. \A s \in Step : comp'[<<q, s>>] = "none"
    BY <2>1, RowsWritten DEF RecordCompensation, At
  <2>3. pc'[q].at \notin {"idle", "mark", "ended"}
    BY <1>2, <2>2 DEF Begun
  <2>4. ASSUME NEW r \in Runs, ExecuteTransfer(r) \/ Execution(r) PROVE MarkProcessing(q)
    <3>1. r = q
      BY <2>1, <2>3, <2>4, ExecutionMoves
    <3>2. ~ExecuteTransfer(q)
      <4> SUFFICES ASSUME ExecuteTransfer(q) PROVE FALSE
        OBVIOUS
      <4>1. /\ 1 \in Step /\ pc[q].step \in Step
            /\ "mark" \in Labels /\ "ended" \in Labels
        BY SagaAssumption DEF Step, TypeOK, Labels
      <4>2. pc'[q].at \in {"mark", "ended"}
        BY <4>1, GotoPC DEF ExecuteTransfer, Ends
      <4> QED BY <2>3, <4>2
    <3>3. ~MarkProcessingFails(q)
      <4> SUFFICES ASSUME MarkProcessingFails(q) PROVE FALSE
        OBVIOUS
      <4>1. "ended" \in Labels /\ pc[q].step \in Step
        BY DEF Labels, TypeOK
      <4> QED BY <2>3, <4>1, GotoPC DEF MarkProcessingFails, Ends
    <3> QED BY <2>1, <2>4, <3>1, <3>2, <3>3 DEF Execution, Refuse, MarkTransfer,
         RecordForward, RecordForwardFails, Forward, ForwardFails, MarkCompleted,
         RecordCompensation, RecordCompensationFails, Backward, BackwardFails,
         MarkCompensated, At
  <2>5. ASSUME NEW x \in recovering, Recovery(x) PROVE FALSE
    BY <2>1, <2>3, <2>5 DEF Recovery, RecoverySucceeds, RecoveryFails
  <2>6. CASE RecoveryTick \/ Crash \/ UNCHANGED vars
    <3>1. pc'[q] = pc[q] \/ pc'[q].at = "ended"
      BY <2>6 DEF RecoveryTick, Crash, vars, TypeOK
    <3> QED BY <2>1, <2>3, <3>1
  <2> QED BY <2>4, <2>5, <2>6 DEF Next
<1>3. ASSUME NEW q \in Runs, Begun(q)' PROVE status' # "pending_verification"
  BY <1>1, <1>2, <1>3 DEF SecondIsExposed, MarkProcessing
<1>4. ASSUME NEW q \in Runs, NEW r \in Runs, q # r, Begun(q)', Begun(r)'
      PROVE  {q} \X Step \subseteq exposed' \/ {r} \X Step \subseteq exposed'
  <2>1. CASE Begun(q) /\ Begun(r)
    BY <1>1, <1>4, <2>1 DEF SecondIsExposed
  <2>2. ASSUME NEW u \in Runs, NEW v \in Runs, u # v, Begun(u), ~Begun(v), Begun(v)'
        PROVE  {v} \X Step \subseteq exposed'
    BY <1>2, <2>2 DEF SecondIsExposed, MarkProcessing
  <2>3. CASE ~Begun(q) /\ ~Begun(r)
    <3>1. MarkProcessing(q) /\ MarkProcessing(r)
      BY <1>2, <1>4, <2>3
    <3>2. pc'[q].at = "record" /\ pc'[r] = pc[r] /\ pc'[r].at = "record" /\ At(r, "mark")
      <4>1. 1 \in Step /\ "record" \in Labels
        BY SagaAssumption DEF Step, Labels
      <4> QED BY <1>4, <3>1, <4>1, GotoPC DEF MarkProcessing
    <3> QED BY <3>2 DEF At
  <2> QED BY <1>4, <2>1, <2>2, <2>3
<1> QED BY <1>3, <1>4 DEF SecondIsExposed

(* The walk and the recovery loop keep out of each other's rows. *)
LEMMA GivenBackOnceStep ==
    ASSUME OnceInv, [Next]_vars
    PROVE  GivenBackOnce'
<1> USE DEF OnceInv, LogInv
<1>1. TypeOK'
  BY TypeStep
<1> SUFFICES ASSUME NEW x \in Rows, x \notin exposed'
             PROVE  /\ Inline(x)' => \/ comp'[x] = "completed"
                                     \/ At(x[1], "compensated")' /\ x = Row(x[1])'
                    /\ Inline(x)' \/ WalksOn(x[1], x)' => ~ByLoop(x)'
  BY DEF GivenBackOnce
<1>2. x[1] \in Runs /\ x[2] \in Step /\ x = <<x[1], x[2]>>
  BY DEF Rows
<1>3. ASSUME exposed \subseteq exposed'
      PROVE  /\ x \notin exposed
             /\ Inline(x) => comp[x] = "completed" \/ (At(x[1], "compensated") /\ x = Row(x[1]))
             /\ Inline(x) \/ WalksOn(x[1], x) => ~ByLoop(x)
  BY <1>3 DEF GivenBackOnce
<1>4. ASSUME NEW r \in Runs, ExecuteTransfer(r) \/ Execution(r), r # x[1]
      PROVE  /\ Inline(x)' = Inline(x) /\ ByLoop(x)' = ByLoop(x)
             /\ pc'[x[1]] = pc[x[1]] /\ comp'[x] = comp[x] /\ exposed \subseteq exposed'
  <2>1. Row(r) \in Rows /\ Row(r) # x
    BY <1>4 DEF Row, Rows, TypeOK
  <2>2. recovering' = recovering /\ exposed \subseteq exposed' /\ pc'[x[1]] = pc[x[1]]
    BY <1>2, <1>4, ExecutionMoves
  <2>3. /\ refunds \subseteq refunds' /\ refunds' \subseteq refunds \cup {<<"inline", r, pc[r].step>>}
        /\ comp'[x] = comp[x]
    BY <1>4, <2>1, ExecutionMoves DEF RecordCompensation, Backward, BackwardFails,
         MarkCompensated, Unanswered, Writes, TypeOK, ledger
  <2> QED BY <1>4, <2>2, <2>3 DEF Inline, ByLoop
<1>5. ASSUME ExecuteTransfer(x[1]) \/ Execution(x[1])
      PROVE  /\ Inline(x)' => \/ comp'[x] = "completed"
                              \/ At(x[1], "compensated")' /\ x = Row(x[1])'
             /\ Inline(x)' \/ WalksOn(x[1], x)' => ~ByLoop(x)'
  <2> DEFINE r == x[1]
  <2>1. /\ recovering' = recovering /\ exposed \subseteq exposed' /\ r \in Runs
        /\ Row(r) = <<r, pc[r].step>> /\ Row(r) \in Rows /\ Row(r)' = <<r, pc'[r].step>>
        /\ pc[r].step \in Step
    BY <1>2, <1>5, ExecutionMoves DEF Row, Rows, TypeOK
  <2>2. CASE /\ UNCHANGED <<refunds, comp>>
             /\ pc[r].at \notin Walking /\ pc'[r].at \notin Walking
    BY <1>3, <2>1, <2>2 DEF Inline, ByLoop, WalksOn, At, Walking
  <2>3. CASE RecordCompensation(r)
    <3>1. /\ pc[r].at = "undo" /\ pc'[r].at = "backward" /\ pc'[r].step = pc[r].step
          /\ refunds' = refunds
          /\ \A y \in Rows : y # Row(r) => comp'[y] = comp[y]
      <4>1. "backward" \in Labels
        BY DEF Labels
      <4>2. pc'[r].at = "backward" /\ pc'[r].step = pc[r].step
        BY <2>1, <2>3, <4>1, GotoPC DEF RecordCompensation
      <4> QED BY <2>1, <2>3, <4>2 DEF RecordCompensation, TypeOK, At, ledger
    <3>2. comp[Row(r)] = "none"
      <4>1. pc[r].step <= pc[r].step
        BY <2>1, SagaAssumption DEF Step
      <4> QED BY <2>1, <3>1, <4>1 DEF NoRowBelow
    <3>3. x = Row(r) => ~Inline(x) /\ ~ByLoop(x)
      <4> SUFFICES ASSUME x = Row(r), Inline(x) \/ ByLoop(x) PROVE FALSE
        OBVIOUS
      <4>1. comp[<<x[1], x[2]>>] # "none"
        BY <1>2 DEF Inline, ByLoop, RefundsMatchLog, RowsAreOfApplied
      <4> QED BY <1>2, <3>2, <4>1
    <3> QED BY <1>3, <2>1, <3>1, <3>3 DEF Inline, ByLoop, WalksOn, At, Walking
  <2>4. CASE Backward(r)
    <3>1. /\ pc[r].at = "backward" /\ pc'[r].at = "compensated" /\ pc'[r].step = pc[r].step
          /\ refunds' = refunds \cup {<<"inline", r, pc[r].step>>} /\ comp' = comp
      <4>1. "compensated" \in Labels
        BY DEF Labels
      <4>2. pc'[r].at = "compensated" /\ pc'[r].step = pc[r].step
        BY <2>1, <2>4, <4>1, GotoPC DEF Backward
      <4> QED BY <2>4, <4>2 DEF Backward, At
    <3>2. ByLoop(x)' = ByLoop(x)
      BY <2>1, <3>1 DEF ByLoop
    <3>3. CASE x = Row(r)
      BY <1>3, <2>1, <3>1, <3>2, <3>3 DEF WalksOn, At, Walking
    <3>4. CASE x # Row(r)
      <4>1. Inline(x)' = Inline(x)
        BY <1>2, <2>1, <3>1, <3>4 DEF Inline
      <4> QED BY <1>3, <2>1, <3>1, <3>2, <3>4, <4>1 DEF WalksOn, At, Walking
    <3> QED BY <3>3, <3>4
  <2>5. CASE BackwardFails(r)
    <3>1. pc[r].at = "backward" /\ pc'[r].at \in {"undo", "fail"} /\ comp' = comp
      BY <2>1, <2>5, RollbackPC DEF BackwardFails, At
    <3>2. /\ refunds' = refunds \/ refunds' = refunds \cup {<<"inline", r, pc[r].step>>}
          /\ refunds' # refunds => Row(r) \in exposed'
      BY <2>5 DEF BackwardFails, Unanswered
    <3>3. Inline(x)' => Inline(x)
      BY <1>2, <2>1, <3>2 DEF Inline
    <3>4. ByLoop(x)' = ByLoop(x)
      BY <2>1, <3>2 DEF ByLoop
    <3> QED BY <1>3, <2>1, <3>1, <3>3, <3>4 DEF WalksOn, At, Walking
  <2>6. CASE MarkCompensated(r)
    <3>1. pc[r].at = "compensated" /\ pc'[r].at \in {"undo", "fail"} /\ refunds' = refunds
      BY <2>1, <2>6, RollbackPC DEF MarkCompensated, At, ledger
    <3>2. /\ comp' = comp => Row(r) \in exposed'
          /\ comp' = comp \/ comp' = [comp EXCEPT ![Row(r)] = "completed"]
      BY <2>6 DEF MarkCompensated, Writes
    <3>3. comp'[x] = "completed" \/ (x # Row(r) /\ comp'[x] = comp[x])
      BY <2>1, <3>2 DEF TypeOK
    <3> QED BY <1>3, <2>1, <3>1, <3>3 DEF Inline, ByLoop, WalksOn, At, Walking
  <2> QED BY <1>5, <2>1, <2>2, <2>3, <2>4, <2>5, <2>6, ExecutionMoves
<1>6. ASSUME NEW y \in recovering, Recovery(y)
      PROVE  /\ Inline(x)' => \/ comp'[x] = "completed"
                              \/ At(x[1], "compensated")' /\ x = Row(x[1])'
             /\ Inline(x)' \/ WalksOn(x[1], x)' => ~ByLoop(x)'
  <2>1. /\ pc' = pc /\ exposed' = exposed /\ recovering' \subseteq recovering /\ y \in Rows
        /\ refunds \subseteq refunds'
        /\ refunds' \subseteq refunds \cup {<<"recovery", y[1], y[2]>>}
    BY <1>6 DEF Recovery, RecoverySucceeds, RecoveryFails, Unanswered, TypeOK
  <2>2. \A z \in Rows : z # y => comp'[z] = comp[z]
    BY <1>6, <2>1 DEF Recovery, RecoverySucceeds, RecoveryFails, Writes, TypeOK
  <2>3. y = <<y[1], y[2]>>
    BY <2>1 DEF Rows
  <2>4. Inline(x)' = Inline(x) /\ (ByLoop(x)' => ByLoop(x))
    BY <1>2, <2>1, <2>3 DEF Inline, ByLoop
  <2>5. Inline(x) => x # y
    BY <1>3, <2>1 DEF ByLoop
  <2>6. Row(x[1])' = Row(x[1])
    BY <2>1 DEF Row
  <2> QED BY <1>3, <2>1, <2>2, <2>4, <2>5, <2>6 DEF WalksOn, At
<1>7. CASE RecoveryTick
  <2>1. /\ UNCHANGED <<pc, refunds, comp>> /\ exposed \subseteq exposed'
        /\ recovering' = {z \in Rows : comp[z] = "compensating"}
        /\ exposed' = exposed \cup (recovering' \cap UnderWay)
    BY <1>7 DEF RecoveryTick, ledger
  <2>2. Inline(x)' = Inline(x) /\ Row(x[1])' = Row(x[1])
    BY <2>1 DEF Inline, Row
  <2>3. ASSUME WalksOn(x[1], x) \/ (At(x[1], "compensated") /\ x = Row(x[1]))
        PROVE  x \notin recovering'
    BY <1>2, <2>1, <2>3 DEF UnderWay, WalksOn, Walking, At
  <2>4. Inline(x) => x \notin recovering'
    BY <1>3, <2>1, <2>3
  <2> QED BY <1>3, <2>1, <2>2, <2>3, <2>4 DEF WalksOn, At, ByLoop
<1>8. CASE Crash
  <2>1. /\ UNCHANGED <<refunds, comp>> /\ exposed \subseteq exposed' /\ recovering' = {}
        /\ \A q \in Runs : At(q, "compensated") => Row(q) \in exposed'
        /\ \A q \in Runs : pc'[q].at \notin Walking
    BY <1>8 DEF Crash, ledger, TypeOK, At, Walking
  <2> QED BY <1>2, <1>3, <2>1 DEF Inline, ByLoop, WalksOn
<1>9. CASE UNCHANGED vars
  <2>1. UNCHANGED <<pc, refunds, comp, recovering, exposed>>
    BY <1>9 DEF vars
  <2> QED BY <1>3, <2>1 DEF Inline, ByLoop, WalksOn, At, Row
<1>10. ASSUME NEW r \in Runs, ExecuteTransfer(r) \/ Execution(r), r # x[1]
       PROVE  /\ Inline(x)' => \/ comp'[x] = "completed"
                               \/ At(x[1], "compensated")' /\ x = Row(x[1])'
              /\ Inline(x)' \/ WalksOn(x[1], x)' => ~ByLoop(x)'
  <2>1. Row(x[1])' = Row(x[1])
    BY <1>4, <1>10 DEF Row
  <2> QED BY <1>3, <1>4, <1>10, <2>1 DEF WalksOn, At
<1> QED BY <1>5, <1>6, <1>7, <1>8, <1>9, <1>10 DEF Next

(* It starts that way. *)
LEMMA OnceInit == Init => OnceInv
<1> SUFFICES ASSUME Init PROVE OnceInv
  OBVIOUS
<1>1. /\ \A r \in Runs : pc[r].at = "idle"
      /\ \A r \in Runs, s \in Step : comp[<<r, s>>] = "none"
      /\ refunds = {}
  BY DEF Init, Rows
<1>2. GivenBackOnce
  BY <1>1 DEF GivenBackOnce, Inline, WalksOn, Walking, Rows
<1> QED BY <1>1, <1>2, LogInit DEF OnceInv, NoRowBelow, SecondIsExposed, Begun, Walking

(* Whatever the number of legs, executions, lost answers, failing writes,  *)
(* overlapping ticks and crashes: a leg is given back twice only through a *)
(* row whose refund was not answered, not marked or listed by the loop     *)
(* meanwhile, or whose execution marked a transfer already marked.         *)
THEOREM NoDoubleRefundHolds == Spec => []NoDoubleRefund
<1>1. OnceInv => NoDoubleRefund
  <2> SUFFICES ASSUME OnceInv, NEW k \in refunds, NEW l \in refunds, k # l, k[3] = l[3]
               PROVE  \E m \in {k, l} : <<m[2], m[3]>> \in exposed
    BY DEF NoDoubleRefund
  <2>1. /\ k \in {"inline", "recovery"} \X Runs \X Step
        /\ l \in {"inline", "recovery"} \X Runs \X Step
        /\ comp[<<k[2], k[3]>>] # "none" /\ comp[<<l[2], l[3]>>] # "none"
    BY DEF OnceInv, LogInv, TypeOK, RefundsMatchLog
  <2>2. CASE k[2] = l[2]
    <3> DEFINE x == <<k[2], k[3]>>
    <3>1. x \in Rows /\ x[1] = k[2] /\ x[2] = k[3]
      BY <2>1 DEF Rows
    <3>2. Inline(x) /\ ByLoop(x)
      BY <2>1, <2>2 DEF Inline, ByLoop
    <3> QED BY <3>1, <3>2 DEF OnceInv, GivenBackOnce
  <2>3. CASE k[2] # l[2]
    <3>1. k[2] \in Runs /\ l[2] \in Runs /\ k[3] \in Step /\ l[3] \in Step
      BY <2>1
    <3>2. Begun(k[2]) /\ Begun(l[2])
      BY <2>1, <3>1 DEF Begun
    <3> QED BY <2>3, <3>1, <3>2 DEF OnceInv, SecondIsExposed
  <2> QED BY <2>2, <2>3
<1>2. OnceInv /\ [Next]_vars => OnceInv'
  BY LogStep, NoRowBelowStep, GivenBackOnceStep, SecondIsExposedStep DEF OnceInv
<1> QED BY <1>1, <1>2, OnceInit, PTL DEF Spec
=============================================================================
