--------------------------- MODULE MCStockOrder ---------------------------
(***************************************************************************)
(* One order with transactions enough for every portion and failed fill.   *)
(***************************************************************************)
EXTENDS StockOrder, TLC

MCLength == [s \in Sagas |-> IF s = Placement THEN FinalizeStep ELSE SharesStep]
MCNoBackward == {<<Placement, FinalizeStep>>} \cup (Txns \X {AuditStep, SharesStep})

(* Two refusals, or one next to a failing Backward or a lost write of the   *)
(* log; a crash comes alone.                                               *)
FewFaults ==
    /\ faults.mark + faults.back + faults.refusal <= 2
    /\ faults.crash = 0 \/ faults.mark + faults.back + faults.refusal = 0

(* Calls that overlap the placement meet no fault. *)
CalledDuringPlacement ==
    /\ ~Settled(Placement)
    /\ order.status \notin {"none", "pending"} \/ \E c \in Callers : call[c].pc # "none"
QuietPlacement == faults = NoFaults \/ ~CalledDuringPlacement

(* A crash, or a lost write of the log, meets a placed order and its fills, *)
(* and nobody calls after it.                                              *)
DisturbedDuringFills ==
    Undisturbed \/ (Settled(Placement) /\ \A c \in Callers : call[c].pc = "none")
=============================================================================
