--------------------------- MODULE MCTransferSaga ---------------------------
(* One transfer, executed by one or two calls. *)
EXTENDS TransferSaga, TLC

CONSTANTS r1, r2

OneRun == {r1}
TwoRuns == {r1, r2}

(* Executions of one transfer are interchangeable. *)
Executions == Permutations(TwoRuns)
=============================================================================
