--------------------------- MODULE MCOtcContract ---------------------------
(***************************************************************************)
(* One contract, its accept saga and the calls that exercise it.           *)
(***************************************************************************)
EXTENDS OtcContract, TLC

MCLength == [s \in Sagas |-> IF s = AcceptSaga THEN Len(AcceptSteps) ELSE Len(ExerciseSteps)]
MCNoBackward == {<<AcceptSaga, Len(AcceptSteps)>>}
=============================================================================
