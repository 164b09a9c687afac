---------------------------- MODULE MCInterbankTx ----------------------------
(* One payment under the faults each configuration names. *)
EXTENDS InterbankTx
=============================================================================
