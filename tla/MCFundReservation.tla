------------------------- MODULE MCFundReservation -------------------------
(***************************************************************************)
(* A client account with two orders on it and the bank's own account with  *)
(* a third, two order_transaction_ids and two idempotency keys.            *)
(***************************************************************************)
EXTENDS FundReservation, TLC

CONSTANTS client, bank, o1, o2, o3

MCAccountOf == (o1 :> client) @@ (o2 :> client) @@ (o3 :> bank)
MCInitialBalance == (client :> 3) @@ (bank :> 2)
MCLimit == [a \in {client, bank} |-> [p \in {"daily"} |-> 3]]

(* Settlement ids are interchangeable, and so are idempotency keys. *)
Symmetry == Permutations(Txns) \cup Permutations(Keys)
=============================================================================
