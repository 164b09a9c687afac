-------------------------- MODULE MCInterbankHolds --------------------------
(***************************************************************************)
(* One client account with two outgoing holds, an incoming credit and a    *)
(* domestic debit competing for its money.                                 *)
(***************************************************************************)
EXTENDS InterbankHolds, TLC

CONSTANTS client, h1, h2, c1, d1

MCKeyAccount == [k \in {h1, h2, c1, d1} |-> client]
MCKeyAmount == (h1 :> 1) @@ (h2 :> 2) @@ (c1 :> 1) @@ (d1 :> 2)
MCInitialBalance == (client :> 4)
MCLimit == [a \in {client} |-> [p \in {"daily"} |-> 4]]
=============================================================================
