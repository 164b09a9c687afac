---------------------------- MODULE MCHoldings ----------------------------
(***************************************************************************)
(* One holding with a sell order, an OTC contract, a contract sold to a    *)
(* peer's client and one bought from a peer's client on it, a credit that  *)
(* may be reversed and an exercised option; and one fund holding.          *)
(***************************************************************************)
EXTENDS PeerOption, TLC

CONSTANTS h1, f1, p1, p2, x1, c1, e1

MCInitialQuantity == (h1 :> 2) @@ (f1 :> 1)
MCTxOf == p1 :> x1
MCHoldingOf == (p1 :> h1) @@ (p2 :> h1)

(* The two contracts meet only in the holding's quantity: one at a time,   *)
(* and the buyer's next to the sell order alone.                           *)
OneContract ==
    contract[p2] = "none" \/ (contract[p1] = "none" /\ res[x1] = NoRow /\ res[c1] = NoRow)

(* Likewise the exercised option, which is met by the sell order and the   *)
(* contract sold, not by the OTC contract, the bought one or a credit.     *)
OneTaker ==
    sold[e1] = NoCredit
        \/ (res[c1] = NoRow /\ contract[p2] = "none" /\ \A k \in Credits : credit[k] = NoCredit)

(* Fills are interchangeable. *)
Symmetry == Permutations(Txns)
=============================================================================
