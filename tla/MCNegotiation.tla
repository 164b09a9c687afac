---------------------------- MODULE MCNegotiation ----------------------------
(* One seller, two bidders, two listings. *)
EXTENDS OtcNegotiation

CONSTANTS b1, b2

(* A closed chain; its terms are gone. *)
Withdrawn == {d \in Bids : chain[d[1]][d[2]].by = None}

(* What disturbs a behaviour: a crash alone, or a failing write together   *)
(* with one of a peer's accept, a counter-offer and a chain closed by its  *)
(* party.                                                                  *)
Disturbances ==
    LET p == IF peer.pc = "idle" THEN 0 ELSE 1
        others == turns + Cardinality(Withdrawn) + p
    IN  others <= 1 /\ (crashes > 0 => dbFails + others = 0)
=============================================================================
