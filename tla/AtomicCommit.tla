---------------------------- MODULE AtomicCommit ----------------------------
(***************************************************************************)
(* What a cross-bank payment promises ("ili u celosti, ili ne uopste": as  *)
(* a whole or not at all).  The sending bank decides once.  Every party    *)
(* ends once, as the decision says; until a decision a party may only      *)
(* abort, and then the decision cannot be to commit.                       *)
(***************************************************************************)
CONSTANT Parties

VARIABLES decision, outcome

Init ==
    /\ decision = "undecided"
    /\ outcome = [p \in Parties |-> "undecided"]

DecideCommit ==
    /\ decision = "undecided"
    /\ \A p \in Parties : outcome[p] # "aborted"
    /\ decision' = "committed"
    /\ UNCHANGED outcome

DecideAbort ==
    /\ decision = "undecided"
    /\ decision' = "aborted"
    /\ UNCHANGED outcome

Commit(p) ==
    /\ decision = "committed"
    /\ outcome[p] = "undecided"
    /\ outcome' = [outcome EXCEPT ![p] = "committed"]
    /\ UNCHANGED decision

Abort(p) ==
    /\ decision # "committed"
    /\ outcome[p] = "undecided"
    /\ outcome' = [outcome EXCEPT ![p] = "aborted"]
    /\ UNCHANGED decision

Next == DecideCommit \/ DecideAbort \/ \E p \in Parties : Commit(p) \/ Abort(p)

Spec == Init /\ [][Next]_<<decision, outcome>>
=============================================================================
