------------------------------- MODULE MCLoan -------------------------------
(* One request, two clerks that may approve it, two installments. *)
EXTENDS Loan, TLC

CONSTANTS c1, c2

MCLength == [c \in Sagas |-> 3]

Total == faults.crash + faults.refusal + faults.back + faults.mark + dbFails
           + Cardinality(failed \cap applied)

(* At most two faults in a behaviour, of any kind and at any point; nothing *)
(* reads a forward row again, so a row not marked completed comes alone.    *)
FewFaults == Total <= 2 /\ (faults.mark > 0 => Total = 1)
=============================================================================
