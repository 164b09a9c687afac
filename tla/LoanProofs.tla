----------------------------- MODULE LoanProofs -----------------------------
(***************************************************************************)
(* Proofs about Loan, for any number of clerks approving the request at    *)
(* once, any number of installments, rates and faults of every kind.       *)
(***************************************************************************)
EXTENDS Loan, FiniteSetTheorems, TLAPS

-----------------------------------------------------------------------------
(* The invariant *)

LoanRow == [status : {"none", "approved", "active", "disbursement_failed"}, base : Nat]
Inst == [status : {"none", "unpaid", "paid", "overdue"}, rate : Nat]
AllKeys == Clerks \X (0..Months) \X (Legs \cup {"debit", "debit-comp", "credit", "credit-comp"})
Positions == {"idle", "record", "call", "mark", "undo", "back", "unmark", "return"}
Working == Legs \cup {"paid", "penalty"}

LoanRun ==
    [pc : Positions, at : 0..3, done : SUBSET (1..3), error : BOOLEAN, row : {None}]

RunsTyped ==
    /\ run \in [Clerks -> LoanRun]
    /\ fwd \in [Clerks -> [1..3 -> SUBSET {"pending", "completed", "failed", "dead_letter"}]]
    /\ comp \in [Clerks -> [1..3 -> {"none", "compensating", "compensated", "dead_letter"}]]
    /\ retry \in [Clerks -> 0..MaxRetries]
    /\ faults \in [crash : Nat, refusal : Nat, back : Nat, mark : Nat]

RowsTyped ==
    /\ request \in {"none", "pending", "approved", "rejected"} /\ variable \in BOOLEAN
    /\ clerk \in [Clerks -> {"idle", "checked", "disbursing", "done"}]
    /\ loan \in [Clerks -> LoanRow]
    /\ inst \in [Clerks -> [Month -> Inst]]
    /\ applied \subseteq AllKeys /\ failed \subseteq AllKeys
    /\ tries \in [Clerks -> [1..3 -> 0..MaxRetries]] /\ ticking \subseteq Clerks \X (1..3)
    /\ dbFails \in 0..MaxDbFails

JobsTyped ==
    /\ past \in 0..Months
    /\ cron \in [pc : Working \cup {"idle", "list", "next"}, todo : SUBSET (Clerks \X Month),
                 at : {None} \cup (Clerks \X Month), copy : LoanRow]
    /\ rates \in [pc : {"idle", "save"}, todo : {{}}, at : {None} \cup Clerks, copy : LoanRow]
    /\ tried \in [Clerks -> [Month -> Nat]]

(* One loan per approved request, and none before a clerk's transaction. *)
Approvals ==
    /\ request # "approved" => \A c \in Clerks : ~Exists(c)
    /\ request = "approved" => \E c \in Clerks : \A d \in Clerks : Exists(d) <=> d = c
    /\ \A c \in Clerks : /\ clerk[c] \in {"idle", "checked"} => ~Exists(c)
                         /\ clerk[c] = "disbursing" => loan[c].status \in {"approved", "active"}

(* Where a disbursement stands: going forward it has done the steps before *)
(* the one it is at, going back those up to it.                            *)
AtStep(c) ==
    LET r == run[c] IN
    /\ (clerk[c] = "disbursing") = (r.pc # "idle")
    /\ r.pc = "idle" => r.done = {}
    /\ r.pc \in {"record", "call", "mark"} =>
          r.at \in 1..3 /\ r.done = 1..(r.at - 1) /\ ~r.error
    /\ r.pc = "return" => r.done = 1..3 /\ ~r.error
    /\ r.pc = "undo" => r.error /\ \E m \in 0..2 : r.done = 1..m
    /\ r.pc \in {"back", "unmark"} => r.error /\ r.at \in 1..2 /\ r.done = 1..r.at

(* What leg i of a disbursement has moved and what its row says. *)
LegOf(c, i) ==
    LET r == run[c]
        taken == ForwardKey(c, i) \in applied
        back == BackwardKey(c, i) \in applied IN
    /\ back => comp[c][i] # "none"
    /\ comp[c][i] # "none" => taken /\ (r.error \/ clerk[c] = "done") /\ loan[c].status # "active"
    /\ comp[c][i] = "compensated" => back
    /\ i \in r.done => taken
    /\ clerk[c] \in {"idle", "checked"} => ~taken
    /\ clerk[c] = "disbursing" /\ ~r.error /\ taken => i \in r.done \/ (r.pc = "mark" /\ r.at = i)
    /\ r.pc = "mark" /\ r.at = i => taken
    /\ r.pc \in {"back", "unmark"} /\ r.at = i => comp[c][i] # "none"
    /\ r.pc = "unmark" /\ r.at = i => back
    /\ r.error \/ loan[c].status = "disbursement_failed" =>
          (taken => i \in r.done \/ back \/ comp[c][i] \in {"compensating", "dead_letter"}
                    \/ ForwardKey(c, i) \in failed)
    /\ loan[c].status = "active" => taken

(* The status of a loan follows its disbursement; the last step has no     *)
(* compensation, and the recovery tick works on rows that exist.           *)
DisbursementOf(c) ==
    /\ AtStep(c) /\ LegOf(c, 1) /\ LegOf(c, 2) /\ comp[c][3] = "none"
    /\ clerk[c] = "disbursing" =>
          (loan[c].status = "active") =
             ((run[c].pc = "mark" /\ run[c].at = 3) \/ run[c].pc = "return")

Disbursements ==
    /\ \A c \in Clerks : DisbursementOf(c)
    /\ \A x \in ticking : comp[x[1]][x[2]] # "none"

(* The collection job works on loans whose disbursement is over, so the    *)
(* copy it keeps has the status of the row; and it attempts an installment *)
(* that is not paid, each once.                                            *)
Jobs ==
    /\ past > 0 => request = "approved" /\ \A c \in Clerks : clerk[c] # "disbursing"
    /\ cron.todo # {} \/ cron.pc \in Working => past > 0
    /\ \A x \in cron.todo : inst[x[1]][x[2]].status \notin {"none", "paid"}
    /\ cron.pc \in Working =>
          /\ cron.at \in (Clerks \X Month) \ cron.todo
          /\ inst[cron.at[1]][cron.at[2]].status \notin {"none", "paid"}
          /\ cron.copy.status = loan[cron.at[1]].status
    /\ rates.pc = "save" =>
          /\ rates.at \in Clerks
          /\ rates.copy.status = "active" /\ loan[rates.at].status = "active"

InAttempt(c, i, pcs) == cron.at = <<c, i>> /\ cron.pc \in pcs

Reversals == {"debit-compensate", "bank-credit-compensate", "debit-compensate-2"}

(* What the attempts at an installment have moved. *)
InstallmentOf(c, i) ==
    /\ ~Exists(c) => inst[c][i].status = "none"
    /\ inst[c][i].status = "unpaid" => inst[c][i].rate = loan[c].base
    /\ tried[c][i] = 0 => \A leg \in Legs : ~Moved(c, i, leg)
    /\ inst[c][i].status = "paid" => Moved(c, i, "debit") /\ Moved(c, i, "bank-credit")
    /\ InAttempt(c, i, Working) => tried[c][i] > 0
    /\ InAttempt(c, i, {"bank-credit", "paid"}) => Moved(c, i, "debit")
    /\ InAttempt(c, i, {"paid"}) => Moved(c, i, "bank-credit")
    /\ /\ tried[c][i] = 1
       /\ inst[c][i].status = "paid" \/ InAttempt(c, i, {"debit", "bank-credit", "paid"})
       => \A leg \in Reversals : ~Moved(c, i, leg)
    /\ inst[c][i].status # "paid" /\ Moved(c, i, "debit") /\ faults.crash = 0 =>
          \/ GivenBack(c, i)
          \/ \E leg \in {"debit", "debit-compensate", "debit-compensate-2"} : <<c, i, leg>> \in failed
          \/ InAttempt(c, i, {"bank-credit", "paid"} \cup Reversals)

Installments == \A c \in Clerks, i \in Month : InstallmentOf(c, i)

LoanInv ==
    /\ RunsTyped /\ RowsTyped /\ JobsTyped
    /\ Approvals
    /\ Disbursements
    /\ Jobs
    /\ Installments

Typed == RunsTyped /\ RowsTyped /\ JobsTyped

-----------------------------------------------------------------------------
(* Types *)

(* Three steps; the retry count of the log is not used here. *)
LEMMA ThreeSteps ==
    /\ \A c \in Clerks : Steps(c) = 1..3 /\ Length[c] = 3
    /\ Months \in Nat \ {0} /\ Rates \subseteq Nat /\ MaxLost \in Nat /\ MaxDbFails \in Nat
    /\ MaxRetries \in Nat
BY SagaAssumption, LoanAssumption DEF Steps, Clerks

(* Keys are of their kind. *)
LEMMA KeyTypes ==
    /\ \A c \in Clerks, i \in 1..3 : ForwardKey(c, i) \in AllKeys /\ BackwardKey(c, i) \in AllKeys
    /\ \A c \in Clerks, i \in Month, leg \in Legs : <<c, i, leg>> \in AllKeys
BY ThreeSteps DEF ForwardKey, BackwardKey, AllKeys, Month

(* The step the rollback undoes next is the last one done. *)
LEMMA LastStep ==
    ASSUME NEW c, NEW m \in 1..3, run[c].done = 1..m
    PROVE  Last(c) = m
<1>1. m \in 1..m /\ \A y \in 1..m : m >= y
  OBVIOUS
<1>2. Last(c) = CHOOSE x \in 1..m : \A y \in 1..m : x >= y
  BY DEF Last, Max
<1>3. Last(c) \in 1..m /\ \A y \in 1..m : Last(c) >= y
  BY <1>1, <1>2
<1> QED BY <1>1, <1>3

(* A run that moves on is a run. *)
LEMMA RunMoves ==
    ASSUME NEW r \in LoanRun, NEW p \in Positions
    PROVE  /\ [r EXCEPT !.pc = p] \in LoanRun
           /\ [r EXCEPT !.pc = p, !.error = TRUE] \in LoanRun
           /\ \A n \in 0..3 : [r EXCEPT !.pc = p, !.at = n] \in LoanRun
           /\ \A D \in SUBSET (1..3) : [r EXCEPT !.pc = p, !.done = D] \in LoanRun
           /\ \A n \in 0..3, D \in SUBSET (1..3) :
                 [r EXCEPT !.pc = p, !.at = n, !.done = D] \in LoanRun
<1>1. \A n \in 0..3 : [r EXCEPT !.pc = p, !.at = n] \in LoanRun
  BY DEF LoanRun
<1>2. \A D \in SUBSET (1..3) : [r EXCEPT !.pc = p, !.done = D] \in LoanRun
  BY DEF LoanRun
<1>3. \A n \in 0..3, D \in SUBSET (1..3) : [r EXCEPT !.pc = p, !.at = n, !.done = D] \in LoanRun
  BY DEF LoanRun
<1>4. [r EXCEPT !.pc = p] \in LoanRun /\ [r EXCEPT !.pc = p, !.error = TRUE] \in LoanRun
  BY DEF LoanRun
<1> QED BY <1>1, <1>2, <1>3, <1>4

LEMMA IdleRun == Idle \in LoanRun /\ [Idle EXCEPT !.pc = "record", !.at = 1] \in LoanRun
<1>1. {} \in SUBSET (1..3) /\ 0 \in 0..3 /\ 1 \in 0..3 /\ "idle" \in Positions /\ "record" \in Positions
  BY DEF Positions
<1>2. PICK D : D = {}
  OBVIOUS
<1>3. [pc |-> "idle", at |-> 0, done |-> D, error |-> FALSE, row |-> None] \in LoanRun
  BY <1>1, <1>2 DEF LoanRun
<1>4. Idle \in LoanRun
  BY <1>2, <1>3 DEF Idle
<1> QED BY <1>1, <1>4, RunMoves

(* An executor step that leaves the rows of credit-service alone. *)
LEMMA ExecutorTypes ==
    ASSUME RunsTyped, NEW c \in Clerks, DisbursementOf(c)
    PROVE  /\ RecordForward(c) => RunsTyped'
           /\ MarkCompleted(c) => RunsTyped'
           /\ MarkCompletedFails(c) => RunsTyped'
           /\ RecordCompensation(c) => RunsTyped'
           /\ MarkCompensated(c) => RunsTyped'
           /\ Return(c) => RunsTyped'
           /\ BackwardDone(c) => RunsTyped'
           /\ ForwardDone(c) => RunsTyped'
           /\ Execute(c) => RunsTyped'
<1>0. run[c] \in LoanRun /\ run[c].done \in SUBSET (1..3)
  BY DEF RunsTyped, LoanRun
<1>p. {"idle", "record", "call", "mark", "undo", "back", "unmark", "return"} \subseteq Positions
  BY DEF Positions
<1>1. ASSUME RecordForward(c) \/ BackwardDone(c) \/ ForwardDone(c) \/ Execute(c) PROVE RunsTyped'
  <2>1. PICK n \in LoanRun : run' = [run EXCEPT ![c] = n]
    <3>1. [run[c] EXCEPT !.pc = "call"] \in LoanRun /\ [run[c] EXCEPT !.pc = "mark"] \in LoanRun
          /\ [run[c] EXCEPT !.pc = "unmark"] \in LoanRun
      BY <1>0, <1>p, RunMoves
    <3> QED BY <1>1, <3>1, IdleRun DEF RecordForward, BackwardDone, ForwardDone, Execute
  <2>2. UNCHANGED <<fwd, comp, retry, faults>>
    BY <1>1 DEF RecordForward, BackwardDone, ForwardDone, Execute
  <2> QED BY <2>1, <2>2 DEF RunsTyped
<1>2. ASSUME MarkCompleted(c) \/ MarkCompletedFails(c) PROVE RunsTyped'
  <2>1. run[c].at \in 1..3
    BY <1>2 DEF MarkCompleted, MarkCompletedFails, DisbursementOf, AtStep
  <2>2. PICK D \in SUBSET (1..3) : D = run[c].done \cup {run[c].at}
    BY <1>0, <2>1
  <2>3. PICK p \in Positions, a \in 0..3 :
           p = (IF run[c].at = 3 THEN "return" ELSE "record")
           /\ a = (IF run[c].at = 3 THEN 0 ELSE run[c].at + 1)
    BY <1>p, <2>1
  <2>4. run' = [run EXCEPT ![c] = [run[c] EXCEPT !.pc = p, !.at = a, !.done = D]]
    BY <1>2, <2>2, <2>3, ThreeSteps DEF MarkCompleted, MarkCompletedFails, Advance
  <2>5. [run[c] EXCEPT !.pc = p, !.at = a, !.done = D] \in LoanRun
    BY <1>0, RunMoves
  <2>6. faults' \in [crash : Nat, refusal : Nat, back : Nat, mark : Nat]
    BY <1>2 DEF MarkCompleted, MarkCompletedFails, RunsTyped
  <2>7. fwd' \in [Clerks -> [1..3 -> SUBSET {"pending", "completed", "failed", "dead_letter"}]]
    <3>1. PICK v \in SUBSET {"pending", "completed", "failed", "dead_letter"} :
             fwd' = [fwd EXCEPT ![c][run[c].at] = v]
      <4> DEFINE old == fwd[c][run[c].at]
      <4>1. old \in SUBSET {"pending", "completed", "failed", "dead_letter"}
        BY <2>1 DEF RunsTyped
      <4>2. fwd' = [fwd EXCEPT ![c][run[c].at] = old \cup {"completed"}]
            \/ fwd' = [fwd EXCEPT ![c][run[c].at] = old \cup {"pending"}]
        BY <1>2 DEF MarkCompleted, MarkCompletedFails
      <4> HIDE DEF old
      <4> QED BY <4>1, <4>2
    <3> QED BY <2>1, <3>1 DEF RunsTyped
  <2>8. UNCHANGED <<comp, retry>>
    BY <1>2 DEF MarkCompleted, MarkCompletedFails
  <2>9. run' \in [Clerks -> LoanRun]
    BY <2>4, <2>5 DEF RunsTyped
  <2> QED BY <2>6, <2>7, <2>8, <2>9 DEF RunsTyped
<1>4. ASSUME RecordCompensation(c) PROVE RunsTyped'
  <2>1. PICK m \in 1..3 : run[c].done = 1..m
    BY <1>4 DEF RecordCompensation, DisbursementOf, AtStep
  <2>2. Last(c) = m
    BY <2>1, LastStep
  <2>3. [run[c] EXCEPT !.pc = "back", !.at = m] \in LoanRun
    <3>1. m \in 0..3 /\ "back" \in Positions
      BY <1>p
    <3> QED BY <1>0, <3>1, RunMoves
  <2>4. run' = [run EXCEPT ![c] = [run[c] EXCEPT !.pc = "back", !.at = m]]
    BY <1>4, <2>2 DEF RecordCompensation, RunsTyped
  <2>5. comp' \in [Clerks -> [1..3 -> {"none", "compensating", "compensated", "dead_letter"}]]
    BY <1>4, <2>2 DEF RecordCompensation, RunsTyped
  <2>6. run' \in [Clerks -> LoanRun]
    BY <2>3, <2>4 DEF RunsTyped
  <2> QED BY <1>4, <2>5, <2>6 DEF RecordCompensation, RunsTyped
<1>5. ASSUME MarkCompensated(c) PROVE RunsTyped'
  <2>1. run[c].at \in 1..3
    BY <1>5 DEF MarkCompensated, DisbursementOf, AtStep
  <2>2. PICK D \in SUBSET (1..3) : D = run[c].done \ {run[c].at}
    BY <1>0
  <2>3. [run[c] EXCEPT !.pc = "undo", !.done = D] \in LoanRun
    BY <1>0, <1>p, RunMoves
  <2>4. run' = [run EXCEPT ![c] = [run[c] EXCEPT !.pc = "undo", !.done = D]]
    BY <1>5, <2>2 DEF MarkCompensated, RunsTyped
  <2>5. comp' \in [Clerks -> [1..3 -> {"none", "compensating", "compensated", "dead_letter"}]]
    BY <1>5, <2>1 DEF MarkCompensated, RunsTyped
  <2>6. run' \in [Clerks -> LoanRun]
    BY <2>3, <2>4 DEF RunsTyped
  <2> QED BY <1>5, <2>5, <2>6 DEF MarkCompensated, RunsTyped
<1>6. ASSUME Return(c) PROVE RunsTyped'
  <2>1. run[c].row = None
    BY <1>0 DEF LoanRun
  <2>2. UNCHANGED <<fwd, comp, faults>> /\ run' = [run EXCEPT ![c] = Idle]
        /\ retry' = [retry EXCEPT ![c] = @]
    BY <1>6, <2>1 DEF Return
  <2> QED BY <2>2, IdleRun DEF RunsTyped
<1> QED BY <1>1, <1>2, <1>4, <1>5, <1>6

-----------------------------------------------------------------------------
(* What steps leave alone *)

OwnKeys(c) == {ForwardKey(c, 1), ForwardKey(c, 2), BackwardKey(c, 1), BackwardKey(c, 2)}

(* Keys of different loans, legs and installments differ. *)
LEMMA KeysApart ==
    /\ \A c, d \in Clerks, i, j \in 1..2 :
          /\ ForwardKey(c, i) = ForwardKey(d, j) => c = d /\ i = j
          /\ BackwardKey(c, i) = BackwardKey(d, j) => c = d /\ i = j
          /\ ForwardKey(c, i) # BackwardKey(d, j)
    /\ \A c, d \in Clerks, i \in 1..2, n \in Month : \A leg :
          <<d, n, leg>> # ForwardKey(c, i) /\ <<d, n, leg>> # BackwardKey(c, i)
BY ThreeSteps DEF ForwardKey, BackwardKey, Month

(* A disbursement nobody touches stands where it stood. *)
LEMMA SameDisbursement ==
    ASSUME NEW c \in Clerks, DisbursementOf(c),
           run'[c] = run[c], comp'[c] = comp[c], clerk'[c] = clerk[c],
           loan'[c].status = loan[c].status,
           \A i \in 1..2 : /\ (ForwardKey(c, i) \in applied') = (ForwardKey(c, i) \in applied)
                           /\ (BackwardKey(c, i) \in applied') = (BackwardKey(c, i) \in applied)
                           /\ ForwardKey(c, i) \in failed => ForwardKey(c, i) \in failed'
    PROVE  DisbursementOf(c)'
<1>1. AtStep(c)'
  BY DEF DisbursementOf, AtStep
<1>2. LegOf(c, 1)'
  <2>1. /\ (ForwardKey(c, 1) \in applied') = (ForwardKey(c, 1) \in applied)
        /\ (BackwardKey(c, 1) \in applied') = (BackwardKey(c, 1) \in applied)
        /\ ForwardKey(c, 1) \in failed => ForwardKey(c, 1) \in failed'
    OBVIOUS
  <2> QED BY <2>1 DEF DisbursementOf, LegOf
<1>3. LegOf(c, 2)'
  <2>1. /\ (ForwardKey(c, 2) \in applied') = (ForwardKey(c, 2) \in applied)
        /\ (BackwardKey(c, 2) \in applied') = (BackwardKey(c, 2) \in applied)
        /\ ForwardKey(c, 2) \in failed => ForwardKey(c, 2) \in failed'
    OBVIOUS
  <2> QED BY <2>1 DEF DisbursementOf, LegOf
<1> QED BY <1>1, <1>2, <1>3 DEF DisbursementOf

(* An installment nobody works on, before and after the step, is as it was. *)
LEMMA SameInstallment ==
    ASSUME NEW c \in Clerks, NEW i \in Month, InstallmentOf(c, i),
           inst'[c][i] = inst[c][i], loan'[c].base = loan[c].base, Exists(c)' = Exists(c),
           tried'[c][i] = tried[c][i],
           \A leg \in Legs : (<<c, i, leg>> \in applied') = (<<c, i, leg>> \in applied),
           failed \subseteq failed', faults'.crash = 0 => faults.crash = 0,
           \/ cron'.pc = cron.pc /\ cron'.at = cron.at
           \/ ~InAttempt(c, i, Working) /\ ~InAttempt(c, i, Working)'
    PROVE  InstallmentOf(c, i)'
<1>1. \A leg \in Legs : Moved(c, i, leg)' = Moved(c, i, leg)
  BY DEF Moved
<1>2. GivenBack(c, i)' = GivenBack(c, i)
  BY <1>1 DEF GivenBack, Legs
<1>3. Reversals \subseteq Legs /\ "debit" \in Legs /\ "bank-credit" \in Legs
  BY DEF Reversals, Legs
<1>4. Exists(c)' = Exists(c)
  OBVIOUS
<1>5. CASE cron'.pc = cron.pc /\ cron'.at = cron.at
  BY <1>1, <1>2, <1>3, <1>4, <1>5 DEF InstallmentOf, InAttempt
<1>6. CASE ~InAttempt(c, i, Working) /\ ~InAttempt(c, i, Working)'
  <2>1. \A P \in SUBSET Working : ~InAttempt(c, i, P) /\ ~InAttempt(c, i, P)'
    BY <1>6 DEF InAttempt
  <2>2. {"bank-credit", "paid"} \cup Reversals \in SUBSET Working /\ {"bank-credit", "paid"} \in SUBSET Working
        /\ {"paid"} \in SUBSET Working /\ {"debit", "bank-credit", "paid"} \in SUBSET Working
        /\ Working \in SUBSET Working
    BY <1>3 DEF Working
  <2>3. /\ ~InAttempt(c, i, {"bank-credit", "paid"} \cup Reversals)
        /\ ~InAttempt(c, i, {"bank-credit", "paid"})' /\ ~InAttempt(c, i, {"paid"})'
        /\ ~InAttempt(c, i, {"debit", "bank-credit", "paid"})' /\ ~InAttempt(c, i, Working)'
    BY <2>1, <2>2
  <2> QED BY <1>1, <1>2, <1>3, <1>4, <2>3 DEF InstallmentOf
<1> QED BY <1>5, <1>6

(* A step of one disbursement: it alone has its run, its rows, its keys    *)
(* and the status of its loan, which no job has copied while it runs.      *)
LEMMA SavingFrame ==
    ASSUME LoanInv, NEW c \in Clerks, Typed', DisbursementOf(c)',
           \A d \in Clerks \ {c} : /\ run'[d] = run[d] /\ comp'[d] = comp[d]
                                   /\ loan'[d] = loan[d] /\ clerk'[d] = clerk[d],
           \A i \in 1..3 : comp[c][i] # "none" => comp'[c][i] # "none",
           loan'[c].base = loan[c].base, Exists(c)' = Exists(c),
           clerk[c] = "disbursing", clerk'[c] \in {"disbursing", "done"},
           clerk'[c] = "disbursing" => loan'[c].status \in {"approved", "active"},
           loan[c].status = "active" => loan'[c].status = "active",
           UNCHANGED <<request, inst, past, cron, rates, tried>>,
           ticking' \subseteq ticking,
           applied \subseteq applied', applied' \subseteq applied \cup OwnKeys(c),
           failed \subseteq failed', faults'.crash = faults.crash
    PROVE  LoanInv'
<1>1. Approvals'
  <2>1. \A d \in Clerks : Exists(d)' = Exists(d)
    BY DEF Exists
  <2>2. \A d \in Clerks : /\ clerk'[d] \in {"idle", "checked"} => clerk[d] \in {"idle", "checked"}
                          /\ clerk'[d] = "disbursing" => loan'[d].status \in {"approved", "active"}
    BY DEF LoanInv, Approvals
  <2> QED BY <2>1, <2>2 DEF LoanInv, Approvals
<1>2. past = 0 /\ cron.todo = {} /\ cron.pc \notin Working
  BY ThreeSteps DEF LoanInv, Jobs, JobsTyped
<1>3. Jobs'
  <2>1. rates.pc = "save" => /\ rates.at \in Clerks /\ rates.copy.status = "active"
                             /\ loan'[rates.at].status = "active"
    BY DEF LoanInv, Jobs
  <2> QED BY <1>2, <2>1 DEF Jobs
<1>4. ASSUME NEW d \in Clerks \ {c} PROVE DisbursementOf(d)'
  <2>1. \A i \in 1..2 : ForwardKey(d, i) \notin OwnKeys(c) /\ BackwardKey(d, i) \notin OwnKeys(c)
    BY KeysApart DEF OwnKeys
  <2>2. DisbursementOf(d)
    BY DEF LoanInv, Disbursements
  <2> QED BY <2>1, <2>2, SameDisbursement
<1>5. \A x \in ticking' : comp'[x[1]][x[2]] # "none"
  <2> SUFFICES ASSUME NEW x \in ticking PROVE comp'[x[1]][x[2]] # "none"
    OBVIOUS
  <2>1. x[1] \in Clerks /\ x[2] \in 1..3 /\ comp[x[1]][x[2]] # "none"
    BY DEF LoanInv, RowsTyped, Disbursements
  <2> QED BY <2>1
<1>6. Disbursements'
  BY <1>4, <1>5 DEF Disbursements
<1>7. Installments'
  <2> SUFFICES ASSUME NEW d \in Clerks, NEW i \in Month PROVE InstallmentOf(d, i)'
    BY DEF Installments
  <2>1. \A leg \in Legs : <<d, i, leg>> \notin OwnKeys(c)
    BY KeysApart DEF OwnKeys
  <2>2. InstallmentOf(d, i)
    BY DEF LoanInv, Installments
  <2>3. Exists(d)' = Exists(d) /\ loan'[d].base = loan[d].base
    BY DEF Exists
  <2> QED BY <2>1, <2>2, <2>3, SameInstallment
<1> QED BY <1>1, <1>3, <1>6, <1>7 DEF LoanInv, Typed

(* The same for a step that leaves the loan row as it is. *)
LEMMA DisburseFrame ==
    ASSUME LoanInv, NEW c \in Clerks, Typed', DisbursementOf(c)', clerk[c] = "disbursing",
           \A d \in Clerks \ {c} : run'[d] = run[d] /\ comp'[d] = comp[d],
           \A i \in 1..3 : comp[c][i] # "none" => comp'[c][i] # "none",
           UNCHANGED <<request, clerk, loan, inst, past, cron, rates, tried>>,
           ticking' \subseteq ticking,
           applied \subseteq applied', applied' \subseteq applied \cup OwnKeys(c),
           failed \subseteq failed', faults'.crash = faults.crash
    PROVE  LoanInv'
<1>1. loan[c].status \in {"approved", "active"}
  BY DEF LoanInv, Approvals
<1>2. Exists(c)' = Exists(c)
  BY DEF Exists
<1> QED BY <1>1, <1>2, SavingFrame

-----------------------------------------------------------------------------
(* Disburse *)

(* Both legs at once. *)
LEMMA Legs12 ==
    ASSUME NEW c \in Clerks
    PROVE  DisbursementOf(c) <=>
              /\ AtStep(c) /\ (\A i \in 1..2 : LegOf(c, i)) /\ comp[c][3] = "none"
              /\ clerk[c] = "disbursing" =>
                    (loan[c].status = "active") =
                       ((run[c].pc = "mark" /\ run[c].at = 3) \/ run[c].pc = "return")
<1>1. \A i \in 1..2 : i = 1 \/ i = 2
  OBVIOUS
<1>2. (\A i \in 1..2 : LegOf(c, i)) <=> LegOf(c, 1) /\ LegOf(c, 2)
  BY <1>1
<1> QED BY <1>2 DEF DisbursementOf

(* Steps that move no money: the next step begins, or its row is written. *)
LEMMA RecordForwardStep ==
    ASSUME LoanInv, NEW c \in Clerks, RecordForward(c),
           UNCHANGED <<loanRows, money, recovery, cronVars, rates, dbFails>>
    PROVE  LoanInv'
<1>0. DisbursementOf(c) /\ RunsTyped /\ run[c] \in LoanRun
  BY DEF LoanInv, Disbursements, RunsTyped
<1>1. run[c].pc = "record" /\ run' = [run EXCEPT ![c].pc = "call"] /\ UNCHANGED <<fwd, comp, retry, faults>>
  BY DEF RecordForward
<1>2. /\ run'[c].pc = "call" /\ run'[c].at = run[c].at /\ run'[c].done = run[c].done
      /\ run'[c].error = run[c].error /\ \A d \in Clerks \ {c} : run'[d] = run[d]
  BY <1>0, <1>1 DEF RunsTyped, LoanRun
<1>3. /\ clerk' = clerk /\ loan' = loan /\ applied' = applied /\ failed' = failed
      /\ UNCHANGED <<request, variable, inst, past, cron, rates, tried, tries, ticking, dbFails>>
  BY DEF loanRows, money, recovery, cronVars
<1>4. Typed'
  <2>1. RunsTyped'
    BY <1>0, ExecutorTypes
  <2> QED BY <1>3, <2>1 DEF LoanInv, Typed, RowsTyped, JobsTyped
<1>5. AtStep(c)'
  BY <1>0, <1>1, <1>2, <1>3 DEF DisbursementOf, AtStep
<1>6. ASSUME NEW i \in 1..2 PROVE LegOf(c, i)'
  <2>1. LegOf(c, i)
    BY <1>0, Legs12
  <2> QED BY <1>1, <1>2, <1>3, <2>1 DEF LegOf
<1>8. clerk[c] = "disbursing"
  BY <1>0, <1>1 DEF DisbursementOf, AtStep
<1>7. DisbursementOf(c)'
  <2>1. clerk'[c] = "disbursing" =>
          (loan'[c].status = "active") = ((run'[c].pc = "mark" /\ run'[c].at = 3) \/ run'[c].pc = "return")
    BY <1>0, <1>1, <1>2, <1>3 DEF DisbursementOf
  <2> QED BY <1>0, <1>1, <1>5, <1>6, <2>1, Legs12 DEF DisbursementOf
<1> QED BY <1>1, <1>2, <1>3, <1>4, <1>7, <1>8, DisburseFrame

LEMMA MarkCompletedStep ==
    ASSUME LoanInv, NEW c \in Clerks, MarkCompleted(c) \/ MarkCompletedFails(c),
           UNCHANGED <<loanRows, money, recovery, cronVars, rates, dbFails>>
    PROVE  LoanInv'
<1>0. DisbursementOf(c) /\ RunsTyped /\ run[c] \in LoanRun
  BY DEF LoanInv, Disbursements, RunsTyped
<1>1. /\ run[c].pc = "mark" /\ UNCHANGED <<comp, retry>> /\ faults'.crash = faults.crash
      /\ Advance(c, run[c].at, run[c].done \cup {run[c].at})
  BY <1>0 DEF MarkCompleted, MarkCompletedFails, RunsTyped
<1>2. run[c].at \in 1..3 /\ run[c].done = 1..(run[c].at - 1) /\ ~run[c].error /\ clerk[c] = "disbursing"
  BY <1>0, <1>1 DEF DisbursementOf, AtStep
<1>3. /\ run'[c].pc = (IF run[c].at = 3 THEN "return" ELSE "record")
      /\ run'[c].at = (IF run[c].at = 3 THEN 0 ELSE run[c].at + 1)
      /\ run'[c].done = run[c].done \cup {run[c].at}
      /\ run'[c].error = run[c].error /\ \A d \in Clerks \ {c} : run'[d] = run[d]
  BY <1>0, <1>1, ThreeSteps DEF RunsTyped, LoanRun, Advance
<1>4. run'[c].done = 1..run[c].at
  BY <1>2, <1>3
<1>5. /\ clerk' = clerk /\ loan' = loan /\ applied' = applied /\ failed' = failed
      /\ UNCHANGED <<request, variable, inst, past, cron, rates, tried, tries, ticking, dbFails>>
  BY DEF loanRows, money, recovery, cronVars
<1>6. Typed'
  <2>1. RunsTyped'
    BY <1>0, ExecutorTypes
  <2> QED BY <1>5, <2>1 DEF LoanInv, Typed, RowsTyped, JobsTyped
<1>7. AtStep(c)'
  BY <1>2, <1>3, <1>4, <1>5 DEF AtStep
<1>8. ASSUME NEW i \in 1..2 PROVE LegOf(c, i)'
  <2>1. LegOf(c, i)
    BY <1>0, Legs12
  <2>2. i \in run'[c].done <=> i \in run[c].done \/ run[c].at = i
    BY <1>3
  <2> QED BY <1>1, <1>2, <1>3, <1>5, <2>1, <2>2 DEF LegOf
<1>9. DisbursementOf(c)'
  <2>1. (loan'[c].status = "active") = ((run'[c].pc = "mark" /\ run'[c].at = 3) \/ run'[c].pc = "return")
    BY <1>0, <1>1, <1>2, <1>3, <1>5 DEF DisbursementOf
  <2> QED BY <1>0, <1>1, <1>7, <1>8, <2>1 DEF DisbursementOf
<1> QED BY <1>1, <1>2, <1>3, <1>5, <1>6, <1>9, DisburseFrame

LEMMA RecordCompensationStep ==
    ASSUME LoanInv, NEW c \in Clerks, RecordCompensation(c),
           UNCHANGED <<loanRows, money, recovery, cronVars, rates, dbFails>>
    PROVE  LoanInv'
<1>0. DisbursementOf(c) /\ RunsTyped /\ run[c] \in LoanRun
  BY DEF LoanInv, Disbursements, RunsTyped
<1>1. /\ run[c].pc = "undo" /\ run[c].done # {} /\ UNCHANGED <<fwd, retry, faults>>
      /\ run' = [run EXCEPT ![c].pc = "back", ![c].at = Last(c)]
      /\ comp' = [comp EXCEPT ![c][Last(c)] = IF @ = "none" THEN "compensating" ELSE @]
  BY DEF RecordCompensation
<1>2. PICK m \in 1..2 : run[c].done = 1..m /\ Last(c) = m
  <2>1. PICK m \in 0..2 : run[c].done = 1..m
    BY <1>0, <1>1 DEF DisbursementOf, AtStep
  <2>2. m \in 1..2 /\ m \in 1..3
    BY <1>1, <2>1
  <2> QED BY <2>1, <2>2, LastStep
<1>3. run[c].error /\ clerk[c] = "disbursing"
  BY <1>0, <1>1 DEF DisbursementOf, AtStep
<1>4. /\ run'[c].pc = "back" /\ run'[c].at = m /\ run'[c].done = run[c].done
      /\ run'[c].error = run[c].error /\ \A d \in Clerks \ {c} : run'[d] = run[d]
  BY <1>0, <1>1, <1>2 DEF RunsTyped, LoanRun
<1>5. /\ \A d \in Clerks \ {c} : comp'[d] = comp[d]
      /\ \A j \in (1..3) \ {m} : comp'[c][j] = comp[c][j]
      /\ comp'[c][m] = (IF comp[c][m] = "none" THEN "compensating" ELSE comp[c][m])
  BY <1>0, <1>1, <1>2 DEF RunsTyped
<1>6. /\ clerk' = clerk /\ loan' = loan /\ applied' = applied /\ failed' = failed
      /\ UNCHANGED <<request, variable, inst, past, cron, rates, tried, tries, ticking, dbFails>>
  BY DEF loanRows, money, recovery, cronVars
<1>7. Typed'
  <2>1. RunsTyped'
    BY <1>0, ExecutorTypes
  <2> QED BY <1>6, <2>1 DEF LoanInv, Typed, RowsTyped, JobsTyped
<1>8. AtStep(c)'
  BY <1>2, <1>3, <1>4, <1>6 DEF AtStep
<1>9. loan[c].status # "active"
  BY <1>0, <1>1, <1>3 DEF DisbursementOf
<1>10. ASSUME NEW i \in 1..2 PROVE LegOf(c, i)'
  <2>1. LegOf(c, i)
    BY <1>0, Legs12
  <2>2. i \in run[c].done => ForwardKey(c, i) \in applied
    BY <2>1 DEF LegOf
  <2>3. CASE i = m
    <3>1. /\ comp'[c][i] # "none" /\ (comp'[c][i] = "compensated" => comp[c][i] = "compensated")
          /\ i \in run[c].done /\ ForwardKey(c, i) \in applied
      BY <1>2, <1>5, <2>2, <2>3
    <3> QED BY <1>3, <1>4, <1>6, <1>9, <2>1, <3>1 DEF LegOf
  <2>4. CASE i # m
    <3>1. comp'[c][i] = comp[c][i] /\ run'[c].at # i /\ run[c].pc = "undo"
      BY <1>1, <1>4, <1>5, <2>4
    <3> QED BY <1>3, <1>4, <1>6, <2>1, <3>1 DEF LegOf
  <2> QED BY <2>3, <2>4
<1>11. DisbursementOf(c)'
  BY <1>0, <1>2, <1>4, <1>5, <1>6, <1>8, <1>9, <1>10 DEF DisbursementOf
<1>12. \A i \in 1..3 : comp[c][i] # "none" => comp'[c][i] # "none"
  BY <1>5
<1> QED BY <1>1, <1>3, <1>4, <1>5, <1>6, <1>7, <1>11, <1>12, DisburseFrame

LEMMA MarkCompensatedStep ==
    ASSUME LoanInv, NEW c \in Clerks, MarkCompensated(c),
           UNCHANGED <<loanRows, money, recovery, cronVars, rates, dbFails>>
    PROVE  LoanInv'
<1>0. DisbursementOf(c) /\ RunsTyped /\ run[c] \in LoanRun
  BY DEF LoanInv, Disbursements, RunsTyped
<1>1. /\ run[c].pc = "unmark" /\ UNCHANGED <<fwd, retry, faults>>
      /\ comp' = [comp EXCEPT ![c][run[c].at] = "compensated"]
      /\ run' = [run EXCEPT ![c].pc = "undo", ![c].done = @ \ {run[c].at}]
  BY DEF MarkCompensated
<1>2. run[c].at \in 1..2 /\ run[c].done = 1..run[c].at /\ run[c].error /\ clerk[c] = "disbursing"
  BY <1>0, <1>1 DEF DisbursementOf, AtStep
<1>3. PICK m \in 1..2 : m = run[c].at
  BY <1>2
<1>4. /\ run'[c].pc = "undo" /\ run'[c].at = m /\ run'[c].done = run[c].done \ {m}
      /\ run'[c].error = run[c].error /\ \A d \in Clerks \ {c} : run'[d] = run[d]
  BY <1>0, <1>1, <1>3 DEF RunsTyped, LoanRun
<1>5. /\ \A d \in Clerks \ {c} : comp'[d] = comp[d]
      /\ \A j \in (1..3) \ {m} : comp'[c][j] = comp[c][j]
      /\ comp'[c][m] = "compensated"
  BY <1>0, <1>1, <1>3 DEF RunsTyped
<1>6. /\ clerk' = clerk /\ loan' = loan /\ applied' = applied /\ failed' = failed
      /\ UNCHANGED <<request, variable, inst, past, cron, rates, tried, tries, ticking, dbFails>>
  BY DEF loanRows, money, recovery, cronVars
<1>7. Typed'
  <2>1. RunsTyped'
    BY <1>0, ExecutorTypes
  <2> QED BY <1>6, <2>1 DEF LoanInv, Typed, RowsTyped, JobsTyped
<1>8. run'[c].done = 1..(m - 1) /\ m - 1 \in 0..2
  BY <1>2, <1>3, <1>4
<1>9. AtStep(c)'
  BY <1>2, <1>4, <1>6, <1>8 DEF AtStep
<1>10. ASSUME NEW i \in 1..2 PROVE LegOf(c, i)'
  <2>1. LegOf(c, i)
    BY <1>0, Legs12
  <2>2. CASE i = m
    <3>1. BackwardKey(c, i) \in applied /\ comp[c][i] # "none"
      BY <1>1, <1>3, <2>1, <2>2 DEF LegOf
    <3> QED BY <1>1, <1>2, <1>3, <1>4, <1>5, <1>6, <2>1, <2>2, <3>1 DEF LegOf
  <2>3. CASE i # m
    <3>1. (i \in run'[c].done <=> i \in run[c].done) /\ comp'[c][i] = comp[c][i]
      BY <1>4, <1>5, <2>3
    <3> QED BY <1>2, <1>4, <1>6, <2>1, <3>1 DEF LegOf
  <2> QED BY <2>2, <2>3
<1>11. DisbursementOf(c)'
  BY <1>0, <1>1, <1>2, <1>3, <1>4, <1>5, <1>6, <1>9, <1>10 DEF DisbursementOf
<1>12. \A i \in 1..3 : comp[c][i] # "none" => comp'[c][i] # "none"
  BY <1>5
<1> QED BY <1>1, <1>2, <1>4, <1>5, <1>6, <1>7, <1>11, <1>12, DisburseFrame

(* Forward of a money step, or of the last one. *)
LEMMA ForwardStep ==
    ASSUME LoanInv, NEW c \in Clerks, Forward(c)
    PROVE  LoanInv'
<1>0. DisbursementOf(c) /\ RunsTyped /\ run[c] \in LoanRun /\ RowsTyped
  BY DEF LoanInv, Disbursements, RunsTyped
<1>1. /\ run[c].pc = "call" /\ run' = [run EXCEPT ![c].pc = "mark"]
      /\ UNCHANGED <<fwd, comp, retry, faults>>
      /\ UNCHANGED <<request, variable, clerk, inst, tries, ticking, past, cron, tried, rates, dbFails>>
  BY DEF Forward, ForwardDone, recovery, cronVars
<1>2. PICK m \in 1..3 : m = run[c].at /\ run[c].done = 1..(m - 1) /\ ~run[c].error /\ clerk[c] = "disbursing"
  BY <1>0, <1>1 DEF DisbursementOf, AtStep
<1>3. /\ run'[c].pc = "mark" /\ run'[c].at = m /\ run'[c].done = run[c].done
      /\ run'[c].error = run[c].error /\ \A d \in Clerks \ {c} : run'[d] = run[d]
  BY <1>0, <1>1, <1>2 DEF RunsTyped, LoanRun
<1>4. RunsTyped'
  BY <1>0, ExecutorTypes DEF Forward
<1>5. AtStep(c)'
  BY <1>1, <1>2, <1>3 DEF AtStep
<1>6. loan[c].status = "approved"
  BY <1>0, <1>1, <1>2 DEF LoanInv, Approvals, DisbursementOf
<1>7. CASE m < 3
  <2>1. applied' = applied \cup {ForwardKey(c, m)} /\ UNCHANGED <<failed, loan>>
    BY <1>2, <1>7 DEF Forward, Applies
  <2>2. Typed'
    BY <1>1, <1>4, <2>1, KeyTypes DEF LoanInv, Typed, RowsTyped, JobsTyped
  <2>3. m \in 1..2
    BY <1>7
  <2>4. ASSUME NEW i \in 1..2 PROVE LegOf(c, i)'
    <3>1. LegOf(c, i)
      BY <1>0, Legs12
    <3>2. /\ ForwardKey(c, i) \in applied' <=> ForwardKey(c, i) \in applied \/ i = m
          /\ BackwardKey(c, i) \in applied' <=> BackwardKey(c, i) \in applied
      BY <2>1, <2>3, KeysApart
    <3>3. run[c].pc = "call" /\ clerk' = clerk /\ comp' = comp
      BY <1>1
    <3> QED BY <1>2, <1>3, <1>6, <2>1, <3>1, <3>2, <3>3 DEF LegOf
  <2>5. DisbursementOf(c)'
    BY <1>0, <1>1, <1>3, <1>5, <1>6, <1>7, <2>1, <2>4 DEF DisbursementOf
  <2>6. applied' \subseteq applied \cup OwnKeys(c)
    BY <2>1, <2>3 DEF OwnKeys
  <2> QED BY <1>1, <1>2, <1>3, <2>1, <2>2, <2>5, <2>6, DisburseFrame
<1>8. CASE m = 3
  <2>1. loan' = [loan EXCEPT ![c] = [loan[c] EXCEPT !.status = "active"]] /\ UNCHANGED <<applied, failed>>
    BY <1>2, <1>8 DEF Forward, Save, money
  <2>2. /\ loan'[c].status = "active" /\ loan'[c].base = loan[c].base
        /\ \A d \in Clerks \ {c} : loan'[d] = loan[d]
    BY <1>0, <2>1 DEF RowsTyped, LoanRow
  <2>3. Typed'
    <3>1. loan' \in [Clerks -> LoanRow]
      BY <1>0, <2>1 DEF RowsTyped, LoanRow
    <3> QED BY <1>1, <1>4, <2>1, <3>1 DEF LoanInv, Typed, RowsTyped, JobsTyped
  <2>4. ASSUME NEW i \in 1..2 PROVE LegOf(c, i)'
    <3>1. LegOf(c, i)
      BY <1>0, Legs12
    <3>2. i \in run[c].done
      BY <1>2, <1>8
    <3>3. run[c].pc = "call" /\ clerk' = clerk /\ comp' = comp
      BY <1>1
    <3>4. comp[c][i] = "none"
      BY <1>2, <3>1 DEF LegOf
    <3> QED BY <1>2, <1>3, <1>8, <2>1, <2>2, <3>1, <3>2, <3>3, <3>4 DEF LegOf
  <2>5. DisbursementOf(c)'
    BY <1>0, <1>1, <1>3, <1>5, <1>8, <2>2, <2>4 DEF DisbursementOf
  <2>6. Exists(c)' = Exists(c)
    BY <1>6, <2>2 DEF Exists
  <2> QED BY <1>1, <1>2, <1>3, <2>1, <2>2, <2>3, <2>5, <2>6, SavingFrame
<1> QED BY <1>7, <1>8

(* A step that failed: refused, or carried out with its answer lost. *)
LEMMA ForwardFailsStep ==
    ASSUME LoanInv, NEW c \in Clerks, ForwardFails(c)
    PROVE  LoanInv'
<1>0. DisbursementOf(c) /\ RunsTyped /\ run[c] \in LoanRun /\ RowsTyped
  BY DEF LoanInv, Disbursements, RunsTyped
<1>1. /\ run[c].pc = "call" /\ run' = [run EXCEPT ![c].pc = "undo", ![c].error = TRUE]
      /\ fwd' = [fwd EXCEPT ![c][run[c].at] = @ \cup {"failed"}] /\ UNCHANGED <<comp, retry>>
      /\ UNCHANGED <<request, variable, clerk, loan, inst, tries, ticking, past, cron, tried, rates>>
  BY DEF ForwardFails, ForwardFailed, recovery, cronVars, loanRows
<1>2. PICK m \in 1..3 : m = run[c].at /\ run[c].done = 1..(m - 1) /\ ~run[c].error /\ clerk[c] = "disbursing"
  BY <1>0, <1>1 DEF DisbursementOf, AtStep
<1>3. /\ run'[c].pc = "undo" /\ run'[c].at = m /\ run'[c].done = run[c].done
      /\ run'[c].error = TRUE /\ \A d \in Clerks \ {c} : run'[d] = run[d]
  BY <1>0, <1>1, <1>2 DEF RunsTyped, LoanRun
<1>4. /\ faults' \in [crash : Nat, refusal : Nat, back : Nat, mark : Nat] /\ faults'.crash = faults.crash
  BY <1>0 DEF ForwardFails, RunsTyped
<1>5. /\ \/ m < 3 /\ applied' = applied /\ failed' = failed \cup {ForwardKey(c, m)}
         \/ m < 3 /\ applied' = applied \cup {ForwardKey(c, m)} /\ failed' = failed \cup {ForwardKey(c, m)}
         \/ m = 3 /\ applied' = applied /\ failed' = failed
      /\ dbFails' \in 0..MaxDbFails
  BY <1>0, <1>2, ThreeSteps DEF ForwardFails, Refuses, Loses, money, DbFails, RowsTyped
<1>6. RunsTyped'
  <2>1. run' \in [Clerks -> LoanRun]
    <3>1. "undo" \in Positions
      BY DEF Positions
    <3>2. [run[c] EXCEPT !.pc = "undo", !.error = TRUE] \in LoanRun
      BY <1>0, <3>1, RunMoves
    <3>3. run' = [run EXCEPT ![c] = [run[c] EXCEPT !.pc = "undo", !.error = TRUE]]
      BY <1>0, <1>1 DEF RunsTyped
    <3> QED BY <1>0, <3>2, <3>3 DEF RunsTyped
  <2>2. fwd' \in [Clerks -> [1..3 -> SUBSET {"pending", "completed", "failed", "dead_letter"}]]
    <3> DEFINE old == fwd[c][run[c].at]
    <3>1. old \in SUBSET {"pending", "completed", "failed", "dead_letter"}
      BY <1>0, <1>2 DEF RunsTyped
    <3>2. PICK v \in SUBSET {"pending", "completed", "failed", "dead_letter"} : v = old \cup {"failed"}
      BY <3>1
    <3>3. fwd' = [fwd EXCEPT ![c][m] = v]
      BY <1>1, <1>2, <3>2
    <3> QED BY <1>0, <3>3 DEF RunsTyped
  <2> QED BY <1>0, <1>1, <1>4, <2>1, <2>2 DEF RunsTyped
<1>7. Typed'
  <2>1. applied' \subseteq AllKeys /\ failed' \subseteq AllKeys
    BY <1>0, <1>5, KeyTypes DEF RowsTyped
  <2> QED BY <1>1, <1>5, <1>6, <2>1 DEF LoanInv, Typed, RowsTyped, JobsTyped
<1>8. AtStep(c)'
  <2>1. m - 1 \in 0..2
    OBVIOUS
  <2> QED BY <1>1, <1>2, <1>3, <2>1 DEF AtStep
<1>9. loan[c].status = "approved"
  BY <1>0, <1>1, <1>2 DEF LoanInv, Approvals, DisbursementOf
<1>10. ASSUME NEW i \in 1..2 PROVE LegOf(c, i)'
  <2>1. LegOf(c, i)
    BY <1>0, Legs12
  <2>2. /\ ForwardKey(c, i) \in applied => ForwardKey(c, i) \in applied'
        /\ ForwardKey(c, i) \in applied' => ForwardKey(c, i) \in applied \/ ForwardKey(c, i) \in failed'
        /\ BackwardKey(c, i) \in applied' <=> BackwardKey(c, i) \in applied
    <3>1. m < 3 => m \in 1..2
      OBVIOUS
    <3> QED BY <1>5, <3>1, KeysApart
  <2>3. /\ run[c].pc = "call" /\ clerk' = clerk /\ comp' = comp /\ loan' = loan
    BY <1>1
  <2> QED BY <1>2, <1>3, <1>9, <2>1, <2>2, <2>3 DEF LegOf
<1>11. DisbursementOf(c)'
  BY <1>0, <1>1, <1>3, <1>8, <1>9, <1>10 DEF DisbursementOf
<1>12. applied \subseteq applied' /\ applied' \subseteq applied \cup OwnKeys(c) /\ failed \subseteq failed'
  <2>1. m < 3 => ForwardKey(c, m) \in OwnKeys(c)
    BY DEF OwnKeys
  <2> QED BY <1>5, <2>1
<1> QED BY <1>1, <1>2, <1>3, <1>4, <1>7, <1>11, <1>12, DisburseFrame

LEMMA BackwardStep ==
    ASSUME LoanInv, NEW c \in Clerks, Backward(c)
    PROVE  LoanInv'
<1>0. DisbursementOf(c) /\ RunsTyped /\ run[c] \in LoanRun /\ RowsTyped
  BY DEF LoanInv, Disbursements, RunsTyped
<1>1. /\ run[c].pc = "back" /\ run' = [run EXCEPT ![c].pc = "unmark"]
      /\ UNCHANGED <<fwd, comp, retry, faults, failed>>
      /\ UNCHANGED <<request, variable, clerk, loan, inst, tries, ticking, past, cron, tried, rates, dbFails>>
  BY DEF Backward, BackwardDone, Applies, recovery, cronVars, loanRows
<1>2. PICK m \in 1..2 : m = run[c].at /\ run[c].done = 1..m /\ run[c].error /\ clerk[c] = "disbursing"
  BY <1>0, <1>1 DEF DisbursementOf, AtStep
<1>3. /\ run'[c].pc = "unmark" /\ run'[c].at = m /\ run'[c].done = run[c].done
      /\ run'[c].error = run[c].error /\ \A d \in Clerks \ {c} : run'[d] = run[d]
  BY <1>0, <1>1, <1>2 DEF RunsTyped, LoanRun
<1>4. applied' = applied \cup {BackwardKey(c, m)}
  BY <1>2 DEF Backward, Applies
<1>5. Typed'
  <2>1. RunsTyped'
    BY <1>0, ExecutorTypes DEF Backward
  <2> QED BY <1>1, <1>4, <2>1, KeyTypes DEF LoanInv, Typed, RowsTyped, JobsTyped
<1>6. AtStep(c)'
  BY <1>1, <1>2, <1>3 DEF AtStep
<1>7. ASSUME NEW i \in 1..2 PROVE LegOf(c, i)'
  <2>1. LegOf(c, i)
    BY <1>0, Legs12
  <2>2. /\ BackwardKey(c, i) \in applied' <=> BackwardKey(c, i) \in applied \/ i = m
        /\ ForwardKey(c, i) \in applied' <=> ForwardKey(c, i) \in applied
    BY <1>4, KeysApart
  <2>3. /\ run[c].pc = "back" /\ clerk' = clerk /\ comp' = comp /\ loan' = loan /\ failed' = failed
    BY <1>1
  <2> QED BY <1>2, <1>3, <2>1, <2>2, <2>3 DEF LegOf
<1>8. DisbursementOf(c)'
  BY <1>0, <1>1, <1>3, <1>6, <1>7 DEF DisbursementOf
<1>9. applied' \subseteq applied \cup OwnKeys(c)
  BY <1>4 DEF OwnKeys
<1> QED BY <1>1, <1>2, <1>3, <1>4, <1>5, <1>8, <1>9, DisburseFrame

(* A compensation that failed leaves its row for the recovery tick. *)
LEMMA BackwardFailsStep ==
    ASSUME LoanInv, NEW c \in Clerks, BackwardFails(c)
    PROVE  LoanInv'
<1>0. DisbursementOf(c) /\ RunsTyped /\ run[c] \in LoanRun /\ RowsTyped
  BY DEF LoanInv, Disbursements, RunsTyped
<1>1. /\ run[c].pc = "back" /\ faults' = [faults EXCEPT !.back = @ + 1]
      /\ run' = [run EXCEPT ![c].pc = "undo", ![c].done = @ \ {run[c].at}]
      /\ UNCHANGED <<fwd, comp, retry>>
      /\ UNCHANGED <<request, variable, clerk, loan, inst, tries, ticking, past, cron, tried, rates, dbFails>>
  BY DEF BackwardFails, recovery, cronVars, loanRows
<1>2. PICK m \in 1..2 : m = run[c].at /\ run[c].done = 1..m /\ run[c].error /\ clerk[c] = "disbursing"
  BY <1>0, <1>1 DEF DisbursementOf, AtStep
<1>3. /\ run'[c].pc = "undo" /\ run'[c].at = m /\ run'[c].done = run[c].done \ {m}
      /\ run'[c].error = run[c].error /\ \A d \in Clerks \ {c} : run'[d] = run[d]
  BY <1>0, <1>1, <1>2 DEF RunsTyped, LoanRun
<1>4. /\ applied' = applied \/ applied' = applied \cup {BackwardKey(c, m)}
      /\ failed' = failed \cup {BackwardKey(c, m)}
  BY <1>2 DEF BackwardFails, Refuses, Loses
<1>5. Typed'
  <2>1. run' \in [Clerks -> LoanRun]
    <3>1. "undo" \in Positions
      BY DEF Positions
    <3>2. PICK D \in SUBSET (1..3) : D = run[c].done \ {run[c].at}
      BY <1>0 DEF LoanRun
    <3>3. [run[c] EXCEPT !.pc = "undo", !.done = D] \in LoanRun
      BY <1>0, <3>1, RunMoves
    <3>4. run' = [run EXCEPT ![c] = [run[c] EXCEPT !.pc = "undo", !.done = D]]
      BY <1>0, <1>1, <3>2 DEF RunsTyped
    <3> QED BY <1>0, <3>3, <3>4 DEF RunsTyped
  <2>2. faults' \in [crash : Nat, refusal : Nat, back : Nat, mark : Nat]
    BY <1>0, <1>1 DEF RunsTyped
  <2>3. applied' \subseteq AllKeys /\ failed' \subseteq AllKeys
    BY <1>0, <1>4, KeyTypes DEF RowsTyped
  <2> QED BY <1>0, <1>1, <2>1, <2>2, <2>3 DEF LoanInv, Typed, RunsTyped, RowsTyped,
        JobsTyped
<1>6. run'[c].done = 1..(m - 1) /\ m - 1 \in 0..2
  BY <1>2, <1>3
<1>7. AtStep(c)'
  BY <1>1, <1>2, <1>3, <1>6 DEF AtStep
<1>8. ASSUME NEW i \in 1..2 PROVE LegOf(c, i)'
  <2>1. LegOf(c, i)
    BY <1>0, Legs12
  <2>2. /\ BackwardKey(c, i) \in applied => BackwardKey(c, i) \in applied'
        /\ BackwardKey(c, i) \in applied' => BackwardKey(c, i) \in applied \/ i = m
        /\ ForwardKey(c, i) \in applied' <=> ForwardKey(c, i) \in applied
        /\ ForwardKey(c, i) \in failed => ForwardKey(c, i) \in failed'
    BY <1>4, KeysApart
  <2>3. /\ run[c].pc = "back" /\ clerk' = clerk /\ comp' = comp /\ loan' = loan
    BY <1>1
  <2>4. CASE i = m
    <3>1. comp[c][i] # "none" /\ comp[c][i] \in {"none", "compensating", "compensated", "dead_letter"}
      BY <1>0, <1>2, <2>1, <2>3, <2>4 DEF LegOf, RunsTyped
    <3> QED BY <1>2, <1>3, <2>1, <2>2, <2>3, <2>4, <3>1 DEF LegOf
  <2>5. CASE i # m
    <3>1. i \in run'[c].done <=> i \in run[c].done
      BY <1>3, <2>5
    <3> QED BY <1>2, <1>3, <2>1, <2>2, <2>3, <2>5, <3>1 DEF LegOf
  <2> QED BY <2>4, <2>5
<1>9. DisbursementOf(c)'
  BY <1>0, <1>1, <1>3, <1>7, <1>8 DEF DisbursementOf
<1>10. /\ applied \subseteq applied' /\ applied' \subseteq applied \cup OwnKeys(c)
       /\ failed \subseteq failed' /\ faults'.crash = faults.crash
  BY <1>0, <1>1, <1>4 DEF OwnKeys, RunsTyped
<1> QED BY <1>1, <1>2, <1>3, <1>5, <1>9, <1>10, DisburseFrame

(* Disburse returns: a failed one flags the loan, if it can. *)
LEMMA ReturnStep ==
    ASSUME LoanInv, NEW c \in Clerks, DisburseReturns(c)
    PROVE  LoanInv'
<1>0. DisbursementOf(c) /\ RunsTyped /\ run[c] \in LoanRun /\ RowsTyped
  BY DEF LoanInv, Disbursements, RunsTyped
<1>1. /\ run[c].pc = "return" \/ (run[c].pc = "undo" /\ run[c].done = {})
      /\ run' = [run EXCEPT ![c] = Idle] /\ clerk' = [clerk EXCEPT ![c] = "done"]
      /\ UNCHANGED <<fwd, comp, faults>>
      /\ UNCHANGED <<request, variable, inst, applied, failed, tries, ticking, past, cron, tried, rates>>
  <2>1. run[c].row = None
    BY <1>0 DEF LoanRun
  <2> QED BY <2>1 DEF DisburseReturns, Return, recovery, cronVars, money
<1>2. /\ clerk[c] = "disbursing" /\ (run[c].pc = "return" => ~run[c].error)
      /\ (run[c].pc = "undo" => run[c].error)
  BY <1>0, <1>1 DEF DisbursementOf, AtStep
<1>3. /\ run'[c].pc = "idle" /\ run'[c].done = {} /\ run'[c].error = FALSE
      /\ clerk'[c] = "done"
      /\ \A d \in Clerks \ {c} : run'[d] = run[d] /\ clerk'[d] = clerk[d]
  BY <1>0, <1>1 DEF RunsTyped, RowsTyped, Idle
<1>4. loan[c].status = IF run[c].pc = "return" THEN "active" ELSE "approved"
  BY <1>0, <1>1, <1>2 DEF LoanInv, Approvals, DisbursementOf
<1>5. /\ loan'[c].base = loan[c].base /\ (\A d \in Clerks \ {c} : loan'[d] = loan[d])
      /\ run[c].pc = "return" => loan'[c].status = "active"
      /\ run[c].pc = "undo" => loan'[c].status \in {"approved", "disbursement_failed"}
      /\ loan' \in [Clerks -> LoanRow] /\ dbFails' \in 0..MaxDbFails
  <2>1. \/ UNCHANGED loan
        \/ run[c].error /\ loan' = [loan EXCEPT ![c] = [loan[c] EXCEPT !.status = "disbursement_failed"]]
    BY DEF DisburseReturns, Save
  <2>2. dbFails' \in 0..MaxDbFails
    BY <1>0, ThreeSteps DEF DisburseReturns, DbFails, RowsTyped
  <2>3. CASE UNCHANGED loan
    BY <1>0, <1>4, <2>2, <2>3 DEF RowsTyped
  <2>4. CASE run[c].error /\ loan' = [loan EXCEPT ![c] = [loan[c] EXCEPT !.status = "disbursement_failed"]]
    BY <1>0, <1>2, <2>2, <2>4 DEF RowsTyped, LoanRow
  <2> QED BY <2>1, <2>3, <2>4
<1>6. Typed'
  <2>1. RunsTyped'
    BY <1>0, ExecutorTypes DEF DisburseReturns
  <2>2. clerk' \in [Clerks -> {"idle", "checked", "disbursing", "done"}]
    BY <1>0, <1>1 DEF RowsTyped
  <2> QED BY <1>1, <1>5, <2>1, <2>2 DEF LoanInv, Typed, RowsTyped, JobsTyped
<1>7. AtStep(c)'
  BY <1>3 DEF AtStep
<1>8. ASSUME NEW i \in 1..2 PROVE LegOf(c, i)'
  <2>1. LegOf(c, i)
    BY <1>0, Legs12
  <2>2. comp' = comp /\ applied' = applied /\ failed' = failed
    BY <1>1
  <2>3. CASE run[c].pc = "return"
    <3>1. i \in run[c].done
      BY <1>0, <2>3 DEF DisbursementOf, AtStep
    <3>2. comp[c][i] = "none" /\ ForwardKey(c, i) \in applied
      BY <1>2, <2>1, <2>3, <3>1 DEF LegOf
    <3> QED BY <1>3, <1>5, <2>1, <2>2, <2>3, <3>2 DEF LegOf
  <2>4. CASE run[c].pc = "undo" /\ run[c].done = {}
    BY <1>2, <1>3, <1>5, <2>1, <2>2, <2>4 DEF LegOf
  <2> QED BY <1>1, <2>3, <2>4
<1>9. DisbursementOf(c)'
  BY <1>0, <1>1, <1>3, <1>7, <1>8 DEF DisbursementOf
<1>10. Exists(c)' = Exists(c)
  BY <1>1, <1>4, <1>5 DEF Exists
<1>11. loan[c].status = "active" => loan'[c].status = "active"
  BY <1>1, <1>4, <1>5
<1> QED BY <1>1, <1>2, <1>3, <1>5, <1>6, <1>9, <1>10, <1>11, SavingFrame

LEMMA DisburseKeeps ==
    ASSUME LoanInv, NEW c \in Clerks, Disburse(c)
    PROVE  LoanInv'
BY RecordForwardStep, MarkCompletedStep, RecordCompensationStep, MarkCompensatedStep,
      ForwardStep,
   ForwardFailsStep, BackwardStep, BackwardFailsStep, ReturnStep DEF Disburse, ExecutorStep

-----------------------------------------------------------------------------
(* Requests *)

(* A step that leaves runs, rows, keys and jobs alone. *)
LEMMA QuietFrame ==
    ASSUME LoanInv, Typed', Approvals', Jobs', faults'.crash = faults.crash,
           \A c \in Clerks :
               /\ run'[c] = run[c] /\ comp'[c] = comp[c]
               /\ (clerk'[c] = clerk[c] \/ (clerk[c] \in {"idle", "checked"}
                                            /\ clerk'[c] \in {"checked", "done"})),
           ticking' \subseteq ticking \cup Compensating,
           UNCHANGED <<loan, inst, applied, failed, tried>>,
           \/ cron'.pc = cron.pc /\ cron'.at = cron.at
           \/ cron.pc \notin Working /\ cron'.pc \notin Working
    PROVE  LoanInv'
<1>1. ASSUME NEW c \in Clerks PROVE DisbursementOf(c)'
  <2>0. DisbursementOf(c)
    BY DEF LoanInv, Disbursements
  <2>1. CASE clerk'[c] = clerk[c]
    BY <2>0, <2>1, SameDisbursement
  <2>2. CASE clerk[c] \in {"idle", "checked"} /\ clerk'[c] \in {"checked", "done"}
    <3>1. run[c].pc = "idle" /\ run[c].done = {} /\ AtStep(c)'
      BY <2>0, <2>2 DEF DisbursementOf, AtStep
    <3>2. ASSUME NEW i \in 1..2 PROVE LegOf(c, i)'
      <4>1. LegOf(c, i)
        BY <2>0, Legs12
      <4>2. ForwardKey(c, i) \notin applied /\ comp[c][i] = "none" /\ BackwardKey(c, i) \notin applied
        BY <2>2, <4>1 DEF LegOf
      <4>3. loan[c].status = "none"
        BY <2>2 DEF LoanInv, Approvals, Exists
      <4> QED BY <2>2, <3>1, <4>2, <4>3 DEF LegOf
    <3> QED BY <2>0, <2>2, <3>1, <3>2 DEF DisbursementOf
  <2> QED BY <2>1, <2>2
<1>2. ASSUME NEW x \in ticking' PROVE comp'[x[1]][x[2]] # "none"
  <2>1. x[1] \in Clerks /\ comp[x[1]][x[2]] # "none"
    BY DEF LoanInv, RowsTyped, Disbursements, Compensating
  <2> QED BY <2>1
<1>3. ASSUME NEW c \in Clerks, NEW i \in Month PROVE InstallmentOf(c, i)'
  <2>1. InstallmentOf(c, i)
    BY DEF LoanInv, Installments
  <2>2. \/ cron'.pc = cron.pc /\ cron'.at = cron.at
        \/ ~InAttempt(c, i, Working) /\ ~InAttempt(c, i, Working)'
    BY DEF InAttempt
  <2>3. Exists(c)' = Exists(c)
    BY DEF Exists
  <2> QED BY <2>1, <2>2, <2>3, SameInstallment
<1> QED BY <1>1, <1>2, <1>3 DEF LoanInv, Typed, Disbursements, Installments

(* A request is filed or rejected, or a clerk looks at it. *)
LEMMA RequestSteps ==
    ASSUME LoanInv, CreateLoanRequest \/ RejectLoanRequest \/ \E c \in Clerks : PreCheck(c)
    PROVE  LoanInv'
<1>1. /\ UNCHANGED <<run, fwd, comp, retry, faults, loan, inst, applied, failed, tries, ticking>>
      /\ UNCHANGED <<past, cron, tried, rates, dbFails>>
  BY DEF CreateLoanRequest, RejectLoanRequest, PreCheck, sagaVars, money, recovery,
        cronVars
<1>2. /\ request # "approved" /\ request' \in {"pending", "rejected"} /\ variable' \in BOOLEAN
      /\ \/ UNCHANGED clerk
         \/ \E c \in Clerks : clerk[c] = "idle" /\ clerk' = [clerk EXCEPT ![c] = "checked"]
  BY DEF CreateLoanRequest, RejectLoanRequest, PreCheck, LoanInv, RowsTyped
<1>3. /\ clerk' \in [Clerks -> {"idle", "checked", "disbursing", "done"}]
      /\ \A d \in Clerks : clerk'[d] = clerk[d] \/ (clerk[d] = "idle" /\ clerk'[d] = "checked")
  BY <1>2 DEF LoanInv, RowsTyped
<1>4. Typed'
  BY <1>1, <1>2, <1>3 DEF LoanInv, Typed, RunsTyped, RowsTyped, JobsTyped
<1>5. \A d \in Clerks : ~Exists(d) /\ ~Exists(d)'
  BY <1>1, <1>2 DEF LoanInv, Approvals, Exists
<1>6. Approvals'
  BY <1>1, <1>2, <1>3, <1>5 DEF LoanInv, Approvals
<1>7. past = 0 /\ cron.todo = {} /\ cron.pc \notin Working
  BY <1>2, ThreeSteps DEF LoanInv, Jobs, JobsTyped
<1>8. Jobs'
  BY <1>1, <1>7 DEF LoanInv, Jobs
<1> QED BY <1>1, <1>3, <1>4, <1>6, <1>8, QuietFrame

(* A clerk who finds the request taken, under the lock, creates nothing. *)
LEMMA ApproveTxLate ==
    ASSUME LoanInv, NEW c \in Clerks, ApproveTx(c), request # "pending"
    PROVE  LoanInv'
<1>1. /\ UNCHANGED <<run, fwd, comp, retry, faults, loan, inst, applied, failed, tries, ticking>>
      /\ UNCHANGED <<past, cron, tried, rates, dbFails, request, variable>>
      /\ clerk[c] = "checked" /\ clerk' = [clerk EXCEPT ![c] = "done"]
  BY DEF ApproveTx, sagaVars, money, recovery, cronVars
<1>2. /\ clerk' \in [Clerks -> {"idle", "checked", "disbursing", "done"}]
      /\ \A d \in Clerks : clerk'[d] = clerk[d] \/ (clerk[d] = "checked" /\ clerk'[d] = "done")
  BY <1>1 DEF LoanInv, RowsTyped
<1>3. Typed'
  BY <1>1, <1>2 DEF LoanInv, Typed, RunsTyped, RowsTyped, JobsTyped
<1>4. Approvals'
  BY <1>1, <1>2 DEF LoanInv, Approvals, Exists
<1>5. Jobs'
  BY <1>1, <1>2 DEF LoanInv, Jobs
<1> QED BY <1>1, <1>2, <1>3, <1>4, <1>5, QuietFrame

(* The transaction that creates the loan starts its disbursement. *)
LEMMA CreateLoanStep ==
    ASSUME LoanInv, NEW c \in Clerks, ApproveTx(c), request = "pending"
    PROVE  LoanInv'
<1>0. DisbursementOf(c) /\ RunsTyped /\ RowsTyped /\ clerk[c] = "checked"
  BY DEF LoanInv, Disbursements, ApproveTx
<1>1. PICK base \in Rates : CreateLoan(c, base)
  BY DEF ApproveTx
<1>2. /\ UNCHANGED <<fwd, comp, retry, faults, applied, failed, tries, ticking>>
      /\ UNCHANGED <<past, cron, tried, rates, dbFails, variable>>
      /\ request' = "approved" /\ base \in Nat
  BY <1>1, ThreeSteps DEF ApproveTx, CreateLoan, Execute, money, recovery, cronVars
<1>3. /\ loan'[c].status = "approved" /\ loan'[c].base = base /\ clerk'[c] = "disbursing"
      /\ \A d \in Clerks \ {c} : loan'[d] = loan[d] /\ inst'[d] = inst[d] /\ clerk'[d] = clerk[d]
      /\ loan' \in [Clerks -> LoanRow]
      /\ clerk' \in [Clerks -> {"idle", "checked", "disbursing", "done"}]
  BY <1>0, <1>1, <1>2 DEF CreateLoan, RowsTyped, LoanRow
<1>4. /\ \A i \in Month : inst'[c][i].status = "unpaid" /\ inst'[c][i].rate = base
      /\ inst' \in [Clerks -> [Month -> Inst]]
  BY <1>0, <1>1, <1>2 DEF CreateLoan, RowsTyped, Inst
<1>5. /\ run'[c].pc = "record" /\ run'[c].at = 1 /\ run'[c].done = {} /\ run'[c].error = FALSE
      /\ \A d \in Clerks \ {c} : run'[d] = run[d]
  BY <1>0, <1>1 DEF CreateLoan, Execute, Idle, RunsTyped
<1>6. Typed'
  <2>1. RunsTyped'
    BY <1>0, <1>1, ExecutorTypes DEF CreateLoan
  <2> QED BY <1>2, <1>3, <1>4, <2>1 DEF LoanInv, Typed, RowsTyped, JobsTyped
<1>7. \A d \in Clerks : ~Exists(d)
  BY DEF LoanInv, Approvals
<1>8. \A d \in Clerks : Exists(d)' <=> d = c
  <2>1. Exists(c)'
    BY <1>3 DEF Exists
  <2>2. \A d \in Clerks \ {c} : Exists(d)' = Exists(d)
    BY <1>3 DEF Exists
  <2> QED BY <1>7, <2>1, <2>2
<1>9. Approvals'
  <2>1. \A d \in Clerks : /\ clerk'[d] \in {"idle", "checked"} => ~Exists(d)'
                          /\ clerk'[d] = "disbursing" => loan'[d].status \in {"approved", "active"}
    <3>1. ASSUME NEW d \in Clerks \ {c} PROVE clerk'[d] = "disbursing" => loan'[d].status \in {"approved", "active"}
      BY <1>3 DEF LoanInv, Approvals
    <3> QED BY <1>3, <1>8, <3>1
  <2> QED BY <1>2, <1>8, <2>1 DEF Approvals
<1>10. past = 0 /\ cron.todo = {} /\ cron.pc \notin Working /\ rates.pc # "save"
  <2>1. past = 0 /\ cron.todo = {} /\ cron.pc \notin Working
    BY ThreeSteps DEF LoanInv, Jobs, JobsTyped
  <2>2. rates.pc # "save"
    BY <1>7 DEF LoanInv, Jobs, Exists
  <2> QED BY <2>1, <2>2
<1>11. Jobs'
  BY <1>2, <1>10 DEF Jobs
<1>12. DisbursementOf(c)'
  <2>1. AtStep(c)'
    BY <1>3, <1>5 DEF AtStep
  <2>2. ASSUME NEW i \in 1..2 PROVE LegOf(c, i)'
    <3>1. LegOf(c, i)
      BY <1>0, Legs12
    <3>2. ForwardKey(c, i) \notin applied /\ comp[c][i] = "none" /\ BackwardKey(c, i) \notin applied
      BY <1>0, <3>1 DEF LegOf
    <3> QED BY <1>2, <1>3, <1>5, <3>2 DEF LegOf
  <2>3. comp'[c][3] = "none"
    BY <1>0, <1>2 DEF DisbursementOf
  <2> QED BY <1>3, <1>5, <2>1, <2>2, <2>3 DEF DisbursementOf
<1>13. ASSUME NEW d \in Clerks \ {c} PROVE DisbursementOf(d)'
  <2>1. DisbursementOf(d)
    BY DEF LoanInv, Disbursements
  <2> QED BY <1>2, <1>3, <1>5, <2>1, SameDisbursement
<1>14. Disbursements'
  BY <1>2, <1>12, <1>13 DEF LoanInv, Disbursements
<1>15. ASSUME NEW d \in Clerks, NEW i \in Month PROVE InstallmentOf(d, i)'
  <2>0. InstallmentOf(d, i)
    BY DEF LoanInv, Installments
  <2>1. CASE d # c
    <3>1. Exists(d)' = Exists(d)
      BY <1>3, <2>1 DEF Exists
    <3> QED BY <1>2, <1>3, <2>0, <2>1, <3>1, SameInstallment
  <2>2. CASE d = c
    <3>1. inst[d][i].status = "none" /\ inst'[d][i].status = "unpaid" /\ inst'[d][i].rate = loan'[d].base
      BY <1>3, <1>4, <1>7, <2>0, <2>2 DEF InstallmentOf
    <3>2. Exists(d)'
      BY <1>8, <2>2
    <3>3. \A leg : Moved(d, i, leg)' = Moved(d, i, leg)
      BY <1>2 DEF Moved
    <3>4. GivenBack(d, i)' = GivenBack(d, i)
      BY <3>3 DEF GivenBack
    <3>5. \A P \in SUBSET Working : ~InAttempt(d, i, P) /\ ~InAttempt(d, i, P)'
      BY <1>2, <1>10 DEF InAttempt
    <3>6. /\ {"bank-credit", "paid"} \cup Reversals \in SUBSET Working
          /\ {"bank-credit", "paid"} \in SUBSET Working
          /\ {"paid"} \in SUBSET Working /\ {"debit", "bank-credit", "paid"} \in SUBSET Working
          /\ Working \in SUBSET Working
      BY DEF Working, Reversals, Legs
    <3>7. /\ ~InAttempt(d, i, {"bank-credit", "paid"} \cup Reversals)
          /\ ~InAttempt(d, i, {"bank-credit", "paid"})' /\ ~InAttempt(d, i, {"paid"})'
          /\ ~InAttempt(d, i, {"debit", "bank-credit", "paid"})' /\ ~InAttempt(d, i, Working)'
      BY <3>5, <3>6
    <3> QED BY <1>2, <2>0, <3>1, <3>2, <3>3, <3>4, <3>7 DEF InstallmentOf
  <2> QED BY <2>1, <2>2
<1> QED BY <1>6, <1>9, <1>11, <1>14, <1>15 DEF LoanInv, Typed, Installments

-----------------------------------------------------------------------------
(* Recovery *)

(* The tick lists rows that exist. *)
LEMMA RecoveryTickStep ==
    ASSUME LoanInv, RecoveryTick
    PROVE  LoanInv'
<1>1. /\ UNCHANGED <<run, fwd, comp, retry, faults, loan, inst, applied, failed, tries>>
      /\ UNCHANGED <<past, cron, tried, rates, dbFails, request, variable, clerk>>
      /\ ticking' = Compensating
  BY DEF RecoveryTick, sagaVars, loanRows, money, cronVars
<1>2. Typed'
  <2>1. Compensating \subseteq Clerks \X (1..3)
    BY DEF Compensating
  <2> QED BY <1>1, <2>1 DEF LoanInv, Typed, RunsTyped, RowsTyped, JobsTyped
<1>3. Approvals'
  BY <1>1 DEF LoanInv, Approvals, Exists
<1>4. Jobs'
  BY <1>1 DEF LoanInv, Jobs
<1> QED BY <1>1, <1>2, <1>3, <1>4, QuietFrame

(* A listed row is given up, given back, or tried in vain; whoever wrote   *)
(* it last, its leg had moved.                                             *)
LEMMA RecoveryStep ==
    ASSUME LoanInv, NEW x \in ticking, Recovery(x)
    PROVE  LoanInv'
<1> DEFINE c == x[1]  n == x[2]
<1>0. /\ c \in Clerks /\ n \in 1..3 /\ comp[c][n] # "none" /\ DisbursementOf(c)
      /\ RunsTyped /\ RowsTyped
  BY DEF LoanInv, RowsTyped, Disbursements
<1>1. n \in 1..2
  BY <1>0 DEF DisbursementOf
<1>2. /\ UNCHANGED <<run, fwd, retry, faults, request, variable, clerk, loan, inst>>
      /\ UNCHANGED <<past, cron, tried, rates>> /\ ticking' \subseteq ticking
  BY DEF Recovery, MoveToDeadLetter, RetryStuckCompensation, RetryFails, Handled,
         sagaVars, loanRows, cronVars
<1>3. /\ applied \subseteq applied' /\ applied' \subseteq applied \cup {BackwardKey(c, n)}
      /\ failed \subseteq failed' /\ failed' \subseteq failed \cup {BackwardKey(c, n)}
  BY DEF Recovery, MoveToDeadLetter, RetryStuckCompensation, RetryFails, Applies,
        Refuses, money
<1>4. \/ UNCHANGED comp
      \/ comp' = [comp EXCEPT ![c][n] = "dead_letter"]
      \/ comp' = [comp EXCEPT ![c][n] = "compensated"] /\ BackwardKey(c, n) \in applied'
  BY DEF Recovery, MoveToDeadLetter, RetryStuckCompensation, RetryFails, SetRow,
        Applies, sagaVars
<1>5. /\ \A d \in Clerks \ {c} : comp'[d] = comp[d]
      /\ \A i \in (1..3) \ {n} : comp'[c][i] = comp[c][i]
      /\ \/ comp'[c][n] = comp[c][n] \/ comp'[c][n] = "dead_letter"
         \/ (comp'[c][n] = "compensated" /\ BackwardKey(c, n) \in applied')
      /\ comp' \in [Clerks -> [1..3 -> {"none", "compensating", "compensated", "dead_letter"}]]
  <2>1. comp \in [Clerks -> [1..3 -> {"none", "compensating", "compensated", "dead_letter"}]]
    BY <1>0 DEF RunsTyped
  <2> HIDE DEF c, n
  <2>2. CASE UNCHANGED comp
    BY <2>1, <2>2
  <2>3. CASE comp' = [comp EXCEPT ![c][n] = "dead_letter"]
    BY <1>0, <2>1, <2>3
  <2>4. CASE comp' = [comp EXCEPT ![c][n] = "compensated"] /\ BackwardKey(c, n) \in applied'
    BY <1>0, <2>1, <2>4
  <2> QED BY <1>4, <2>2, <2>3, <2>4
<1>6. tries' \in [Clerks -> [1..3 -> 0..MaxRetries]] /\ dbFails' \in 0..MaxDbFails
  <2>1. dbFails' \in 0..MaxDbFails
    BY <1>0, ThreeSteps DEF Recovery, MoveToDeadLetter, RetryStuckCompensation,
          RetryFails, DbFails, RowsTyped
  <2>2. \/ UNCHANGED tries
        \/ tries[c][n] < MaxRetries /\ tries' = [tries EXCEPT ![c][n] = tries[c][n] + 1]
    BY DEF Recovery, MoveToDeadLetter, RetryStuckCompensation, RetryFails, Tries
  <2>3. tries[c][n] \in 0..MaxRetries
    BY <1>0 DEF RowsTyped
  <2>4. tries[c][n] < MaxRetries => tries[c][n] + 1 \in 0..MaxRetries
    BY <2>3, ThreeSteps
  <2> QED BY <1>0, <2>1, <2>2, <2>4 DEF RowsTyped
<1>7. BackwardKey(c, n) \in AllKeys
  BY <1>0, KeyTypes
<1>8. Typed'
  BY <1>0, <1>2, <1>3, <1>5, <1>6, <1>7 DEF LoanInv, Typed, RunsTyped, RowsTyped,
        JobsTyped
<1>9. Approvals' /\ Jobs'
  BY <1>2 DEF LoanInv, Approvals, Exists, Jobs
<1>k. /\ \A d \in Clerks, i \in 1..2 : ForwardKey(d, i) # BackwardKey(c, n)
      /\ \A d \in Clerks, i \in 1..2 : BackwardKey(d, i) = BackwardKey(c, n) => d = c /\ i = n
  BY <1>0, <1>1, KeysApart
<1>10. ASSUME NEW d \in Clerks \ {c} PROVE DisbursementOf(d)'
  <2>1. DisbursementOf(d)
    BY DEF LoanInv, Disbursements
  <2>2. \A i \in 1..2 : /\ (ForwardKey(d, i) \in applied') = (ForwardKey(d, i) \in applied)
                        /\ (BackwardKey(d, i) \in applied') = (BackwardKey(d, i) \in applied)
                        /\ ForwardKey(d, i) \in failed => ForwardKey(d, i) \in failed'
    BY <1>3, <1>k
  <2> QED BY <1>2, <1>5, <2>1, <2>2, SameDisbursement
<1>11. ASSUME NEW i \in 1..2 PROVE LegOf(c, i)'
  <2>1. LegOf(c, i)
    BY <1>0, Legs12
  <2>2. /\ (ForwardKey(c, i) \in applied') = (ForwardKey(c, i) \in applied)
        /\ ForwardKey(c, i) \in failed => ForwardKey(c, i) \in failed'
        /\ BackwardKey(c, i) \in applied => BackwardKey(c, i) \in applied'
        /\ i # n => (BackwardKey(c, i) \in applied') = (BackwardKey(c, i) \in applied)
    BY <1>0, <1>3, <1>k
  <2>3. run' = run /\ clerk' = clerk /\ loan' = loan
    BY <1>2
  <2>4. CASE i = n
    <3>1. comp[c][i] # "none"
      BY <1>0, <2>4
    <3>2. \/ comp'[c][i] = comp[c][i] \/ comp'[c][i] = "dead_letter"
          \/ (comp'[c][i] = "compensated" /\ BackwardKey(c, i) \in applied')
      BY <1>5, <2>4
    <3> HIDE DEF c, n
    <3> QED BY <2>1, <2>2, <2>3, <3>1, <3>2 DEF LegOf
  <2>5. CASE i # n
    <3>1. comp'[c][i] = comp[c][i]
      BY <1>5, <2>5
    <3> HIDE DEF c, n
    <3> QED BY <2>1, <2>2, <2>3, <2>5, <3>1 DEF LegOf
  <2> QED BY <2>4, <2>5
<1>12. DisbursementOf(c)'
  <2>1. AtStep(c)'
    BY <1>0, <1>2 DEF DisbursementOf, AtStep
  <2>2. comp'[c][3] = "none"
    BY <1>0, <1>1, <1>5 DEF DisbursementOf
  <2> QED BY <1>0, <1>2, <1>11, <2>1, <2>2 DEF DisbursementOf
<1>13. ASSUME NEW y \in ticking' PROVE comp'[y[1]][y[2]] # "none"
  <2>1. y[1] \in Clerks /\ y[2] \in 1..3 /\ comp[y[1]][y[2]] # "none"
    BY <1>2 DEF LoanInv, RowsTyped, Disbursements
  <2> QED BY <1>0, <1>5, <2>1
<1>14. ASSUME NEW d \in Clerks, NEW i \in Month PROVE InstallmentOf(d, i)'
  <2>1. InstallmentOf(d, i)
    BY DEF LoanInv, Installments
  <2>2. \A leg \in Legs : <<d, i, leg>> # BackwardKey(c, n)
    BY <1>0, <1>1, KeysApart
  <2>3. Exists(d)' = Exists(d)
    BY <1>2 DEF Exists
  <2> QED BY <1>2, <1>3, <2>1, <2>2, <2>3, SameInstallment
<1>15. Disbursements'
  BY <1>10, <1>12, <1>13 DEF Disbursements
<1>16. Installments'
  BY <1>14 DEF Installments
<1> QED BY <1>8, <1>9, <1>15, <1>16 DEF LoanInv, Typed

-----------------------------------------------------------------------------
(* The jobs *)

Programs ==
    [pc : Working \cup {"idle", "list", "next"}, todo : SUBSET (Clerks \X Month),
     at : {None} \cup (Clerks \X Month), copy : LoanRow]

(* A collection that moves on, and one that ends. *)
LEMMA CronMoves ==
    ASSUME JobsTyped
    PROVE  /\ \A p \in Working \cup {"idle", "list", "next"} :
                 [cron EXCEPT !.pc = p] \in Programs
           /\ \A p \in Working \cup {"idle", "list", "next"}, D \in SUBSET (Clerks \X Month) :
                 [cron EXCEPT !.pc = p, !.todo = D] \in Programs
           /\ \A p \in Working \cup {"idle", "list", "next"}, D \in SUBSET (Clerks \X Month),
                 x \in Clerks \X Month, l \in LoanRow :
                 [pc |-> p, todo |-> D, at |-> x, copy |-> l] \in Programs
           /\ NoRun \in Programs
<1>1. cron \in Programs
  BY DEF JobsTyped, Programs
<1>2. \A p \in Working \cup {"idle", "list", "next"} : [cron EXCEPT !.pc = p] \in Programs
  BY <1>1 DEF Programs
<1>3. \A p \in Working \cup {"idle", "list", "next"}, D \in SUBSET (Clerks \X Month) :
         [cron EXCEPT !.pc = p, !.todo = D] \in Programs
  BY <1>1 DEF Programs
<1>4. \A p \in Working \cup {"idle", "list", "next"}, D \in SUBSET (Clerks \X Month),
         x \in {None} \cup (Clerks \X Month), l \in LoanRow :
         [pc |-> p, todo |-> D, at |-> x, copy |-> l] \in Programs
  BY DEF Programs
<1>5. NoRun \in Programs
  <2>1. PICK D \in SUBSET (Clerks \X Month) : D = {}
    OBVIOUS
  <2>2. NoLoan \in LoanRow
    BY DEF NoLoan, LoanRow
  <2>3. NoRun = [pc |-> "idle", todo |-> D, at |-> None, copy |-> NoLoan]
    BY <2>1 DEF NoRun
  <2> QED BY <1>4, <2>2, <2>3
<1> QED BY <1>2, <1>3, <1>4, <1>5

(* A job moves no leg of a disbursement and no loan's status. *)
LEMMA JobFrame ==
    ASSUME LoanInv, Typed', Jobs', Installments',
           UNCHANGED <<run, comp, clerk, request, ticking>>,
           \A c \in Clerks : loan'[c].status = loan[c].status,
           applied \subseteq applied', failed \subseteq failed',
           \A k \in applied' \ applied : \E c \in Clerks, i \in Month : \E leg : k = <<c, i, leg>>
    PROVE  LoanInv'
<1>1. Approvals'
  <2>1. \A c \in Clerks : Exists(c)' = Exists(c)
    BY DEF Exists
  <2> QED BY <2>1 DEF LoanInv, Approvals
<1>2. ASSUME NEW c \in Clerks PROVE DisbursementOf(c)'
  <2>1. DisbursementOf(c)
    BY DEF LoanInv, Disbursements
  <2>2. \A i \in 1..2 : ForwardKey(c, i) \notin applied' \ applied /\ BackwardKey(c, i) \notin applied' \ applied
    BY KeysApart
  <2>3. \A i \in 1..2 : /\ (ForwardKey(c, i) \in applied') = (ForwardKey(c, i) \in applied)
                        /\ (BackwardKey(c, i) \in applied') = (BackwardKey(c, i) \in applied)
                        /\ ForwardKey(c, i) \in failed => ForwardKey(c, i) \in failed'
    BY <2>2
  <2> QED BY <2>1, <2>3, SameDisbursement
<1>3. Disbursements'
  BY <1>2 DEF LoanInv, Disbursements
<1> QED BY <1>1, <1>3 DEF LoanInv, Typed

Paying == Legs \cup {"paid"}

(* An installment that gets a new rate or becomes overdue, and whose       *)
(* attempt, if one was going on, was at the penalty.                       *)
LEMMA RatedInstallment ==
    ASSUME NEW c \in Clerks, NEW i \in Month, InstallmentOf(c, i),
           \/ inst'[c][i].status = inst[c][i].status
           \/ inst[c][i].status = "unpaid" /\ inst'[c][i].status = "overdue",
           inst'[c][i].status = "unpaid" => inst'[c][i].rate = loan'[c].base,
           Exists(c)' = Exists(c), tried' = tried, applied' = applied, failed' = failed,
           faults'.crash = faults.crash,
           \/ cron'.pc = cron.pc /\ cron'.at = cron.at
           \/ ~InAttempt(c, i, Paying) /\ ~InAttempt(c, i, Working)'
    PROVE  InstallmentOf(c, i)'
<1>1. \A leg : Moved(c, i, leg)' = Moved(c, i, leg)
  BY DEF Moved
<1>2. GivenBack(c, i)' = GivenBack(c, i)
  BY <1>1 DEF GivenBack
<1>3. CASE cron'.pc = cron.pc /\ cron'.at = cron.at
  BY <1>1, <1>2, <1>3 DEF InstallmentOf, InAttempt
<1>4. CASE ~InAttempt(c, i, Paying) /\ ~InAttempt(c, i, Working)'
  <2>1. /\ \A P \in SUBSET Paying : ~InAttempt(c, i, P)
        /\ \A P \in SUBSET Working : ~InAttempt(c, i, P)'
    BY <1>4 DEF InAttempt
  <2>2. /\ {"bank-credit", "paid"} \cup Reversals \in SUBSET Paying
        /\ {"bank-credit", "paid"} \in SUBSET Working
        /\ {"paid"} \in SUBSET Working /\ {"debit", "bank-credit", "paid"} \in SUBSET Working
        /\ Working \in SUBSET Working
    BY DEF Working, Paying, Legs, Reversals
  <2>3. /\ ~InAttempt(c, i, {"bank-credit", "paid"} \cup Reversals)
        /\ ~InAttempt(c, i, {"bank-credit", "paid"})' /\ ~InAttempt(c, i, {"paid"})'
        /\ ~InAttempt(c, i, {"debit", "bank-credit", "paid"})' /\ ~InAttempt(c, i, Working)'
    BY <2>1, <2>2
  <2> QED BY <1>1, <1>2, <2>3 DEF InstallmentOf
<1> QED BY <1>3, <1>4

(* Steps of the calendar and of the collection between attempts. *)
LEMMA MidnightStep ==
    ASSUME LoanInv, Midnight
    PROVE  LoanInv'
<1>1. /\ UNCHANGED <<run, fwd, comp, retry, faults, loan, inst, applied, failed, tries, ticking>>
      /\ UNCHANGED <<cron, tried, rates, dbFails, request, variable, clerk>>
      /\ past < Months /\ past' = past + 1 /\ (\E c \in Clerks : Exists(c))
      /\ \A c \in Clerks : clerk[c] # "disbursing"
  BY DEF Midnight, sagaVars, loanRows, money, recovery
<1>2. past \in 0..Months /\ past' \in 0..Months /\ past' > 0
  BY <1>1, ThreeSteps DEF LoanInv, JobsTyped
<1>3. Typed'
  BY <1>1, <1>2 DEF LoanInv, Typed, RunsTyped, RowsTyped, JobsTyped
<1>4. request = "approved"
  BY <1>1 DEF LoanInv, Approvals
<1>5. Approvals'
  BY <1>1 DEF LoanInv, Approvals, Exists
<1>6. Jobs'
  BY <1>1, <1>2, <1>4 DEF LoanInv, Jobs
<1> QED BY <1>1, <1>3, <1>5, <1>6, QuietFrame

LEMMA OverdueStep ==
    ASSUME LoanInv, MarkOverdueInstallments
    PROVE  LoanInv'
<1>0. RowsTyped /\ JobsTyped
  BY DEF LoanInv
<1>1. /\ UNCHANGED <<run, fwd, comp, retry, faults, loan, applied, failed, tries, ticking>>
      /\ UNCHANGED <<past, tried, rates, request, variable, clerk>>
      /\ cron.pc = "idle" /\ cron' = [cron EXCEPT !.pc = "list"]
  BY DEF MarkOverdueInstallments, sagaVars, money, recovery
<1>2. /\ cron'.pc = "list" /\ cron'.todo = cron.todo /\ cron' \in Programs
      /\ cron.pc \notin Working /\ cron'.pc \notin Working
  BY <1>0, <1>1, CronMoves DEF JobsTyped, Working, Legs
<1>3. dbFails' \in 0..MaxDbFails
  BY <1>0, ThreeSteps DEF MarkOverdueInstallments, DbFails, RowsTyped
<1>4. /\ \A c \in Clerks, i \in Month :
            \/ inst'[c][i] = inst[c][i]
            \/ /\ inst[c][i].status = "unpaid" /\ inst'[c][i].status = "overdue"
               /\ inst'[c][i].rate = inst[c][i].rate
      /\ inst' \in [Clerks -> [Month -> Inst]]
  <2>1. CASE UNCHANGED inst
    BY <1>0, <2>1 DEF RowsTyped
  <2>2. CASE inst' = [c \in Clerks |-> [i \in Month |->
               IF i \in Due(c) THEN [inst[c][i] EXCEPT !.status = "overdue"] ELSE inst[c][i]]]
    <3>1. \A c \in Clerks, i \in Month : inst[c][i] \in Inst
      BY <1>0 DEF RowsTyped
    <3>2. \A c \in Clerks, i \in Month : i \in Due(c) => inst[c][i].status = "unpaid"
      BY DEF Due
    <3>3. \A c \in Clerks, i \in Month :
             inst'[c][i] = IF i \in Due(c) THEN [inst[c][i] EXCEPT !.status = "overdue"] ELSE inst[c][i]
      BY <2>2
    <3>m. \A r \in Inst : /\ [r EXCEPT !.status = "overdue"] \in Inst
                         /\ [r EXCEPT !.status = "overdue"].status = "overdue"
                         /\ [r EXCEPT !.status = "overdue"].rate = r.rate
      BY DEF Inst
    <3>4. \A c \in Clerks, i \in Month : inst'[c][i] \in Inst
      BY <3>1, <3>3, <3>m
    <3>5. inst' \in [Clerks -> [Month -> Inst]]
      BY <2>2, <3>3, <3>4
    <3>6. ASSUME NEW c \in Clerks, NEW i \in Month
          PROVE  \/ inst'[c][i] = inst[c][i]
                 \/ /\ inst[c][i].status = "unpaid" /\ inst'[c][i].status = "overdue"
                    /\ inst'[c][i].rate = inst[c][i].rate
      <4>1. CASE i \in Due(c)
        <5>1. inst'[c][i] = [inst[c][i] EXCEPT !.status = "overdue"] /\ inst[c][i] \in Inst
          BY <3>1, <3>3, <4>1
        <5> QED BY <3>2, <3>m, <4>1, <5>1
      <4>2. CASE i \notin Due(c)
        BY <3>3, <4>2
      <4> QED BY <4>1, <4>2
    <3> QED BY <3>5, <3>6
  <2> QED BY <2>1, <2>2 DEF MarkOverdueInstallments
<1>5. Typed'
  BY <1>0, <1>1, <1>2, <1>3, <1>4 DEF LoanInv, Typed, RunsTyped, RowsTyped, JobsTyped,
        Programs
<1>6. Jobs'
  <2>1. \A x \in cron.todo : inst'[x[1]][x[2]].status \notin {"none", "paid"}
    <3> SUFFICES ASSUME NEW x \in cron.todo PROVE inst'[x[1]][x[2]].status \notin {"none", "paid"}
      OBVIOUS
    <3>1. x[1] \in Clerks /\ x[2] \in Month /\ inst[x[1]][x[2]].status \notin {"none", "paid"}
      BY <1>0 DEF JobsTyped, LoanInv, Jobs
    <3> QED BY <1>4, <3>1
  <2> QED BY <1>1, <1>2, <2>1 DEF LoanInv, Jobs
<1>7. ASSUME NEW c \in Clerks, NEW i \in Month PROVE InstallmentOf(c, i)'
  <2>1. InstallmentOf(c, i)
    BY DEF LoanInv, Installments
  <2>2. ~InAttempt(c, i, Paying) /\ ~InAttempt(c, i, Working)'
    BY <1>2 DEF InAttempt, Working, Paying
  <2>3. Exists(c)' = Exists(c)
    BY <1>1 DEF Exists
  <2>4. /\ \/ inst'[c][i].status = inst[c][i].status
           \/ inst[c][i].status = "unpaid" /\ inst'[c][i].status = "overdue"
        /\ inst'[c][i].status = "unpaid" => inst'[c][i].rate = loan'[c].base
    BY <1>1, <1>4, <2>1 DEF InstallmentOf
  <2> QED BY <1>1, <2>1, <2>2, <2>3, <2>4, RatedInstallment
<1> QED BY <1>1, <1>5, <1>6, <1>7, JobFrame DEF Installments

(* The job lists what is due, or is through with its list. *)
LEMMA ListSteps ==
    ASSUME LoanInv, GetDueInstallments \/ CollectionEnds
    PROVE  LoanInv'
<1>0. RowsTyped /\ JobsTyped
  BY DEF LoanInv
<1>1. /\ UNCHANGED <<run, fwd, comp, retry, faults, loan, inst, applied, failed, tries, ticking>>
      /\ UNCHANGED <<past, tried, rates, dbFails, request, variable, clerk>>
  BY DEF GetDueInstallments, CollectionEnds, sagaVars, loanRows, money, recovery
<1>2. PICK D \in SUBSET (Clerks \X Month) : D = {x \in Clerks \X Month : x[2] \in Due(x[1])}
  OBVIOUS
<1>3. \/ cron.pc = "list" /\ cron' = [cron EXCEPT !.pc = "next", !.todo = D]
      \/ cron.pc = "next" /\ cron' = NoRun
  BY <1>2 DEF GetDueInstallments, CollectionEnds
<1>4. cron' \in Programs
  <2>1. [cron EXCEPT !.pc = "next", !.todo = D] \in Programs /\ NoRun \in Programs
    <3>1. "next" \in Working \cup {"idle", "list", "next"}
      OBVIOUS
    <3> QED BY <1>0, <3>1, CronMoves
  <2> QED BY <1>3, <2>1
<1>5. /\ cron.pc \notin Working /\ cron'.pc \notin Working
      /\ cron'.todo = D \/ cron'.todo = {}
  <2>1. cron.pc \in {"list", "next"} /\ cron'.pc \in {"next", "idle"}
        /\ (cron'.todo = D \/ cron'.todo = {})
    <3>1. cron \in Programs
      BY <1>0 DEF JobsTyped, Programs
    <3>2. CASE cron.pc = "list" /\ cron' = [cron EXCEPT !.pc = "next", !.todo = D]
      BY <3>1, <3>2 DEF Programs
    <3>3. CASE cron.pc = "next" /\ cron' = NoRun
      BY <3>3 DEF NoRun
    <3> QED BY <1>3, <3>2, <3>3
  <2> QED BY <2>1 DEF Working, Legs
<1>6. \A x \in D : inst[x[1]][x[2]].status = "unpaid" /\ past > 0
  <2> SUFFICES ASSUME NEW x \in D PROVE inst[x[1]][x[2]].status = "unpaid" /\ past > 0
    OBVIOUS
  <2>1. x[2] \in Month /\ inst[x[1]][x[2]].status = "unpaid" /\ x[2] <= past
    BY <1>2 DEF Due
  <2> QED BY <1>0, <2>1, ThreeSteps DEF Month, JobsTyped
<1>7. Typed'
  BY <1>0, <1>1, <1>4 DEF LoanInv, Typed, RunsTyped, RowsTyped, JobsTyped, Programs
<1>8. Approvals'
  BY <1>1 DEF LoanInv, Approvals, Exists
<1>9. Jobs'
  <2>1. \A x \in cron'.todo : inst[x[1]][x[2]].status = "unpaid" /\ past > 0
    BY <1>5, <1>6
  <2> QED BY <1>1, <1>5, <2>1 DEF LoanInv, Jobs
<1> QED BY <1>1, <1>5, <1>7, <1>8, <1>9, QuietFrame

(* An attempt begins, with a copy of the loan. *)
LEMMA ProcessStep ==
    ASSUME LoanInv, NEW x \in cron.todo, ProcessInstallment(x)
    PROVE  LoanInv'
<1>0. RowsTyped /\ JobsTyped /\ x \in Clerks \X Month
  BY DEF LoanInv, JobsTyped
<1>1. /\ UNCHANGED <<run, fwd, comp, retry, faults, loan, inst, applied, failed, tries, ticking>>
      /\ UNCHANGED <<past, rates, dbFails, request, variable, clerk>>
      /\ cron.pc = "next" /\ tried' = [tried EXCEPT ![x[1]][x[2]] = tried[x[1]][x[2]] + 1]
  BY DEF ProcessInstallment, sagaVars, loanRows, money, recovery
<1>2. PICK D \in SUBSET (Clerks \X Month) : D = cron.todo \ {x}
  BY <1>0 DEF JobsTyped
<1>3. /\ cron' = [pc |-> "debit", todo |-> D, at |-> x, copy |-> loan[x[1]]]
      /\ loan[x[1]] \in LoanRow
  BY <1>0, <1>2 DEF ProcessInstallment, RowsTyped
<1>4. /\ cron'.pc = "debit" /\ cron'.todo = D /\ cron'.at = x /\ cron'.copy = loan[x[1]]
      /\ cron' \in Programs /\ "debit" \in Working
  <2>1. "debit" \in Working
    BY DEF Working, Legs
  <2> QED BY <1>0, <1>3, <2>1, CronMoves
<1>5. /\ tried'[x[1]][x[2]] = tried[x[1]][x[2]] + 1 /\ tried[x[1]][x[2]] \in Nat
      /\ \A c \in Clerks, i \in Month : <<c, i>> # x => tried'[c][i] = tried[c][i]
      /\ tried' \in [Clerks -> [Month -> Nat]]
  BY <1>0, <1>1 DEF JobsTyped
<1>6. Typed'
  BY <1>0, <1>1, <1>4, <1>5 DEF LoanInv, Typed, RunsTyped, RowsTyped, JobsTyped,
        Programs
<1>7. Jobs'
  <2>1. past > 0 /\ inst[x[1]][x[2]].status \notin {"none", "paid"}
        /\ \A y \in D : inst[y[1]][y[2]].status \notin {"none", "paid"}
    BY <1>2 DEF LoanInv, Jobs
  <2> QED BY <1>0, <1>1, <1>2, <1>4, <2>1 DEF LoanInv, Jobs
<1>8. ASSUME NEW c \in Clerks, NEW i \in Month PROVE InstallmentOf(c, i)'
  <2>0. InstallmentOf(c, i)
    BY DEF LoanInv, Installments
  <2>1. Exists(c)' = Exists(c)
    BY <1>1 DEF Exists
  <2>2. cron.pc \notin Working
    BY <1>1 DEF Working, Legs
  <2>3. CASE <<c, i>> # x
    <3>1. ~InAttempt(c, i, Working) /\ ~InAttempt(c, i, Working)'
      BY <1>4, <2>2, <2>3 DEF InAttempt
    <3> QED BY <1>1, <1>5, <2>0, <2>1, <2>3, <3>1, SameInstallment
  <2>4. CASE <<c, i>> = x
    <3>1. tried'[c][i] = tried[c][i] + 1 /\ tried[c][i] \in Nat
      BY <1>5, <2>4
    <3>2. inst[c][i].status \notin {"none", "paid"} /\ inst' = inst /\ loan' = loan
      BY <1>1, <2>4 DEF LoanInv, Jobs
    <3>3. /\ \A leg : Moved(c, i, leg)' = Moved(c, i, leg)
          /\ failed' = failed /\ faults' = faults
      BY <1>1 DEF Moved
    <3>4. GivenBack(c, i)' = GivenBack(c, i)
      BY <3>3 DEF GivenBack
    <3>5. ~InAttempt(c, i, {"bank-credit", "paid"} \cup Reversals)
      BY <1>1 DEF InAttempt, Reversals
    <3>6. ~InAttempt(c, i, {"bank-credit", "paid"})' /\ ~InAttempt(c, i, {"paid"})'
      BY <1>4 DEF InAttempt
    <3>7. tried'[c][i] = 1 => \A leg \in Reversals : ~Moved(c, i, leg)'
      <4>1. Reversals \subseteq Legs
        BY DEF Reversals, Legs
      <4> QED BY <2>0, <3>1, <3>3, <4>1 DEF InstallmentOf
    <3>8. tried'[c][i] > 0
      BY <3>1
    <3> QED BY <2>0, <2>1, <3>2, <3>3, <3>4, <3>5, <3>6, <3>7, <3>8 DEF InstallmentOf
  <2> QED BY <2>3, <2>4
<1> QED BY <1>1, <1>6, <1>7, <1>8, JobFrame DEF Installments

(* What the answer to a call leads to. *)
LEMMA AfterCases ==
    /\ After("debit", TRUE) = "bank-credit" /\ After("debit", FALSE) = "penalty"
    /\ After("bank-credit", TRUE) = "paid" /\ After("bank-credit", FALSE) = "debit-compensate"
    /\ \A ok \in BOOLEAN :
          /\ After("debit-compensate", ok) = "next" /\ After("debit-compensate-2", ok) = "next"
          /\ After("bank-credit-compensate", ok) = "debit-compensate-2"
BY DEF After

(* A call of the attempt is applied, refused, or its answer is lost. *)
LEMMA UpdateBalanceStep ==
    ASSUME LoanInv, UpdateBalance
    PROVE  LoanInv'
<1>a. PICK leg \in Legs : cron.pc = leg
  BY DEF UpdateBalance
<1>b. leg \in Working
  BY DEF Working
<1>c. PICK c \in Clerks, i \in Month : cron.at = <<c, i>>
  BY <1>a, <1>b DEF LoanInv, Jobs
<1>0. /\ RunsTyped /\ RowsTyped /\ JobsTyped
      /\ inst[c][i].status \notin {"none", "paid"} /\ InstallmentOf(c, i)
  <2>1. inst[cron.at[1]][cron.at[2]].status \notin {"none", "paid"}
    BY <1>a, <1>b DEF LoanInv, Jobs
  <2> QED BY <1>c, <2>1 DEF LoanInv, Installments
<1> DEFINE key == <<c, i, leg>>
<1>1. /\ UNCHANGED <<run, fwd, comp, retry, request, variable, clerk, loan, inst, tries, ticking>>
      /\ UNCHANGED <<past, rates, tried, dbFails>>
  BY DEF UpdateBalance, loanRows, recovery
<1>2. PICK ok \in BOOLEAN :
         /\ cron' = [cron EXCEPT !.pc = After(leg, ok)]
         /\ applied \subseteq applied' /\ applied' \subseteq applied \cup {key}
         /\ failed \subseteq failed' /\ failed' \subseteq failed \cup {key}
         /\ ok => key \in applied'
         /\ ~ok => key \in failed'
  <2>1. CronKey(cron.pc) = key
    BY <1>a, <1>c DEF CronKey
  <2>2. \/ Applies(key) /\ cron' = [cron EXCEPT !.pc = After(leg, TRUE)]
        \/ Refuses(key) /\ cron' = [cron EXCEPT !.pc = After(leg, FALSE)]
        \/ Loses(key) /\ cron' = [cron EXCEPT !.pc = After(leg, FALSE)]
    BY <1>a, <2>1 DEF UpdateBalance
  <2> HIDE DEF key
  <2>3. CASE Applies(key) /\ cron' = [cron EXCEPT !.pc = After(leg, TRUE)]
    <3>1. TRUE \in BOOLEAN /\ applied' = applied \cup {key} /\ failed' = failed
      BY <2>3 DEF Applies
    <3> QED BY <2>3, <3>1
  <2>4. CASE (Refuses(key) \/ Loses(key)) /\ cron' = [cron EXCEPT !.pc = After(leg, FALSE)]
    <3>1. /\ FALSE \in BOOLEAN /\ failed' = failed \cup {key}
          /\ (applied' = applied \/ applied' = applied \cup {key})
      BY <2>4 DEF Refuses, Loses
    <3> QED BY <2>4, <3>1
  <2> QED BY <2>2, <2>3, <2>4
<1> HIDE DEF key
<1>3. faults'.crash = faults.crash /\ faults' \in [crash : Nat, refusal : Nat, back : Nat, mark : Nat]
  <2>1. faults \in [crash : Nat, refusal : Nat, back : Nat, mark : Nat]
    BY <1>0 DEF RunsTyped
  <2>2. UNCHANGED faults \/ faults' = [faults EXCEPT !.refusal = faults.refusal + 1]
    BY DEF UpdateBalance
  <2> QED BY <2>1, <2>2
<1>4. After(leg, ok) \in Working \cup {"next"}
  BY AfterCases DEF Working, Legs
<1>5. /\ cron'.pc = After(leg, ok) /\ cron'.at = <<c, i>> /\ cron'.todo = cron.todo /\ cron'.copy = cron.copy
      /\ cron' \in Programs
  BY <1>0, <1>c, <1>2, <1>4, CronMoves DEF JobsTyped
<1>6. key \in AllKeys
  BY KeyTypes DEF key
<1>7. Typed'
  BY <1>0, <1>1, <1>2, <1>3, <1>5, <1>6 DEF Typed, RunsTyped, RowsTyped, JobsTyped,
        Programs
<1>8. Jobs'
  <2>1. cron'.at = cron.at
    BY <1>c, <1>5
  <2> QED BY <1>a, <1>b, <1>1, <1>5, <2>1 DEF LoanInv, Jobs
<1>9. ASSUME NEW d \in Clerks, NEW j \in Month, <<d, j>> # <<c, i>> PROVE InstallmentOf(d, j)'
  <2>0. InstallmentOf(d, j)
    BY DEF LoanInv, Installments
  <2>1. Exists(d)' = Exists(d)
    BY <1>1 DEF Exists
  <2>2. ~InAttempt(d, j, Working) /\ ~InAttempt(d, j, Working)'
    BY <1>c, <1>5, <1>9 DEF InAttempt
  <2>3. \A l \in Legs : <<d, j, l>> # key
    BY <1>9 DEF key
  <2> QED BY <1>1, <1>2, <1>3, <2>0, <2>1, <2>2, <2>3, SameInstallment
<1>10. InstallmentOf(c, i)'
  <2>1. /\ \A l \in Legs : Moved(c, i, l) => Moved(c, i, l)'
        /\ \A l \in Legs \ {leg} : Moved(c, i, l)' => Moved(c, i, l)
        /\ ok => Moved(c, i, leg)'
    BY <1>2 DEF Moved, key
  <2>2. /\ inst' = inst /\ loan' = loan /\ tried' = tried /\ Exists(c)' = Exists(c)
        /\ \A l : <<c, i, l>> \in failed => <<c, i, l>> \in failed'
        /\ ~ok => <<c, i, leg>> \in failed'
    BY <1>1, <1>2 DEF Exists, key
  <2>3. \A P : /\ InAttempt(c, i, P) <=> leg \in P
               /\ InAttempt(c, i, P)' <=> After(leg, ok) \in P
    BY <1>a, <1>c, <1>5 DEF InAttempt
  <2>4. /\ tried[c][i] > 0 /\ tried[c][i] # 0
        /\ leg \in {"bank-credit", "paid"} => Moved(c, i, "debit")
        /\ tried[c][i] = 1 /\ leg \in {"debit", "bank-credit", "paid"} =>
              \A l \in Reversals : ~Moved(c, i, l)
    <3>1. tried[c][i] \in Nat
      BY <1>0 DEF JobsTyped
    <3>2. /\ InAttempt(c, i, Working)
          /\ InAttempt(c, i, {"bank-credit", "paid"}) <=> leg \in {"bank-credit", "paid"}
          /\ InAttempt(c, i, {"debit", "bank-credit", "paid"}) <=> leg \in {"debit", "bank-credit", "paid"}
      BY <1>b, <2>3
    <3>3. tried[c][i] > 0
      BY <1>0, <3>2 DEF InstallmentOf
    <3> QED BY <1>0, <3>1, <3>2, <3>3 DEF InstallmentOf
  <2>5. GivenBack(c, i) => GivenBack(c, i)'
    BY <2>1 DEF GivenBack, Legs
  <2>6. After(leg, ok) \in {"bank-credit", "paid"} => Moved(c, i, "debit")'
    BY <2>1, <2>4, AfterCases DEF Legs
  <2>7. After(leg, ok) = "paid" => Moved(c, i, "bank-credit")'
    BY <2>1, AfterCases DEF Legs
  <2>8. tried[c][i] = 1 /\ After(leg, ok) \in {"debit", "bank-credit", "paid"} =>
           \A l \in Reversals : ~Moved(c, i, l)'
    <3>1. After(leg, ok) \in {"debit", "bank-credit", "paid"} => leg \in {"debit", "bank-credit"}
      BY AfterCases DEF Legs
    <3>2. \A l \in Reversals : leg \in {"debit", "bank-credit"} => l \in Legs \ {leg}
      BY DEF Reversals, Legs
    <3> QED BY <2>1, <2>4, <3>1, <3>2
  <2>9. Moved(c, i, "debit")' /\ faults'.crash = 0 =>
          \/ GivenBack(c, i)'
          \/ \E l \in {"debit", "debit-compensate", "debit-compensate-2"} : <<c, i, l>> \in failed'
          \/ After(leg, ok) \in {"bank-credit", "paid"} \cup Reversals
    <3>1. CASE leg = "debit"
      BY <2>2, <3>1, AfterCases
    <3>2. CASE leg = "bank-credit"
      BY <3>2, AfterCases DEF Reversals
    <3>3. CASE leg = "bank-credit-compensate"
      BY <3>3, AfterCases DEF Reversals
    <3>4. CASE leg \in {"debit-compensate", "debit-compensate-2"}
      <4>1. Moved(c, i, leg)' => GivenBack(c, i)'
        BY <3>4 DEF GivenBack
      <4> QED BY <2>1, <2>2, <3>4, <4>1
    <3> QED BY <3>1, <3>2, <3>3, <3>4 DEF Legs
  <2>10. /\ InAttempt(c, i, {"bank-credit", "paid"})' <=> After(leg, ok) \in {"bank-credit", "paid"}
         /\ InAttempt(c, i, {"paid"})' <=> After(leg, ok) = "paid"
         /\ InAttempt(c, i, {"debit", "bank-credit", "paid"})'
               <=> After(leg, ok) \in {"debit", "bank-credit", "paid"}
         /\ InAttempt(c, i, {"bank-credit", "paid"} \cup Reversals)'
               <=> After(leg, ok) \in {"bank-credit", "paid"} \cup Reversals
    <3>1. InAttempt(c, i, {"paid"})' <=> After(leg, ok) \in {"paid"}
      BY <2>3
    <3> QED BY <2>3, <3>1
  <2> QED BY <1>0, <2>2, <2>4, <2>6, <2>7, <2>8, <2>9, <2>10 DEF InstallmentOf
<1>11. Installments'
  <2> SUFFICES ASSUME NEW d \in Clerks, NEW j \in Month PROVE InstallmentOf(d, j)'
    BY DEF Installments
  <2>1. CASE <<d, j>> # <<c, i>>
    BY <1>9, <2>1
  <2>2. CASE <<d, j>> = <<c, i>>
    <3>1. d = c /\ j = i
      BY <2>2
    <3> QED BY <1>10, <3>1
  <2> QED BY <2>1, <2>2
<1>12. \A k \in applied' \ applied : \E d \in Clerks, j \in Month : \E l : k = <<d, j, l>>
  BY <1>2 DEF key
<1> QED BY <1>1, <1>2, <1>7, <1>8, <1>11, <1>12, JobFrame

(* The loan and its unpaid installments get a rate; statuses stay. *)
LEMMA SaveRateEffect ==
    ASSUME RowsTyped, NEW c \in Clerks, NEW copy \in LoanRow, NEW base \in Nat,
           copy.status = loan[c].status, SaveRate(c, copy, base)
    PROVE  /\ loan' \in [Clerks -> LoanRow] /\ inst' \in [Clerks -> [Month -> Inst]]
           /\ \A d \in Clerks : loan'[d].status = loan[d].status
           /\ \A d \in Clerks, i \in Month :
                 /\ inst'[d][i].status = inst[d][i].status
                 /\ (inst[d][i].status = "unpaid" => inst[d][i].rate = loan[d].base) =>
                       (inst'[d][i].status = "unpaid" => inst'[d][i].rate = loan'[d].base)
<1>1. loan' = [loan EXCEPT ![c] = [copy EXCEPT !.base = base]]
  BY DEF SaveRate, Save
<1>2. /\ [copy EXCEPT !.base = base] \in LoanRow
      /\ [copy EXCEPT !.base = base].status = loan[c].status /\ [copy EXCEPT !.base = base].base = base
  BY DEF LoanRow
<1>3. /\ loan' \in [Clerks -> LoanRow] /\ loan'[c].base = base /\ loan'[c].status = loan[c].status
      /\ \A d \in Clerks \ {c} : loan'[d] = loan[d]
  BY <1>1, <1>2 DEF RowsTyped
<1>4. \A r \in Inst : /\ [r EXCEPT !.rate = base] \in Inst
                      /\ [r EXCEPT !.rate = base].status = r.status
                      /\ [r EXCEPT !.rate = base].rate = base
  BY DEF Inst
<1>5. \A d \in Clerks, i \in Month : inst[d][i] \in Inst
  BY DEF RowsTyped
<1>6. /\ \A d \in Clerks \ {c} : inst'[d] = inst[d]
      /\ \A i \in Month : inst'[c][i] = IF inst[c][i].status = "unpaid"
                                        THEN [inst[c][i] EXCEPT !.rate = base] ELSE inst[c][i]
      /\ inst' = [inst EXCEPT ![c] = inst'[c]] /\ inst'[c] = [i \in Month |-> inst'[c][i]]
  BY DEF SaveRate, RowsTyped
<1>7. ASSUME NEW i \in Month
      PROVE  /\ inst'[c][i] \in Inst /\ inst'[c][i].status = inst[c][i].status
             /\ inst'[c][i].status = "unpaid" => inst'[c][i].rate = base
  <2>1. inst[c][i] \in Inst
    BY <1>5
  <2>2. CASE inst[c][i].status = "unpaid"
    <3>1. inst'[c][i] = [inst[c][i] EXCEPT !.rate = base]
      BY <1>6, <2>2
    <3> QED BY <1>4, <2>1, <2>2, <3>1
  <2>3. CASE inst[c][i].status # "unpaid"
    BY <1>6, <2>1, <2>3
  <2> QED BY <2>2, <2>3
<1>8. inst' \in [Clerks -> [Month -> Inst]]
  <2>1. inst'[c] \in [Month -> Inst]
    BY <1>6, <1>7
  <2> QED BY <1>6, <2>1 DEF RowsTyped
<1>9. ASSUME NEW d \in Clerks, NEW i \in Month
      PROVE  /\ inst'[d][i].status = inst[d][i].status
             /\ (inst[d][i].status = "unpaid" => inst[d][i].rate = loan[d].base) =>
                   (inst'[d][i].status = "unpaid" => inst'[d][i].rate = loan'[d].base)
  <2>1. CASE d = c
    BY <1>3, <1>7, <2>1
  <2>2. CASE d # c
    BY <1>3, <1>6, <2>2
  <2> QED BY <2>1, <2>2
<1> QED BY <1>3, <1>8, <1>9

(* The penalty writes the copy the job took, whose status is the row's. *)
LEMMA PenaltyStep ==
    ASSUME LoanInv, ApplyPenalty
    PROVE  LoanInv'
<1>0. RowsTyped /\ JobsTyped /\ cron.pc = "penalty"
  BY DEF LoanInv, ApplyPenalty
<1>1. /\ UNCHANGED <<run, fwd, comp, retry, faults, applied, failed, tries, ticking>>
      /\ UNCHANGED <<past, tried, rates, request, variable, clerk>>
      /\ cron' = [cron EXCEPT !.pc = "next"]
  BY DEF ApplyPenalty, sagaVars, money, recovery
<1>2. PICK c \in Clerks, n \in Month : cron.at = <<c, n>>
  BY <1>0 DEF LoanInv, Jobs, Working
<1>3. /\ cron.copy \in LoanRow /\ cron.copy.status = loan[c].status
      /\ cron.copy.base \in Nat /\ cron.copy.base + 1 \in Nat
  <2>1. cron.copy \in LoanRow
    BY <1>0 DEF JobsTyped
  <2>2. cron.copy.base \in Nat
    BY <2>1 DEF LoanRow
  <2>3. cron.copy.status = loan[cron.at[1]].status
    BY <1>0 DEF LoanInv, Jobs, Working
  <2> QED BY <1>2, <2>1, <2>2, <2>3
<1>4. /\ cron'.pc = "next" /\ cron'.todo = cron.todo /\ cron' \in Programs
      /\ cron'.pc \notin Working /\ cron.pc \notin Paying
  BY <1>0, <1>1, CronMoves DEF JobsTyped, Working, Paying, Legs
<1>5. dbFails' \in 0..MaxDbFails
  BY <1>0, ThreeSteps DEF ApplyPenalty, DbFails, RowsTyped
<1>6. UNCHANGED <<loan, inst>> \/ SaveRate(c, cron.copy, cron.copy.base + 1)
  BY <1>2 DEF ApplyPenalty
<1>7. /\ loan' \in [Clerks -> LoanRow] /\ inst' \in [Clerks -> [Month -> Inst]]
      /\ \A d \in Clerks : loan'[d].status = loan[d].status
      /\ \A d \in Clerks, i \in Month :
            /\ inst'[d][i].status = inst[d][i].status
            /\ (inst[d][i].status = "unpaid" => inst[d][i].rate = loan[d].base) =>
                  (inst'[d][i].status = "unpaid" => inst'[d][i].rate = loan'[d].base)
  <2>1. CASE UNCHANGED <<loan, inst>>
    BY <1>0, <2>1 DEF RowsTyped
  <2>2. CASE SaveRate(c, cron.copy, cron.copy.base + 1)
    BY <1>0, <1>3, <2>2, SaveRateEffect
  <2> QED BY <1>6, <2>1, <2>2
<1>8. Typed'
  BY <1>0, <1>1, <1>4, <1>5, <1>7 DEF LoanInv, Typed, RunsTyped, RowsTyped, JobsTyped,
        Programs
<1>9. Jobs'
  <2>1. \A x \in cron.todo : inst'[x[1]][x[2]].status \notin {"none", "paid"}
    <3> SUFFICES ASSUME NEW x \in cron.todo PROVE inst'[x[1]][x[2]].status \notin {"none", "paid"}
      OBVIOUS
    <3>1. x[1] \in Clerks /\ x[2] \in Month /\ inst[x[1]][x[2]].status \notin {"none", "paid"}
      BY <1>0 DEF JobsTyped, LoanInv, Jobs
    <3> QED BY <1>7, <3>1
  <2> QED BY <1>1, <1>4, <1>7, <2>1 DEF LoanInv, Jobs
<1>10. ASSUME NEW d \in Clerks, NEW i \in Month PROVE InstallmentOf(d, i)'
  <2>1. InstallmentOf(d, i)
    BY DEF LoanInv, Installments
  <2>2. ~InAttempt(d, i, Paying) /\ ~InAttempt(d, i, Working)'
    BY <1>4 DEF InAttempt
  <2>3. Exists(d)' = Exists(d)
    BY <1>7 DEF Exists
  <2>4. inst'[d][i].status = "unpaid" => inst'[d][i].rate = loan'[d].base
    BY <1>7, <2>1 DEF InstallmentOf
  <2> QED BY <1>1, <1>7, <2>1, <2>2, <2>3, <2>4, RatedInstallment
<1> QED BY <1>1, <1>7, <1>8, <1>9, <1>10, JobFrame DEF Installments

(* The rate update reads active loans, and writes what it read. *)
LEMMA RateSteps ==
    ASSUME LoanInv, (\E c \in Clerks : FindActiveVariableLoans(c)) \/ ApplyVariableRateUpdate
    PROVE  LoanInv'
<1>0. RowsTyped /\ JobsTyped
  BY DEF LoanInv
<1>1. ASSUME NEW c \in Clerks, FindActiveVariableLoans(c) PROVE LoanInv'
  <2>1. /\ UNCHANGED <<run, fwd, comp, retry, faults, loan, inst, applied, failed, tries, ticking>>
        /\ UNCHANGED <<past, cron, tried, dbFails, request, variable, clerk>>
        /\ rates' = [NoRun EXCEPT !.pc = "save", !.at = c, !.copy = loan[c]]
        /\ loan[c].status = "active"
    BY <1>1 DEF FindActiveVariableLoans, sagaVars, loanRows, money, recovery, cronVars
  <2>2. rates' = [pc |-> "save", todo |-> {}, at |-> c, copy |-> loan[c]]
    BY <2>1 DEF NoRun
  <2>3. rates' \in [pc : {"idle", "save"}, todo : {{}}, at : {None} \cup Clerks, copy : LoanRow]
    <3>1. loan[c] \in LoanRow
      BY <1>0 DEF RowsTyped
    <3>2. PICK e : e = {}
      OBVIOUS
    <3>3. rates' = [pc |-> "save", todo |-> e, at |-> c, copy |-> loan[c]]
      BY <2>2, <3>2
    <3>4. rates' \in [pc : {"idle", "save"}, todo : {e}, at : {None} \cup Clerks, copy : LoanRow]
      BY <3>1, <3>3
    <3> QED BY <3>2, <3>4
  <2>4. Typed'
    BY <1>0, <2>1, <2>3 DEF LoanInv, Typed, RunsTyped, RowsTyped, JobsTyped
  <2>5. Approvals'
    BY <2>1 DEF LoanInv, Approvals, Exists
  <2>6. Jobs'
    <3>1. rates'.at = c /\ rates'.copy = loan[c]
      BY <2>2
    <3> QED BY <2>1, <3>1 DEF LoanInv, Jobs
  <2> QED BY <2>1, <2>4, <2>5, <2>6, QuietFrame
<1>2. ASSUME ApplyVariableRateUpdate PROVE LoanInv'
  <2>1. /\ UNCHANGED <<run, fwd, comp, retry, faults, applied, failed, tries, ticking>>
        /\ UNCHANGED <<past, cron, tried, dbFails, request, variable, clerk>>
        /\ rates' = NoRun /\ rates.pc = "save"
    BY <1>2 DEF ApplyVariableRateUpdate, sagaVars, money, recovery, cronVars
  <2>2. PICK base \in Rates : SaveRate(rates.at, rates.copy, base)
    BY <1>2 DEF ApplyVariableRateUpdate
  <2>3. /\ rates.at \in Clerks /\ rates.copy.status = loan[rates.at].status /\ rates.copy \in LoanRow
        /\ base \in Nat
    BY <1>0, <2>1, ThreeSteps DEF LoanInv, Jobs, JobsTyped
  <2>4. /\ loan' \in [Clerks -> LoanRow] /\ inst' \in [Clerks -> [Month -> Inst]]
        /\ \A d \in Clerks : loan'[d].status = loan[d].status
        /\ \A d \in Clerks, i \in Month :
              /\ inst'[d][i].status = inst[d][i].status
              /\ (inst[d][i].status = "unpaid" => inst[d][i].rate = loan[d].base) =>
                    (inst'[d][i].status = "unpaid" => inst'[d][i].rate = loan'[d].base)
    BY <1>0, <2>2, <2>3, SaveRateEffect
  <2>5. rates' \in [pc : {"idle", "save"}, todo : {{}}, at : {None} \cup Clerks, copy : LoanRow]
        /\ rates'.pc = "idle"
    <3>1. NoLoan \in LoanRow
      BY DEF NoLoan, LoanRow
    <3>2. PICK e : e = {}
      OBVIOUS
    <3>3. rates' = [pc |-> "idle", todo |-> e, at |-> None, copy |-> NoLoan]
      BY <2>1, <3>2 DEF NoRun
    <3>4. rates' \in [pc : {"idle", "save"}, todo : {e}, at : {None} \cup Clerks, copy : LoanRow]
      BY <3>1, <3>3
    <3> QED BY <3>2, <3>3, <3>4
  <2>6. Typed'
    BY <1>0, <2>1, <2>4, <2>5 DEF LoanInv, Typed, RunsTyped, RowsTyped, JobsTyped
  <2>7. Jobs'
    <3>1. \A x \in cron.todo : inst'[x[1]][x[2]].status \notin {"none", "paid"}
      <4> SUFFICES ASSUME NEW x \in cron.todo PROVE inst'[x[1]][x[2]].status \notin {"none", "paid"}
        OBVIOUS
      <4>1. x[1] \in Clerks /\ x[2] \in Month /\ inst[x[1]][x[2]].status \notin {"none", "paid"}
        BY <1>0 DEF JobsTyped, LoanInv, Jobs
      <4> QED BY <2>4, <4>1
    <3>2. cron.pc \in Working =>
             /\ cron.at \in (Clerks \X Month) \ cron.todo
             /\ inst'[cron.at[1]][cron.at[2]].status \notin {"none", "paid"}
             /\ cron.copy.status = loan'[cron.at[1]].status
      BY <2>4 DEF LoanInv, Jobs
    <3> QED BY <2>1, <2>5, <3>1, <3>2 DEF LoanInv, Jobs
  <2>8. ASSUME NEW d \in Clerks, NEW i \in Month PROVE InstallmentOf(d, i)'
    <3>1. InstallmentOf(d, i)
      BY DEF LoanInv, Installments
    <3>2. Exists(d)' = Exists(d)
      BY <2>4 DEF Exists
    <3>3. inst'[d][i].status = "unpaid" => inst'[d][i].rate = loan'[d].base
      BY <2>4, <3>1 DEF InstallmentOf
    <3> QED BY <2>1, <2>4, <3>1, <3>2, <3>3, RatedInstallment
  <2> QED BY <2>1, <2>4, <2>6, <2>7, <2>8, JobFrame DEF Installments
<1> QED BY <1>1, <1>2

(* The installment is marked paid, or the write fails and both legs are    *)
(* reversed.                                                               *)
LEMMA MarkPaidStep ==
    ASSUME LoanInv, MarkPaid
    PROVE  LoanInv'
<1>0. RowsTyped /\ JobsTyped /\ cron.pc = "paid" /\ cron.pc \in Working
  BY DEF LoanInv, MarkPaid, Working
<1>1. /\ UNCHANGED <<run, fwd, comp, retry, faults, loan, applied, failed, tries, ticking>>
      /\ UNCHANGED <<past, tried, rates, request, variable, clerk>>
  BY DEF MarkPaid, sagaVars, money, recovery
<1>2. PICK c \in Clerks, n \in Month : cron.at = <<c, n>>
  BY <1>0 DEF LoanInv, Jobs
<1>3. <<c, n>> \notin cron.todo /\ inst[c][n] \in Inst /\ inst[c][n].status \notin {"none", "paid"}
  BY <1>0, <1>2 DEF LoanInv, Jobs, RowsTyped
<1>4. \/ inst' = [inst EXCEPT ![c][n].status = "paid"] /\ cron' = [cron EXCEPT !.pc = "next"]
      \/ inst' = inst /\ cron' = [cron EXCEPT !.pc = "bank-credit-compensate"]
  BY <1>2 DEF MarkPaid
<1>5. dbFails' \in 0..MaxDbFails
  BY <1>0, ThreeSteps DEF MarkPaid, DbFails, RowsTyped
<1>6. /\ cron'.at = <<c, n>> /\ cron'.todo = cron.todo /\ cron'.copy = cron.copy
      /\ cron' \in Programs /\ cron'.pc \in {"next", "bank-credit-compensate"}
  <2>1. "bank-credit-compensate" \in Working
    BY DEF Working, Legs
  <2>2. PICK p \in {"next", "bank-credit-compensate"} : cron' = [cron EXCEPT !.pc = p]
    BY <1>4
  <2>3. cron \in Programs
    BY <1>0 DEF JobsTyped, Programs
  <2>4. /\ [cron EXCEPT !.pc = p].at = cron.at /\ [cron EXCEPT !.pc = p].todo = cron.todo
        /\ [cron EXCEPT !.pc = p].copy = cron.copy /\ [cron EXCEPT !.pc = p].pc = p
    BY <2>3 DEF Programs
  <2>5. cron' \in Programs
    BY <1>0, <2>1, <2>2, CronMoves
  <2> QED BY <1>2, <2>2, <2>4, <2>5
<1>7. /\ inst' \in [Clerks -> [Month -> Inst]]
      /\ \A d \in Clerks, i \in Month : <<d, i>> # <<c, n>> => inst'[d][i] = inst[d][i]
      /\ \/ cron'.pc = "next" /\ inst'[c][n].status = "paid"
         \/ cron'.pc = "bank-credit-compensate" /\ inst'[c][n] = inst[c][n]
  <2>0. inst \in [Clerks -> [Month -> Inst]] /\ cron \in Programs
    BY <1>0 DEF RowsTyped, JobsTyped, Programs
  <2>1. CASE inst' = [inst EXCEPT ![c][n].status = "paid"] /\ cron' = [cron EXCEPT !.pc = "next"]
    <3>1. [inst[c][n] EXCEPT !.status = "paid"] \in Inst
          /\ [inst[c][n] EXCEPT !.status = "paid"].status = "paid"
      BY <1>3 DEF Inst
    <3>2. inst' = [inst EXCEPT ![c][n] = [inst[c][n] EXCEPT !.status = "paid"]]
      BY <2>0, <2>1
    <3>3. cron'.pc = "next"
      BY <2>0, <2>1 DEF Programs
    <3> QED BY <2>0, <3>1, <3>2, <3>3
  <2>2. CASE inst' = inst /\ cron' = [cron EXCEPT !.pc = "bank-credit-compensate"]
    BY <2>0, <2>2 DEF Programs
  <2> QED BY <1>4, <2>1, <2>2
<1>8. Typed'
  BY <1>0, <1>1, <1>5, <1>6, <1>7 DEF LoanInv, Typed, RunsTyped, RowsTyped, JobsTyped,
        Programs
<1>9. Jobs'
  <2>1. \A x \in cron.todo : inst'[x[1]][x[2]].status \notin {"none", "paid"}
    <3> SUFFICES ASSUME NEW x \in cron.todo PROVE inst'[x[1]][x[2]].status \notin {"none", "paid"}
      OBVIOUS
    <3>1. /\ x[1] \in Clerks /\ x[2] \in Month /\ inst[x[1]][x[2]].status \notin {"none", "paid"}
          /\ x = <<x[1], x[2]>>
      BY <1>0 DEF JobsTyped, LoanInv, Jobs
    <3> QED BY <1>3, <1>7, <3>1
  <2>2. past > 0 /\ cron.copy.status = loan[c].status
    BY <1>0, <1>2 DEF LoanInv, Jobs
  <2>3. cron'.pc \in Working =>
           /\ cron'.at \in (Clerks \X Month) \ cron'.todo
           /\ inst'[cron'.at[1]][cron'.at[2]].status \notin {"none", "paid"}
           /\ cron'.copy.status = loan'[cron'.at[1]].status
    <3>1. "next" \notin Working
      BY DEF Working, Legs
    <3> QED BY <1>1, <1>3, <1>6, <1>7, <2>2, <3>1
  <2> QED BY <1>1, <1>6, <2>1, <2>2, <2>3 DEF LoanInv, Jobs
<1>10. ASSUME NEW d \in Clerks, NEW i \in Month, <<d, i>> # <<c, n>> PROVE InstallmentOf(d, i)'
  <2>0. InstallmentOf(d, i)
    BY DEF LoanInv, Installments
  <2>1. Exists(d)' = Exists(d)
    BY <1>1 DEF Exists
  <2>2. ~InAttempt(d, i, Working) /\ ~InAttempt(d, i, Working)'
    BY <1>2, <1>6, <1>10 DEF InAttempt
  <2> QED BY <1>1, <1>7, <1>10, <2>0, <2>1, <2>2, SameInstallment
<1>11. InstallmentOf(c, n)'
  <2>0. InstallmentOf(c, n)
    BY DEF LoanInv, Installments
  <2>1. Exists(c)' = Exists(c)
    BY <1>1 DEF Exists
  <2>2. \A leg : Moved(c, n, leg)' = Moved(c, n, leg)
    BY <1>1 DEF Moved
  <2>3. GivenBack(c, n)' = GivenBack(c, n)
    BY <2>2 DEF GivenBack
  <2>4. InAttempt(c, n, Working) /\ InAttempt(c, n, {"bank-credit", "paid"}) /\ InAttempt(c, n, {"paid"})
        /\ InAttempt(c, n, {"debit", "bank-credit", "paid"})
    BY <1>0, <1>2 DEF InAttempt
  <2>5. /\ tried[c][n] > 0 /\ Moved(c, n, "debit") /\ Moved(c, n, "bank-credit")
        /\ tried[c][n] = 1 => \A leg \in Reversals : ~Moved(c, n, leg)
    BY <2>0, <2>4 DEF InstallmentOf
  <2>6. ~InAttempt(c, n, {"bank-credit", "paid"})' /\ ~InAttempt(c, n, {"paid"})'
        /\ ~InAttempt(c, n, {"debit", "bank-credit", "paid"})'
    BY <1>6 DEF InAttempt
  <2>7. inst'[c][n].status # "paid" => InAttempt(c, n, {"bank-credit", "paid"} \cup Reversals)'
    BY <1>6, <1>7 DEF InAttempt, Reversals
  <2>8. inst'[c][n].status = "unpaid" => inst'[c][n].rate = loan'[c].base
    BY <1>1, <1>7, <2>0 DEF InstallmentOf
  <2>9. Exists(c)
    BY <1>3, <2>0 DEF InstallmentOf
  <2>10. tried' = tried
    BY <1>1
  <2> QED BY <2>0, <2>1, <2>2, <2>3, <2>5, <2>6, <2>7, <2>8, <2>9, <2>10
        DEF InstallmentOf
<1>12. Installments'
  <2> SUFFICES ASSUME NEW d \in Clerks, NEW i \in Month PROVE InstallmentOf(d, i)'
    BY DEF Installments
  <2>1. CASE <<d, i>> = <<c, n>>
    BY <1>11, <2>1
  <2> QED BY <1>10, <2>1
<1> QED BY <1>1, <1>8, <1>9, <1>12, JobFrame

(* The service dies: runs and jobs are gone, rows and keys stay. *)
LEMMA CrashStep ==
    ASSUME LoanInv, ServiceCrash
    PROVE  LoanInv'
<1>0. RunsTyped /\ RowsTyped /\ JobsTyped
  BY DEF LoanInv
<1>1. /\ UNCHANGED <<comp, retry, request, variable, loan, inst, applied, failed, tries>>
      /\ UNCHANGED <<past, tried, dbFails>>
      /\ ticking' = {} /\ cron' = NoRun /\ rates' = NoRun
      /\ run' = [c \in Clerks |-> Idle] /\ faults' = [faults EXCEPT !.crash = faults.crash + 1]
      /\ clerk' = [c \in Clerks |-> IF clerk[c] \in {"checked", "disbursing"} THEN "done" ELSE clerk[c]]
  BY DEF ServiceCrash, Crash, money, Clerks
<1>2. /\ faults' \in [crash : Nat, refusal : Nat, back : Nat, mark : Nat] /\ faults'.crash # 0
  BY <1>0, <1>1 DEF RunsTyped
<1>3. /\ clerk' \in [Clerks -> {"idle", "checked", "disbursing", "done"}]
      /\ \A c \in Clerks : /\ clerk'[c] \in {"idle", "done"}
                           /\ clerk'[c] = "idle" <=> clerk[c] = "idle"
  <2>1. \A c \in Clerks : clerk[c] \in {"idle", "checked", "disbursing", "done"}
    BY <1>0 DEF RowsTyped
  <2> QED BY <1>1, <2>1
<1>4. /\ run' \in [Clerks -> LoanRun]
      /\ \A c \in Clerks : run'[c].pc = "idle" /\ run'[c].done = {} /\ ~run'[c].error
  <2>1. \A c \in Clerks : run'[c] = Idle
    BY <1>1
  <2>2. Idle.pc = "idle" /\ Idle.done = {} /\ ~Idle.error
    BY DEF Idle
  <2> QED BY <1>1, <2>1, <2>2, IdleRun
<1>5. fwd' \in [Clerks -> [1..3 -> SUBSET {"pending", "completed", "failed", "dead_letter"}]]
  <2> DEFINE more(c, i) == IF run[c].pc \in {"call", "mark"} /\ run[c].at = i THEN {"pending"} ELSE {}
  <2>1. \A c \in Clerks, i \in 1..3 :
           fwd[c][i] \cup more(c, i) \in SUBSET {"pending", "completed", "failed", "dead_letter"}
    BY <1>0 DEF RunsTyped
  <2>2. fwd' = [c \in Sagas |-> [i \in Steps(c) |-> fwd[c][i] \cup more(c, i)]]
    BY DEF ServiceCrash, Crash
  <2> HIDE DEF more
  <2>3. fwd' = [c \in Clerks |-> [i \in 1..3 |-> fwd[c][i] \cup more(c, i)]]
    BY <2>2, ThreeSteps DEF Clerks
  <2> QED BY <2>1, <2>3
<1>6. /\ cron' \in Programs /\ cron'.pc = "idle" /\ cron'.todo = {} /\ cron'.pc \notin Working
      /\ rates'.pc = "idle"
      /\ rates' \in [pc : {"idle", "save"}, todo : {{}}, at : {None} \cup Clerks, copy : LoanRow]
  <2>1. cron' \in Programs
    BY <1>0, <1>1, CronMoves
  <2>2. NoRun.pc = "idle" /\ NoRun.todo = {}
    BY DEF NoRun
  <2>3. NoLoan \in LoanRow
    BY DEF NoLoan, LoanRow
  <2>4. PICK e : e = {}
    OBVIOUS
  <2>5. rates' = [pc |-> "idle", todo |-> e, at |-> None, copy |-> NoLoan]
    BY <1>1, <2>4 DEF NoRun
  <2>6. rates' \in [pc : {"idle", "save"}, todo : {e}, at : {None} \cup Clerks, copy : LoanRow]
    BY <2>3, <2>5
  <2> QED BY <1>1, <2>1, <2>2, <2>4, <2>6 DEF Working, Legs
<1>7. Typed'
  BY <1>0, <1>1, <1>2, <1>3, <1>4, <1>5, <1>6 DEF Typed, RunsTyped, RowsTyped,
        JobsTyped, Programs
<1>8. Approvals'
  BY <1>1, <1>3 DEF LoanInv, Approvals, Exists
<1>9. Jobs'
  BY <1>1, <1>3, <1>6 DEF LoanInv, Jobs
<1>10. ASSUME NEW c \in Clerks PROVE DisbursementOf(c)'
  <2>0. DisbursementOf(c) /\ clerk[c] \in {"idle", "checked", "disbursing", "done"}
    BY <1>0 DEF LoanInv, Disbursements, RowsTyped
  <2>1. AtStep(c)'
    BY <1>3, <1>4 DEF AtStep
  <2>2. clerk[c] = "disbursing" => loan[c].status # "disbursement_failed"
    BY DEF LoanInv, Approvals
  <2>3. clerk[c] # "disbursing" => run[c].done = {}
    BY <2>0 DEF DisbursementOf, AtStep
  <2>4. ASSUME NEW i \in 1..2 PROVE LegOf(c, i)'
    <3>1. LegOf(c, i)
      BY <2>0, Legs12
    <3>2. /\ comp' = comp /\ applied' = applied /\ failed' = failed /\ loan' = loan
          /\ run'[c].pc = "idle" /\ run'[c].done = {} /\ ~run'[c].error
          /\ clerk'[c] \in {"idle", "done"} /\ (clerk'[c] = "idle" <=> clerk[c] = "idle")
      BY <1>1, <1>3, <1>4
    <3>3. comp[c][i] # "none" => clerk'[c] = "done"
      BY <2>0, <3>1, <3>2 DEF LegOf
    <3> QED BY <2>2, <2>3, <3>1, <3>2, <3>3 DEF LegOf
  <2>5. comp'[c][3] = "none" /\ clerk'[c] # "disbursing"
    BY <1>1, <1>3, <2>0 DEF DisbursementOf
  <2> QED BY <2>1, <2>4, <2>5 DEF DisbursementOf
<1>11. Disbursements'
  BY <1>1, <1>10 DEF Disbursements
<1>12. ASSUME NEW c \in Clerks, NEW i \in Month PROVE InstallmentOf(c, i)'
  <2>0. InstallmentOf(c, i)
    BY DEF LoanInv, Installments
  <2>1. \A leg : Moved(c, i, leg)' = Moved(c, i, leg)
    BY <1>1 DEF Moved
  <2>2. /\ ~InAttempt(c, i, {"bank-credit", "paid"})' /\ ~InAttempt(c, i, {"paid"})'
        /\ ~InAttempt(c, i, {"debit", "bank-credit", "paid"})' /\ ~InAttempt(c, i, Working)'
    BY <1>6 DEF InAttempt
  <2>3. inst' = inst /\ loan' = loan /\ tried' = tried /\ Exists(c)' = Exists(c)
    BY <1>1 DEF Exists
  <2> QED BY <1>2, <2>0, <2>1, <2>2, <2>3 DEF InstallmentOf
<1> QED BY <1>7, <1>8, <1>9, <1>11, <1>12 DEF LoanInv, Typed, Installments

-----------------------------------------------------------------------------
(* Theorems *)

LEMMA InitInv == Init => LoanInv
<1> SUFFICES ASSUME Init PROVE LoanInv
  OBVIOUS
<1>1. RunsTyped
  <2>1. run \in [Clerks -> LoanRun]
    BY IdleRun DEF Init, SagaInit, Clerks
  <2>2. comp \in [Clerks -> [1..3 -> {"none", "compensating", "compensated", "dead_letter"}]]
    BY ThreeSteps DEF Init, SagaInit, Clerks
  <2>3. fwd \in [Clerks -> [1..3 -> SUBSET {"pending", "completed", "failed", "dead_letter"}]]
    <3>1. fwd = [c \in Clerks |-> [i \in 1..3 |-> {}]]
      BY ThreeSteps DEF Init, SagaInit, Clerks
    <3> QED BY <3>1
  <2>4. retry \in [Clerks -> 0..MaxRetries]
    BY ThreeSteps DEF Init, SagaInit, Clerks
  <2>5. faults \in [crash : Nat, refusal : Nat, back : Nat, mark : Nat]
    BY DEF Init, SagaInit, NoFaults
  <2> QED BY <2>1, <2>2, <2>3, <2>4, <2>5 DEF RunsTyped
<1>2. RowsTyped
  <2>1. loan \in [Clerks -> LoanRow]
    BY DEF Init, NoLoan, LoanRow
  <2>2. inst \in [Clerks -> [Month -> Inst]]
    BY DEF Init, Inst
  <2>3. tries \in [Clerks -> [1..3 -> 0..MaxRetries]] /\ dbFails \in 0..MaxDbFails
    BY ThreeSteps DEF Init
  <2> QED BY <2>1, <2>2, <2>3 DEF Init, RowsTyped
<1>3. NoRun.pc = "idle" /\ NoRun.todo = {} /\ NoLoan \in LoanRow
  BY DEF NoRun, NoLoan, LoanRow
<1>4. JobsTyped
  <2>1. PICK e \in SUBSET (Clerks \X Month) : e = {}
    OBVIOUS
  <2>2. NoRun = [pc |-> "idle", todo |-> e, at |-> None, copy |-> NoLoan]
    BY <2>1 DEF NoRun
  <2>3. NoRun \in [pc : Working \cup {"idle", "list", "next"}, todo : SUBSET (Clerks \X Month),
                   at : {None} \cup (Clerks \X Month), copy : LoanRow]
    BY <1>3, <2>1, <2>2
  <2>4. NoRun \in [pc : {"idle", "save"}, todo : {e}, at : {None} \cup Clerks, copy : LoanRow]
    BY <1>3, <2>2
  <2>5. tried \in [Clerks -> [Month -> Nat]] /\ past \in 0..Months
    BY ThreeSteps DEF Init
  <2> QED BY <2>1, <2>3, <2>4, <2>5 DEF Init, JobsTyped
<1>5. \A c \in Clerks : ~Exists(c) /\ clerk[c] = "idle" /\ loan[c].status = "none"
  BY DEF Init, Exists, NoLoan
<1>6. Approvals
  BY <1>5 DEF Init, Approvals
<1>7. ASSUME NEW c \in Clerks PROVE DisbursementOf(c)
  <2>1. run[c] = Idle /\ \A i \in 1..3 : comp[c][i] = "none"
    BY ThreeSteps DEF Init, SagaInit, Clerks
  <2>2. run[c].pc = "idle" /\ run[c].done = {} /\ ~run[c].error
    BY <2>1 DEF Idle
  <2>3. applied = {} /\ failed = {}
    BY DEF Init
  <2>4. AtStep(c)
    BY <1>5, <2>2 DEF AtStep
  <2>5. ASSUME NEW i \in 1..2 PROVE LegOf(c, i)
    BY <1>5, <2>1, <2>2, <2>3 DEF LegOf
  <2> QED BY <1>5, <2>1, <2>4, <2>5 DEF DisbursementOf
<1>8. Disbursements
  BY <1>7 DEF Init, Disbursements
<1>9. Jobs
  BY <1>3 DEF Init, Jobs, Working, Legs
<1>10. ASSUME NEW c \in Clerks, NEW i \in Month PROVE InstallmentOf(c, i)
  <2>1. inst[c][i].status = "none" /\ tried[c][i] = 0 /\ applied = {}
    BY DEF Init
  <2>2. \A leg : ~Moved(c, i, leg)
    BY <2>1 DEF Moved
  <2>3. /\ ~InAttempt(c, i, {"bank-credit", "paid"}) /\ ~InAttempt(c, i, {"paid"})
        /\ ~InAttempt(c, i, {"debit", "bank-credit", "paid"}) /\ ~InAttempt(c, i, Working)
    BY <1>3 DEF Init, InAttempt, Working, Legs
  <2> QED BY <2>1, <2>2, <2>3 DEF InstallmentOf
<1> QED BY <1>1, <1>2, <1>4, <1>6, <1>8, <1>9, <1>10 DEF LoanInv, Installments

LEMMA NextKeeps == LoanInv /\ [Next]_vars => LoanInv'
<1> SUFFICES ASSUME LoanInv, [Next]_vars PROVE LoanInv'
  OBVIOUS
<1>1. CASE CreateLoanRequest \/ RejectLoanRequest \/ \E c \in Clerks : PreCheck(c)
  BY <1>1, RequestSteps
<1>2. ASSUME NEW c \in Clerks, ApproveTx(c) PROVE LoanInv'
  BY <1>2, ApproveTxLate, CreateLoanStep
<1>3. ASSUME NEW c \in Clerks, Disburse(c) PROVE LoanInv'
  BY <1>3, DisburseKeeps
<1>4. CASE RecoveryTick
  BY <1>4, RecoveryTickStep
<1>5. ASSUME NEW x \in ticking, Recovery(x) PROVE LoanInv'
  BY <1>5, RecoveryStep
<1>6. CASE Midnight
  BY <1>6, MidnightStep
<1>7. CASE Collection
  BY <1>7, OverdueStep, ListSteps, ProcessStep, UpdateBalanceStep, PenaltyStep,
        MarkPaidStep
     DEF Collection
<1>8. CASE (\E c \in Clerks : FindActiveVariableLoans(c)) \/ ApplyVariableRateUpdate
  BY <1>8, RateSteps
<1>9. CASE ServiceCrash
  BY <1>9, CrashStep
<1>10. CASE UNCHANGED vars
  <2>1. /\ UNCHANGED <<run, fwd, comp, retry, faults, request, variable, clerk, loan, inst>>
        /\ UNCHANGED <<applied, failed, tries, ticking, past, cron, tried, rates, dbFails>>
    BY <1>10 DEF vars, sagaVars, loanRows, money, recovery, cronVars
  <2>2. Typed' /\ Approvals' /\ Jobs'
    BY <2>1 DEF LoanInv, Typed, RunsTyped, RowsTyped, JobsTyped, Approvals, Exists, Jobs
  <2> QED BY <2>1, <2>2, QuietFrame
<1> QED BY <1>1, <1>2, <1>3, <1>4, <1>5, <1>6, <1>7, <1>8, <1>9, <1>10 DEF Next

LEMMA InvHolds == Spec => []LoanInv
BY InitInv, NextKeeps, PTL DEF Spec

(* Rows, keys, runs and jobs keep their types whatever fails. *)
THEOREM TypeCorrect == Spec => []LoanTypeOK
<1>1. LoanInv => LoanTypeOK
  <2> SUFFICES ASSUME LoanInv PROVE LoanTypeOK
    OBVIOUS
  <2>1. SagaTypeOK
    <3>1. \A c \in Clerks : run[c] \in LoanRun
      BY DEF LoanInv, RunsTyped
    <3>2. LoanRun \subseteq [pc : Positions, at : Nat, done : SUBSET Nat, error : BOOLEAN,
                             row : {None} \cup ({"fwd", "comp"} \X Nat)]
      BY DEF LoanRun
    <3>3. run \in [Clerks -> [pc : Positions, at : Nat, done : SUBSET Nat, error : BOOLEAN,
                              row : {None} \cup ({"fwd", "comp"} \X Nat)]]
      BY <3>2 DEF LoanInv, RunsTyped
    <3>4. \A c \in Clerks : run[c].at \in 0..3 /\ run[c].done \subseteq 1..3
      BY <3>1 DEF LoanRun
    <3>5. \A c \in Clerks : run[c].at \in {0} \cup 1..3
      BY <3>4
    <3>6. \A c \in Clerks :
             /\ fwd[c] \in [1..3 -> SUBSET {"pending", "completed", "failed", "dead_letter"}]
             /\ comp[c] \in [1..3 -> {"none", "compensating", "compensated", "dead_letter"}]
             /\ retry[c] \in 0..MaxRetries
      BY DEF LoanInv, RunsTyped
    <3> QED BY <3>3, <3>4, <3>5, <3>6, ThreeSteps DEF SagaTypeOK, Positions, Clerks
  <2>2. applied \cup failed \subseteq AllKeys
    BY DEF LoanInv, RowsTyped
  <2>3. cron.pc \in Legs \cup {"idle", "list", "next", "paid", "penalty"} /\ rates.pc \in {"idle", "save"}
    BY DEF LoanInv, JobsTyped, Working
  <2> QED BY <2>1, <2>2, <2>3 DEF LoanInv, RowsTyped, JobsTyped, LoanTypeOK, LoanRow,
        Inst, AllKeys
<1> QED BY <1>1, InvHolds, PTL

(* However approvals, a rejection, the recovery tick and crashes overlap,  *)
(* and whatever answers are lost: an approved request has one loan, an     *)
(* active loan's legs moved and were not given back, and a leg of a failed *)
(* one is given back, or its row says so, or its own answer was an error.  *)
THEOREM OneLoanDisbursedOrUndoneHolds == Spec => []OneLoanDisbursedOrUndone
<1>1. LoanInv => OneLoanDisbursedOrUndone
  <2> SUFFICES ASSUME LoanInv PROVE OneLoanDisbursedOrUndone
    OBVIOUS
  <2>1. OneLoan
    <3>1. CASE request = "approved"
      <4>1. PICK c \in Clerks : \A d \in Clerks : Exists(d) <=> d = c
        BY <3>1 DEF LoanInv, Approvals
      <4>2. {d \in Clerks : Exists(d)} = {c}
        BY <4>1
      <4> QED BY <3>1, <4>2, FS_Singleton DEF OneLoan
    <3>2. CASE request # "approved"
      <4>1. {d \in Clerks : Exists(d)} = {}
        BY <3>2 DEF LoanInv, Approvals
      <4> QED BY <3>2, <4>1, FS_EmptySet DEF OneLoan
    <3> QED BY <3>1, <3>2
  <2>2. ASSUME NEW c \in Clerks, NEW i \in 1..2
        PROVE  /\ loan[c].status = "active" /\ clerk[c] = "done" =>
                     ForwardKey(c, i) \in applied /\ BackwardKey(c, i) \notin applied
               /\ loan[c].status = "disbursement_failed" /\ ForwardKey(c, i) \in applied =>
                     \/ BackwardKey(c, i) \in applied
                     \/ comp[c][i] \in {"compensating", "dead_letter"}
                     \/ ForwardKey(c, i) \in failed
               /\ BackwardKey(c, i) \in applied => ForwardKey(c, i) \in applied
    <3>1. DisbursementOf(c)
      BY DEF LoanInv, Disbursements
    <3>2. LegOf(c, i)
      BY <3>1, Legs12
    <3>3. loan[c].status = "disbursement_failed" => run[c].done = {}
      BY <3>1 DEF LoanInv, Approvals, DisbursementOf, AtStep
    <3> QED BY <3>2, <3>3 DEF LegOf
  <2> QED BY <2>1, <2>2 DEF OneLoanDisbursedOrUndone
<1> QED BY <1>1, InvHolds, PTL

(* A paid installment was taken and reached the bank; one that is not paid *)
(* keeps nothing of the borrower's money, but for the faults the property  *)
(* names, whatever the number of attempts.                                 *)
THEOREM InstallmentIsWholeHolds == Spec => []InstallmentIsWhole
<1>1. LoanInv => InstallmentIsWhole
  <2> SUFFICES ASSUME LoanInv, NEW c \in Clerks, NEW i \in Month
      PROVE  /\ inst[c][i].status = "paid" =>
                   /\ Moved(c, i, "debit") /\ Moved(c, i, "bank-credit")
                   /\ tried[c][i] = 1 => ~GivenBack(c, i) /\ ~Moved(c, i, "bank-credit-compensate")
             /\ /\ inst[c][i].status # "paid" /\ Moved(c, i, "debit")
                /\ cron.pc = "idle" /\ faults.crash = 0
                => \/ GivenBack(c, i)
                   \/ \E leg \in {"debit", "debit-compensate", "debit-compensate-2"} :
                         <<c, i, leg>> \in failed
    BY DEF InstallmentIsWhole
  <2>1. InstallmentOf(c, i)
    BY DEF LoanInv, Installments
  <2>2. cron.pc = "idle" => ~InAttempt(c, i, {"bank-credit", "paid"} \cup Reversals)
    BY DEF InAttempt, Reversals
  <2>3. (\A leg \in Reversals : ~Moved(c, i, leg)) =>
           ~GivenBack(c, i) /\ ~Moved(c, i, "bank-credit-compensate")
    BY DEF GivenBack, Reversals
  <2> QED BY <2>1, <2>2, <2>3 DEF InstallmentOf
<1> QED BY <1>1, InvHolds, PTL

(* Unpaid installments carry the loan's rate, however penalties and rate   *)
(* updates overwrite each other.                                           *)
THEOREM InstallmentsFollowLoanHolds == Spec => []InstallmentsFollowLoan
<1>1. LoanInv => InstallmentsFollowLoan
  BY DEF LoanInv, Installments, InstallmentOf, InstallmentsFollowLoan
<1> QED BY <1>1, InvHolds, PTL
=============================================================================
