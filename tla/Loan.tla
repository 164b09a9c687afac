------------------------------- MODULE Loan -------------------------------
(***************************************************************************)
(* credit-service: one loan request from its approval to the collection of *)
(* its installments.  The loan a clerk's approval creates is named after   *)
(* the clerk, and so is its disbursement saga "loan-disbursement-<id>",    *)
(* which runs on SagaExecutor.  Recovery is credit-service's own: it only  *)
(* repeats compensations.                                                  *)
(*                                                                         *)
(* account-service applies a keyed balance update or bank operation once   *)
(* and answers a repetition from its record, so the money is the set of    *)
(* keys applied.  A key is <<loan, installment (0: disbursement), leg>>.   *)
(***************************************************************************)
EXTENDS SagaExecutor

CONSTANTS
    Months,         \* RepaymentPeriod
    Rates,          \* variable base rates a tier may be given
    MaxLost,        \* bound on answers lost after the call was applied
    MaxDbFails      \* bound on writes of credit-service that fail

ASSUME LoanAssumption ==
    /\ Months \in Nat \ {0} /\ Rates \subseteq Nat /\ Rates # {}
    /\ MaxLost \in Nat /\ MaxDbFails \in Nat
    /\ \A c \in Sagas : Length[c] = 3

Clerks == Sagas
Month == 1..Months

VARIABLES
    request,        \* status of the loan request
    variable,       \* whether it asks for a variable rate
    clerk,          \* where each ApproveLoanRequest call is
    loan,           \* the loan rows: status and base rate
    inst,           \* their installments: status and rate
    applied,        \* keys account-service has applied
    failed,         \* keys whose call was answered with an error
    tries,          \* retry_count of each compensation row
    ticking,        \* rows the recovery tick has listed and not yet handled
    past,           \* installments whose expected_date is past
    cron,           \* the collection job
    rates,          \* an ApplyVariableRateUpdate call
    tried,          \* history: attempts at each installment
    dbFails         \* writes of credit-service that failed

loanRows == <<request, variable, clerk, loan, inst>>
money == <<applied, failed>>
cronVars == <<past, cron, tried>>
recovery == <<tries, ticking>>
vars == <<sagaVars, loanRows, money, recovery, cronVars, rates, dbFails>>

NoLoan == [status |-> "none", base |-> 0]
NoRun == [pc |-> "idle", todo |-> {}, at |-> None, copy |-> NoLoan]

Init ==
    /\ SagaInit
    /\ request = "none" /\ variable = FALSE
    /\ clerk = [c \in Clerks |-> "idle"]
    /\ loan = [c \in Clerks |-> NoLoan]
    /\ inst = [c \in Clerks |-> [i \in Month |-> [status |-> "none", rate |-> 0]]]
    /\ applied = {} /\ failed = {}
    /\ tries = [c \in Clerks |-> [i \in 1..3 |-> 0]] /\ ticking = {}
    /\ past = 0 /\ cron = NoRun /\ rates = NoRun
    /\ tried = [c \in Clerks |-> [i \in Month |-> 0]]
    /\ dbFails = 0

Exists(c) == loan[c].status # "none"

-----------------------------------------------------------------------------
(* account-service, as its callers see it *)

Applies(key) == applied' = applied \cup {key} /\ UNCHANGED failed

(* The call is refused, or account-service cannot be reached ... *)
Refuses(key) == failed' = failed \cup {key} /\ UNCHANGED applied

(* ... or it applies the call and its answer is lost. *)
Loses(key) ==
    /\ Cardinality(failed \cap applied) < MaxLost
    /\ applied' = applied \cup {key} /\ failed' = failed \cup {key}

(* A write of credit-service's own database fails. *)
DbFails == dbFails < MaxDbFails /\ dbFails' = dbFails + 1

-----------------------------------------------------------------------------
(* Requests *)

CreateLoanRequest ==
    /\ request = "none"
    /\ request' = "pending" /\ variable' \in BOOLEAN
    /\ UNCHANGED <<sagaVars, clerk, loan, inst, money, recovery, cronVars, rates, dbFails>>

RejectLoanRequest ==
    /\ request = "pending"
    /\ request' = "rejected"
    /\ UNCHANGED <<sagaVars, variable, clerk, loan, inst, money, recovery, cronVars, rates, dbFails>>

(* ApproveLoanRequest looks at the request before it takes any lock. *)
PreCheck(c) ==
    /\ clerk[c] = "idle" /\ request = "pending"
    /\ clerk' = [clerk EXCEPT ![c] = "checked"]
    /\ UNCHANGED <<sagaVars, request, variable, loan, inst, money, recovery, cronVars, rates, dbFails>>

(* The loan, its installments and the request's status are one transaction. *)
CreateLoan(c, base) ==
    /\ request' = "approved"
    /\ loan' = [loan EXCEPT ![c] = [status |-> "approved", base |-> base]]
    /\ inst' = [inst EXCEPT ![c] = [i \in Month |-> [status |-> "unpaid", rate |-> base]]]
    /\ clerk' = [clerk EXCEPT ![c] = "disbursing"]
    /\ Execute(c)

ApproveTx(c) ==
    /\ clerk[c] = "checked"
    /\ \/ /\ request = "pending"
          /\ \E base \in Rates : CreateLoan(c, base)
       \/ /\ request # "pending"
          /\ clerk' = [clerk EXCEPT ![c] = "done"]
          /\ UNCHANGED <<sagaVars, request, loan, inst>>
    /\ UNCHANGED <<variable, money, recovery, cronVars, rates, dbFails>>

-----------------------------------------------------------------------------
(* Disburse: debit_bank, credit_borrower, mark_loan_active *)

ForwardKey(c, i) == <<c, 0, IF i = 1 THEN "debit" ELSE "credit">>
BackwardKey(c, i) == <<c, 0, IF i = 1 THEN "debit-comp" ELSE "credit-comp">>

(* A bare Save overwrites the row, whatever its version. *)
Save(c, copy) == loan' = [loan EXCEPT ![c] = copy]

Forward(c) ==
    /\ ForwardDone(c)
    /\ \/ run[c].at < 3 /\ Applies(ForwardKey(c, run[c].at)) /\ UNCHANGED loan
       \/ run[c].at = 3 /\ Save(c, [loan[c] EXCEPT !.status = "active"]) /\ UNCHANGED money
    /\ UNCHANGED <<request, variable, clerk, inst, recovery, cronVars, rates, dbFails>>

ForwardFails(c) ==
    /\ ForwardFailed(c)
    /\ \/ /\ run[c].at < 3
          /\ \/ /\ faults.refusal < MaxRefusals
                /\ faults' = [faults EXCEPT !.refusal = @ + 1]
                /\ Refuses(ForwardKey(c, run[c].at))
             \/ Loses(ForwardKey(c, run[c].at)) /\ UNCHANGED faults
          /\ UNCHANGED dbFails
       \/ run[c].at = 3 /\ DbFails /\ UNCHANGED <<money, faults>>
    /\ UNCHANGED <<loanRows, recovery, cronVars, rates>>

Backward(c) ==
    /\ BackwardDone(c)
    /\ Applies(BackwardKey(c, run[c].at))
    /\ UNCHANGED <<loanRows, recovery, cronVars, rates, dbFails>>

(* MarkCompensationFailed only notes the error: the row stays as it is,    *)
(* completed too if the recovery tick was faster.                          *)
BackwardFails(c) ==
    /\ run[c].pc = "back" /\ faults.back < MaxBackFails
    /\ faults' = [faults EXCEPT !.back = @ + 1]
    /\ run' = [run EXCEPT ![c].pc = "undo", ![c].done = @ \ {run[c].at}]
    /\ Refuses(BackwardKey(c, run[c].at)) \/ Loses(BackwardKey(c, run[c].at))
    /\ UNCHANGED <<fwd, comp, retry, loanRows, recovery, cronVars, rates, dbFails>>

(* Disburse returns; after an error the loan is flagged, which may fail. *)
DisburseReturns(c) ==
    /\ Return(c)
    /\ clerk' = [clerk EXCEPT ![c] = "done"]
    /\ \/ ~run[c].error /\ UNCHANGED <<loan, dbFails>>
       \/ run[c].error /\ Save(c, [loan[c] EXCEPT !.status = "disbursement_failed"])
                       /\ UNCHANGED dbFails
       \/ run[c].error /\ DbFails /\ UNCHANGED loan
    /\ UNCHANGED <<request, variable, inst, money, recovery, cronVars, rates>>

ExecutorStep(c) ==
    /\ \/ RecordForward(c) \/ MarkCompleted(c) \/ MarkCompletedFails(c)
       \/ RecordCompensation(c) \/ MarkCompensated(c)
    /\ UNCHANGED <<loanRows, money, recovery, cronVars, rates, dbFails>>

Disburse(c) ==
    \/ Forward(c) \/ ForwardFails(c) \/ Backward(c) \/ BackwardFails(c)
    \/ ExecutorStep(c) \/ DisburseReturns(c)

-----------------------------------------------------------------------------
(* runRecoveryTick: lists every compensating row, of running sagas too *)

Compensating == {x \in Clerks \X (1..3) : comp[x[1]][x[2]] = "compensating"}

RecoveryTick ==
    /\ ticking = {} /\ Compensating # {}
    /\ ticking' = Compensating
    /\ UNCHANGED <<sagaVars, loanRows, money, tries, cronVars, rates, dbFails>>

Handled(x) == ticking' = ticking \ {x}
Tries(x) == tries[x[1]][x[2]]
SetRow(x, status) == comp' = [comp EXCEPT ![x[1]][x[2]] = status]

MoveToDeadLetter(x) ==
    /\ Tries(x) >= MaxRetries
    /\ SetRow(x, "dead_letter") /\ Handled(x)
    /\ UNCHANGED <<run, fwd, retry, faults, loanRows, money, tries, cronVars, rates, dbFails>>

(* Only the Backward of the row's own step; CompleteStep may fail after it. *)
RetryStuckCompensation(x) ==
    /\ Tries(x) < MaxRetries
    /\ Applies(BackwardKey(x[1], x[2])) /\ Handled(x)
    /\ \/ SetRow(x, "compensated") /\ UNCHANGED dbFails
       \/ DbFails /\ UNCHANGED comp
    /\ UNCHANGED <<run, fwd, retry, faults, loanRows, tries, cronVars, rates>>

(* Fault: the row is completed although the call failed. *)
RetryFailsCompleted(x) ==
    /\ Tries(x) < MaxRetries
    /\ Refuses(BackwardKey(x[1], x[2])) /\ Handled(x)
    /\ SetRow(x, "compensated")
    /\ UNCHANGED <<run, fwd, retry, faults, tries, loanRows, cronVars, rates, dbFails>>

(* Fault: the retry is not counted. *)
RetryFailsUncounted(x) ==
    /\ Tries(x) < MaxRetries
    /\ Refuses(BackwardKey(x[1], x[2])) /\ Handled(x)
    /\ UNCHANGED <<sagaVars, tries, loanRows, cronVars, rates, dbFails>>

RetryFails(x) ==
    /\ Tries(x) < MaxRetries
    /\ Refuses(BackwardKey(x[1], x[2])) /\ Handled(x)
    /\ tries' = [tries EXCEPT ![x[1]][x[2]] = @ + 1]
    /\ UNCHANGED <<sagaVars, loanRows, cronVars, rates, dbFails>>

Recovery(x) == MoveToDeadLetter(x) \/ RetryStuckCompensation(x) \/ RetryFails(x)

-----------------------------------------------------------------------------
(* collectDueInstallments *)

(* The first installment is due a month after the approval, by when its    *)
(* disbursement has returned or died.                                      *)
Midnight ==
    /\ past < Months /\ \E c \in Clerks : Exists(c)
    /\ \A c \in Clerks : clerk[c] # "disbursing"
    /\ past' = past + 1
    /\ UNCHANGED <<sagaVars, loanRows, money, recovery, cron, rates, tried, dbFails>>

Due(c) == {i \in Month : inst[c][i].status = "unpaid" /\ i <= past}

(* MarkOverdue comes before the look for what is due; its error is logged. *)
MarkOverdueInstallments ==
    /\ cron.pc = "idle"
    /\ cron' = [cron EXCEPT !.pc = "list"]
    /\ \/ /\ inst' = [c \in Clerks |-> [i \in Month |->
                   IF i \in Due(c) THEN [inst[c][i] EXCEPT !.status = "overdue"] ELSE inst[c][i]]]
          /\ UNCHANGED dbFails
       \/ DbFails /\ UNCHANGED inst
    /\ UNCHANGED <<sagaVars, request, variable, clerk, loan, money, recovery, past, rates, tried>>

GetDueInstallments ==
    /\ cron.pc = "list"
    /\ cron' = [cron EXCEPT !.pc = "next", !.todo = {x \in Clerks \X Month : x[2] \in Due(x[1])}]
    /\ UNCHANGED <<sagaVars, loanRows, money, recovery, past, rates, tried, dbFails>>

CollectionEnds ==
    /\ cron.pc = "next" /\ cron.todo = {}
    /\ cron' = NoRun
    /\ UNCHANGED <<sagaVars, loanRows, money, recovery, past, rates, tried, dbFails>>

(* processInstallment reads the loan, of any status, and keeps the copy. *)
ProcessInstallment(x) ==
    /\ cron.pc = "next" /\ x \in cron.todo
    /\ cron' = [pc |-> "debit", todo |-> cron.todo \ {x}, at |-> x, copy |-> loan[x[1]]]
    /\ tried' = [tried EXCEPT ![x[1]][x[2]] = @ + 1]
    /\ UNCHANGED <<sagaVars, loanRows, money, recovery, past, rates, dbFails>>

Legs == {"debit", "bank-credit", "debit-compensate",
         "bank-credit-compensate", "debit-compensate-2"}
CronKey(leg) == <<cron.at[1], cron.at[2], leg>>

(* Fault: a bank credit that failed is not answered by a reversal. *)
AfterUnreversed(leg, ok) ==
    CASE leg = "debit"                  -> IF ok THEN "bank-credit" ELSE "penalty"
      [] leg = "bank-credit"            -> IF ok THEN "paid" ELSE "next"
      [] leg = "bank-credit-compensate" -> "debit-compensate-2"
      [] OTHER                          -> "next"

(* Where the answer to a call leads: a reversal's error is only logged. *)
After(leg, ok) ==
    CASE leg = "debit"                  -> IF ok THEN "bank-credit" ELSE "penalty"
      [] leg = "bank-credit"            -> IF ok THEN "paid" ELSE "debit-compensate"
      [] leg = "bank-credit-compensate" -> "debit-compensate-2"
      [] OTHER                          -> "next"

UpdateBalance ==
    /\ cron.pc \in Legs
    /\ \/ /\ Applies(CronKey(cron.pc))
          /\ cron' = [cron EXCEPT !.pc = After(@, TRUE)]
          /\ UNCHANGED faults
       \/ /\ faults.refusal < MaxRefusals
          /\ faults' = [faults EXCEPT !.refusal = @ + 1]
          /\ Refuses(CronKey(cron.pc))
          /\ cron' = [cron EXCEPT !.pc = After(@, FALSE)]
       \/ /\ Loses(CronKey(cron.pc))
          /\ cron' = [cron EXCEPT !.pc = After(@, FALSE)]
          /\ UNCHANGED faults
    /\ UNCHANGED <<run, fwd, comp, retry, loanRows, recovery, past, rates, tried, dbFails>>

(* Fault: the installments keep the rate they had. *)
SaveRateLoanOnly(c, copy, base) ==
    /\ Save(c, [copy EXCEPT !.base = base])
    /\ UNCHANGED inst

(* The loan and its unpaid installments get the rate in one transaction. *)
SaveRate(c, copy, base) ==
    /\ Save(c, [copy EXCEPT !.base = base])
    /\ inst' = [inst EXCEPT ![c] = [i \in Month |->
                  IF inst[c][i].status = "unpaid" THEN [inst[c][i] EXCEPT !.rate = base]
                                                  ELSE inst[c][i]]]

(* The late payment penalty, of a variable loan only. *)
ApplyPenalty ==
    /\ cron.pc = "penalty"
    /\ cron' = [cron EXCEPT !.pc = "next"]
    /\ \/ ~variable /\ UNCHANGED <<loan, inst, dbFails>>
       \/ /\ variable
          /\ SaveRate(cron.at[1], cron.copy, cron.copy.base + 1)
          /\ UNCHANGED dbFails
       \/ variable /\ DbFails /\ UNCHANGED <<loan, inst>>
    /\ UNCHANGED <<sagaVars, request, variable, clerk, money, recovery, past, rates, tried>>

MarkPaid ==
    /\ cron.pc = "paid"
    /\ \/ /\ inst' = [inst EXCEPT ![cron.at[1]][cron.at[2]].status = "paid"]
          /\ cron' = [cron EXCEPT !.pc = "next"]
          /\ UNCHANGED dbFails
       \/ /\ DbFails
          /\ cron' = [cron EXCEPT !.pc = "bank-credit-compensate"]
          /\ UNCHANGED inst
    /\ UNCHANGED <<sagaVars, request, variable, clerk, loan, money, recovery, past, rates, tried>>

Collection ==
    \/ MarkOverdueInstallments \/ GetDueInstallments \/ CollectionEnds
    \/ \E x \in cron.todo : ProcessInstallment(x)
    \/ UpdateBalance \/ ApplyPenalty \/ MarkPaid

-----------------------------------------------------------------------------
(* ApplyVariableRateUpdate, once for the rate a tier was given *)

FindActiveVariableLoans(c) ==
    /\ rates.pc = "idle"
    /\ variable /\ loan[c].status = "active"
    /\ \E i \in Month : inst[c][i].status = "unpaid"
    /\ rates' = [NoRun EXCEPT !.pc = "save", !.at = c, !.copy = loan[c]]
    /\ UNCHANGED <<sagaVars, loanRows, money, recovery, cronVars, dbFails>>

ApplyVariableRateUpdate ==
    /\ rates.pc = "save"
    /\ rates' = NoRun
    /\ \E base \in Rates : SaveRate(rates.at, rates.copy, base)
    /\ UNCHANGED <<sagaVars, request, variable, clerk, money, recovery, cronVars, dbFails>>

-----------------------------------------------------------------------------
ServiceCrash ==
    /\ Crash
    /\ clerk' = [c \in Clerks |-> IF clerk[c] \in {"checked", "disbursing"} THEN "done" ELSE clerk[c]]
    /\ ticking' = {} /\ cron' = NoRun /\ rates' = NoRun
    /\ UNCHANGED <<request, variable, loan, inst, money, tries, past, tried, dbFails>>

Next ==
    \/ CreateLoanRequest \/ RejectLoanRequest
    \/ \E c \in Clerks : PreCheck(c) \/ ApproveTx(c) \/ Disburse(c)
    \/ RecoveryTick \/ (\E x \in ticking : Recovery(x))
    \/ Midnight \/ Collection
    \/ (\E c \in Clerks : FindActiveVariableLoans(c)) \/ ApplyVariableRateUpdate
    \/ ServiceCrash

Spec == Init /\ [][Next]_vars

(* A disbursement that runs goes on; both jobs tick for ever. *)
Fairness ==
    /\ \A c \in Clerks : WF_vars(Disburse(c))
    /\ SF_vars(RecoveryTick) /\ WF_vars(\E x \in ticking : Recovery(x))
    /\ WF_vars(Collection)

FairSpec == Spec /\ Fairness

-----------------------------------------------------------------------------
(* Properties *)

(* Rows, keys and programs are of their kinds. *)
LoanTypeOK ==
    /\ SagaTypeOK
    /\ request \in {"none", "pending", "approved", "rejected"} /\ variable \in BOOLEAN
    /\ clerk \in [Clerks -> {"idle", "checked", "disbursing", "done"}]
    /\ loan \in [Clerks -> [status : {"none", "approved", "active", "disbursement_failed"},
                            base : Nat]]
    /\ inst \in [Clerks -> [Month -> [status : {"none", "unpaid", "paid", "overdue"},
                                       rate : Nat]]]
    /\ applied \cup failed \subseteq
          Clerks \X (0..Months) \X (Legs \cup {"debit", "debit-comp", "credit", "credit-comp"})
    /\ tries \in [Clerks -> [1..3 -> 0..MaxRetries]] /\ ticking \subseteq Clerks \X (1..3)
    /\ past \in 0..Months /\ dbFails \in 0..MaxDbFails
    /\ cron.pc \in Legs \cup {"idle", "list", "next", "paid", "penalty"}
    /\ rates.pc \in {"idle", "save"} /\ tried \in [Clerks -> [Month -> Nat]]

(* "prevent concurrent double-approval": however approvals and a rejection *)
(* overlap, an approved request has one loan and any other none.           *)
OneLoan ==
    Cardinality({c \in Clerks : Exists(c)}) = IF request = "approved" THEN 1 ELSE 0

(* "The borrower's account state is always consistent after Disburse       *)
(* returns".  There is one loan per approved request, however approvals    *)
(* and a rejection overlap; an active one was taken from the bank, reached *)
(* the borrower, and neither was given back.  Of a failed one every leg    *)
(* that moved is given back, or its row still says so, unless the leg's    *)
(* own answer was lost; and nothing is given back that was not taken.      *)
OneLoanDisbursedOrUndone ==
    /\ OneLoan
    /\ \A c \in Clerks, i \in 1..2 :
        /\ loan[c].status = "active" /\ clerk[c] = "done" =>
              ForwardKey(c, i) \in applied /\ BackwardKey(c, i) \notin applied
        /\ loan[c].status = "disbursement_failed" /\ ForwardKey(c, i) \in applied =>
              \/ BackwardKey(c, i) \in applied
              \/ comp[c][i] \in {"compensating", "dead_letter"}
              \/ ForwardKey(c, i) \in failed
        /\ BackwardKey(c, i) \in applied => ForwardKey(c, i) \in applied

Moved(c, i, leg) == <<c, i, leg>> \in applied
GivenBack(c, i) == Moved(c, i, "debit-compensate") \/ Moved(c, i, "debit-compensate-2")

(* "do NOT mark paid": a paid installment was taken from the borrower and  *)
(* reached the bank, and at a first attempt neither was given back.  One   *)
(* that is not paid keeps nothing of the borrower's money once its attempt *)
(* is over, unless the job died in it, the debit's answer was lost, or the *)
(* reversal itself failed, which is only logged.                           *)
InstallmentIsWhole ==
    \A c \in Clerks, i \in Month :
        /\ inst[c][i].status = "paid" =>
              /\ Moved(c, i, "debit") /\ Moved(c, i, "bank-credit")
              /\ tried[c][i] = 1 => ~GivenBack(c, i) /\ ~Moved(c, i, "bank-credit-compensate")
        /\ /\ inst[c][i].status # "paid" /\ Moved(c, i, "debit")
           /\ cron.pc = "idle" /\ faults.crash = 0
           => \/ GivenBack(c, i)
              \/ \E leg \in {"debit", "debit-compensate", "debit-compensate-2"} :
                    <<c, i, leg>> \in failed

(* "a partial update would leave the loan rate changed but installment     *)
(* amounts unchanged": unpaid installments carry the loan's rate, also     *)
(* when a penalty and a rate update overwrite each other.                  *)
InstallmentsFollowLoan ==
    \A c \in Clerks, i \in Month :
        inst[c][i].status = "unpaid" => inst[c][i].rate = loan[c].base

(* A loan does not stay approved, unless the service died or could not     *)
(* write its status, and a compensation is done or dead-lettered.          *)
DisbursementEnds ==
    \A c \in Clerks :
        /\ loan[c].status = "approved" ~>
              loan[c].status # "approved" \/ faults.crash > 0 \/ dbFails > 0
        /\ \A i \in 1..2 : comp[c][i] = "compensating" ~> comp[c][i] # "compensating"
=============================================================================
