---------------------------- MODULE OtcContract ----------------------------
(***************************************************************************)
(* One option contract between two clients of this bank: the accept saga   *)
(* that forms it, the exercise sagas and the expiry cron, each run by      *)
(* SagaExecutor next to the others.                                        *)
(*                                                                         *)
(* Money moves once per idempotency key <<operation, scope>>, the scope    *)
(* being what the code builds the key from: the saga or the contract.  An  *)
(* amount is counted in strikes and in premiums.  account-service answers  *)
(* a repeated key with its first answer.  Accounts have funds enough; that *)
(* a call is refused, or acted on and its answer lost, is MaxRefusals.     *)
(***************************************************************************)
EXTENDS SagaExecutor, Sequences

CONSTANTS
    AcceptSaga,     \* the saga of MintContractFromAcceptedNegotiation
    Attempts,       \* the sagas of ExerciseContract calls
    Contract        \* the contract's id, as a scope of keys

AcceptSteps == <<"reserve_and_contract", "reserve_premium",
                 "settle_premium_buyer", "credit_premium_seller">>
ExerciseSteps == <<"reserve_strike", "settle_strike_buyer", "credit_strike_seller",
                   "consume_seller_holding", "upsert_buyer_holding",
                   "record_gains", "mark_contract_exercised", "publish">>

StepName(s, i) == IF s = AcceptSaga THEN AcceptSteps[i] ELSE ExerciseSteps[i]

ASSUME OtcAssumption ==
    /\ AcceptSaga \notin Attempts /\ Contract \notin Sagas
    /\ Sagas = {AcceptSaga} \cup Attempts
    /\ Length = [s \in Sagas |-> IF s = AcceptSaga THEN Len(AcceptSteps) ELSE Len(ExerciseSteps)]
    /\ NoBackward = {<<AcceptSaga, Len(AcceptSteps)>>}

VARIABLES
    contract,       \* status of the option_contracts row, "none" or "deleted"
    version,        \* its optimistic-lock version
    seen,           \* version of the copy a run, or the expiry cron, has loaded
    premium,        \* account reservation for the premium
    strike,         \* account reservation for the strike
    keys,           \* idempotency keys under which account-service acted
    shares,         \* holding reservation on the seller's shares
    delivered,      \* credits of the buyer's holding; the marker is there if any
    gains,          \* capital-gain rows, by the saga that wrote them
    past,           \* the settlement date is over
    expiring,       \* the cron has released the shares and has yet to save
    lost,           \* <<saga, step>> done by a call whose answer was lost
    backErrors      \* <<saga, step>> whose Backward has failed

contractVars == <<contract, version, seen>>
moneyVars == <<premium, strike, keys>>
shareVars == <<shares, delivered, gains>>
dateVars == <<past, expiring>>
historyVars == <<lost, backErrors>>
vars == <<sagaVars, contractVars, moneyVars, shareVars, dateVars, historyVars>>

Cron == Contract
Exists == contract \notin {"none", "deleted"}

Init ==
    /\ SagaInit
    /\ contract = "none" /\ version = 0
    /\ seen = [s \in Sagas \cup {Cron} |-> 0]
    /\ premium = "none" /\ strike = "none" /\ keys = {}
    /\ shares = "none" /\ delivered = 0 /\ gains = {}
    /\ past = FALSE /\ expiring = FALSE
    /\ lost = {} /\ backErrors = {}

-----------------------------------------------------------------------------
(* What account-service answers *)

Key(op, scope) == <<op, scope>>

(* computeSettleSeq: the order_transaction_id of a saga's settlement *)
SettleSeq(s) == Key("settle", s)

(* CreditAccount, DebitAccount *)
Move(key) == keys' = keys \cup {key} /\ UNCHANGED <<premium, strike>>

(* ReserveFunds: a new key re-activates a released or settled reservation. *)
ReserveFunds(row, key) == [row |-> IF key \in keys THEN row ELSE "active",
                           keys |-> keys \cup {key}]

(* ReleaseReservation acts on an active reservation only. *)
ReleaseReservation(row, key) ==
    [row |-> IF key \notin keys /\ row = "active" THEN "released" ELSE row,
     keys |-> keys \cup {key}]

(* PartialSettleReservation *)
CanSettle(row, key) == key \in keys \/ row = "active"
PartialSettle(row, key) == [row |-> IF key \in keys THEN row ELSE "settled",
                            keys |-> keys \cup {key}]

OnPremium(answer) == premium' = answer.row /\ keys' = answer.keys /\ UNCHANGED strike
OnStrike(answer) == strike' = answer.row /\ keys' = answer.keys /\ UNCHANGED premium

(* Fault: no marker, so that a replay credits the shares again. *)
UpsertUnmarked == delivered + 1

(* UpsertIdempotent: the marker lets the buyer's credit happen once. *)
UpsertIdempotent == IF delivered = 0 THEN 1 ELSE delivered

-----------------------------------------------------------------------------
(* Forward of each step: when it succeeds, and what it does *)

CanForward(s, step) ==
    CASE step = "reserve_and_contract" -> Exists
      [] step = "settle_premium_buyer" -> CanSettle(premium, SettleSeq(s))
      [] step = "settle_strike_buyer" -> CanSettle(strike, SettleSeq(s))
      [] step = "consume_seller_holding" -> shares = "active"
      [] step = "mark_contract_exercised" -> Exists /\ seen[s] = version
      [] OTHER -> TRUE

AcceptForward(s, step) ==
    CASE step = "reserve_and_contract" ->
            /\ shares' = IF shares = "none" THEN "active" ELSE shares
            /\ UNCHANGED <<contractVars, moneyVars, delivered, gains>>
      [] step = "reserve_premium" ->
            /\ OnPremium(ReserveFunds(premium, Key("reserve", s)))
            /\ UNCHANGED <<contractVars, shareVars>>
      [] step = "settle_premium_buyer" ->
            /\ OnPremium(PartialSettle(premium, SettleSeq(s)))
            /\ UNCHANGED <<contractVars, shareVars>>
      [] step = "credit_premium_seller" ->
            /\ Move(Key("premium-seller", Contract))
            /\ UNCHANGED <<contractVars, shareVars>>

ExerciseForward(s, step) ==
    CASE step = "reserve_strike" ->
            /\ OnStrike(ReserveFunds(strike, Key("reserve", s)))
            /\ UNCHANGED <<contractVars, shareVars>>
      [] step = "settle_strike_buyer" ->
            /\ OnStrike(PartialSettle(strike, SettleSeq(s)))
            /\ UNCHANGED <<contractVars, shareVars>>
      [] step = "credit_strike_seller" ->
            /\ Move(Key("seller", Contract))
            /\ UNCHANGED <<contractVars, shareVars>>
      [] step = "consume_seller_holding" ->
            /\ shares' = "settled"
            /\ UNCHANGED <<contractVars, moneyVars, delivered, gains>>
      [] step = "upsert_buyer_holding" ->
            /\ delivered' = UpsertIdempotent
            /\ UNCHANGED <<contractVars, moneyVars, shares, gains>>
      [] step = "record_gains" ->
            /\ gains' = gains \cup {s}
            /\ UNCHANGED <<contractVars, moneyVars, shares, delivered>>
      [] step = "mark_contract_exercised" ->
            /\ contract' = "exercised" /\ version' = version + 1
            /\ seen' = [seen EXCEPT ![s] = version + 1]
            /\ UNCHANGED <<moneyVars, shareVars>>
      [] step = "publish" -> UNCHANGED <<contractVars, moneyVars, shareVars>>

-----------------------------------------------------------------------------
(* Backward of each step *)

CanBackward(step) == step = "mark_contract_exercised" => Exists

(* Fault: the contract is deleted and its hold on the shares is not released. *)
AcceptBackwardKeepsShares(s, step) ==
    CASE step = "reserve_and_contract" ->
            /\ contract' = "deleted"
            /\ UNCHANGED <<version, seen, moneyVars, shareVars>>
      [] step = "reserve_premium" ->
            /\ OnPremium(ReleaseReservation(premium, Key("release", s)))
            /\ UNCHANGED <<contractVars, shareVars>>
      [] step = "settle_premium_buyer" ->
            /\ Move(Key("premium-comp-buyer", Contract))
            /\ UNCHANGED <<contractVars, shareVars>>

AcceptBackward(s, step) ==
    CASE step = "reserve_and_contract" ->
            /\ shares' = IF shares = "active" THEN "released" ELSE shares
            /\ contract' = "deleted"
            /\ UNCHANGED <<version, seen, moneyVars, delivered, gains>>
      [] step = "reserve_premium" ->
            /\ OnPremium(ReleaseReservation(premium, Key("release", s)))
            /\ UNCHANGED <<contractVars, shareVars>>
      [] step = "settle_premium_buyer" ->
            /\ Move(Key("premium-comp-buyer", Contract))
            /\ UNCHANGED <<contractVars, shareVars>>

ExerciseBackward(s, step) ==
    CASE step = "reserve_strike" ->
            /\ OnStrike(ReleaseReservation(strike, Key("release", s)))
            /\ UNCHANGED <<contractVars, shareVars>>
      [] step = "settle_strike_buyer" ->
            /\ Move(Key("comp-buyer", Contract))
            /\ UNCHANGED <<contractVars, shareVars>>
      [] step = "credit_strike_seller" ->
            /\ Move(Key("comp-seller", Contract))
            /\ UNCHANGED <<contractVars, shareVars>>
      [] step = "consume_seller_holding" ->
            /\ shares' = IF shares = "settled" THEN "active" ELSE shares
            /\ UNCHANGED <<contractVars, moneyVars, delivered, gains>>
      [] step = "upsert_buyer_holding" ->
            /\ delivered' = 0
            /\ UNCHANGED <<contractVars, moneyVars, shares, gains>>
      [] step = "record_gains" ->
            /\ gains' = gains \ {s}
            /\ UNCHANGED <<contractVars, moneyVars, shares, delivered>>
      [] step = "mark_contract_exercised" ->
            /\ contract' = "active" /\ version' = version + 1
            /\ UNCHANGED <<seen, moneyVars, shareVars>>
      [] step = "publish" -> UNCHANGED <<contractVars, moneyVars, shareVars>>

-----------------------------------------------------------------------------
(* The steps as actions *)

StepOf(s) == StepName(s, run[s].at)

(* MintContractFromAcceptedNegotiation *)
MintContract(s) ==
    /\ s = AcceptSaga
    /\ Execute(s)
    /\ UNCHANGED <<contractVars, moneyVars, shareVars, dateVars, historyVars>>

(* reserve_and_contract creates the row before it reserves the shares. *)
CreateContract(s) ==
    /\ s = AcceptSaga /\ run[s].pc = "call" /\ run[s].at = 1
    /\ contract = "none" /\ run[s].row = None
    /\ contract' = "active"
    /\ UNCHANGED <<sagaVars, version, seen, moneyVars, shareVars, dateVars, historyVars>>

ExerciseContract(s) ==
    /\ s \in Attempts
    /\ contract = "active" /\ ~past
    /\ Execute(s)
    /\ seen' = [seen EXCEPT ![s] = version]
    /\ UNCHANGED <<contract, version, moneyVars, shareVars, dateVars, historyVars>>

(* The call of the step succeeds. *)
Applied(s) ==
    /\ CanForward(s, StepOf(s))
    /\ IF s = AcceptSaga THEN AcceptForward(s, StepOf(s)) ELSE ExerciseForward(s, StepOf(s))

Forward(s) ==
    /\ ForwardDone(s)
    /\ Applied(s)
    /\ UNCHANGED <<dateVars, historyVars>>

(* The call is rejected, or refused by a service that is away.  A contract *)
(* row the live run has just created is deleted again.                     *)
ForwardRefused(s) ==
    /\ ForwardFailed(s)
    /\ IF CanForward(s, StepOf(s))
       THEN faults.refusal < MaxRefusals /\ faults' = [faults EXCEPT !.refusal = @ + 1]
       ELSE StepOf(s) # "reserve_and_contract" /\ UNCHANGED faults
    /\ contract' = IF StepOf(s) = "reserve_and_contract" /\ run[s].row = None
                   THEN "deleted" ELSE contract
    /\ UNCHANGED <<version, seen, moneyVars, shareVars, dateVars, historyVars>>

(* Calls of account-service: the others are transactions of stock-service's *)
(* own database.                                                           *)
RemoteSteps == {"reserve_premium", "settle_premium_buyer", "credit_premium_seller",
                "reserve_strike", "settle_strike_buyer", "credit_strike_seller"}

(* The call is acted on and its answer lost: for Execute it has failed, and *)
(* the step is not among those that rollback undoes.                       *)
ForwardLost(s) ==
    /\ ForwardFailed(s)
    /\ StepOf(s) \in RemoteSteps
    /\ Applied(s)
    /\ faults.refusal < MaxRefusals /\ faults' = [faults EXCEPT !.refusal = @ + 1]
    /\ lost' = lost \cup {<<s, run[s].at>>}
    /\ UNCHANGED <<dateVars, backErrors>>

Backward(s) ==
    /\ BackwardDone(s)
    /\ CanBackward(StepOf(s))
    /\ IF s = AcceptSaga THEN AcceptBackward(s, StepOf(s)) ELSE ExerciseBackward(s, StepOf(s))
    /\ UNCHANGED <<dateVars, historyVars>>

BackwardRefused(s) ==
    /\ BackwardFailed(s)
    /\ IF CanBackward(StepOf(s))
       THEN faults.back < MaxBackFails /\ faults' = [faults EXCEPT !.back = @ + 1]
       ELSE UNCHANGED faults
    /\ backErrors' = backErrors \cup {<<s, run[s].at>>}
    /\ UNCHANGED <<contractVars, moneyVars, shareVars, dateVars, lost>>

(* RecoverExerciseSaga, RecoverAcceptNegotiationSaga *)
RecoverSaga(s) ==
    /\ \E row \in Stuck(s) :
        CASE Exists -> Recover(s, row)
          [] ~Exists /\ s = AcceptSaga -> RecoverNothing(s, row)
          [] OTHER -> RecoverRefused(s, row)
    /\ seen' = [seen EXCEPT ![s] = version]
    /\ UNCHANGED <<contract, version, moneyVars, shareVars, dateVars, historyVars>>

(* Only the last step of a saga lacks a Backward here: none is skipped. *)
ExecutorStep(s) ==
    /\ \/ SkipCompleted(s) \/ RecordForward(s) \/ MarkCompleted(s) \/ MarkCompletedFails(s)
       \/ RecordCompensation(s) \/ MarkCompensated(s) \/ Return(s)
       \/ \E row \in Stuck(s) : MarkDeadLetter(s, row)
    /\ UNCHANGED <<contractVars, moneyVars, shareVars, dateVars, historyVars>>

ServiceCrash ==
    /\ expiring \/ \E s \in Sagas : run[s].pc # "idle"
    /\ Crash
    /\ expiring' = FALSE
    /\ UNCHANGED <<contractVars, moneyVars, shareVars, past, historyVars>>

-----------------------------------------------------------------------------
(* The expiry cron *)

(* A saga is finished or dead-lettered within minutes; the cron expires a  *)
(* contract a full day after it could last be exercised.                   *)
DayPasses ==
    /\ ~past
    /\ \A s \in Sagas : Settled(s)
    /\ past' = TRUE
    /\ UNCHANGED <<sagaVars, contractVars, moneyVars, shareVars, expiring, historyVars>>

(* expireContract: release, book the loss, then save. *)
ExpireRelease ==
    /\ past /\ ~expiring /\ contract = "active"
    /\ shares' = IF shares = "active" THEN "released" ELSE shares
    /\ gains' = gains \cup {Cron}
    /\ seen' = [seen EXCEPT ![Cron] = version]
    /\ expiring' = TRUE
    /\ UNCHANGED <<sagaVars, contract, version, moneyVars, delivered, past, historyVars>>

ExpireSave ==
    /\ expiring
    /\ expiring' = FALSE
    /\ IF Exists /\ seen[Cron] = version
       THEN contract' = "expired" /\ version' = version + 1
       ELSE UNCHANGED <<contract, version>>
    /\ UNCHANGED <<sagaVars, seen, moneyVars, shareVars, past, historyVars>>

-----------------------------------------------------------------------------
Next ==
    \/ \E s \in Sagas :
        \/ MintContract(s) \/ CreateContract(s) \/ ExerciseContract(s)
        \/ Forward(s) \/ ForwardRefused(s) \/ ForwardLost(s)
        \/ Backward(s) \/ BackwardRefused(s) \/ ExecutorStep(s) \/ RecoverSaga(s)
    \/ ServiceCrash \/ DayPasses \/ ExpireRelease \/ ExpireSave

Spec == Init /\ [][Next]_vars

(* A run goes on until it returns, and the cron ticks for ever. *)
Progress(s) ==
    \/ CreateContract(s) \/ Forward(s) \/ ForwardRefused(s) \/ ForwardLost(s)
    \/ Backward(s) \/ BackwardRefused(s) \/ ExecutorStep(s) \/ RecoverSaga(s)

FairSpec == Spec /\ \A s \in Sagas : WF_vars(Progress(s))

-----------------------------------------------------------------------------
(* What the properties leave out *)

(* The buyer hears of the contract from the answer of the accept call. *)
FormedFirst == (\E s \in Attempts : Started(s)) => Settled(AcceptSaga)

(* Compensate does not look at a step whose row stayed pending: one write  *)
(* of the log may fail, and is not met with a crash or a failing Backward. *)
LogWriteFailsAlone ==
    faults.mark = 0 \/ (faults.mark = 1 /\ faults.crash = 0 /\ faults.back = 0)

Restricted == FormedFirst /\ LogWriteFailsAlone

-----------------------------------------------------------------------------
(* Properties *)

(* Type correctness of the contract and of the rows around it. *)
OtcTypeOK ==
    /\ SagaTypeOK
    /\ contract \in {"none", "active", "exercised", "expired", "deleted"}
    /\ version \in Nat /\ seen \in [Sagas \cup {Cron} -> 0..version]
    /\ {premium, strike, shares} \subseteq {"none", "active", "released", "settled"}
    /\ delivered \in Nat /\ gains \subseteq Sagas \cup {Cron}
    /\ lost \cup backErrors \subseteq Sagas \X Nat

Count(b) == IF b THEN 1 ELSE 0
BuyerPaid == Cardinality({s \in Attempts : Key("settle", s) \in keys})
               - Count(Key("comp-buyer", Contract) \in keys)
SellerGot == Count(Key("seller", Contract) \in keys)
               - Count(Key("comp-seller", Contract) \in keys)
PremiumPaid == Count(Key("settle", AcceptSaga) \in keys)
                 - Count(Key("premium-comp-buyer", Contract) \in keys)
PremiumGot == Count(Key("premium-seller", Contract) \in keys)

(* What the log says has ended, in one way or the other. *)
Committed(s) == Settled(s) /\ ~HasCompensations(s) /\ \A i \in Steps(s) : IsCompleted(s, i)
RolledBack(s) ==
    /\ Settled(s) /\ Started(s) /\ ~Committed(s) /\ ~DeadLettered(s)
    /\ \A i \in Steps(s) : (IsCompleted(s, i) /\ <<s, i>> \notin NoBackward)
                              => comp[s][i] = "compensated"

(* An exercise the log calls done took the strike from the buyer once,     *)
(* paid the seller once, took the shares and delivered them once, and left *)
(* one pair of gain rows, whatever crash, replay or resumption it needed.  *)
ExercisedIsPaid ==
    \A s \in Attempts : Committed(s) =>
        /\ contract = "exercised"
        /\ BuyerPaid = 1 /\ SellerGot = 1 /\ shares = "settled" /\ delivered = 1
        /\ gains = {s}

(* The step of that name is among those recorded in rows. *)
Among(s, step, rows) == \E i \in Steps(s) : StepName(s, i) = step /\ <<s, i>> \in rows
LostByAny(step) == \E s \in Attempts : Among(s, step, lost)

Unexercised ==
    /\ BuyerPaid = 0 \/ (BuyerPaid = 1 /\ LostByAny("settle_strike_buyer"))
    /\ SellerGot = 0 \/ (SellerGot = 1 /\ LostByAny("credit_strike_seller"))
    /\ strike = "active" => LostByAny("reserve_strike")
    /\ delivered = 0 /\ gains \subseteq {Cron} /\ contract # "exercised"
    /\ contract = "active" /\ ~past => shares = "active"
    /\ contract = "expired" => shares = "released"

(* Exercises the log calls rolled back leave money, shares and contract as *)
(* they were: "per currency SUM(available+reserved) and per symbol         *)
(* SUM(quantity+reserved) are unchanged on any Compensated outcome"        *)
(* (otc_exercise_saga.go:57-59).  What may stay, once, is a leg whose own  *)
(* call was acted on and its answer lost: the run took it for a failed one *)
(* and had nothing to undo (saga.go:399).                                  *)
UnwoundIsRestored ==
    (Committed(AcceptSaga) /\ \A s \in Attempts : RolledBack(s)) => Unexercised

(* A leg of the accept saga whose call was acted on and not answered, or   *)
(* whose Backward failed: rollback deletes the contract all the same, and  *)
(* recovery then has nothing to rebuild the saga from.                     *)
Astray(step) == Among(AcceptSaga, step, lost \cup backErrors)

(* A contract whose accept saga is done was paid for, once on each side.   *)
(* An accept the log calls rolled back left no contract and no hold on the *)
(* shares, and gave the premium back, but for a leg that went astray.      *)
FormedOrRestored ==
    /\ Committed(AcceptSaga) => PremiumPaid = 1 /\ PremiumGot = 1
    /\ RolledBack(AcceptSaga) =>
          /\ PremiumPaid = 0 \/ (PremiumPaid = 1 /\ Astray("settle_premium_buyer"))
          /\ PremiumGot = 0 \/ Among(AcceptSaga, "credit_premium_seller", lost)
          /\ premium = "active" => Astray("reserve_premium")
          /\ shares # "active" /\ ~Exists

(* No row stays pending or compensating for ever: the recovery cron closes *)
(* it or gives it up as a dead letter.                                     *)
EverySagaEnds == \A s \in Sagas : []<>Settled(s)
=============================================================================
