# Money, shares and loans in EXBanka: TLA+ models, TLC runs and TLAPS proofs

This directory models the part of the EXBanka backend that moves money and
shares: account-service's balances and reservations, the cross-bank (SI-TX)
commit protocol of interbank-service, the transfer saga of transaction-service,
the orders, share reservations and option contracts of stock-service, and the
loans of credit-service. Each module is a translation of the Go code it names;
`PROJECT.json` maps every definition to its lines, and lists the runs, the fault
each property detects, and the hazards with their lines.

## 1. The system

EXBanka is a bank made of Go microservices over gRPC, Kafka and one PostgreSQL
database per service. Two instances of it (`bank1`, `bank2`) talk to each other
over HTTP with the SI-TX protocol.

| Component | State | Operations | Talks to |
|---|---|---|---|
| account-service: balances | `accounts` (balance, available, reserved, spending), `ledger_entries`, `bank_operations` | UpdateBalance, DebitBank, CreditBank, spending resets | called by everybody |
| account-service: fund reservations | `account_reservations`, `..._settlements` | ReserveFunds, PartialSettleReservation, ReleaseReservation | orders, OTC and fund sagas |
| account-service: cross-bank holds | `outgoing_reservations`, `incoming_reservations` | Reserve/Settle/ReleaseOutgoing, Reserve/Commit/ReleaseIncoming, timeout cron | interbank-service |
| interbank-service, sender | `outbound_peer_txs` | InitiateOutboundTx, OutboundReplayCron, PeerTxReconciler | peer bank, account-service |
| interbank-service, receiver | `peer_idempotence_records`, in-memory worker table | HandleNewTx, HandleCommitTx, HandleRollbackTx, GetTxStatus | account-service |
| transaction-service | `transfers`, `payments`, `saga_logs` | ExecuteTransfer, ExecutePayment, compensation recovery | account-service |
| contract/shared saga | none of its own | Execute, rollback, Compensate | the service's recorder |
| stock-service: share reservations | `holdings`, `fund_holdings`, `holding_reservations`, `..._settlements`, credit markers | reserve, settle, release, consume, restore, re-key, credit | orders, OTC, interbank-service |
| stock-service: orders | `orders`, `order_transactions`, `saga_logs` | placement saga, approve, decline, cancel, execution engine, fill sagas, recovery cron | account-service, share reservations |
| stock-service: OTC options | `option_contracts`, `saga_logs` | accept saga, exercise saga, recovery, expiry cron | account-service, share reservations |
| stock-service: peer options | remote `option_contracts` | mint at COMMIT_TX, exercise, claim, expiry | interbank-service, peer bank |
| stock-service: OTC negotiation | `otc_offers`, `otc_negotiations` | post, edit, cancel, bid, counter, accept, undo, re-list | OTC options, peer bank |
| credit-service | `loan_requests`, `loans`, `installments`, `saga_logs` | approve, reject, disburse, recover, collect, rate update | account-service |
| stock-service: funds, tax, dividends, market data | their tables | invest, redeem, settle tax, pay dividends, sync | account-service |
| auth, verification | tokens, sessions, challenges | login, refresh, verify | gateway |
| card, client, user, exchange, notification | their tables | create, read, update | gateway |
| api-gateway | none | REST to gRPC | all services |

What is hard in it:

* **Concurrency.** Account and holding rows are changed under
  `SELECT ... FOR UPDATE`, but the cross-bank services read the reservation row
  before that transaction; a cross-bank payment is driven by three goroutines at
  once; two calls can execute the same transfer; an order's row is saved by the
  engine, the placement saga, a supervisor and the owner under an optimistic
  lock; a listing is accepted by local bidders and by a peer bank.
* **Failure.** A process may stop between any two database writes; a call may
  be applied and its answer lost; one compensation of several may fail; the log
  that recovery relies on may itself not be written.
* **Ordering and delivery.** SI-TX requests are lost, arrive late, arrive twice
  and overtake each other.
* **Timeouts.** The hold's TTL, the HTTP timeout, the receiver's synchronous
  deadline and the attempt cap run independently of each other; contracts expire
  while they are exercised.

What makes each component correct: the totals on an account or holding row agree
with the tables they summarise; a hold is either settled or released; a
cross-bank payment is credited and debited or neither; a transfer, a fill, an
exercise, a disbursement is done in full or undone, once; one listing is sold
once; and nothing stays pending for ever.

## 2. Modules

| Module | Models | Uses |
|---|---|---|
| `AccountRow` | the `accounts` rows and the arithmetic of every money operation | |
| `FundReservation` | ReservationService next to UpdateBalance and the bank operations | `AccountRow` |
| `InterbankHolds` | Outgoing- and IncomingReservationService, timeout cron | `AccountRow` |
| `AtomicCommit` | abstract: what a cross-bank payment promises | |
| `InterbankTx` | one SI-TX payment at both banks | refines `AtomicCommit` |
| `TransferSaga` | ExecuteTransfer, saga executor, saga log, recovery loop | |
| `HoldingReservation` | HoldingReservationService, share credits and their reversal, ExerciseOption's share leg | |
| `PeerOption` | option contracts shared with a peer bank | `HoldingReservation` |
| `SagaExecutor` | contract/shared saga over stock-service's log, recovery cron | |
| `OtcContract` | accept saga, exercise saga and expiry of one contract | `SagaExecutor` |
| `StockOrder` | one order from placement to its last fill | `SagaExecutor` |
| `Loan` | one loan request, its disbursement and its installments | `SagaExecutor` |
| `OtcNegotiation` | listings, bids, accept and undo, re-listing, peer accept | |
| `...Proofs` | the theorems about the module of that name, `AccountServiceProofs` about `FundReservation` and `InterbankHolds` (section 5) | it, TLAPS |
| `MC...` | the small instances TLC checks | |

Definitions whose comment begins with "Fault:" are not part of any
specification. Each is a plausible mistake in the definition that follows it;
putting it in the place of that definition makes TLC report the property named
next to it in `PROJECT.json`. Every module has a type invariant, which documents
the values its variables take; it is proved wherever the module has a proof
module.

### FundReservation

`acct`, `resv`, `stl` are the tables; `ledger` keeps per account the credits less
the debits of `ledger_entries`; `applied` the idempotency keys used. Each
operation is one transaction holding the account's row lock, hence one action.
`resv[o].settled` stands for `SumSettlements`; `SettledTotalsAgree` checks that it
is that sum. Calls that are answered without a change (replays, rejections) are
stuttering steps. Amounts are integers in the smallest unit. The account an order
is placed on is fixed (`AccountOf`), as its callers do. `UpdateBalance` is
modelled with `UpdateAvailable` set, as every caller sets it.

### InterbankHolds

An outgoing hold lowers AvailableBalance without raising ReservedBalance, so the
identity of `FundReservation` is deliberately not stated here; `NothingHeldTwice`
takes its place. Settle, release and commit are each a read (`...Read`) and a
transaction (`...Tx`), because the code reads the reservation row before it opens
the transaction; `calls` holds what has been read. Two calls under the same RPC
idempotency key do not overlap, which is what the idempotency table guarantees.

### InterbankTx

`todo[d]` is what is left of the program of driver d (inline call, replay cron,
reconciler): every database write, every call to account-service and every
request is a step. `reqs` are requests the receiver has not answered; when the
client times out the request loses its owner and may still be handled. The
vote, the stamps and the reservation of the receiver are separate variables,
because the handlers write them in separate transactions. Faults are switched
on per run:

* crashes of the sender (`MaxCrashes`);
* `early`: a cron takes up a row whose inline call is still running, possible
  because `last_attempt_at` is NULL until the first failure;
* `outage`: the row is still undecided when the hold's TTL (10 minutes) ends;
* `flaky`: the recipient's account accepts the credit at one evaluation and not
  at another.

The look-up of HandleNewTx and the start of its worker are one step, and the inline release (`peer_tx_grpc_handler.go:698`) does not lose its
answer: the release is repeated by the crons under the same key, to no effect.

Two timing facts are built in: the TTL outlasts the inline call (30 s per
request), and the attempts, 60 s apart, are used up only after the inline call
has ended. `AtomicCommit` is the promise; the refinement maps the row to the
decision, the incoming reservation and the hold to the outcomes of the parties
in `Parties`.

### TransferSaga

`pc[r]` is where execution r of the transfer is. Forward steps use keys derived
from the transfer, so `applied` is a set of steps; a compensation's key is
derived from the saga id (inline) or from the log row (recovery), so `refunds`
holds who, which execution and which step. `recovering` are the rows the current
recovery tick listed. Faults: `lost` (an update applied, its answer lost three
times), `overlap` (a tick while an execution runs), `db` (a write to the
transfer or the log fails), and crashes. The history `exposed` collects the rows
whose leg the code may give back twice: those of an execution that marks a
transfer already marked, a row whose refund was not answered or whose mark was
not written, and a row that a tick or a crash meets between its refund's record
and its mark. In this build the `sagafaults` hooks
are no-ops, and the transfer steps have no pivot.

### HoldingReservation and PeerOption

A reservation row is created under an order, an OTC contract, a peer contract or
the transaction id of a vote, and one under a transaction id is later attached to
its contract (`link`). Each operation is one transaction under the locks of the
reservation and the holding, hence one action; `stl` are the settlement rows and
`credit` the share credits. `Unreserved` are the writers that do not look at
reserved_quantity: a credit, the reversal of one (`DecrementForOwner`,
`DecrementForFundSecurity`; the code reverses only the credits of exercises, the
model any) and the shares ExerciseOption sells of a put or deletes. A deleted
row leaves its reservations naming it (`severed`), a new row starts empty;
`undercut` and `shortfall` are history: rows whose held shares were taken, and
shares a reversal did not find. `processSellFillLegacy` (`portfolio_service.go:858`)
runs only where the saga's dependencies are missing, as in tests, and is left
out. `PeerOption` composes the module with the life of the
contracts: a handler of several transactions is split where a crash can stop it
or another can interleave, and what it has still to do is an element of `work`.
The SI-TX transaction that pays a strike is external here: it is open until it
commits or aborts; `older` counts payments given up as lost that may still commit.
`DayPasses` takes a minted contract's hold to be in place before its settlement
date; a hold attached later is not reached. ReserveAtCommit leaves out the release
of a vote-time row (`peer_otc_grpc_handler.go:1646`), of which there is none when it
runs.

### SagaExecutor

A run of a saga works on one step at a time: record, Forward, mark; on an error
the completed steps are compensated in reverse. `fwd` and `comp` are the log's
rows. A crash loses every run; the recovery cron takes the rows left pending or
compensating and either re-drives the saga or runs Compensate, up to
`MaxRetries`, then dead-letters them. The module that composes it gives Forward
and Backward their effects. Decisions taken here: the rows of one saga share
their retry count, since a tick re-drives the saga once for each of them;
stock-service's recovery is sequential and does not overlap a live run, since it
lists rows older than 30 s and a step is taken to be shorter; no forward row
fails to be inserted; of the writes that close a row only MarkCompleted fails
(a MarkFailed or MarkCompensated that fails leaves a row for recovery to go over
again, as a crash before it does). Pivot steps, which no caller declares, are left out.

### OtcContract

`keys` are the idempotency keys under which account-service acted, each
<<operation, scope>> with the scope the code builds the key from: the saga or
the contract. The contract row has an optimistic-lock version; `seen` is the
version of the copy a run, or the expiry cron, holds. A call of account-service
succeeds (`Forward`), is refused without effect (`ForwardRefused`), or is acted on
and its answer lost (`ForwardLost`), which Execute takes for a refusal; `lost` and
`backErrors` are the history of the legs this happened to. A Backward acted on
with its answer lost is repeated by recovery under the same key, as after a crash
before its mark, and is not a case of its own. Expiry is the release of
the shares followed by the save. Both parties use one currency, so the write
that locks a converted strike on the contract is left out.

### StockOrder

A unit costs 1; a buy holds money and settles it portion by portion, a sell holds
shares. `order` is the row under its version, `job` the engine's goroutine,
`call` the supervisor's and the owner's calls between their read and their save.
A fill saga has three steps: recording and conversion (audit fields only, merged
into one), money, shares: `buildBuyFillSaga` and `buildSellFillSaga` under one
set of definitions, which differ in the step that takes from the hold
(`Consumes`). `fill[t]` says what transaction t did, and `lost` which sagas had a
call of account-service acted on and its answer lost, as in `OtcContract`.

### Loan

The loan an approval creates is named after the clerk whose call created it.
Money is the set of keys account-service applied; a key is loan, installment and
leg. The recovery is credit-service's own and repeats compensations only.
`cron` is the installment job, `rates` an ApplyVariableRateUpdate call with the
copies it read, because `gorm.Save` with a version that no longer matches falls
back to an insert that overwrites the row.

### OtcNegotiation

One client seller and one ticker. A listing collects one chain of bids per
bidder; an accept is one transaction that consumes the listing and cancels the
other chains, followed by the formation of the contract (`call`), which may fail
and is then undone. A peer's accept (`peer`) checks the listing, forms and then
consumes whatever listing is open. Terms are reduced to the quantity, and those
of a closed chain are dropped. Only the insert of a remainder that still has a
free row is modelled. `agreed`, `origin`, `unrestored` and `before` are history.

## 3. Runs

| Run | Shows | Instance and faults |
|---|---|---|
| `MCFundReservation` | row totals, settlements and ledger agree; clients are never overdrawn | 2 accounts (client, bank), 3 orders, 2 settlement ids, 2 keys, amounts 1 and 2, limit 3 |
| `MCInterbankHolds` | overlapping calls move each key once and hold nothing twice; holds end | 1 account, 2 holds, 1 credit, 1 debit, 2 RPC keys, 2 calls at once |
| `MCInterbankTx` | the row reports what happened, decision and credit are atomic, payment and hold end | 1 crash, 1 attempt, `early`, `outage`, lost and late requests |
| `MCTxCalm` | decision, credit and debit are atomic, a credit is backed | 2 attempts, `flaky`, lost and late requests |
| `MCTransferSaga` | refunds and the log agree; a leg is given back twice only through an exposed row | 2 executions of 2 legs, every fault, 1 crash, 1 retry |
| `MCSagaCalm` | a transfer ends, in full or undone; compensations end | 1 execution of 4 legs (cross-currency), 2 retries, failing compensations |
| `MCHoldings` | held shares match the rows, no share moves twice, held shares are taken only by the writers that ignore them; ended peer contracts are settled; a strike is paid once per claim | 1 stock and 1 fund holding, a sell order, an OTC contract, a peer contract sold and one bought, 2 fills, a reversed credit, an exercised option, quantities 1 and 2, crashes, re-sent COMMIT_TX, a lost answer of a strike |
| `MCOtcContract` | what the log calls done or rolled back is so; every saga ends | accept and one exercise, 2 crashes, 2 refusals or lost answers, 1 failing Backward, 1 failing log write, 2 retries |
| `MCStockOrder` | fills move both sides, exactly the quantity; nothing stays held; a verdict stands; orders end | buy or sell of 2 units, 6 transactions, 2 failures to abort, 1 crash, 2 refusals or lost answers, 1 failing Backward or write of the log or order |
| `MCLoan` | one loan per request, disbursed or undone; installments are whole and follow the loan's rate; disbursements end | 2 clerks, 2 installments, 1 rate, at most two faults of any kind |
| `MCNegotiation` | first accept wins; one live listing; a consumed one is sold; an undone accept is undone; accepts end | 2 bidders, 2 listings, 2 bids, 1 counter-offer, 1 failing write or crash, 1 peer accept |
| `MCSelfAccept` | violation: a bidder accepts his own bid | 2 bidders, 1 listing, no fault but a contract that cannot be formed |

Why the bounds are enough for the cases in question: two orders on one account
let holds compete, two settlement ids let a reservation be filled in parts and
closed, the amounts make a fill smaller than, equal to and larger than the rest;
two holds, a credit and a debit on one account mix their movements; a race needs
two calls; one crash reaches every gap between two steps; attempt and retry caps
are only compared with a count, so 1 or 2 reach both sides of them; two legs
already have a completed step to undo and one that is not; an order of two units
is filled in one or in two portions and fails in between; two listings suffice
for a remainder next to its parent. Deadlock is checked in `MCFundReservation`
(spending resets are always possible) and switched off where a finished protocol
rightly stops.

### What the configurations leave out

Some MC modules restrict how faults combine, either to keep the instance small
or because the code is known to fail there (section 4):

* `MCHoldings`: `OneContract` takes up the two peer contracts one at a time, as
  they meet only in the quantity, and the bought one next to the sell order
  alone; `OneTaker` lets the exercised option meet the sell order and the contract
  sold, and not the OTC contract, the bought one or a credit that stands.
* `MCOtcContract` (the formulas are in `OtcContract`): `FormedFirst`, an exercise
  follows the answer of the accept; `LogWriteFailsAlone`, a failing log write does
  not meet a crash or a failing Backward and is the only one. One exercise.
* `MCStockOrder`: `FewFaults`, at most two refusals, failing Backwards and log
  writes, and a crash alone; `QuietPlacement`, calls that overlap the placement
  meet no fault; `DisturbedDuringFills`, a crash or a failing log write meets a
  placed order, and nobody calls after it. Properties that speak of
  `Undisturbed` behaviours say nothing after a crash or a failing write of the log
  or of a filled order.
* `MCLoan`: `FewFaults`, at most two faults in a behaviour.
* `MCNegotiation`: `Disturbances`, a crash alone, or a failing write next to one
  of a peer's accept, a counter-offer and a chain closed by its party.

### Fairness

* Crons tick for ever (`time.Ticker` loops that end only with the process), so
  ticks and sweeps are fair. A single sweep of holds may fail; `MCInterbankHolds`
  assumes strong fairness for it, that is a database that is up again and again.
  credit-service's recovery tick competes with the runs it lists and gets strong
  fairness too.
* A goroutine that can run does: weak fairness for the steps of each driver, of
  an execution or a saga that has started, of the engine's goroutine, and of each
  call in flight (`Progress`, `Disburse`, `CallStep`).
* The replay cron retries a committing row for ever, so the calls it makes are
  assumed to succeed if tried infinitely often. Nothing is assumed about the
  client, about crashes, refusals or failing writes (which are bounded, or
  allowed for ever where the code has a cap), or about the requests of the other
  drivers.
* `StartOrderExecution` is fair while an order is active. The engine is started by
  the handlers (`order_handler.go:115`, `:178`), at boot and by WakeAll; recovery
  approves without starting it (`order_recovery.go:102`), and the goroutine returns
  when it cannot read the order or its listing (`order_execution.go:206-210`,
  `:232-235`). For such an order `OrderEnds` promises an end after the next boot or
  WakeAll, and not before.
* Nobody has to approve, decline, bid, accept or exercise, and no day has to pass.

`HoldsEnd`, `PaymentEnds`, `TransferEnds`, `EverySagaEnds`, `OrderEnds`,
`DisbursementEnds` and `AcceptEnds` are checked under these assumptions only.

## 4. Where the code does less than its comments say

The run `MCSelfAccept` shows one disagreement; `findings` in `PROJECT.json` quotes
the comment and the lines. The others were met while modelling. The model
contains the behaviour, and the property concerned is stated, or the instance
bounded, so as not to claim more than the code does.

**account-service**

* `outgoing_reservation_service.go:153`: a settle and a release that both read
  the row as pending both act, although `outgoing_reservation_timeout_cron.go:20`
  says "the loser is a no-op". `NothingHeldTwice` is therefore an inequality.
* `reservation_service.go:305` and `:124`: the status and sufficiency checks come
  before the look-up that recognises a repeat, so a settle or a reserve repeated
  after it landed can be rejected. The money moves once all the same.
* `outgoing_reservation_service.go:103`: limits are compared with spending that
  accrues at settle, so two pending holds may pass a limit together.

**interbank-service**

* `peer_tx_grpc_handler.go:593`: after a crash between the row and the hold the
  crons commit a payment whose money was never held, which the comment at `:612`
  excludes for a failed hold. `CreditIsBacked` is checked without crashes.
* `outbound_replay_cron.go:354`: ROLLBACK_TX is sent once; the "peer's own timeout
  sweeper" of `:351` does not exist, so the peer's reservation may stay.
* `outgoing_reservation_timeout_cron.go:79`: the sweep releases the hold of a row
  past the pivot as well (`outage`); such a payment stays committing.
* `peer_tx_grpc_handler.go:120`: the record is looked up outside the worker's
  mutex, so under `flaky` a second worker can replace a cached vote.

**transaction-service**

* `transfer_service.go:581`: recovery refunds under a key of its own, so a step
  refunded inline before a crash is refunded again; `:578` says the ledger's key
  keeps this out. `NoDoubleRefund` says that this, a lost answer, a failed mark, an
  overlapping tick and a second execution are the only ways.
* `saga.go:399`: a step applied whose answer was lost is not compensated.
* `saga.go:410`: a forward row a crash leaves pending is listed by no loop.

**stock-service: options**

* `otc_exercise_saga.go:221`: the strike is settled under a key of the saga and
  given back under one of the contract; of two exercises that are rolled back the
  second refund is answered as already made, against the invariant stated at
  `:57-60`. One exercise is checked.
* `otc_exercise_recovery.go:16`: a crash while no row is pending, between two
  steps, leaves nothing for the cron; a dead letter leaves what was done.
* `otc_accept_recovery.go:41`: when a premium refund fails, the compensation goes
  on to delete the contract, and recovery, which looks the saga up by it, closes
  the row. `FormedOrRestored` excepts the leg whose refund failed.
* `saga.go:399`: a settlement, credit or hold that account-service made and whose
  answer was lost is marked failed and not undone, against
  `otc_exercise_saga.go:57-60`. `UnwoundIsRestored` and `FormedOrRestored` except
  that leg, once, and no other.
* `peer_otc_grpc_handler.go:2044` and `:2109`: after a crash between the consume
  and the status every re-sent COMMIT_TX is rejected by the settled reservation,
  so the contract is never marked exercised.
* `peer_otc_grpc_handler.go:2206`: the answer of the strike payment is lost, the
  claim is reverted, and a second exercise pays again. `StrikePaidOnce` allows one
  payment more for each answer lost, and no other.
* `otc_expiry_cron.go:201`: the status is overwritten whatever it is by then.

**stock-service: holdings**

* `holding_repository.go:190`: the reversal of an exercise's credit takes shares
  that were reserved or sold meanwhile, and deletes the row at zero or below with
  the reservations on it still active, which then can neither be released nor
  settled; `docs/superpowers/specs/2026-06-11-otc-saga-adversarial-review-findings.md:91-96`
  (O6) names the missing guard.
* `portfolio_service.go:1097` and `:1114`: exercising a put compares the quantity,
  not what is available, and deletes the row without a look at reservations; so
  does the delete of the option's own row at `:1152`. `ReservedMatchesRows` excepts
  the rows these calls took held shares from, and no others.

**stock-service: orders**

* `order_recovery.go:102`: a placement resumed after a crash approves an order a
  supervisor declined meanwhile; `docs/test-plan/celina-3-securities.md:606` says a
  declined order cannot be approved. `VerdictStandsUndisturbed` excludes the crash.
* `order_service.go:825` and `order_execution.go:630`: a declined order keeps its
  hold, and so does a sell the engine aborts.
* `order_execution.go:374`: when the save after a fill is refused, or fails in the
  database (`SaveFails`), the portion is filled and not counted.
* `saga.go:399`: when the answer of a fill's money call is lost
  (`portfolio_service.go:404`) the money stays moved without shares, against
  `order_execution.go:338`; when that of the placement's ReserveFunds is lost
  (`order_service.go:648`) the hold outlives the order. `FillIsWhole` and
  `ClosedHoldsNothing` except exactly these (`lost`).
* `saga_recovery.go:332`: the rows of the share steps are closed as they are, so
  after a crash money may stay moved without its shares.
* `contract/shared/saga/saga.go:409`: a MarkCompleted that fails is logged and the
  run goes on. When the marks of a fill's steps are lost and a recovery run that
  repeats the fill is refused at the last step, the money is given back although
  the shares moved; the instance needs three lost marks, or fewer and a crash.
  `FillIsWhole` names the bound (`LogKept`).

**stock-service: negotiation**

* `model/otc_negotiation.go:179`: "failed" is missing from `IsTerminal`, so a
  failed chain may be countered and accepted again, against the comment at
  `otc_negotiation_service.go:687`.
* `otc_negotiation_service.go:583`, "parent stays consumed and siblings stay
  cancelled", and `docs/api/REST_API_v3.md:8315`, "the parent stays `consumed`",
  contradict the restore at `:610`, which `ConsumedIsSold` and `UndoneAsBefore`
  describe.
* `otc_accept_saga.go:138-140` and `:145-148`: when the row of a contract that
  could not be formed is not deleted, it stays active while the listing is open
  again. `OtcNegotiation` takes a failed formation to leave nothing.
* `otc_negotiation_service.go:599`: a crash between the accept and the contract
  leaves the listing consumed (`ConsumedIsSold` excludes it).
* `peer_otc_grpc_handler.go:1017`: "one listing backs exactly one accepted
  contract"; a local and a peer's accept may both form on it, and a peer's accept
  leaves the local chains open.
* `main.go:871`: the unique index on open listings skips rows the bank owns.

**credit-service**

* `cron_service.go:170`: due installments are marked overdue before the due ones
  are listed, so they are never collected;
  `docs/test-plan/celina-2-core-banking.md:808` expects the collection. In the
  model it is reached when MarkOverdue fails.
* `cron_service.go:322`: an installment whose debit was reversed is tried again
  under keys account-service has already applied, and is marked paid for free;
  `InstallmentIsWhole` speaks of first attempts there.
* `cron_service.go:195`: installments of a loan whose disbursement failed are
  charged like any others.
* `loan_repository.go:92`, `cron_service.go:283`: the save overwrites a row whose
  version has moved on, which `model/loan.go:10` is meant to prevent: a penalty or a
  rate update of the loan can be lost. `InstallmentsFollowLoan` sees a difference
  between loan and installments only.
* `loan_disbursement_saga.go:94`: a credit of the borrower whose answer was lost is
  not taken back; `OneLoanDisbursedOrUndone` excepts that leg.
* `loan_request_service.go:323`: "always consistent after Disburse returns" does
  not survive a crash inside it: the loan stays approved.

## 5. Proofs

The theorems hold for every value of the constants that satisfies the named
assumptions: any number of accounts, orders, keys, clerks, listings, crashes,
refusals and steps. Each rests on an inductive invariant that TLC checked on the
module's own run before it was proved. No theorem needs the bounds of the runs;
where a property holds only without some fault, or without some combination of
faults, that is excluded by a named hypothesis of the theorem, which the
corresponding run's configuration satisfies as well. Type correctness needs none
of these hypotheses.

| Module | Theorems beside type correctness | Hypothesis |
|---|---|---|
| `AccountServiceProofs` | `ReservedIsOutstanding`, `AvailableIdentity`, `ClientNeverOverdrawn`, `LedgerReconciles`, `SettledTotalsAgree` | none |
| | `EachKeyMovesOnce`, `NothingHeldTwice` | none |
| `InterbankTxProofs` | `ReportedIsDone`; `ImplementsAtomicCommit` | `Stable` |
| | `CreditIsBacked`; `ImplementsAtomicCommit` with the debit as a party | `Calm` |
| `TransferSagaProofs` | `RefundsMatchLog`, `NoDoubleRefund` | none |
| | `AllOrNothing` | `Answered` |
| `PeerOptionProofs` | `ReservedMatchesRows`, `SharesConserved` (also of `HoldingReservation` alone), `EndedIsSettled`, `StrikePaidOnce` | none |
| `OtcNegotiationProofs` | `FirstAcceptWins`, `OneLiveListing`, `ConsumedIsSold`, `UndoneAsBefore` | none |
| `LoanProofs` | `OneLoanDisbursedOrUndone`, `InstallmentIsWhole`, `InstallmentsFollowLoan` | none |
| `StockOrderProofs` | `FillIsWhole`, but for the money of a fill in `lost` | `faults.mark = 0` |
| | `FilledExactly`, `ClosedHoldsNothing`, `VerdictStandsUndisturbed` | none (the properties name `Undisturbed`, `ClosedHoldsNothing` the lost answer of the placement) |
| `OtcContractProofs` | `FormedOrRestored` | `Restricted` |
| | `ExercisedIsPaid`, `UnwoundIsRestored` | `Restricted`, `Attempts = {e}` |

The hypotheses, each a fault section 4 shows the property does not survive:

* `Stable` (InterbankTx): the recipient's account does not accept a credit at one
  evaluation and refuse it at another; crashes, early crons, outages, lost and
  late requests are all allowed.
* `Calm` (InterbankTx): no crash, no cron that overtakes the inline call, no
  outage beyond the hold's TTL; `flaky` accounts, lost and late requests are
  allowed.
* `Answered` (TransferSaga): one execution of the transfer, no update whose answer
  is lost and no failing write; crashes and recovery ticks that overlap the
  execution are allowed.
* `faults.mark = 0` (StockOrder): no MarkCompleted of the saga log and no save of
  a filled order has failed; any number of crashes, refusals, lost answers and
  failing Backwards are allowed.
* `Restricted` (OtcContract), the restrictions of `MCOtcContract` as one formula:
  `FormedFirst` and `LogWriteFailsAlone` (section 3). Any number of crashes,
  refusals, lost answers, failing Backwards of either saga, recovery ticks and,
  instead of crashes and failing Backwards, one failing write of the log are
  allowed. What a lost answer or a failed refund leaves behind is in the property.
* `Attempts = {e}` (OtcContract): the contract is exercised once. The strike is
  settled under a key of the saga, credited and refunded under keys of the
  contract, so both properties fail for two exercises of one contract (section
  4). `FormedOrRestored` is proved for any number of them.

Assumptions on constants: finitely many accounts, keys, orders and holdings;
amounts positive and opening balances not negative; every order, hold and
contract on an account or holding that exists; the kinds of reservation keys
disjoint; the sentinels `NoSettlement` and `None` not a settlement, not a saga and
not a row of the log; the contract, as the scope of a key, not a saga (a saga id is
a UUID, a contract id a number); one seller contract per crossbank transaction
(`TxOf` injective); sagas of the lengths their code has.

### The arguments

* **FundReservation.** None of its invariants is inductive alone.
  `ClientNeverOverdrawn` needs to know that a release gives back no more than is
  reserved; the identity needs to know that the clamp at zero in release and
  settle is never reached; both need `ReservedIsOutstanding`, and that one needs
  `settled <= amount` of every active reservation (`WithinAmount`). `Totals` is
  the conjunction.
* **InterbankHolds.** `EachKeyMovesOnce` is stated over ledger entries under keys
  and follows from the record of used keys; `NothingHeldTwice` adds up the
  pending holds of an account. Both survive the unlocked read, because the
  transaction itself looks at the key again.
* **InterbankTx.** `Shape` and `Orderly` say which programs a driver can have left;
  `ProgramsFollow`, `RequestsFollow`, `RecordFollows` and `RowFollows` say what the
  sender's row, a request on its way and the receiver's record imply about each
  other. The refinement theorem then maps each step to a step of `AtomicCommit` or
  to a stutter. The `Calm` invariant adds who holds the money (`HoldKnows`).
* **TransferSaga.** `LogInv`: a row of the log stands for an update that was
  applied, and a refund for a row. `Progress` ties the place of the execution to
  the rows below and above it. `OnceInv`: below the walk of an execution no row
  exists, what the walk refunded is closed or about to be and the loop has nothing
  to do with it (`GivenBackOnce`), and of two executions at work one is exposed
  (`SecondIsExposed`).
* **HoldingReservation, PeerOption.** `HoldingInv`: rows and settlements are sound,
  and the totals of the holding are those of the rows. A row is deleted with none
  of its shares held, or is `undercut`: an active reservation holds at least one
  share, so reserved_quantity is not zero. `PeerInv` adds that a
  contract has at most one hold (`OneHold`) and what is left of a handler's work
  implies about contract, hold and delivery (`SellerSound`, `BuyerSound`).
  `StrikeInv` counts the payments that committed or still may, against the
  answers lost and the claim.
* **OtcNegotiation.** `NegInv` says, per listing, what its status implies about its
  chains, the accept under way and the contract, and where a remainder came from.
* **Loan.** `LoanInv`: where a disbursement is (`AtStep`), what each of its legs has
  moved and what its compensation row says (`LegOf`), and what the attempts at an
  installment have moved (`InstallmentOf`). The unlocked copies the two jobs save
  are harmless because, once an installment can be due, no disbursement is
  running (`Jobs`), so that a copy differs from its row in the rate at most.
* **StockOrder.** The steps of the executor are first described by the fields of
  the run and the rows of the log they leave (`RunEffects`, `LogEffects`); nothing
  else of `SagaExecutor` is used after that. `FillInv`: the money step of a fill is
  completed in the log before its shares move and is taken back only by a run that
  has not moved them (`FillSound`), and without a crash or a failed reversal the
  run is the only one of its fill, and what it moved it completes, takes back or
  lost the answer of (`FillClean`). `CalmInv`: while nothing is
  disturbed the placement goes forward once, on the row it created
  (`PlacementOnce`), and every copy of the row that somebody may save is the row
  itself or older than it (`CopiesSound`); a save is then refused or starts from
  the row as it is. `FilledInv` adds what `FilledExactly` counts: a fill is run
  once, by the engine, and moves its shares exactly if it ends without an error
  (`FillOnce`, `PortionMoved`), so that the units delivered before the engine's
  portion and the units left in the copy it works on always add up to the order
  (`LeftAddsUp`); a row that was cancelled meanwhile refuses the engine's save, and
  an approved row is still the engine's copy. `HoldInv`, for `ClosedHoldsNothing`,
  says where the placement is on its one way forward or back (`PlacementStage`),
  whose the hold is while it runs (`RowStands`, `HoldOwned`), that the shares on a
  sell's hold and the shares delivered add up to the order (`SharesLeft`), and who
  still owes the release when a buy is over (`ReleaseOwed`): the engine, the
  owner's call, or a placement that has not been finalised and, the row having
  moved on, is going to be refused.
* **OtcContract.** As for `StockOrder`, the executor's steps are described first
  (`SagaMove`), then what the four steps of the accept and the eight of the
  exercise do (`AcceptDoes`, `AcceptUndoes`, `ExerciseDoes`, `ExerciseUndoes`). The
  invariant has three layers. `SagaLog` is about the executor alone: which rows of
  the log a run, a run re-driven by the cron and a rollback can find, in which
  order (`InOrder`), that at most one row is pending without being completed
  (`PendingFirst`, `PendingAlone`), and that a rollback comes to every
  compensation not yet done (`NoneLeft`). `AcceptKnown` ties the log to the keys
  account-service has seen, both ways: a logged step was paid (`PaidIfDone`), what
  was paid is logged or its answer was lost (`LoggedIfPaid`), the same for the
  compensations; deleting the
  contract is the last thing a rollback does (`Gone`, `GoneRefunded`), and once the
  seller is credited no rollback finds anything to undo (`Credited`).
  `ExerciseKnown` says the same of the exercise, and `DateKnown` that the expiry
  cron and the exercise meet only in the order exercise, expiry. The properties
  are not inductive alone because they speak of closed logs only: between two
  steps the log says less than what was done, and the re-driven run must do no
  step twice.

Sums are cardinalities of finite sets of units (order, unit), not folds, so that
`FiniteSetTheorems` applies: one lemma says how a total changes when one summand
does, and every proof about money or shares rests on it.

Model-checked only: all liveness (`HoldsEnd`, `PaymentEnds`, `TransferEnds`,
`EverySagaEnds`, `OrderEnds`, `DisbursementEnds`, `AcceptEnds`), because fairness
and `ENABLED` are outside the prover's reach, and the violation shown by
`MCSelfAccept`. Every safety property and the refinement of every passing run is
proved. No module declares a RECURSIVE operator.

## 6. Not modelled

* SI-TX: option and share legs (`InitiateOutboundTxWithPostings`) other than as
  the external transaction of `PeerOption`, currency conversion, crashes of the
  receiver other than as an aborted worker or a failed request, the negotiation
  messages between banks, discovery of a peer's listings.
* Orders: forex fills, the commission leg, actuary limits, stop and limit
  triggers, prices, capital gains other than as rows of an exercise.
* OTC: buy-side and bank-owned listings, read receipts, remote mirrors, strikes
  and premiums converted between currencies.
* Loans: annuity amounts, administration of the rate tiers, the client replica.
* Funds, tax, dividends: fund sagas run on the modelled executor with steps like
  those of a fill; tax and dividends are sequential computations over decimals.
  Market data is I/O.
* The RPC idempotency cache: the answer is stored in an outer transaction while
  the operation commits its own, so a crash between the two re-executes it
  (`idempotency_repository.go:39`); the checks it then meets are modelled.
  LedgerService.Transfer and the maintenance cron, which can be triggered by hand
  in a month already charged (`maintenance_cron.go:106`).
* The outbox, which sends a failed event after later ones and may send one twice
  (`outbox.go:92`): no modelled state depends on an event.
* auth- and verification-service: single-row life cycles of tokens and challenges.
* Accounts' creation and administration, caches, notifications, metrics, the
  gateway, generated code, seeders.
* Two executions of one transfer are covered by `RefundsMatchLog` and
  `NoDoubleRefund`, not by `AllOrNothing`: with two,
  a transfer may be completed by one and compensated by the other, since only
  the first status check separates them.

Most of the repository's lines are generated protobuf, API documentation, the
gateway's request translation and single-row repositories; none of these has a
behaviour a model would add to.

## 7. Plan

1. Done: every module of section 2, and the proofs of section 5.
2. Done: every safety property that a passing run checks is proved; liveness
   stays with TLC.
3. Later models: refresh-token rotation, verification challenges, the outbox, and
   the RPC idempotency cache as exactly-once execution.
