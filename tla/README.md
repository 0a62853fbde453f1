# A verification development for subscription-Saas

The repository is a back office for car subscriptions: a NestJS API over
PostgreSQL (`apps/api`), a web front end and release tooling. This directory
holds TLA+ models of its core logic, the TLC runs that check them on small
instances, and proofs checked by TLAPS.

## 1. Inventory

The state of every component is rows of one PostgreSQL database. Components
interact by calling each other inside a transaction, by rows that one writes
and another reads later, and by jobs in `subscription_automation_job` that
polling workers lease.

| Component | State | Operations | Hard behaviour | What makes it correct | Modelled in |
|---|---|---|---|---|---|
| Recurring billing (`billing-automation`) | `billing_schedule` (one row per order: status, next cycle, version), `subscription_automation_job`, rent bills | maintenance (reconcile, enqueue due), worker (claim, handle, complete/reschedule/defer/dead-letter), admin pause/resume/retry | leases that run out, crashes, stale snapshots and optimistic versions, pauses between claim and work | each period billed once and in order, follow-ups exist, claims protected, due work eventually done | `BillingAutomation` |
| Notification (`notification`) | notification records per channel | notify with an idempotency key, provider send | crash between send and record, concurrent senders | a message is sent at most once per key, a completed job has delivered | `NoticeDelivery` |
| Payment orders (`payment`, `portal`) | payment orders with items, the provider's trade | create, reuse, start, refresh, close, callback, settle | late and repeated callbacks, two refreshes of one order, several orders over one bill, provider and row changed by different steps | money is booked once, a trade that can be paid has an order, disputed bills take no payment | `PaymentOrders` |
| Finance (`finance`) | bills, payments, write-offs, deposit ledger, collection cases | settlement, write-off, overdue marking, collection close, deposit deduct and refund, manual generation | several transactions over one bill, check-then-act on balances, a case closed while a bill joins it | the books balance, nothing is spent twice, overdue bills are collected, settled is final | `Receivables` |
| Subscription journey (`subscription-journey`) | journey, its steps, jobs, outbox, manual tasks, exceptions | dispatch of facts, jobs, manual decisions, pause, resume, retry, cancel | two lanes of workers with leases, dispatch on an unlocked read, steps that go back, jobs that run again | steps in order, nothing made twice, activation earned, facts carry the journey on | `SubscriptionJourney` (last four steps) |
| Subscription closure (`subscription-closure`) | closure case, disputes, dispositions, legal cases, settlement revisions | respond, decide, dispose, transfer, return, close | long protocol over many services, orders closed on another connection | no money taken on a disputed bill, money accounted for | its meeting with payments and bills: `PaymentOrders`, `Receivables` |
| Handover, delivery evidence, lease activation | work orders, packages, lease | create, hand in, review, activate | a new package between approval and activation | activation quotes the approved package | through `SubscriptionJourney` |
| Contract extension and expiry (`subscription-change`, `esign/stage3-extension-archive`, `portal`) | change order, contract segments, renewal consideration, the jobs of the change | archive the signed agreement, expire, activate, continue (billing, entitlements, notice), complete, take over, cancel, retry | archiving and expiry at the deadline, activation in parts, dead letter and takeover in two transactions, completion after the job | a contract ends or goes on and never both, a completed change has done its work, final states stay, somebody is called when a job fails | `ContractExtension`; service boundary and billing resume as billing sees them: `BillingAutomation` |
| Other changes (`subscription-change`) | change orders, details | early termination, vehicle swap, managed changes | protocols over delivery, closure and return | | no |
| Mileage review, auto-debit | review tasks; mandates and debit attempts | claim, settle; submit, query | leases; unknown outcomes of an external debit | one settlement per review, one open attempt per bill | no (auto-debit is switched off in the released stage) |
| E-sign, contract documents | envelopes, documents | signing callbacks | callbacks out of order | external protocol | no |
| Order, customer, product, risk, vehicle, assets, fleet, reports, portal pages, web, release tooling | their own rows | CRUD, projections, deployment | little concurrency of their own | | no; see `PROJECT.json` |

The components meet in few places: a settlement (`PaymentOrders`,
`Receivables`) settles bills that billing issued and tells the journey
(`Pay` in `SubscriptionJourney`); it cancels the open jobs of a bill
(`PayBill` in `BillingAutomation`, `Settle` in `NoticeDelivery`); governance
closes payment orders before it disposes of a bill; an extension takes up
billing again (`ResumeBilling` in `ContractExtension`, `ResumeForExtension` in
`BillingAutomation`, the same call from its two sides).

`PROJECT.json` lists every component with its source files and status, and
every hazard with its line and the properties that cover it.

## 2. Plan

The order followed the money and the concurrency around it:

1. **Recurring billing**: `AutomationJobTable`, `BillingAutomation`, the
   abstract `RentLedger`.
2. **Delivery of bill notices**: `NoticeDelivery` over the job table.
3. **Online payment**: `PaymentOrders` with the provider and the governance
   that closes orders, over the abstract `BillAccount`.
4. **Receivables**: write-off, settlement, deposit, overdue marking and
   collection as concurrent transactions.
5. **The journey** from the first bills to the activation of the lease:
   `SubscriptionJourney`.
6. **The end of a contract**: `ContractExtension` over the job table, from the
   signed agreement to the completed extension or the return.
7. **Proofs** for each of them.

Candidates for further modules: the first seven steps of the journey with the
signing callbacks, the quotes of an extension, vehicle swap and early
termination, the protocol of a closure case, cycle and segment arithmetic as
functions.

Modules that are proved about use no recursive operators; parameters are
constants with named assumptions; actions are one per operation.

## 3. Modules

### `AutomationJobTable`
The rows of `subscription_automation_job` and the row updates of
`BillingAutomationRepository` as operators on a function from idempotency keys
to rows. A missing row has status `ABSENT`. `lease_token` is a random UUID per
claim; the model uses the worker slot that claimed the row, because one slot
holds one claim at a time and a token is compared only by its claimant.
`lease_expires_at` is the Boolean `live`. `available_at` is a function of the
key; the retry backoff is left out (a rescheduled job is available at once),
which adds behaviours and removes none.

### `BillingAutomation`
One order. Schedules, bills and job keys of different orders are disjoint.

| Variable | Code |
|---|---|
| `sched` | the `billing_schedule` row: status, pause reason (none, blocker code, free text), next cycle |
| `tickets` | who remembers a still current `version`: a reader takes a ticket, every update that increments `version` voids all tickets, a compare-and-swap needs one |
| `bills` | status of the rent bill of each cycle |
| `jobs` | `subscription_automation_job` |
| `workers` | per slot: idle, handler running, notice read but not sent, handler ended but result not written |
| `recon` | the snapshot a run of `reconcileSchedules` works on |
| `admin` | a pause or resume between its check and its write |
| `contract` | end of the signed segments, service boundary, whether the order is active, whether the facts of the next period resolve, whether an extension awaits its billing job |
| `notices`, `clock`, `faults`, `ops` | notices sent, business time, bounds |

A transaction that locks or compares-and-swaps what it writes is one action:
other transactions cannot come between, or make it fail, which the handler
reports like a transient failure. Reads that a later statement relies on
without a lock are separate actions (`ReconRead`/`ReconDecide`/write,
`PauseCheck`/`PauseWrite`, `ResumeCheck`/`ResumeWrite`, `NoticeRead`/
`NoticeSend`, handler/`Finish`). `RetryJob` and `ManualGenerate` are one action
each. The update of a retry repeats only that the job is a dead letter; that a
generation job's schedule is not paused is checked before, but a pause between
check and update leaves what a pause after the retry leaves, and the claim of
the job asks for the schedule again. Manual generation locks the order's row.
The pause at a blocker (`GenerateBlocked`) also takes the source change order
over when a period crosses its segment; no rule of billing reads that order, so
this half of the transaction is in `ContractExtension` (`BillingTakesOver`).

Time: cycle `c` is generated three days before its period and checked for
overdue five days after its start; months are longer than eight days, so
`GenerateAt(1) < OverdueAt(1) < GenerateAt(2) < ...` and the clock counts these
instants.

### `NoticeDelivery`
One bill notice. `BillingAutomation` takes `notifyBillLifecycle` as one step;
it is no transaction, so here every statement that reads or writes shared state
is an action.

| Variable | Code |
|---|---|
| `job` | the row of the notice job, with the operators of `AutomationJobTable` |
| `portal`, `wechat` | status of the two notification records, found by their unique `notification_no` |
| `senders` | per worker slot: the next step of its handler, the account as it read it, whether it found a WeChat record, the provider's answer |
| `account` | reachable over WeChat: never, since the notice began (`late`), all along |
| `operator` | what the operator found out about a record in `PROCESSING` |
| `messages` | messages the channel accepted |
| `doubts` | history: accepted sends whose response was lost, and decisions of the operator that were out of date when written |

The portal record needs no protocol: it is created as `SENT` and kept. The
WeChat record carries the right to send: `PENDING` or `FAILED` to `PROCESSING`
by compare-and-swap, then the provider call, then an update by id without a
condition. The channel and the look-up in it are external.

### `RentLedger`
The abstract promise about bills: each period is billed at most once and in
order, a bill becomes overdue only while unpaid, paid is final.
`BillingAutomation!FollowsLedger` states the refinement (identity mapping on
`bills`).

### `BillAccount`
The abstract promise about the money of payment orders: an order is written for
open amounts, its money is booked once, each bill is credited the lesser of
what was asked and what is open, a bill on hold nothing.
`PaymentOrders!FollowsAccount` states the refinement.

### `PaymentOrders`
The bills of one customer.

| Variable | Code |
|---|---|
| `orders` | `payment_order` rows: status and the amount of each item |
| `trades` | external: what the provider holds under `payment_order_no`. A number that was closed or paid is refused |
| `bills` | open amount, the dispute of its charge line, the disposition of the closure |
| `credited` | the write-offs of each order's payment |
| `sessions` | portal requests: between finding an order and reading it, before and after the provider's answer, about to close the trade again. `copy` says whether `updatedAt` is still the one that was read |
| `settling` | settlements that hold the order's row and wait for its bills |
| `governor` | a decision of governance: the orders it still has to close, and for the transfer to legal collection the snapshot it began with |
| `lost`, `reopened` | history: trades left behind by a failed request, orders that a late request made PENDING after they were CLOSED |
| `events`, `faults` | bounds |

Requests are no transactions: `Request`/`Start` find the order, `ReadOrder`
reads it, `OpenTrade` calls the provider, `StoreTrade` compares under the row's
lock. A settlement locks the order and then the bills (`Callback`, `Settle`);
the transfer holds the bill and closes orders on another connection, and only a
timeout ends the wait of both (`SettleTimeout`, `TransferTimeout`). The cashier
URL is taken as expired, so that a reused order is always refreshed.

`reopened` needs a reason. The check in `StoreTrade` compares status and
`updatedAt` with a row that `ReadOrder` read, and `ReadOrder` turns away PAID
orders only: a request that found an open order and reads it after the closing
reads CLOSED, and stores PENDING. The invariants name this exception, and
`FollowsAccount` and `PaidTradeIsBooked` hold in spite of it.

### `Receivables`
The bills of one order, all past due.

| Variable | Code |
|---|---|
| `bills` | `receivable_bill`: open and paid amount, status |
| `credited`, `allocated` | sums of `payment_write_off` by bill and by registered payment |
| `deposit` | sums of `deposit_ledger` by type |
| `cases` | `collection_case` with its bills; the partial unique index allows one ACTIVE |
| `clerks` | transactions of finance: what they read (`read`, `copy`), which bills they lock, the case they are about to close |
| `marker` | an overdue marking: bills listed, then locked with the order's row |
| `closer` | a manual closing between its check and its transaction |
| `stale`, `raced` | history: payments and deposit spent on an outdated read, bills whose marking met the closing of the case |

Transactions run at READ COMMITTED. A step that locks reads, later steps write
what was computed from that reading; what no lock protects (the write-offs of a
payment, the deposit ledger, the case) may be out of date at the commit, and
`stale` and `raced` say when it was. The properties name these cases instead of
leaving them out of the model: what they check is the sum in every other
interleaving, and section 5 lists the excepted ones as they happen in the code.

A closure disposes of the bills in `Governed`, which excludes the deposit bill.
`recordDisposition` has no such check; but a closure needs an activated order,
and the activation needs the deposit bill PAID
(`lease-activation.engine.ts:479-485`), so there is no deposit left to dispose of.

### `SubscriptionJourney`
One journey, from INITIAL_BILLING just completed to the activation.

| Variable | Code |
|---|---|
| `journey` | current step, status, the copy of the step's status, the status before a pause |
| `steps` | `subscription_journey_step` |
| `outbox`, `later` | rows not dispatched, in order; rows put off or left behind by a crash, in any order |
| `keys` | event keys that a later transition can meet again |
| `jobs` | `subscription_journey_job` by source key, with the owner of the lease |
| `exceptions` | the exceptions in order of occurrence: whose job, and whether still open |
| `tasks`, `handover`, `unpaid`, `made` | manual tasks, the work order and its review, first bills not settled, business objects made |
| `workers` | per process: a row (with the step its dispatch read, and whether the version has moved since) or a job |
| `faults`, `holds` | bounds |

The two lanes of the worker are actions of one process, because they share
nothing but the rows. A dispatch reads the journey without a lock
(`Holding`) and acts under the lock (`Dispatch`); a handler and `completeJob`
are two transactions (`RunJob`, `CompleteJob`), and a handler does not look at
its lease. The version matters only by whether it moved since it was read
(`fresh`); in job keys it is replaced by the number of the fact or resume.
Backoff times and attempt counts are left out: `MaxFaults` stays below both.

`Activate` follows the engine's order: the vehicle is asked for first, so a
restriction pauses the journey also when the review is not approved, and the
evaluation follows. A refused evaluation is an error that may pass: the job is
put off (`Reschedule`) or, at its last attempt, dead-lettered.
`ActivateByHand` is the second way to the activation, the endpoint that calls
the engine without a job. A voided work order is not modelled (section 7).

### `ContractExtension`
One order whose segment ends, and one extension of it once the agreement is out
for signature.

| Variable | Code |
|---|---|
| `late` | the deadline has passed: `completion_deadline_at`, the start of the target segment and the due time of the expiry job are one instant |
| `order`, `source`, `target` | status of the order, of the segment that ends and of the extension's segment |
| `billed` | the source segment was billed to its end while it was the last one, so that no period reaches into the next |
| `change` | the change order: status, failure (by a dead letter, by the deadline, by billing, none), whether it is linked to the consideration |
| `consideration` | status of the renewal consideration |
| `billing` | the billing schedule: running, paused, at its end |
| `grants`, `noticed` | entitlement grants by kind, the notice of the effective extension |
| `jobs` | the activation, the billing resume, one renewal per entitlement, the notice, and the expiry, in `subscription_automation_job` |
| `archive` | an archiving that holds its locks |
| `pc` | worker slots: claimed, expiry between its two looks for a next segment, handler ended, after the completion, about to take over |
| `faults` | bound |

The archiving locks change, consideration, segments and order, reads the clock
and commits later (`ArchiveDecides`, `ArchiveCommits`), so the deadline may
pass in between. The expiry looks for a next segment without locks, then tries
the locks without waiting and looks again (`ExpireChecks`, `Expire`,
`ExpireOther`); a lock that is held is an error and the job is retried.
`activate`, `renewEntitlements`, `completeIfReady` and `markManualTakeover` are
one transaction each, and so are `complete`, `reschedule` and `deadLetter`;
between them the worker may die. A crash after the effect and before the
`complete`, and an error after the commit (the notice of the expiry), are
`Crash` and the retrying branch of `Answer`.

Billing meets the extension in three ways: it comes to the end of the source
segment (`BillingEnds`), it is paused and resumed (`BillingPauses`), and where a
period reaches over the boundary of the segments it stops and hands the change
to the staff, a completed one too (`BillingTakesOver`,
`billing-automation.service.ts:806-871`). Dates are not in the model, so any
such stop may happen while the source segment is not yet billed to its end.
The customer's own "no" (`ConfirmExpiry`) is taken for a linked change only:
nothing modelled reads the consideration of an unlinked one.

The expiry looks the change up by a column that today's rows leave empty and
the rows of the first release have (section 5): `FailChange` takes either.

### Modules for TLC, promises and proofs
`MCBilling`, `MCReceivables` and `MCJourney` declare the symmetry of worker
slots and transactions for the safety runs. `PaymentPromises` and
`JourneyPromises` state what documents and tests say and the code does not
satisfy (section 5). The `*Proofs` modules hold the
theorems (section 6).

## 4. Runs

Deadlock checking is off everywhere: with its bounds used up and all work done
the system stops.

| Run | Question | Bounds |
|---|---|---|
| `billing_workers` | Do leases, retries and takeovers keep jobs, bills and the ledger straight? | 2 workers (a stale one and its successor), 2 cycles, 2 attempts, 3 faults (so that the attempts of one job run out after a takeover), 1 payment |
| `billing_control` | Does any order of control events skip a period, lose a follow-up or revive a finished job? | 1 worker, 1 reconciler, 2 cycles of which 1 signed (so that extension and manual generation reach beyond it), 3 events of 8 kinds, 1 fault |
| `billing_progress` | Is every due period billed? | 1 worker, 1 reconciler, 2 cycles, facts broken once, 1 fault, 3 attempts (finite faults must not exhaust them) |
| `billing_takeover` | Is a due notice sent although workers die? | 2 workers, 1 cycle, all four job types, 2 faults, 3 attempts, 1 payment |
| `notice_delivery` | How many messages reach the customer, what does a completed job stand for, and does the job end when its record is stuck? | 2 workers, 2 faults (an attempt fails or is taken over, and its repetition fails), 2 attempts, 2 operator events (look-up and job retry) |
| `payment_orders` | Is money booked once and where it belongs, and does every open trade have an owner? | 2 orders, 2 bills of amount 2 (overlapping orders, partial amounts), 2 portal requests, 1 governance event on a governed bill that may be disputed from the start, 1 fault |
| `receivables` | Do the books balance, is nothing spent twice, are overdue bills collected and settled ones final? | a deposit and a damage bill of amount 2, 1 registered payment, 2 concurrent transactions, 4 requests, 2 collection cases |
| `subscription_journey` | Do the rows of journey and steps agree, can an exception be retried, is nothing made twice? | 2 workers, 1 bill, 1 package, 1 fault, 1 pause or retry |
| `journey_progress` | Is the activation earned, and do settled bills and an approval carry the journey on? | 1 worker, 1 bill, 2 packages (a rejection and its rework), 1 fault, 1 pause |
| `contract_extension` | Does the contract end or go on and never both, has a completed change done its work, do final changes stay, and is the term settled or somebody called? | 2 workers, 1 entitlement (5 jobs), 2 attempts, 1 fault (crash, lapsed lease, error or lost answer) |
| `promise_payable`, `promise_rework` | Section 5 | the smallest instances that show it |

Two worker slots are enough for everything a lease protects against: a holder
and a successor. Three events of the administrator and the contract give every
pair of racing events with a third that repairs or repeats. Two cycles give a
period, its successor and the end of the contract.

Fairness (`FairSpec`): the worker polls for ever and `claimDue` orders by
`available_at`, so a job that is claimable again and again is claimed (strong
fairness per key); a maintenance pass runs with the poll (weak fairness of
`EnqueueDue` and of each reconciliation run); handlers end; a lease runs out;
a request past its check reaches its write. Nothing is assumed about people,
customers or the contract. `DuePeriodBilled` assumes that broken segment facts
are repaired in the end.

Two portal requests are enough for one order refreshed twice and for two orders
over one bill; one governance event races with both. Two transactions of
finance race pairwise with each other and with the marking, and four requests
let each of the two be followed by another. In the journey two workers give a
holder and its successor; with one fault each kind of crash, lapse and error
happens once, at any point. The bigger instances (two packages with two
workers) exceed the time of a run; the proofs of section 6 do not depend on
them.

For payments (`PaymentOrders!FairSpec`) the provider repeats a notification
until it is handled (weak fairness of `Callback`), transactions end by commit
or timeout and requests proceed. Nothing is assumed of customers and
governance. For the journey (`SubscriptionJourney!FairSpec`) the worker polls
for ever: weak fairness of all its steps together, so that a row or job may
wait behind others but not all of them for ever. Customers, field and operators
are bound to nothing, and the progress properties end when an operator pauses
or a fault needs one.

For the extension (`ContractExtension!FairSpec`) time passes, an archiving
commits or aborts, the worker polls, a slot that has begun goes on, the
maintenance runs every minute and a lease that nobody works under runs out.
Customer, staff and billing are bound to nothing, and `TermIsSettled` ends where
they are needed: a takeover, a change cancelled after its segment was made, or
a dead letter. One fault and two attempts reach each of them, because a handler
may refuse without a fault (a paused schedule, a change taken over).

For notices (`NoticeDelivery!FairSpec`) the worker polls, handlers and provider
calls end and the lease of a dead worker runs out. Nothing is assumed about the
customer, the payment or the operator.

## 5. Disagreements between code and documents

Each `promise_*` run checks one statement and ends in a counterexample. They
are listed with quotations under `findings` in `PROJECT.json`:

- `promise_payable`: two requests refresh one payment order; the slower takes
  the other's update for a closing and closes the trade that was stored. The
  order stays PENDING and cannot be paid.
- `promise_rework`: after rejected evidence the second package meets the event
  key of the first, and no decision task is opened for it.

Met while modelling, visible in the models, and kept by no run:

- A marking links its bill to a collection case that a settlement or an
  operator closes at the same time, and the overdue bill is in no active case
  until a later marking (`finance.service.ts:689`; `raced` in `Receivables`
  counts it, `OverdueIsCollected` excepts it). `docs/superpowers/plans/2026-07-31-stage1b-billing-automation-acceptance.md:13`
  says that an overdue bill enters the collection ledger.
- The expiry looks the extension up by `sourceSegmentId` of the change order
  (`subscription-expiry.service.ts:150`), which `createExtension` and the
  customer's decision leave empty (they fill `extensionDetail.sourceSegmentId`).
  An extension that was not signed in time therefore stays open after the order
  has expired, where line 295 of
  `docs/superpowers/specs/2026-08-05-stage1b-contract-extension-renewal-design.zh-CN.md`
  and `test/subscription-expiry.spec.ts:115` have it FAILED (`FailChange`).
- A change that staff take over after it was SCHEDULED and then cancel leaves
  its segment SCHEDULED: the expiry reports EXTENDED, the activation is refused
  until it is a dead letter, and the order goes on under the old segment
  (`Cancel`; lines 328-329 of that document). Without the cancellation the dead
  letter cannot be retried either, because the takeover by staff left no failure
  code (`MayRetry`).
- Billing takes back a COMPLETED extension when a period crosses the segment's
  boundary (`billing-automation.service.ts:833-853`; `BillingTakesOver`), and
  nobody can answer the takeover: a retry asks for a dead-lettered job with the
  change's failure code (`subscription-extension.service.ts:692-701`), which no
  job has, and a cancellation is refused after the deadline. A change that was
  only SCHEDULED then has its activation refused until it is a dead letter, and
  the order stays on the old segment.
- Of two dead-lettered jobs of a change only one retry is accepted, unless that
  job fails again: it clears the failure code and the takeover. The same holds for a worker that
  dies between the dead letter and the takeover. Reconciliation never completes
  such a change (`TermIsSettled` counts a dead letter as a call for somebody).
- Retrying a dead-lettered activation whose transaction had committed sets the
  change SCHEDULED while its segment is ACTIVE; the activation then refuses for
  ever (`RetryAutomationJob`, `ActivateRefused`).
- An extension that staff create without the renewal consideration leaves it,
  its reminders and the expiry job open, and one that they link while it is
  still PENDING_DECISION cannot be archived (`ArchiveDecides`).
- A package reported while the journey is paused or in exception is a dead
  letter and not looked at again after the resume
  (`subscription-journey.service.ts:312`).
- Two settlements of two bills of one collection case each see the other bill
  open, and the case stays ACTIVE (`finance.service.ts:659`).
- Reconciliation overwrites the reason of a manual pause by a blocker code and
  later resumes the schedule (`ReconPause`); pausing a blocker-paused schedule
  by hand and resuming it lifts the blocker (`PauseWrite`, `ResumeCheck`).
- Manual generation bills the cycle after the last bill, also past the end of
  the contract (`ManualGenerate`).
- A reconciliation pause cancels the overdue checks of issued bills and the
  resume does not bring them back (`ReconPause`, `ReconResume`).
- After the last bill completed the schedule, an extension finds its next
  generation job COMPLETED and is not billed automatically
  (`ResumeForExtension`).
- A generation job whose worker died is not claimed again while its schedule
  is not ACTIVE (`Abandoned`, `Claim`).
- A provider call that throws is recorded as FAILED also when the message was
  accepted, and is repeated (`LoseResponse`); `NoSecondMessage` counts it as a
  doubt.
- A late portal request may make a CLOSED payment order PENDING again
  (`StoreTrade`, `reopened`).
- Concurrent write-offs of one payment, and concurrent deductions and refunds
  of one deposit, may together exceed it (`stale`).

## 6. Proofs

`AutomationJobTableProofs` has the fact both developments rest on: claims,
expiring leases and settled jobs keep a row sound (`SoundJob`: every job except
a dead letter has an attempt left).

`BillingAutomationProofs` proves, for all constants that satisfy the named
assumptions of `AutomationJobTable` and `BillingAutomation` (any number of
workers, cycles, reconcilers, faults and events):

- `TypeCorrect`. `TypeOK` is not inductive: it bounds `attempts` by
  `MaxAttempts`, and a failing handler adds one. `TypeInv` adds `SoundJob`,
  that a working slot has a job, and that only notice jobs send.
- `SpecNoPeriodSkipped`. `NoPeriodSkipped` is inductive relative to `TypeInv`.
  Automation issues the schedule's next period, whose predecessors are all
  billed; manual generation issues number `Cardinality(IssuedCycles) + 1`, and
  `PrefixCardinality` shows that the bills of a gapless ledger are exactly the
  first ones.
- `SpecFollowUpsWithBill`, inductive relative to `TypeInv`, and
  `SpecCompletedMeansDone` from `DoneInv`: a worker that reports success has
  done the work, and the contract only grows until its boundary is set.
- `BillingFollowsLedger`: every step is a step of `RentLedger` or leaves the
  bills alone, from the same invariant.
- `SpecAutomationObeysSchedule` and `SpecLeaseProtectsJob`: action properties,
  from `TypeInv` and the guards of the actions, via lemmas on the job table.
- `SpecJobsNotResurrected`, an action property that needs an invariant of its
  own: a reconciliation brings back the generation job of the period it read
  in an earlier transaction. `SnapshotInv` says that this is still the
  schedule's next period while the compare-and-swap on the version can win
  (every write that moves the schedule on takes all tickets).

`NoticeDeliveryProofs` proves, for every finite set of workers and all bounds:

- `NoticeTypeCorrect`.
- `SpecNoSecondMessage`. `messages <= 1 + doubts` is not inductive: it does not
  say who may still send. `Budget` counts permissions: messages sent, handlers
  in flight (about to send, or about to write `FAILED`) and one for an open
  record are together at most one plus the doubts. A claim moves a permission
  from the record to a handler, a send turns it into a message, a failure gives
  it back; `OneSlot` follows the cardinality of the handlers in flight.
- `SpecCompletedMeansDelivered`, from `DeliveryInv`: whoever says `SENT` has a
  message to show, and a handler that succeeded has delivered.
- `SpecSentIsFinal`, from both: a message and no doubt leave no permission.

`PaymentOrdersProofs` proves, for every set of orders, bills and sessions:

- `PaymentTypeCorrect`, `EveryOpenTradeHasOwner`, `NoSecondOrder`,
  `NoOrderOnBlockedBill` and `ImplementsAccount`, from one inductive invariant
  `PInv`. The safety invariants are not inductive alone: `SettlingInv` says
  that a settlement holds an order that can be settled and whose trade is paid,
  `RowsInv` that an order not yet created asks for nothing,
  `CopyInv` that a request deals with an existing order and that the order is
  not paid while the request's copy is fresh, and `LegalInv` that every open
  order of a bill held by a transfer was in its snapshot or was reopened.
- `ImplementsAccount` maps `Request` to `Ask`, `Settle` to `Book`, the
  decisions and write-offs to `Lower` and `Govern`, and everything else to a
  stutter.

`ReceivablesProofs` proves, for every finite set of bills, all payments,
transactions and amounts: `ReceivablesTypeCorrect`, `BooksAlwaysBalance`,
`PaymentsWithinAmount`, `DepositWithinCollected`, `OverdueAlwaysCollected` and
`SettledStaysFinal`, all from `Invariance`. The strengthening is about the
transactions under way: no two hold the same bill and a held bill is as it was
read (`Locks`), what a transaction asks fits what it read (`Requests`), and a
case about to be closed has only settled bills among those it had then
(`Closings`).

`SubscriptionJourneyProofs` proves, for every set of workers and all bounds,
`EverythingMadeOnce` and `EveryActivationIsEarned` from `JInv`: an activation
leaves the journey COMPLETED and nothing moves it on (`MadeInv`), the steps
after the payment imply settled bills (`PaidInv`), and an approved review
quotes an approved task of the same package (`ApprovedInv`).

`JourneyTyped`, `StepsStayInOrder` and `EveryExceptionCanBeRetried` come from
`IInv`, which adds to `JInv`:

- `OrderInv`: the rows of the steps agree with the journey, and only a paused
  journey remembers a status. Every move of the journey is a completion, a
  wait, a return, an exception or a retry, with one lemma each.
- `RowsInv`: a `ready` row, wherever it is, announces a package that was handed
  in and is not the one that already completed the handover. Otherwise its
  dispatch would meet that event again and resolve the exceptions of a step
  that was returned meanwhile. This holds because no package is announced at
  two places, so the row that completes the step leaves no copy: `Placed` and
  `Once` follow the rows through the outbox, the rows put off and the hands of
  the workers. Their lemmas (a row claimed, put off, lost, dispatched, written)
  are about positions in sequences and need no induction: the removal of a row
  is stated with `SubSeq` and `\o`.
- `ReachedInv`: no job and no dispatch under way belongs to a step the journey
  has not reached, so a late completion cannot move it on.
- `ExceptionsInv`: the open exceptions are of the current step and of different
  jobs, and each of these jobs is a dead letter. Without "different jobs" a
  retry would leave a second open exception whose job is no longer dead; it
  holds because a job is recorded only when it becomes a dead letter, and it
  leaves that state only by the retry that closes its exception. Without "of
  the current step" the completion of a step would leave open what it should
  resolve.

`ContractExtensionProofs` proves, for every set of workers and entitlements and
all bounds:

- `TypeCorrect`, with `SoundJob` for the jobs.
- `TermsAgree`. `OneTerm` is not inductive: nothing in it keeps an archiving
  from committing on an expired order. `TermOK` adds that an archiving under way
  holds an active order and a change still to be signed, that such a change has
  no segment, and that an order is expired only after the deadline;
  `ExpiryIsDue` that a slot is at an expiry only after the deadline, when no
  archiving begins.
- `CompletionIsEarned`, from `EffectOK`: the jobs of an extension are enqueued
  together and only once its segment runs, a job is COMPLETED or about to be
  only with its effect, and effects stay (`EffectsStay`, `ReportsAreTrue`,
  `RowsMove`).
- `FinalChangesStay`, an action property, in two parts. That a final change
  stays, or is taken by billing out of COMPLETED and in no other way
  (`FinalKept`), needs the invariant: an archiving that commits, a dead letter
  or the expiry must find the change not final. That a change billing has
  taken is not set going again (`SeizedKept`) needs that neither activation,
  completion nor retry accepts it.
- `TakeoverCanBeAnswered`. `TakeoverIsRetryable` is not inductive: a retry may
  consume the only dead letter while another worker is still between its own
  dead letter and the takeover. `TakeoverOK` assigns every such worker a dead
  letter of its own, and once the change is taken over one more is left
  (`Assigned`, an injection rather than a count, so that nothing is said about
  cardinalities). `AssignedPair` (a worker writes its dead letter),
  `AssignedFreesOne` (it takes the change over), `AssignedLosesOne` (a retry,
  which needs the takeover and ends it) and `AssignedLess` follow it.

Every safety invariant and action property that a passing run checks, and both
refinements, are theorems. Only model-checked are the liveness properties
(`DuePeriodBilled`, `DueNoticeSent`, `NoticeJobEnds`, `PaidTradeIsBooked`,
`PaidMovesOn`, `ApprovedMovesOn`, `TermIsSettled`): they rest on fairness, and
`ENABLED` is out of the prover's reach.

## 7. Not modelled

Within billing: creation of a missing schedule by reconciliation and lease
activation inside it, partial payments and amounts, the audit log, metrics and
snapshots, backoff times, and the order in which one poll hands out its jobs.
Within notices: rebinding to another WeChat account, deletion of the customer,
changes of the provider's configuration while a notice is under way, the
notification event's contents. Within payments: the mock payment, orders of a
debit attempt, a cashier URL that is still valid, amounts that do not match a
callback, a change of the provider. Within receivables: the creation of damage
bills, levels and actions of a collection, the reversal of anything (the code
has none). Within the journey: the seven steps up to the contract, the signing
provider, cancellation (refused once the contract is archived), the
notification lane, the count of attempts, and the ending of a work order by an
administrator (`voidOrCancel`, `handover-work-order.service.ts:3427`: an update
without a condition, after which the work order takes no package and the
activation is refused; the new order comes from a dispatch by hand). Within the extension: draft, quotes,
price approval, confirmation and the steps of signing (its states begin with
SIGNING_OR_PAYMENT), reminders, what the closure does inside the expiry, the
races inside billing's own schedule (they are in `BillingAutomation`), a second
extension after the first, dates and amounts of segments.

Outside: the components marked `not_modelled` in `PROJECT.json`, each with its
reason. The repository has about 410 thousand lines, most of which are
projections, CRUD with validation, user interface and release tooling without a
state machine of their own; the development covers the workers, the money and
the life cycle they drive, and not a share of the lines.
