# LunchLineup in TLA+

LunchLineup is a multi-tenant workforce-scheduling service: a NestJS API
(`apps/api`, and its successor in `apps/api-v2`), a Python worker
(`apps/worker`), a constraint-solver engine (`apps/engine`), PostgreSQL,
RabbitMQ, Stripe, a mail provider and a web client.  What is hard in it is not
the CRUD but what several processes do to the same row: paid work that is
queued through an outbox, done by a worker and paid back when it fails; e-mail
that must be sent once; credentials that rotate; a payment provider that
redelivers, reorders and loses answers; payroll that must pay each hour once.
This project models those parts, model-checks them with TLC and proves all
their safety properties but one for every value of the constants with TLAPS.

Sections: 1 inventory, 2 modules, 3 modelling conventions, 4 runs, 5 fairness,
6 findings and limits, 7 proofs, 8 what is only model-checked, 9 what is not
modelled, 10 plan.

## 1. Inventory

| Component | State it keeps | Operations | Meets |
|---|---|---|---|
| Schedules API (`schedules.controller.ts`) | `Schedule`, `ScheduleSolveJob` | auto-schedule, publish, reopen, delete | wallet, outbox, edits |
| Solve outbox publisher (`schedule-solve-outbox.publisher.ts`) | outbox columns of the job row | claim, send, acknowledge, fail, give up with refund | RabbitMQ, worker lease |
| Solve worker (`worker/main.py`) | execution token and lease, completed-key cache | receive, claim, solve, persist, fail, retry, dead-letter | engine, API, publisher |
| Credit wallet (`feature-access.service.ts`, SQL `settle_positive_credit_value`) | `Tenant.usageCredits`, ledger | debit, refund, replay | every paid operation |
| Outgoing webhooks (`webhooks/`) | delivery rows, leases, retry queue | enqueue, deliver, recover, refund, pause | wallet, RabbitMQ, receivers |
| Availability imports (`availability-imports/`, `availability_import_store.py`) | import rows, encrypted files | upload, publish, claim, apply, cancel, sweep | wallet, parser |
| Notification outbox (`notification-outbox.processor.ts`) | intents, leases, feed | claim, deliver, postpone, give up | mail provider, recipients |
| Staff invitations (`staff_invitation_*.py`) | one outbox row per employee | enqueue by trigger, send, retry, reissue | mail provider, roster |
| Password reset (`password_reset_email.py`, `auth/`) | links, outbox, sessions | request, send, redeem | mail provider, sessions |
| Account data exports (`tenant-export.service.ts`) | export rows, files, quotas | request, claim, write, finalize, clean up | file system, deletion |
| Sign-in (`auth/`) | lockouts, sessions, refresh families, factors | login, refresh, logout, enrol, verify | users, policies |
| Roles and access (`admin/`, `users/`, `roles/`) | role column, assignments, sessions | assign, edit, suspend, delete, lock | every guard |
| Subscriptions and purchases (`billing/`) | binding, checkout session, purchases | checkout, webhook, grant, refund | Stripe |
| Usage metering (`billing_usage.py`, `stripe-meter-error.service.ts`) | usage snapshots | snapshot, send, replay, reject | Stripe |
| Cancellation and archive, deletion (`account/`, `admin/`) | intents with leases, barriers | schedule, hold, compensate, finalize, purge | Stripe, every paid job |
| Schedule editing (`shifts/`, `schedules/`, API v2) | schedules, shifts, revisions | edit, publish, reopen, deactivate | solves, availability |
| Lunch breaks (`lunch-breaks/`, API v2) | breaks, generation requests | generate, edit, move | wallet, shifts |
| Time cards and payroll (`payroll/`, API v2) | cards, periods, amendments, exports | clock, review, lock, amend, export, reconcile | policies |
| Engine, CRUD, console, web client, scripts, legacy PHP | | | |

`PROJECT.json` lists every part with its status and the reason when it is left
out, and places every hazard at its line.  The hazards come in families: two
owners of one row (a lease that runs out under its holder); a commit, confirm
or answer that is lost; a message that comes twice, late or never; a value read
before a lock and used after it; a crash between a durable write and its
acknowledgement; several steps at a provider of which one fails.

## 2. Modules

| Module | Models |
|---|---|
| `SolveState`, `SolveApi`, `SolvePublisher`, `SolveWorker` | the paid solve: tables, API handlers and deletion barrier, outbox sweep, worker |
| `ScheduleSolve` | composes them with time and faults; specification, fairness, properties |
| `PaidSolve` | the abstract service the pipeline implements: buy, edit, deliver, refund, publish |
| `WebhookDelivery` | paid deliveries to endpoints |
| `AvailabilityImport` | paid imports and the life of their encrypted source |
| `NotificationOutbox` | notification intents, their e-mail and feed entry |
| `StaffInvitation` | the invitation outbox |
| `PasswordReset` | reset links, their e-mail, redemption |
| `TenantExport` | exports of an account's data under storage quotas |
| `AuthLogin` | password, PIN and e-mail logins, lockout, session cap |
| `RefreshRotation` | families of refresh credentials |
| `MfaSession` | TOTP and backup codes, verified sessions |
| `RoleAdministration` | roles, assignments, system administrators |
| `SubscriptionCheckout` | checkout sessions of one tenant |
| `SubscriptionSync` | subscription webhooks and their order |
| `CreditPurchase` | one-off purchases, grants, refunds |
| `UsageMetering` | usage snapshots, Stripe's error reports |
| `TenantCancellation`, `TenantDeletion` | cancellation, archive, deletion at Stripe |
| `ScheduleEditing` | schedules, shifts, publication through both APIs |
| `BreakGeneration` | lunch breaks |
| `Payroll`, `PayrollExport` | cards, periods, amendments; export and reconciliation |
| `MCScheduleSolve`, `MCDelivery`, `MCAccess`, `MCBilling`, `MCWorkforce`, `MCProgress` | instances for TLC |
| `SolveProofs` | proofs about `ScheduleSolve` and its refinement of `PaidSolve` |
| `DeliveryProofs`, `AccessProofs`, `BillingProofs`, `WorkforceProofs` | proofs about the component each composed run extends, about `StaffInvitation`, `PasswordReset` and `BreakGeneration`, and about the compositions |
| `StripeProofs` | proofs about `CreditPurchase`, `UsageMetering`, `TenantDeletion`, `SubscriptionSync` |
| `OperationsProofs` | proofs about `WebhookDelivery`, `Payroll`, `ScheduleEditing`, `TenantExport` |
| `PeopleProofs` | proofs about `MfaSession`, `RoleAdministration`, `AuthLogin`, `AvailabilityImport` |

## 3. Modelling conventions

* A database transaction is one step when it locks what it reads; otherwise the
  read and the write are two steps and everything else may come between them.
  A call to a provider is a step of its own, with a variant in which it takes
  effect and the answer is lost.
* A process is a record with a program counter `pc` (or `step`) and exactly the
  values the code holds in local variables across an await or a commit.  A
  crash resets the record.
* Time is not a number.  A lease is live or not; a time-out whose owner is gone
  simply fires, one that fires under its owner is a fault.  What orders two
  durations in the code is a guard and says so.
* Random tokens are named by what drew them; secrets, addresses and payloads
  are model values; hashes and encryption envelopes are left out.
* Everything that goes wrong draws on `MaxFaults`, a lease that ends under its
  owner on `MaxStalls` where it is told apart, and changes by administrators
  and users on `MaxSwitches`, `MaxChanges`, `MaxEdits` and their like: all
  appear in guards only.
* History variables (`writes`, `basis`, `sends`, `accepted`, `runs`, `inbox`,
  `told`, ...) record what a property needs and are read by no guard.
* An operator introduced by "Mutant of" is a plausible mistake in the
  definition below it; no specification uses it.

### The solve pipeline

One tenant with one schedule; a job is identified with its Idempotency-Key.
`row[j]` is the `ScheduleSolveJob` row: `due` stands for whichever time test of
the claim query applies (`nextPublishAt`, `publishLeaseUntil`, the recovery
age), `live` for `executionLeaseUntil > now`.  `queue` is a bag: the retry
queues only delay a message.  A worker's name stands for the token of its
current claim, and `holds` says whether it still has it in hand, because an
error path can lose it.  The recovery age of a published row (10 minutes)
exceeds an execution lease (5 minutes), as in `docker-compose.yml`; the model
uses that in `OutboxOrphan`.

### The composed runs

The components outside the solve pipeline share no state in the models: each
contains its own view of tenant, plan and wallet and changes it as the rest of
the system may.  A run of `MCDelivery`, `MCAccess`, `MCBilling` or
`MCWorkforce` therefore checks several side by side.  The variable `scope`,
chosen initially, names the one component that moves; the others stay in one
initial state.  The reachable states are the union of the components' own, not
a product.  One component per module is extended (its properties keep their
names), the others are instantiated with their variables renamed; `...Safe`
collects the invariants of an instance under its scope, `...Steps` its action
properties.  Some components appear twice, with small constants in different
places.

## 4. Runs

| Run | Instance | Checks |
|---|---|---|
| `safety` | solve: 1 job, 2 workers, 2 sweeps, 2 faults | types, `PaidProvenance`, `WalletConserved`, `NoLostEdit`, `TerminalIsFinal`, `LiveLeaseProtects`, `StaleSweepHarmless` |
| `two_jobs` | solve: 2 jobs, one malformed, 2 workers, 1 sweep, 1 fault | `ActiveJobOwnsDraft`, `CompletedKeysSound`, the refinement `KeepsPromise` |
| `liveness` | solve: 1 job, 2 workers, 1 sweep, 1 fault, fair | `EverySolveEnds` |
| `delivery` | notifications (extended), webhooks twice, imports twice, invitations, exports twice, resets | `OneMailPerIntent`, `WebhookSafe`, `ImportSafe`, `LinksSafe`, `ExportSafe`, `QueueSteps`, `MailSteps` |
| `access` | rotation (extended), logins twice, factors twice, roles twice | `FamilyIsLinear`, `LogoutSticks`, `LoginSafe`, `MfaSafe`, `RolesSafe`, `SignInSteps`, `RolesSteps` |
| `billing` | checkout (extended), webhooks of subscriptions twice, purchases, cancellation three times, deletion, usage twice | `OneOpenSession`, `LinkSellsWhatWasAsked`, `SyncSafe`, `PurchaseSafe`, `CancellationSafe`, `DeletionSafe`, `UsageSafe`, `BillingSteps` |
| `workforce` | payroll export (extended), cards, amendments, editing, publication, breaks | `OneExportIsPaid`, `ReconciledIsTrue`, `PayrollSafe`, `BreaksSafe`, `EditingSafe`, `WorkforceSteps` |
| `progress` | ten components under their fairness | `NothingStaysOwed` |
| `lapsed_delivery`, `beta_claim`, `import_poison`, `edits_lost` | one component each | a documented promise each, violated (section 6) |

The comment above each property says it in words; the comments in the MC
modules say what an instance is for.

Why the bounds are enough to be interesting.  Two processes are what the races
of this code need: an owner and a successor; where a third matters (three
logins against a cap of two, three requests for one code) there is an instance
with three.  Retry budgets of 1 or 2 have a first try, a retry and an exhausted
budget.  One or two faults give the pairs that matter, such as "the lease ends
early and the commit is not confirmed".  Two addresses, passwords,
subscriptions or periods tell "the right one" from "the other one".  Wallets
pay for one operation and a bit, so that paid operations compete.  Slots of the
editing instance overlap, touch and cross midnight.  Symmetry is used only for
interchangeable processes and addresses, in runs without liveness.

Deadlock is not checked: every component may really come to rest (an ended
job, a closed account, a purged tenant), and the budgets run out.  That nothing
rests too early is what `liveness` and `progress` check.

Each property has a mutant in `PROJECT.json`: a plausible bug in one mapped
definition under which TLC finds the property violated in its run.

## 5. Fairness

No run assumes anything of users, administrators, receivers or faults.

* Solve: weak fairness of each sweep (the poll timer keeps starting sweeps), of
  each worker (the consumer loop takes the next message and runs its handler)
  and of the two time-outs.
* Webhooks: handlers, sweeps, due times and leases; the property waits for a
  plan that stays paid, since an unpaid tenant's rows rest by design.
* Imports: handlers, the retention, overdue and orphan sweeps, expiry and
  leases.  Nothing is assumed of the publisher or the broker: the sweeps alone
  end an import.
* Notifications: each delivery, leases, retry times, and strong fairness of the
  claim of an intent by some delivery: the sweeps of all replicas repeat for
  ever, and a claim can be disabled for a moment by a lock another sweep holds.
* Invitations, resets: the worker's loop, leases and retry times.
* Purchases: handlers, refunds that settle at Stripe, and strong fairness of
  receiving an event that stays unanswered, because Stripe redelivers it while
  other events come between.
* Cancellation and deletion: processes, the reconcilers, leases and backoff.
* Usage: the steps of the worker, terminalization, time.  `Dispatch` is fair
  only once something is recorded (`SomethingRecorded`), so that the other
  scopes of the run, in which the component stands still, are not excluded;
  without a row a dispatch only records the first one, and nothing is owed.
* Exports: the steps of a replica, cleanup once there is something to clean
  (`SomethingToClean`, for the same reason), expiry, ageing of files.

In `progress` the components that stand still are in a state in which none of
their fair actions is enabled, so their fairness demands nothing of a
behaviour of another component.

## 6. Findings and limits

Findings, each with a run that shows it:

* `lapsed_delivery`: `handle_queue_message` promises to settle a message "only
  after durable replacement ownership is known", but acknowledges it on lost
  ownership.  A worker dies with its lease live, the subscription lapses, the
  redelivered message is refused, cannot be marked FAILED against the dead
  worker's lease, and is acknowledged: the job is active and PUBLISHED with no
  message anywhere.  The publisher's recovery sweep revives it, which is why
  `EverySolveEnds` holds.
* `beta_claim`: the API entitles an approved beta tenant and debits it; the
  worker knows only Stripe subscriptions and fails every such job (with a
  refund).
* `import_poison`: an exhausted delivery that meets a row whose lease has just
  ended tries to erase the source in a way a table constraint refuses, and is
  requeued instead of moving on.
* `edits_lost`: a manual edit of breaks through the first API leaves the
  shift's `updatedAt`, so a generation prepared before it overwrites it.

Seven more statements of the documentation or the tests are definitions of the
modules and do not hold.  No run is kept for them; each is violated on the
smallest instance of its module (one subscription or schedule, two processes,
no faults), `NeverTwoRefunds` with three attempts, one handler and two faults.

| Definition | How it fails |
|---|---|
| `WebhookDelivery!PauseSparesDelivery` | the pause of a plan that the last attempt meets dead-letters and refunds the delivery (`webhooks/README.md:33` says paused work is not terminalized) |
| `SubscriptionCheckout!OneSubscription` | a session is paid after the subscriptions were listed and before the sessions are: a second session is opened and can be paid |
| `SubscriptionSync!AnsweredDeletionSticks` | two handlers: a deletion that no tenant holds yet is answered and forgotten, and the creation handled meanwhile activates the tenant.  Two changes in one second (`Burst = 2`) also break `NewestEventDecides`: the earlier retrieval can commit last |
| `CreditPurchase!NeverTwoRefunds` | two transactions are lost after Stripe made refunds 0 and 1, of which 0 has failed; the webhook of refund 1 finds no rows and records it as attempt 0; the webhook of refund 0 is then unknown, counts as attempt 1, and attempt 2 is requested under a new key while refund 1 is pending (`billing/README.md:43` says events cannot double-refund).  Only Stripe's refusal to refund more than was paid is left to stop it, on which the code does not rely and which the model does not have |
| `TenantCancellation!HoldFailsClosed` | the subscription ends and its webhook is handled before the archive has stored that it caused the end: the held tenant is CANCELLED (`admin/README.md:44` says PAST_DUE) |
| `TenantCancellation!BarrierStands` | an archive that lost to a legal hold stores PAST_DUE over the SUSPENDED of a deletion (`admin/README.md:58`) |
| `Payroll!ReviewedCardCanBeRevised` | a card rejected in review gets no new revision, because its own period is no longer OPEN |

Behaviour met while modelling that contradicts no statement, or that the
models leave out:

* Usage: when a crash or a concurrent update interrupts the handling of an
  aggregate report that names no submissions, the redelivery can find as many
  rows already handled as the report counts, and acknowledges it although a
  rejected row still says SENT (`stripe-meter-error.service.spec.ts:819` says
  otherwise).  A dead letter reaches the replay age only when no worker still
  holds the row.
* Exports: with the default settings a lease is as long as an export's life, so
  a crashed RUNNING export is never reclaimed, only expired, although the
  shutdown message says durable jobs remain recoverable.  A writer that renames
  its file between cleanup's two deletions leaves a file after cleanup is
  COMPLETE, until the orphan sweep; `ReadyIsWhole` and `progress` account for
  it.
* Sign-in: a PIN or e-mail login clears the password lockout, and a password
  login under way is not stopped by a later lock.  A logout with a legacy
  credential after its upgrade finds nothing.
* Cancellation: a cancellation in the portal between an archive's retrieve and
  update is taken for the archive's own; that a blocked archive is undone holds
  only while no lease runs out under its owner (`MaxStalls = 0`).  A recovery
  that claims an archive while the tenant is under legal hold only reads back
  at Stripe, and keeps to that when the hold is lifted meanwhile: it decides by
  the tenant it read with the claim (`tenant-cancellation-lifecycle.service.ts:1631`).
  With one failed call and a hold that is placed and lifted (`MaxFaults = 1`,
  `MaxHolds = 2`), the archive is then finalized although the subscription was
  never scheduled to end, so `ArchivedStopsRenewal` fails on that instance;
  `CustomerCancellationStands` and `BlockedArchiveIsUndone` hold on it.  The
  instances of `billing` have no such pair of a fault and a lifted hold.
* Deletion: after a lost barrier a second request conflicts for ever; a session
  created after the purge listed the sessions is closed only by the deletion of
  the customer.
* Roles: rewriting a custom role can strip permissions of a higher-ranked
  holder; the two APIs differ on system administrators; `replaceAccess` of API
  v2 neither unassigns shifts nor revokes sessions.
* Payroll: a backdated, unassigned clock-in from before a policy can be closed
  inside a locked window.
* Editing: removal of shifts and schedules and reopening in the first API do
  not check the location; a change of availability on the day after an
  overnight shift does not bump that draft's revision, but publication
  validates again; the worker's save relies on the database's exclusion
  constraint.
* Breaks: a generation answered FAILED with 409 can be claimed again in API v2
  and is final in the first.

## 7. Proofs

TLC checks a small instance; the theorems hold for every value of the
constants that satisfies the assumption of the component's module.  The
assumptions say that limits and prices are naturals (a solve is not free, a
retry budget may be zero), that null values are not members of the sets they
stand beside and, where a proof counts, that a set is finite.  A few say more:

* `BreaksAssumption`: keys of generations and of edits are different keys.
* `EditingAssumption`: days are naturals and a day has a length.
* `ExportAssumption` of `TenantExport`: an artifact may have at least one byte
  (the code requires 64).
* `AdminRemains` assumes that an administrator was hired (`AdminIsHired`): a
  workspace that begins without one need not get one.
* `DeletedStaysDeleted` and `NewestEventDecides` of `SubscriptionSync` assume
  `Unhurried` (`Burst = 1`: Stripe makes one change in a second, the resolution
  of its timestamps), the latter also `Unattended` (no administrator overrules
  the tenant).  Section 6 says what happens without.

TLC evaluates the assumptions: those of an extended module in its run, those of
an instance as conjuncts of `DeliveryAssumption`, `AccessAssumption`,
`BillingAssumption` and `WorkforceAssumption` in the MC modules.

All proofs follow one plan: an inductive invariant, checked by TLC first,
`Init` establishes it, one lemma per action (or group of actions that touch
the same rows) shows that it is preserved, and the property follows from it or,
for an action property, from it and the step.

### From components to compositions

`StripeProofs`, `OperationsProofs` and `PeopleProofs` each instantiate four
components with constants and variables of their own and prove theorems of the
form `ASSUME X!Assumption PROVE X!Spec => ...`.  The proof module of a
composition instantiates these modules once for each instance of a component
that the composition has (`Parts`, `AmendParts`, `CrowdParts`, ...).  A
parameter of a part the composition does not have keeps a dummy value; no
theorem about that part is used.  Two lemmas then carry a theorem over: `XSame`
(the component of the proofs and that of the composition are the same formulas,
definition by definition) and `XRuns` (every behaviour of `MCSpec` is one of
the component, since a step of another scope leaves its variables alone).  The
results are theorems about exactly the formulas the runs check, such as
`ImportsAreSafe == MCSpec => []ImportSafe`, for every value of the constants of
the composition.

### Solve pipeline

* `TypeCorrect`: `TypeOK` is not inductive: a worker that has published a
  replacement writes `retry + 1` into the row, which is a legal retry number
  only because that worker had a retry left, and a busy process indexes the
  tables with its job.  `StateOK` adds both facts.
* `StepEffect` (lemma): every step is quiet, an edit, a purchase, a
  publication, a refund of active jobs, or the delivery of one active job.  The
  other proofs argue about these six kinds and not about the 35 actions.
* `ProvenanceHolds`, `FinalHolds`, `DraftOwned`: inductive relative to
  `StateOK`.
* `WalletHolds`: relative to `ProvenanceHolds`, which makes the jobs refunded
  now disjoint from those refunded before.
* `NoEditLost`: strengthened by `SnapshotOK`: a draft that still has the
  revision of a job's snapshot has not been written since; it is why comparing
  one revision number at persist time is enough.
* `KeysHold`: a completed key is remembered only after a persist that neither
  rejected nor lost its token; the provenance test it passed excludes every
  status but an active one, which it turns to SUCCEEDED, and SUCCEEDED itself,
  which `FinalStep` keeps.
* `LeaseHolds`: `TokenInHand`, a worker at the engine or at the persist has its
  token in hand, is the strengthening: without it the persist would be a step
  of a worker whose token is on the row but who could have lost it.
* `StaleSweepsHold`: from the comparison of attempt numbers alone.
* `PromiseKept`: the refinement of `PaidSolve` by step simulation from the
  invariants above.

### Notification outbox (`OutboxInv`)

`Types`; `RowsOK` (a lease is held only by a PROCESSING row, whose current
attempt has not failed yet, and what is not dead has budget left); `InboxOK`
(the provider knows an intent under its own key, with one payload);
`DeliveriesOK` (a delivery with an open transaction has a current claim and a
recipient who may get mail, and once its e-mail is accepted the inbox holds it
under the recipient's address); and `Exclusive` (one transaction at a time
holds the lock of an intent).  `OneMail` rests on `InboxOK`: the
idempotency key depends on the intent alone, and the provider refuses a second
payload under it; the action properties about rows rest on the other parts.
From it: `OneMail` (`OneMailPerIntent`), `BudgetHolds`, and the action
properties `DeliveredMeansHandled`, `DeadLettersHaveReasons`,
`ClaimsAreProtected`, `MailIsAddressed`, `FeedSurvives`.

### Refresh rotation (`RotationInv`)

`Counted` (as many credentials were issued as there are sessions and
rotations, so the number of the next one is new and within the bound),
`IssuedOK` (no validator is given out twice), `CurrentOK` (a session's current
validator was issued for it), `LedgerOK` (the ledger holds validators that were
issued, never a current one, and the parent of every replacement),
`RequestsOK` (what each stage of a request knows of the credential it
presents), with `FamilyIsLinear` itself.  From it:
`RotationTypeCorrect`, `FamilyHolds`, `LogoutHolds`, `ReplayIsNoticed` and
`GuessIsHarmless`.

### Subscription checkout (`CheckoutInv`)

`SessionsChain` (each session was created under a key that names all earlier
ones), `RequestsOK` (a request about to create has seen a prefix of the
sessions with none open; one that is binding has a session of its price) and
`OpenUnique`.  Stripe's idempotency key does the work: a request that has seen
fewer sessions than there are gets an existing session instead of a new one.
From it:
`CheckoutTypeCorrect`, `OneSessionIsOpen`, `LinkIsRight`.

### Credit purchases (`PurchaseInv`, `InOrder`)

`EventsOK` (a handler's event is about a completed session, what it read of the
payment stays true, and the refund an event names exists), `RefundsOK` (a
refund Stripe made at once stays made, rows are about refunds that exist),
`OutcomeOK` (credits and the stored outcome agree, only an owed refund is
made), `NothingForgotten` (while a paid session is unsettled, an event of it is
unanswered which no handler will answer without having seen the payment) and
`ConfirmedSucceeded` itself.  From it `PurchaseTypeCorrect`,
`GrantedOrRefunded` (`OneOutcome`), `ConfirmationIsTrue`, `AnswersSettle`
(`AnsweredIsSettled`) and `GrantsAreDue` (`GrantIsDue`): all parts of
`PurchaseSafe` and the purchase part of `BillingSteps`, for any number of
sessions, handlers, attempts and faults.

`RefundsFollowFailures` (`RefundedOnce`) needs `InOrder`: with one lost
transaction at most, a row's attempt is the attempt that made its refund, every
refund below an existing one has failed and is stored, and without a lost
transaction all are stored.  So only the newest refund can be unknown, and
counting one up from the newest row finds its attempt (`AttemptIsRight`).  The
proof does not go through for two lost transactions; that attempt led to
`NeverTwoRefunds` in section 6.

`Newest` and `AttemptOf` choose a maximum.  That a finite set of rows has one
(`TopExists`) is an induction, carried out as a least counterexample: the
library's `WFMin` is about sets and can be used where the induction schemas
over operators cannot.

### Payroll export

`ExportTypeCorrect`, `ExportPaidOnce` (`OneExportIsPaid`) and
`ReconciliationIsTrue` (`ReconciledIsTrue`).  The latter rests on `ReceiptInv`:
receipts are numbered in order of arrival (`Numbered`), a line shows the outcome
of the last receipt about it (`LinesOK`), and the status of the batch says
whether receipts exist and agree (`StatusOK`).

### Invitations and password resets (`DeliveryProofs`)

Both outboxes rest on the same two facts: a worker that holds the locks of an
open transaction has the claim of its row, and nothing it has checked (tenant,
employee, address, suppression) has changed since (`OpenHolds`, `HolderOK`).
For invitations `MailsAreKeyed` adds that the provider knows an e-mail under
the identity of its delivery, which gives `OneMailPerDelivery`; for resets
`Issued` (links are issued in order), `ResetRowsOK` and `LiveMail` (a live link
was sent to no other address than the account has) give that only the newest
link lives and that a password is reset only with a link that was mailed to the
account.  Together: `LinksAreSafe`, `MailStepsHold`.

### Webhooks, payroll, editing, exports (`OperationsProofs`)

* Webhooks (`WebhookInv`): `Metered`, every request that was sent or may still
  be sent has an attempt of its own, is why `SendsAreClaimed` survives an owner
  that lost its lease.  `Fenced` says what a step may do to a row and gives the
  action properties.
* Payroll (`Inv`): an entry of a locked period is the period's card at its
  approved revision, or an approved amendment of somebody else's entry decided
  by a third (`EntriesOK`, `AmendmentsOK`), and a card that began in a locked
  period is paid there (`PaidOK`).  `CardIsPaidOnce` and
  `AmendmentsAreIndependent` follow.
* Editing (`EdtInv`): schedules of a location tile time (`Tiled`), shifts lie in
  them with their breaks (`Rows`), nobody works two at once (`Apiece`), and a
  board or contract that shows a schedule's revision shows its content
  (`Boards`, `Contracts`): this is why one revision number confirms a whole
  week.
* Exports (`ExportInv`): what may have a file is booked (`ExportRowsOK`), what a
  replica knows in each phase, also one that lost its lease (`ProcOK`), one
  cleanup at a time is between its two deletions (`OneHalf`), and a sweep spares
  what is current.  `Used` is the cardinality of a set of byte numbers, so that
  the quota can be reasoned about without recursion.

### Sign-in, roles, imports (`PeopleProofs`)

* Factors (`MfaInv`): a marker, and a request about to write or answer one,
  belongs to a session that passed with the secret the account has now, as long
  as the session lives (`Earned`); an accepted code is claimed, a used backup
  code is gone (`SpentOK`), and a pending secret was never used.
* Roles: the role column is the highest of the assignments
  (`DualSourceAgrees`), assigned roles exist, and whoever finishes a request is
  entitled at that moment.  `AdminRemains` follows because an administrator is
  touched only by an administrator other than the one touched.
* Logins: the account's counter bounds the guesses that were judged
  (`GuessesAreMetered`), a live session was issued on what the account has now,
  and of the sessions kept the oldest has the others among its newer ones,
  which bounds their number without counting them.
* Imports (`ImportInv`): a row holds its document while it is live and not
  overdue and never after it ended, a live lease has a token, the parser ran no
  more often than there were claims, and a worker that cleans up saw its import
  end.  With `PaidImport` and `RememberedHasEnded` this is inductive whatever
  the dead letter, cancellations, deletions and the retention sweep do.

### Usage, deletion, subscriptions (`StripeProofs`)

* Usage (`UsageInv`): a claimed snapshot keeps its quantity, Stripe holds one
  submission for an identity, and what counts as sent was accepted under the
  present identity.  When the reports name every submission they mean,
  `ReportInv` adds that a rejected submission was left behind or is still
  announced; `ValueIsFrozen` needs only the first part and holds without it.
* Deletion (`DeletionInv`): a tenant without a customer had it deleted or never
  had a session, and an attempt finalizes only behind the barrier and without a
  customer.
* Subscriptions (`SyncInv`, then `DeletionsHold` and `NewestOK`): events are in
  the order of Stripe's changes, a deletion is the last one, and what a handler
  retrieved is what the subscription is unless it has changed since.

### Lunch breaks (`WorkforceProofs`)

`Computed`: what a handler computed fits the shift it read, and as long as the
shift has that stamp only edits through the first API were made since.  That
exception is the finding `edits_lost`; without it the invariant would not be
preserved.

## 8. Only model-checked

* Liveness (`EverySolveEnds`, `NothingStaysOwed`): fairness and `ENABLED` are
  outside the prover.
* `CancellationSafe`.  Of its parts, types and `AuditedOnce` do not depend on
  the bounds; the other three are true only of the bounds of the instances (no
  resumed subscription, no lease that runs out under its owner, and for
  `ArchivedStopsRenewal` no fault or no second change of the hold, section 6).
  The runs show them within those bounds; a theorem for every value of the
  constants would be false.
* That the bound `MaxClaims` of `NotificationOutbox` never stops a claim (a
  conjunct of its `TypeOK`).

## 9. Not modelled

* The engine's algorithm (its answer is any of solved, rejected, failed), the
  parser of imports, the contents of payloads, e-mails, exports and CSV files,
  encryption envelopes, hashes, metrics and logging.
* `creditDebt` of the wallet: no code raises it.
* Solve: batches of more than one outbox row, the order inside the retry
  queues, graceful shutdown (a special case of a crash).
* Exports: downloads, listing, the start rate.  Imports: the keyset cursor,
  the erasure of results after 24 hours.  Resets: the purge of spent tokens,
  the Redis markers.  Sign-in: registration, SSO, guards of single routes.
* Billing: portal, invoices, prices, purchases of earlier versions; restore of
  an archived tenant; suspension by an administrator without a barrier audit.
* Editing: request keys and replays, roles and skills, changes of availability
  and of time zones, archived schedules.  Payroll: break intervals, notes,
  later policy versions, the credit for clocking in.
* CRUD of people, locations and settings, the console, the web client, control
  plane and scripts, the legacy PHP application.

## 10. Plan

1. A statement of `ArchivedStopsRenewal` that names the hold that was lifted
   during a readback, and its proof.
2. Abstract specifications for webhooks and imports, like `PaidSolve`.
3. The settlement of every kind of paid work by one deletion barrier, composed
   in one module.
