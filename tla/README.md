# sim-pesa in TLA+

sim-pesa simulates Safaricom's STK push: a merchant's system POSTs a payment
request, the payer enters a PIN on a simulated phone, money moves between two
rows of a PostgreSQL database, and the merchant receives a webhook. This
directory models what can go wrong on that way: several workers, retries,
stalled jobs, crashes, messages that nobody hears, statements whose outcome is
not known, and marks that nobody waits for; and around it how the system comes
up (migrations, onboarding, tokens) and what its dashboard shows and sends.

All paths below are relative to the repository (`apps/`, `packages/`, `docs/`,
`docs-site/`).

## The system

| Part | State | Operations | Talks to |
|---|---|---|---|
| STK push ingestion (`StkPush.controller`, `stkPush.service`, `insertNewTransaction`) | fingerprint locks in Redis (60 s), the API's pool connections | `processRequest`: lock, insert row and outbox event, publish, enqueue, release on error | Redis, PostgreSQL, payment queue |
| PIN and cancel endpoints (`verifyPin`, `cancelTransaction`) | none | read the status, compare the PIN, publish a signal | PostgreSQL, Redis pub/sub |
| Transaction worker (`transaction.processor`, `transaction.service`) | the run of a job, a Redis subscriber per wait, a timer | phase 1, announce, wait for the PIN, phase 2 or failure, webhook dispatch | queue, PostgreSQL, Redis |
| Repository (`transaction.repository`, `queries/*.sql`) | `users`, `merchants`, `transactions`, row locks | `lockRowsValidate`, `finalizeTransaction`, `markTransactionFailed` | PostgreSQL |
| Job queues (`packages/queue`, BullMQ) | jobs, attempts, job locks, stalls | add, take, complete, fail, recover stalled | both workers |
| Webhook worker (`webhook.processor`, `webhook.service`) | `webhook_dispatches`, `webhook_attempts`, metadata | POST, log, mark, retry | the merchant, PostgreSQL |
| Auth tokens (`auth.controller`, `auth.service`, `useAuth`) | two Redis keys per token (1 h); the token each client holds | get or generate, save (Lua), check; startup writes one too | Redis |
| Onboarding (`auth.service`, `App`, `OnboardingPage`) | first-run flag of the process, merchant and user rows, the page shown | `checkFirstRun`, `registerMerchant` | PostgreSQL |
| Merchant settings (`merchant.controller`) | the merchant's `callback_url` | read, update | PostgreSQL |
| Migration runner (`migration-runner`) | `schema_migrations`, the schema | run, seed, roll back; started by API processes and `npm run db:migrate` | PostgreSQL |
| Dashboard (`transactions.controller`, UI hooks, `PinModal`) | SSE connection; the browser's list, its one PIN prompt, the digits typed | initial fetch, updates, auto-approve, PIN and cancel | API, Redis pub/sub |
| Validation, query loader, types, other UI components | none | pure functions, presentation | |

What is hard: a payment's run is long (up to a minute of waiting), holds no lock
while it waits, and can be executed twice at once, because BullMQ hands a job
whose lock expired to another worker. Every step can be cut off by a crash, and
every statement can fail, or take effect without the client learning it. The PIN
travels over Redis pub/sub, which keeps nothing for late subscribers. The correct
outcome rests on a few guards: the check for an active payment under the user's
row lock, `WHERE status = ...` in the updates, and the status check under the
transaction's row lock in phase 2.

What makes the parts correct:

- **payment**: one in flight per user; a payment in flight is covered; nothing is
  paid without the right PIN; balances and statuses agree; every result code has its
  reason; statuses move forward only; what a merchant is told is what the row says,
  for ever; a job that completed was reported; a queued payment settles. Together: it
  behaves like one atomic step.
- **ingestion**: one acceptance per fingerprint and lock window; an
  acknowledgement means row and job; a lock is there for a request under way or
  accepted, and is left behind only by a failure of Redis on the lock itself or by a
  crash; every request is answered.
- **webhook**: a verdict is backed by the log and by what the merchant answered,
  and is final; the merchant is called a bounded number of times; a dispatch gets
  a verdict if merchants answer.
- **access**: the two keys of a token agree; dashboards end up with the valid one;
  the first-run flag is true; only a merchant's own clients change its settings.
- **migrations**: what is recorded is built, in order; a live database is never
  seeded; however runners race or die, the API comes up in the end.
- **dashboard**: list and prompt agree with the database unless an update was lost
  or undone by the fetched list; with auto-approve on, a payment that waits for its PIN
  had it sent, unless its prompt was overtaken; a PIN goes to the payment it was typed
  for.

## Modules

| Module | Models |
|---|---|
| `Transfer` | the abstract payment: verified, then paid in one step, or declined |
| `Parties` | the constants every payment module shares (transactions, workers) |
| `PaymentRows` | the rows, the row locks and the SQL statements as operators |
| `JobQueue` | a BullMQ queue as `packages/queue` configures it |
| `PaymentWorker` | EXTENDS the two above: API, PIN, worker, faults, fairness |
| `PaymentProperties` | its invariants, inductive invariant, refinement, liveness |
| `PaymentTypeProofs`, `PaymentProofs`, `PaymentOnceProofs` | theorems about it |
| `WebhookDelivery`, `WebhookProofs` | webhook worker, over an INSTANCE of `JobQueue`; theorems about it |
| `Ingestion`, `IngestionProofs` | the STK push endpoint; theorems about it |
| `MerchantAccess`, `AccessProofs` | startup of the API, onboarding, tokens, settings; theorems about them |
| `SchemaMigrations`, `MigrationProofs` | migration runners on one database; theorems about them |
| `DashboardFeed`, `DashboardProofs` | publication, stream, list, PIN prompt, modal and auto-approve; theorems about list, prompt and auto-approve |
| `MC*` | small instances for TLC |

### State and actions against the code

**PaymentWorker.** `status`, `resultCode` and the balances are the columns of the
same names; `userLock` and `txLock` name the session that holds a row. `pc` is
where a worker's `transactionProcessor` stands, one label per point where another
session can get in:

| Label | The code is about to |
|---|---|
| `readStatus` | read the status in `lockRowsValidate`, outside the transaction |
| `lockUser` | `BEGIN`, `SELECT ... FOR UPDATE` the user; check for an active payment, the balance |
| `markProcessing` | `UPDATE` to PROCESSING and `COMMIT` |
| `failPending` | `markTransactionFailed` from PENDING, after the `ROLLBACK` |
| `announce`, `pin` | publish the status; wait for `pinPromise` |
| `lockTx`, `settle` | `finalizeTransaction`: lock the transaction; lock the user, debit, credit, commit |
| `failProcessing` | `markTransactionFailed` from PROCESSING |
| `build`, `dispatch`, `enqueue` | `getBuiltPayload`, `createWebhookDispatch`, `addWebhookJob` |
| `finish`, `throw` | return to BullMQ, or throw to it |

The subscriber of `waitForPin` is a little machine of its own (`subscriber`,
`heard`), because nobody awaits it before the status is published: *connecting*,
*listening*, *closing* (a cleanup is awaited; a second message may still come),
*closed* (the promise is resolved). A PIN request is two steps, the status check
(`VerifyPin`) and the publication (`PublishPin`). Two history variables say where a
result code comes from: `accepted`, what the API let through, and `timedOut`, whose
timer fired.

Faults are environment steps, each kind switched on by `Faults`, at most
`MaxFaults` in a behaviour: a failed enqueue of the API, a failed query (`query`;
also a `connect` of `waitForPin` that fails while it is awaited), a failed failure-write (`mark`, swallowed by the code), a lost acknowledgement of
a COMMIT (`ack`), the death of the process (`crash`), an expired job lock with
the worker running on (`lock`). PostgreSQL's deadlock detector is an action
(`BreakDeadlock`) because phase 1 and phase 2 take the same two rows in opposite
order.

`NotFoundError` and `getResultCode`'s codes 12 and 17 do not occur: the foreign
keys of `transactions` keep its user and merchant in place, nothing in the
repository deletes rows, and `InvalidStateError` does not reach
`markTransactionFailed`. The dashboard's publications have no state here beyond
the steps at which they happen. The metadata written by the transaction worker is
left out: its `UPDATE` names a `request_id` that `getTransactionByCheckoutId`
does not select, so it changes no row.

**JobQueue.** `AddJob` is idempotent on the job id, as BullMQ is on `jobId`. A
worker whose token no longer locks the job is refused on completion and failure.
`MaxStalled` is BullMQ's `maxStalledCount`, which the workers leave at 1.
Backoff delays are not modelled: "waiting" stands for waiting and delayed.

**WebhookDelivery.** `marks` are the `UPDATE`s `markDispatchDelivered` and
`markDispatchFailedPermanently` send without awaiting: they arrive in any order,
also after the job is over, or are lost with their process. The merchant answers
as it likes.

**Ingestion.** A request names its token and its row. Each call it makes can fail, and
those to Redis and the queue also take effect without the API learning it: the SET NX
(`TryLockFails`), the enqueue, the release. `redisError` is the answer after a failed
call for the lock, told apart from other errors because the lock may then be left.
`leaked` counts the pool's
connections that `insertNewTransaction` took and did not give back; the INSERT
and the later pool query wait when none is left. `window` counts the expiries of
a fingerprint's lock, and `admitted` remembers in which window a request got it.

**MerchantAccess.** `api` is where `startServer` stands, `firstRun` the static
field of `AuthService`, `callbackUrl` the merchants table (a merchant exists when
it has a URL), `tokenKey` and `merchantKey` the two kinds of Redis key. What a
handler does between two awaits is one action: `FindMerchant`, `Lookup`, `Save`
are the three of `authController`, `CreateMerchant` and `CreateUser` the two
statements of `registerMerchant`. A token is a fresh UUID, so one that has lost
its key can never be valid again: a client that has it holds `Revoked`, which
keeps the tokens few. A crash cuts off what the API was doing and, with it, the
answers its clients waited for. A page is reloaded only when it waits for no
answer.

**SchemaMigrations.** One label per statement of `runMigrations` at which another
runner can get in. `objects` says how much of what a migration creates is
committed; `builder` is the open transaction that created the rest, for which a
second runner's `CREATE` waits. Two errors are told apart, as the code tells them
apart: a bare `CREATE` of a committed object (42P07: marked as applied) and
everything else, the unique violation in the catalogue that the loser of a race
gets included (thrown, the process exits). Migrations are numbered by their place
in the directory; all but 013 use `IF NOT EXISTS`. `RollbackVersion` is the NULL
`rollbackLastMigration` sends.

**DashboardFeed.** Of a payment's row only PENDING, PROCESSING or DONE matters
here. `owed` counts the publications its worker or request has still to make;
`stream` is what is between the publisher and `onmessage`. `pending` is
`pendingPinTx`, `shown` the payment the modal on the screen names, `pin` the one
it named when the digits were typed. React may batch: a change sets `dirty`, and
`Render` takes over what holds then. A request of the modal outlives it
(`live`). `sent` remembers the payments a PIN or cancellation was sent for, `overtaken`
those whose prompt another payment, or the answer for another, took away before that.
The webhook worker publishes a settled payment again after each attempt (`LogAttempt`),
once the transaction worker has. The read of the row and its publication are two
awaits in the code and one step here, so publications of one payment never overlap:
what two runs of one job, or a rerun and the webhook worker, could publish in the wrong
order is not modelled.

## What is checked

TLC, with deadlock checking off except in `access`: when every request has been
served, or every payment is settled, the system rests, which is not an error.

| Run | Bounds | Shows |
|---|---|---|
| `payment_faults` | 2 payments of one user who can afford either but not both, 2 workers, 1 PIN or cancel request, 1 fault of any kind | the inductive invariant; one in flight, covered; balances agree; the reasons of every outcome; one dispatch each while nothing fails; the refinement of `Transfer` |
| `payment_overlap` | 1 payment, 2 workers, 2 requests, 2 faults of any kind | a job executed twice at once settles once; dispatches stay true; of two signals and a timer, whichever decides is the code's reason; `JobsSettle` through retries, stalled-job recovery and deadlocks of the two runs |
| `webhook_faults` | 1 dispatch, 2 workers, 3 attempts, 2 faults | verdicts logged and final, POSTs bounded; while nothing fails attempts are in order and every dispatch gets the verdict its job had |
| `ingestion_faults` | 4 requests (3 alike), 1 expiry, 2 faults, a pool that suffices | one acceptance per window, recorded and queued; every lock is accounted for; admitted requests are answered |
| `access` | 2 browsers, the server of a second merchant, 2 short codes, 2 URLs, 3 tokens, 1 crash, expiry, reload or failed query | keys agree; the flag is true; owners only; dashboards converge on one token |
| `migrations` | 3 runners (1 from the command line), 3 migrations (the last bare), 3 initial databases, 1 failed read or crash, 1 rollback | recorded is built, in order; seeding; not all lose a race; everyone comes up |
| `dashboard` | 2 payments, 2 worker slots, 1 message on its way at a time, 1 request of the modal, 1 toggle, 1 lost publication, connection or request, or repeated job | list and prompt are truthful; with auto-approve on, who waits had its PIN sent or was overtaken |

Why these bounds are enough. All interference between payments is between two of
one user (row lock, conflict check, balance) or two runs of one job, so two
payments and two workers show every pair; the balance covers one of the two
amounts, so that both the conflict and the insufficient-funds branch are taken.
In `payment_overlap` two faults give a second one within the recovery of the first, a
deadlock of two runs of one job (it takes a lost job lock) and one more fault, and the
end of the stalled allowance (1); two requests are two signals for one wait. A second
payment would add nothing to `JobsSettle` but a row lock, held by a worker that moves
on, and the conflict, which fails the payment at once. Webhook jobs have 3 attempts instead of 5: first, middle and last are what the
code tells apart. Three identical requests and an expiry make a first holder release after a
second and third took its lock. In `access` a merchant has at most one valid
token and one is being made: two merchants need three. Two dashboards and startup
give every order of two lookups before two saves, and of a save before a receipt.
In `migrations` a race has a winner and two losers, of which one may already be
behind; an empty database, one whose records were lost and one with a half-built
bare migration give the three outcomes of a statement. In `dashboard` there is one
prompt, so a second payment is what takes it away. Fewer than the real numbers are
`MaxStream` (with one message on its way the publishers wait, and the list lags
behind the rows by what is owed), `MaxPosts` (the modal disables its buttons while
a request is under way, but a closed one's may be still going) and `MaxToggles`.

Some properties say where they stop. `JobsSettle` excepts a job that stalled more often
than BullMQ recovers it. `AttemptsInOrder`, `DeliverySettles` and `VerdictMatchesJob` are
about behaviours without a fault, and the last two assume that merchants answer: a silent
one is not modelled as anything but a wait. `ListTruthful` excepts payments whose last
update was lost (`misled`) or undone by the fetched list that arrived after it
(`overwritten`); `AutoAnswers` those that were lost and those that were `overtaken`, which
`dashboard_auto` shows to happen although nothing failed. The dashboard properties say
nothing once a failed fetch has taken the dashboard off the screen. `NotAllLose` ends with
the first fault.

### Disagreements with the repository's own words

Each is a run that TLC ends with a counterexample, and an entry under `findings`.

| Run | The repository says | The code does |
|---|---|---|
| `payment_lost_pin` | the wait starts before the status is announced, so no PIN is missed (`transaction.service.ts:84`) | `connect` and `subscribe` are not awaited: a fast PIN is dropped and the payment times out |
| `ingestion_pool` | acknowledged within 100 ms (`docs-site/docs/guide/architecture.md:49`) | the pool's clients are never released |
| `access_any_number` | set up with "any number you want to simulate", tokens are taken care of (`quickstart.md:49`, `:66`) | the dashboard signs in as 174379 whatever was registered |
| `dashboard_pin` | "Enter M-PESA PIN to authorize payment of" what is on the screen (`PinModal.tsx:102`) | the digits stay when another payment takes the prompt, and are sent for it |
| `dashboard_auto` | "Every transaction that reaches `PROCESSING` is automatically approved" (`error-simulation.md:103`) | there is one prompt slot, and the answer for one payment clears it for the next (`useAutoApprovePin.ts:26`), whose PIN is then never sent |

More, without a run, because they are visible in a line or two of the code:

- A job whose worker crashes twice is failed, as `maxStalledCount` is BullMQ's
  default of 1 (`transaction.worker.ts:7`); the payment stays PROCESSING and its
  payer is refused. `docs/architecture.md:50` says jobs are not lost when a worker
  crashes.
- The mark of a dispatch is not awaited (`transaction.repository.ts:517`), so a job
  completes without it; `contributing.md:82` calls status updates atomic.
- The POST to the merchant has no timeout (`webhook.service.ts:24`), and the worker takes
  one job at a time: an endpoint that never answers keeps every other webhook waiting.
  `docs-site/docs/guide/architecture.md:199` says a request that times out is retried.
- The lock calls and the enqueue of an STK push have no answer to a lost reply. If that
  of SET NX is lost (`stkPush.service.ts:104`, awaited outside any try), the request is
  answered with an error and nobody releases the key: a retry is refused as a duplicate
  for 60 s. If that of the enqueue is lost, row and job are there, the lock is released
  and the answer is an error: a retry at once is a second payment, where
  `docs/architecture.md:20` promises "exactly-once ingestion of identical requests".
- A failed enqueue leaves the payment PENDING (`StkPush.controller.ts:110`), though
  the log says "compensating".
- `core-concepts.md:13` says a payment cancelled on the phone becomes CANCELLED, but
  the worker marks it FAILED with 1032 and nothing ever writes CANCELLED; and
  `docs-site/docs/guide/architecture.md:206` says a payment becomes FAILED after
  five failed webhook attempts, but the webhook worker never touches
  `transactions.status`.
- `useAuth.ts:6` calls its credentials those of `seed-dev-data.sql`, which has
  another passkey; and `useAuth.ts:52` calls a refresh idempotent, but two at once
  without a token each make one, and the second revokes the first (until the next
  refresh: `ConvergesOnOneToken`).
- After a failure or crash between the two inserts of `registerMerchant` there is a
  merchant without the default user, and nothing adds it later.
- `rollbackLastMigration` reports a rollback and deletes nothing.
- A failed fetch of the list takes the dashboard off the screen
  (`useDashboardDerivedMetrics.ts:8`), which `filterTransactions` guards against.

### Fairness

`WF_vars(WorkerStep(w))`, `WF_vars(PinWait(w))`: Node's event loop runs what is
runnable and its timers fire. Weak fairness suffices also for steps that wait for
a row lock, because the sessions holding it are themselves workers that move on,
and `BreakDeadlock` is fair as PostgreSQL's detector runs after `deadlock_timeout`.
`WF_vars(StalledJob(t))`: BullMQ checks for stalled jobs periodically. Not fair:
users (no PIN need ever be entered: the timeout settles the payment), clients,
merchants (except in `MerchantSpec`), faults.

A crashed worker takes jobs again, or another process does: jobs settle as long as
some worker runs, which `docker-compose.yml`, having no restart policy, leaves to
the operator. In `MerchantAccess` what the API or a page is doing goes on, and an
open dashboard asks for a token (every five minutes); nobody has to start the API
again, to register or to send anything, so `ConvergesOnOneToken` is about an API
that stays up. In `SchemaMigrations` a runner goes on; nobody has to start one again
that failed, so `AlwaysComesUp` is about those who are not given up.
`DashboardFeed` is checked for safety only.

## What is proved

Every invariant and every action property that a passing run checks is also a
theorem, for any number of users, merchants, payments, workers, clients, dashboards and
runners, any amounts and balances, any bounds and any faults. The assumptions are
named beside the constants, and TLC evaluates them on every run. `RowsAssumption`,
`QueueAssumption`, `PartiesAssumption`, `WorkerAssumption`, `IngestionAssumption`,
`DeliveryAssumption`, `AccessAssumption` and `FeedAssumption` say that the constants
are of the right sort: amounts and attempts positive, null values outside their
sets. Two assume more, because the code rests on it:

- `TokensAssumption`: there is a token that no merchant has at the moment, whichever
  they have. `crypto.randomUUID` gives one that was never used before.
- `MigrationsAssumption`: the first migration is not bare (001 creates everything IF
  NOT EXISTS), and there is a runner (`NotAllLose` is about no deployment without).

Each strengthening was checked by TLC, on the instance of the run or a smaller one,
before it was proved.

- `PaymentTypeProofs!TypeCorrect`: `Spec => []TypeOK`. That a balance is a natural
  number is not a matter of types: the step that debits needs the check made
  under the user's row lock, which is a guard of `Settle` itself.
- `PaymentProofs!Invariance`: `Spec => []IInv`, and from it `SingleFlight`,
  `FlightCovered`, `PaidVerified`, `ReportsTrue`, `CompletionReported`.
- `PaymentProofs!Forwards`: `Spec => ForwardOnly`.
- `PaymentProofs!Implementation`: `Spec => ImplementsTransfer`.
- `PaymentOnceProofs!MoneyKept`: `Spec => []MoneyConserved`, `ToldOnce`:
  `Spec => OneDispatchEach`, and `CodesExplained`: `Spec => []CodeExplained`.
- `IngestionProofs!IngestionInvariance`, and from it `OneAccepted`,
  `AcceptedQueued` and `LocksExplained` (`LocksAccounted`).
- `WebhookProofs!DeliveryInvariance`, and from it `DeliveryTypes` (`TypeOK`),
  `VerdictsTrue` (`OutcomeLogged`), `VerdictsFinal` (`VerdictFinal`), `MerchantSpared`
  (`PostsBounded`) and `AttemptsLoggedInOrder` (`AttemptsInOrder`).
- `AccessProofs!AccessInvariance`, and from it `AccessTypes` (`TypeOK`),
  `OneTokenPerMerchant` (`KeysAgree`), `FlagTruthful` (`OnboardingTruthful`) and
  `SettingsOwned` (`SettingsChangedByOwner`).
- `MigrationProofs!MigrationInvariance`, and from it `MigrationTypes` (`TypeOK`),
  `RecordsInOrder`, `RecordsTrue`, `LiveIsNotSeeded` and `OneGetsThrough`
  (`NotAllLose`).
- `DashboardProofs!FeedInvariance`, and from it `FeedTypes` (`TypeOK`),
  `ListFollowsDatabase` (`ListTruthful`), `PromptFollowsDatabase` (`PromptTruthful`)
  and `WaitingAnswered` (`AutoAnswers`).

### Why the invariants are what they are

**Payment.** `OneProcessingPerUser` alone is not inductive: a worker past its check but before its `COMMIT` may have checked a world that
changed. `Phase1Locked` adds what the lock guarantees: such a worker holds the
user's row, and neither another payment of the user came into flight nor the
balance dropped, because both need that row (a payment comes into flight only
from `markProcessing`, with the row held; money leaves only at `settle`, which
waits for it). `Phase2Locked` says the same of the transaction's row, so the
unguarded debit happens in PROCESSING only, hence once. `ProcessingFunded` then
survives another payment's debit because by `OneProcessingPerUser` there is no
other in flight. `BodyTruthful` and `DispatchTruthful` rest on final statuses
being final; `SignalsAccepted` and `CodeKnown` carry the PIN's answer, or the timeout, from the
API through Redis and the worker to the row. `CodesReasoned` says the same of the rows;
it survives every step because no reason is ever taken back: accepted signals and fired
timers are only added to, balances only fall, and a payment that was in flight shows it
for ever, by its status or by the code it failed with. The refinement maps a payment to
*open*, *paid* or *declined* by its status and to *verified* by the signals the
API accepted: a step that settles is `Pay` or `Decline`, `VerifyPin` with the
right PIN is `Verify`, everything else stutters; `IInv` gives the guards of
`Pay`.

**Money and dispatches.** The sum of a set of payments is the number of their cents
(`AmountsOf`), a cardinality, so that adding a payment is a fact about finite sets
(`AmountAdds`) and no induction is needed. The refinement does the rest: a step of
the system is `Verify`, `Decline` or a stutter of `Transfer`, which leave the books
alone, or `Pay`, which takes a payment that was open, so it enters the sums of its
two sides once. That the sets stay finite is part of the invariant (`BooksKept`); the
number of payments need not be. For `OneDispatchEach`, `Undisturbed` says that
without a fault every worker holds the lock of its job and every active job has a
worker, so no job is put back while it is reported; what was dispatched is completed,
or is about to be by the worker that dispatched it. One lost lock breaks the first. The last part of `CodeExplained`, that a 9999
follows a fault (`ErrorsFollowFaults`), rests on this too: without a fault the only
error that could be written as 9999 is PostgreSQL's deadlock, and for that two workers
must run one job.

**Ingestion.** `WindowLocked` says that who was admitted in the current window still
holds the lock, which is why nobody else is. `LocksAccounted` is inductive once the types
are known: a request gets its lock when it starts to run, or by a SET NX whose reply is
lost, and stops running by being accepted, by a crash, or by a release, which takes its
own lock and no other.

**Webhook.** `OutcomeLogged` is about rows, which the un-awaited marks write in any
order: `VerdictsLogged` says it of the marks on their way and of the workers that
are about to send one. A failed mark carries the last attempt's number and a
delivered dispatch is left alone, which makes a verdict final. For `PostsBounded`,
`Begun` counts how often a job was begun: once for each failed attempt, each time it
was found stalled, and for the one that has it, so at most `MaxAttempts + MaxStalled`
times. `PostsCounted` says that the POSTs made, and the workers still to make one,
are no more than that, and the same of the log; a worker that lost its job's lock and
runs on is one of these workers. `Attended` is the fault-free part: a job is its
worker's until it is over, and the log is as long as the attempt's number says.

**Access.** `KeysAgree` needs the uniqueness of a new token; that what a token opens
is a merchant in the database is `KeysServed`. `Credentials` says whose the tokens
are that a client holds, was answered with or acts by: its own short code's, since a
token that is replaced or expires is taken from whoever has it. `OnboardingTruthful`
is inductive with how far each registration is (`Registration`) and with
`StartupTruthful`: between its count of the merchants and the end of its startup the
API serves nobody, so the count does not age.

**Migrations.** Five facts are added. `PendingIsRest`: what a runner does not take for
pending is recorded, so the smallest pending migration extends a prefix.
`OnlyCompleted`: objects go from what was left over to complete and never back, so
a duplicate is either complete or the leftover. `MisreadFails`: a runner that took
a live database for a fresh one never gets past its first `INSERT`; its pending
set is the whole directory, which starts with a migration that passes over what
exists and whose row is there, because the records are a prefix. `CommitFresh`: rows of
`schema_migrations` are inserted one at a time, so who is about to commit one is the
only one. `SomeoneInTime`: whoever makes others late by recording a migration is
itself in time for the next, which is why they never all fail.

**Dashboard.** `ListTruthful` speaks of a list that arrived; `ListFollows` says it from
the moment the dashboard listens, and `FetchIsOld` that an answer under way knows no
payment the database does not. `StreamFresh` is the heart: the last message about a
payment on the wire says what its row says, or another is owed, or was lost. Each
step of the database, the workers and the connection keeps it and announces what it
changes (`SourceAnnounces`), and that is all that the reader's steps need. `AutoAnswers`
speaks of the moment after a render: before it, a payment that waits may also be the one
prompted for (`PromptsKept`), and whoever is, after a render, had its PIN sent
(`PromptSent`).

### Only model-checked

Liveness (`JobsSettle`, `DeliverySettles`, `VerdictMatchesJob`, `Answered`,
`ConvergesOnOneToken`, `AlwaysComesUp`): it needs fairness and ENABLED, which the
prover does not handle. The five disagreements above are counterexamples, found by
TLC on instances.

## Plan

Order: what moves money first, then what admits and what reports it, then the
parts around.

1. done: `Transfer`, `PaymentRows`, `JobQueue`, `PaymentWorker`, their proofs;
   `Ingestion` and its proofs; `WebhookDelivery`.
2. done: `SchemaMigrations` and its proofs, `MerchantAccess`, `DashboardFeed`.
3. done: `PaymentOnceProofs`, `WebhookProofs`, `AccessProofs`, `DashboardProofs`, and
   the rest of `IngestionProofs` and `MigrationProofs`; every result code explained and
   every lock accounted for.
4. perhaps: a composition of `Ingestion`, `PaymentWorker` and `WebhookDelivery` at
   their interfaces (an acknowledged payment's merchant is told its outcome). Each
   interface is a row and a job that both sides already have.

## Not modelled

- **Metadata JSON** of a transaction, other than the callback part the webhook
  worker writes: no code decides anything by it.
- **Share locks of foreign keys**: the API's insert locks merchant, then user, a
  worker user, then merchant. PostgreSQL aborts one of them, which the models have
  as a failed statement at that point.
- **Passkeys**: the wizard gives every merchant the same one, and the dashboard
  sends it; a wrong one is refused like an unknown merchant.
- **Dashboard**: the drawer, filters, connection indicator and the limit of 50
  rows; SSE listeners that clients leave behind; reading the merchant's settings.
- **Query loader, types, other UI components, documentation site, containers**: no
  behaviour beyond parsing or presentation.
- **Request validation**: stateless; its amount check is a floating-point
  predicate that TLC cannot evaluate.
- **Outbox listener**: a stub; the outbox row is written with the transaction's
  row in one database transaction, so it is not a separate piece of state.
