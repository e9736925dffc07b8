# Moeen in TLA+

Moeen is a marketplace for home services: a customer asks for a service, staff dispatch a
provider by hand or providers bid for the job, the provider is tracked on the way, and the
customer pays in cash on completion.  This directory is the verification project for it:
TLA+ modules translated from the code, TLC configurations that check them on small
instances, and proofs of the main results that TLAPS checks for every instance.

Paths below are relative to the repository; `repository` stands for
`apps/api/src/service-request.repository.ts`.

## 1. The system

| Component | State it keeps | Operations | How it interacts |
|---|---|---|---|
| Service-request lifecycle (`repository`, `app.service.ts`) | `service_requests`, `request_provider_opportunities`, `service_quotes`, `service_payments`, `service_request_events` in PostgreSQL | create, invite, assign, propose / submit / withdraw / decide a quote, status transitions, close an opportunity, collect and refund cash | one transaction per operation, serialised by row locks; writes the notification outbox in the same transaction |
| Pilot providers (`repository`) | `providers` (verification, availability) | create, verify, suspend, reactivate, availability | read by every dispatch operation; suspension stops tracking sessions |
| Live tracking (`repository`, `provider-tracking*.ts`) | `provider_tracking_sessions`, `provider_location_samples`, `provider_current_positions` | start with "on the way", sample, emergency stop, retention | follows request status and provider verification |
| Notification outbox (`notification-outbox.writer.ts`) | `notification_outbox` by dedupe key | enqueue in the caller's transaction, wake the worker after it | producer of the dispatch worker |
| FCM dispatch worker (`fcm-dispatch.worker.ts`) | leases on outbox rows, in-memory batch | reclaim, claim, renew, send, finalize, retry, dead-letter | several instances share the table; the push service may fail, throttle or time out |
| FCM devices (`fcm-device.repository.ts`) | `fcm_devices` | register, rebind a token, revoke, cap of ten | read by the worker, under advisory locks |
| Request images (`app.service.ts`, `request-image*.ts`) | object store, `service_request_images` | upload, create, compensate, reconcile | object store and database commit separately |
| Customer one-time codes and sessions (`customer-auth.service.ts`, `repository`) | challenges, attempts, sessions | request, verify, consume, revoke | advisory lock per phone |
| Rate and login limiters | windows and failure counts | count, refuse | shared tables |
| Provider authentication (`provider-auth.service.ts`, `repository`) | `provider_access_credentials`, `provider_sessions` | login, upgrade an old hash, rotate the code, verify, log out | each login statement by statement, beside the staff's rotation |
| Staff authentication and audit (`staff-auth.*.ts`) | `staff_users`, sessions, roles, audit rows | login, bootstrap of the first administrator, user administration | audit rows are written in the audited transaction |
| What the reads show (`repository`, `app.service.ts`) | nothing of their own | the staff's dashboard, the customer's requests, a provider's jobs and opportunities | each joins the tables of the lifecycle by rules of its own |
| Database migrations (`database-migrations.ts`) | `moeen_schema_migrations`, the schema | baseline, apply, verify | several instances start at once, advisory lock |
| Provider app: position collection (`provider-mobile/lib/provider_tracking.dart`, `main.dart`) | a coordinator in the app, a worker in the foreground service, a native authority beside both | reconcile, start, reconfigure, recover, stop, sign out | three parties over channels; each claims generations, a stop names the one it is for |
| Support tickets, customer app, admin dashboard, test database guard | tables and pages | single updates; pages over the API | |

What makes each part hard, and what has to hold of it:

| Component | Hard behaviour | Correctness |
|---|---|---|
| Service requests | two dispatch flows on one request; operations of staff, several providers and the customer in any order; decisions that touch rows of others; row locks taken in different orders | one price and one provider per request, the flows exclude each other, every row agrees with its partner, decided things stay decided, commits equal atomic transactions, no unknown deadlock |
| Pilot providers | eligibility is read without a lock in some paths; one suspension reaches into every request of the provider | a suspended provider has no running session; what was agreed with it stays consistent |
| Live tracking | samples race with stops; retries and reordering of samples by the app; retention running beside them | a position exists only for an active session, sessions end with the work; samples count once, the newest one wins, an arrival is observed when it was earned |
| Reads | several rules for "the quote" of a request | all parties are shown the same deal, and a losing bidder nothing of it |
| Outbox | the event and its notification must commit together, and its key must be unique | nothing is told that did not happen, nothing that happened is dropped |
| FCM dispatch | several processes, leases in wall-clock time, sends outside any transaction, timeouts, crashes, partial success | a lease is kept by a process that works, rows settle, duplicates only after a lost outcome |
| FCM devices | the same token moves between accounts, the cap is counted under a per-owner lock | one active owner per token, at most ten active devices |
| Request images | two stores without a common transaction, compensation after an error that may follow a commit, a sweeper | a committed request keeps its images, an orphan goes in the end |
| Codes, sessions, limiters | concurrent attempts against counters; check-then-act; clocks read before a wait | a challenge opens one session after at most five guesses, caps hold but for the races that can be named |
| Access codes | a rotation between the statements of a login | the code last given works, sessions of older ones end |
| Migrations and start | concurrent starts of several releases, crashes between migrations, statements that create what is missing | the history is what is in the schema, a serving instance has all of its release, a start overwrites no account |
| Provider app | answers and events arriving after sign-out or for an older generation; recovery inside the service while the app reconfigures it | no stale answer ends or revives a collector |

## 2. Modules

| Module | Models | Kind |
|---|---|---|
| `ServiceRequests` | the lifecycle, providers, quotes, cash, tracking sessions, outbox | one action per transaction |
| `RequestViews` | what each read of the API shows of them; extends `ServiceRequests` | operators over its state |
| `RequestTransactions` | the contended transactions statement by statement under row locks; extends `ServiceRequests` and implements it | detailed specification |
| `FcmDispatch` | the dispatch worker in several processes, FCM, and the clock | one action per SQL statement |
| `ImageKeeping` | what the request-image subsystem promises | abstract specification |
| `RequestImages` | creation of a request with images and the reconciliation of the object store; implements `ImageKeeping` | one action per effect on a store |
| `CustomerSignIn` | one-time codes and customer sessions | one action per statement |
| `SignInLimits` | the limiter of addresses and that of login subjects | one action per statement |
| `ProviderSignIn` | access codes and sessions of providers | one action per statement |
| `DeviceRegistry` | registration of push devices | one action per statement |
| `ServiceStart` | migrations, startup statements and first administrator, in instances of several releases | one action per transaction |
| `LocationSamples` | positions, arrival evidence and retention of one request on the server | one action per transaction |
| `ProviderTracking` | the provider app that collects positions | one action per stretch between awaits |
| `Platform` | the seven before, in one specification | composition |
| `MCServiceRequests`, `MCRequestViews`, `MCRequestTransactions`, `MCFcmDispatch`, `MCRequestImages`, `MCPlatform`, `MCProviderTracking` | their TLC instances | |
| `ServiceRequestsProofs`, `RequestViewsProofs`, `FcmDispatchProofs`, `RequestImagesProofs`, `RequestTransactionsProofs`, `SignInProofs`, `ProviderTrackingProofs`, `PlatformProofs` | inductive invariants and theorems | |

Operators introduced by *Faulty* or *Mutant* in a comment are not part of a specification.  Each
stands before the definition it would replace and shows which property notices that mistake.

### ServiceRequests

A variable is a column that some guard reads (`status`, `assigned`, `opportunity`,
`quoteStatus`, ..., `session`, `position`), or the outbox as the set of its dedupe keys.  The
value `"none"` is a row that does not exist.  An action is a method of the repository from
BEGIN to COMMIT with all its effects, the outbox rows included; a call that throws rolls
back and is no step.  `UpdateStatus` is the staff's entry to a status change and
`UpdateStatusForProvider` the provider's, both through `SetStatus`.

`Spec` takes the transactions as atomic with everything they read.  `RacySpec` adds
`StaleNext`: creation, invitation and assignment read a provider's eligibility without locking
its row, so a suspension may commit between the read and the write.  It lets them take any suitable
provider, eligible at some time or not: more than the code does, which makes the properties, checked and
proved for `RacySpec`, stronger.  What the reads still guarantee is in `RequestTransactions`.

`Ownerless` are requests of an earlier release, whose `customer_id` is NULL.  They exist from the start, pending
dispatch and without rows of other tables (what such a release had done to them before is left out); staff and providers
work on them like on any other.  The writer skips a notification whose recipient is unknown and the mutation commits
(`HasRecipient`, `notification-outbox.writer.ts:122-128`); no customer can decide a quote of theirs, since `decideQuote` joins on
the customer (`Decidable`), and `findByCustomerId` lists them to nobody.  `OutboxTellsTheStory` says for both kinds of request
who is told: of an ownerless one its providers, and nobody in the customer's place.

`swallowed` is a history variable: the keys whose insert met ON CONFLICT DO NOTHING.

### RequestViews

There are no variables of its own: `StaffView`, `CustomerView`, `JobView` and
`ListProviderOpportunities` are the queries with their ORDER BY ... LIMIT 1, each a function of
the rows of `ServiceRequests`.  What is kept of the content is what one party is shown and another
is not (phone, address, location, images, details).  `ViewsSpec` is `RacySpec` with quotes numbered in the
order they are inserted, which is what "latest" compares.  `PartiesSeeOneDeal` relates the views: a
quote the customer can decide, or has approved, is one the customer is shown, the approved one is the one
whose cash is shown and the assigned provider's, and a losing bidder is shown nothing once the job is another's.
Only requests with a customer are listed to one (`FindByCustomer`).  A read of several tables is taken to see one state
(see section 5).

### RequestTransactions

A connection runs one transaction, a sequence of statements (`Program`).  A statement finds
its rows in the committed state, locks them one at a time in any order, looks at each again
once it has the lock (what PostgreSQL does under READ COMMITTED), and ends; the writes show
at the commit, which is one of the `Commit...` operators.  `held` has the locks with their
modes (FOR UPDATE, the lock of an UPDATE, and the FOR KEY SHARE of a foreign-key
check).  A transaction is refused when a check of the code fails, may `Fail` (connection
lost), or is a `Victim` when waiting connections form a circle.  Setting out locks the provider and makes
the session active only where tracking is enabled (`SetOutProgram`).  `CommitsAreAtomic` is the
refinement: on the rows of `ServiceRequests` every step is a step of `Next`, changes nothing, or is an assignment or an
invitation that chooses among providers that were all eligible at one earlier moment of its own transaction
(`CommitsChoice`).  The history variable `seen` has those moments: per connection, which of the providers it means to choose
were fit in each state since it began.  So a transaction that does not look at the eligibility, or only at a part of it, is noticed;
`StaleNext`, which would let it pass, is not used here.  The refinement mapping is the identity, since the committed rows
are the same variables.  Creations are not taken apart: their one INSERT ... SELECT reads the providers, and no other
transaction has the new request yet.

### FcmDispatch

The rows have `status`, `attempts`, `due` (available_at has passed), `owner` and `age` of their
lease; a worker has the phase it is in, its batch (`activeRowIds`), the current row with the
devices and the verdict, `rerun` and `since` (`lastLeaseRenewalAt`).  Each action is one SQL
statement with the JavaScript up to the next one, or the answer of FCM.  `busy` counts the time since
the last check for renewal; `Tick` is blocked when a worker would exceed `RowTime`, which is the
assumption that one row takes a bounded time.  `received`, `repeated` and `blurred` are
history variables: what FCM accepted, what it accepted twice while every outcome of the row
was known, and the rows of which an outcome was lost.

### ImageKeeping and RequestImages

`ImageKeeping` has two variables, what is recorded for each submission and the keys in the store, and
three actions: an object arrives, a submission is recorded once and with images that are in the store, and
objects go that no recorded submission refers to.

In `RequestImages` an attempt is one call of `createAuthenticatedServiceRequestWithImages`, or of the JSON
creation with a submission key (the content without images).  It uploads under fresh keys
(`PutImage`; a `PutFails` may have landed), inserts (`InsertRequest` waits, as the unique index makes it, while
another transaction `holder` has the submission key), and commits, finds the committed request
(`FindCommitted`: a replay or a conflict) or is aborted; when `create()` rejects, `Compensate` deletes what it uploaded, which
may fail half way, and `Crash` ends it anywhere before.  The store and the database share no transaction.
The reconciliation is the operator's command: reference keys page by page, each page a
snapshot of its own, then a bounded listing, an age threshold and deletion in batches.
`CommitUnacknowledged` is a COMMIT whose acknowledgement is lost; `LostAck` has the contents it
may befall.  The keeping of images holds when those have no images (`Harmless`), and `images_acked` refutes it
otherwise.  Time is counted only where the code compares it: the age of objects, and how long an
attempt and a scan have been running (`GraceAssumption`).

### CustomerSignIn, SignInLimits, ProviderSignIn

Calls of `requestOtp` and `verifyOtp` are chains of awaits with no transaction around them, so each statement
and each call of the OTP provider is an action; any number run at once and any may stop between two.
A call reads the clock once, when it starts, and its rows carry what it read although they may be written later.
That is where the two properties of asking have their exceptions, which they name: the cleanup of another phone's later ask
removes rows that a delayed ask should still count (`CleanedBefore`).
`guesses`, `opened` and `accepted` are history variables.

`SignInLimits` is one address and one subject: the window row with its upsert, and the failures, counted before the
password is looked at and recorded after.  `FailuresAreLimited` says how far concurrent attempts get past
the maximum (by those let through together, `peak`), and `PublicWindow` how far a window is passed when its row
comes back from a later one.

`ProviderSignIn` has the login (lookup, upgrade of an old hash, session), the rotation, which
replaces the credential and deletes the sessions in one transaction, and verification changes, which the
lookup of a session heeds (`Admitted`).  `rotations`, `given` and `openedAt` are history variables.

### DeviceRegistry

`registerDevice` statement by statement: the owner's advisory lock, the locking read of the
token's active row (which may wait for another transaction and finds the row gone afterwards), the
rebinding, the count against the cap, and the insert that the unique index on active tokens
arbitrates.  A call names the row it inserts.  `FcmDispatch` has what it reads of the registry as its variable `active`, whose
devices come and go at any time there.

### ServiceStart

A release is the sequence of migrations it ships; a migration stands for its text, its checksum
and the shape it gives the schema.  An instance takes the session's advisory lock, classifies or validates, applies
one migration per transaction, checks the contract and goes on to the startup statements of the
three repositories and to the first administrator.  It may fail or die at any moment, and instances of other
releases run on the same database.  `drift` is a change by hand.  An older release that knew no migrations is
taken to have made the first one's schema (`ServiceInit`).

### LocationSamples and ProviderTracking

`LocationSamples` is the server's half: `AcceptSample` is the transaction of `submitProviderLocationSample`
(timeliness, duplicate, conflict, position by capture time, arrival evidence); any sample may arrive at any
moment any number of times, which is what a network and a retrying app amount to.  Status changes, the
staff's stop and the pruning run beside it.  Its locks against a stop are in `RequestTransactions`.

`ProviderTracking` is the app's half: the coordinator and its queue of actions
(`reads` with the loading of the dashboard before them, `advance`, `actions`, `running`), the stops that bypass the queue (`aside`), the runtime, the native
authority, and in the service the queue of configurations (`setup`), the worker and its
continuations (`tasks`).  An action is the code from one await to the next.  Three properties: a stop
decided upon for one generation never ends its replacement, a no-op of the app is not taken on trust of a collector
that is not there, and (refuted) nothing is collected after a sign-out.

### Platform

The seven modules from `CustomerSignIn` to `ProviderTracking` share no table and no variable, so a property of one is decided by
its own steps.  `Platform` extends all of them, and its variable `part` says whose behaviour it is (`asks`
and `checks` are the two halves of `CustomerSignIn`, which share only the challenge); the variables of the other parts keep
their first values.  The checks are those that a run per module would make.

## 3. Runs

| Run | Instance | Shows |
|---|---|---|
| `market` | 1 request, 3 providers, 3 numbered quotes, tracking off, push on | type invariant and the dispatch properties: one price, flows apart, opportunity and bid agree, assignment is authoritative, outbox faithful and nothing swallowed; the parties are shown one deal |
| `shared` | 2 requests, one of them ownerless, 1 provider, 2 quotes, tracking and push on, `RacySpec` | what reaches across requests: suspension and tracking, started work is agreed, history is final; the outbox is faithful with and without a customer |
| `replace` (violated) | 1 request, 2 providers, 2 quotes | a rejected staff quote cannot always be replaced |
| `tx_market` | 2 connections and one of three plans: `Market` (1 request, 2 providers, 3 quotes, 9 operations), `Cross` (2 requests, 4 bids, approvals, assignments, suspensions), `Work` (1 request from its assignment to its end with samples and stops) | every commit is an atomic transaction, but for an eligibility read earlier in it; locks exclude one another; only the known deadlocks |
| `tx_life` | 2 connections, 1 request, 1 provider, plan `Work`, with fairness | every transaction ends |
| `tx_deadlock` (violated) | 1 request, assign and withdraw | they deadlock |
| `fcm_queue` | 2 workers, 2 rows (one unreadable), 2 devices, 2 attempts, batch 2, TTL 2, renewal 1, row time 1, 1 fault, with fairness | leases held, settled is final, retries counted, duplicates explained, every row settles |
| `fcm_retry` (violated) | 2 workers, 2 rows (one best effort), 3 attempts | a row is retried although a device accepted it |
| `images_kept` | 2 attempts, 1 submission, contents with no, one and two images, 2 keys, grace 3, attempts and scans within 1, pages and batches of 1, listing of 2, acknowledgements lost for the content without images, with fairness | committed images stay, the answers agree, `ImageKeeping` is implemented, orphans go |
| `images_acked` (violated) | the same with 2 submissions and acknowledgements lost for any content | the compensation deletes a committed request's images |
| `platform` | one part at a time: 4 asks of 2 phones, cap 2, window 3, 5 ticks; 3 checks, 2 guesses; 4 tries, maximum 2 and 1, 2 windows; 2 providers, 2 codes, 2 logins, 2 rotations; 4 registrations, 2 owners, 2 tokens, cap 1; 2 instances of 3 releases, 2 kinds of drift; samples of 2 places in 5 moments, arrival from 2 samples 2 apart; the app with a refresh, 2 generations, 1 failed call, 1 event under way | all the properties of the seven modules but `TokensChangeHandsWhole`, which is proved |
| `tracking_signout` (violated) | the app's reconciliation at start, 2 generations | positions are collected after a sign-out |

Why the bounds are enough to be interesting:

- *market*: three providers are a winner, a loser that bid and a loser that was only invited;
  three quotes let each bid, or let staff quote again after a rejection.  `Quote` is the only
  bound: the ids are used up.  With tracking off staff may set a request on the way, which is
  the branch that tracking closes; `shared` has it on.
- *shared*: one provider on two requests is the smallest case in which a suspension reaches
  two sessions.  One request of each kind is enough for the recipient of a notification, which depends on no other request.
- *tx_*: deadlocks and lost updates between two transactions need two connections.  Circles of
  three and more are left to the proof of `DeadlocksKnown`.  The start is a market under way (`TxInit`), a state that
  `ServiceRequests` reaches, so that short transactions reach the contended cases.
- *fcm_*: two workers suffice for a lease to be taken over; two rows for a batch whose second
  row waits while the first is sent; two devices for partial success.  TTL, renewal and row time
  are the smallest values that meet `TimingAssumption` with equality.  `MaxFaults` bounds crashes,
  failed statements and device changes together; timeouts and lost answers are not bounded by it.
- *images_*: two attempts on one submission are a winner and a loser; pages of one key make a
  commit fall behind the page just read; a grace of 3 is the smallest with `MaxAttempt + MaxScan < Grace`.  `Keys` is
  the bound: a key is never given twice, so the first attempt may use both or each may use one.
- *platform*: four asks of one phone pass the cooldown and reach the cap with one to spare; three checks are one more than may
  be counted; four tries are past both maxima with two let through together; four registrations let a
  token go to another owner and back; the three releases are a prefix, its
  extension, and a branch without a contract.  Asks are interchangeable and may therefore be taken to begin in one order (`AsksNext`).
- *tracking_*: two generations are a collector and its replacement.  `MaxGenerations`, `MaxFaults`, `MaxEvents`
  bound claims, failed calls and messages under way; each call of `Called` is made once.  The proofs hold for any values
  of these bounds, as the code has none.
- Symmetry is used in the runs without a liveness property only, over ids the instance does not name.

Deadlock of the model is checked in every run but the `images` and `platform` ones and `tracking_signout`, where each call is made
once and a behaviour may therefore end.  Each property of a passing run is also violated
by at least one faulty variant of an operation (`mutants` in `PROJECT.json`).

### Fairness

- `tx_life`: strong fairness for the lock a connection waits for, since PostgreSQL queues waiters
  and does not let a waiter be overtaken for ever; weak fairness for the next statement or commit of
  a transaction, which awaits one query after the other; weak fairness for the deadlock
  detector.
- `fcm_queue`: weak fairness for the poll timer, for the next statement or answer of a worker
  (a send ends by its timeout), for the restart of a process by its supervisor, for the end
  of a backoff and for the clock.  Nothing is assumed of FCM: it may refuse or lose every send, and
  the row is then given up.
- `images_kept`: weak fairness for the clock, for every attempt that has started (it ends or dies), and for
  the start of the reconciliation, an operator's command that is run with `--apply` again and again; strong fairness for a reference page,
  the listing and a deletion, each of which may fail but not for ever; weak fairness for the end of a deletion phase.

### Where code and words differ

1. `replace`: `docs/operations/buraidah-pilot-runbook.md:47` lets staff send a new quote after a
   rejection.  If providers were invited in between, `proposeQuote` refuses because of the
   opportunities, bids are refused because a provider is assigned, and the work cannot start.
2. `tx_deadlock`: the comment at `repository:2795-2799` says that all request-scoped transitions lock
   the request first.  `withdrawProviderQuote` locks it last, by the foreign key of its event.
3. `fcm_retry`: the comment at `fcm-dispatch.worker.ts:427-430` says a retry occurs only when no
   device accepted the message.  A send that times out is not cancelled and is retried.
4. `images_acked` (a defect): `app.service.ts:753-757` says that `create()` rejects before COMMIT.  The COMMIT is inside
   its try: when the acknowledgement is lost after the commit, the caller deletes the images of a
   committed request.
5. `tracking_signout` (a defect): `main.dart:1305-1306` clears the collection before the server's logout.  The stop
   bypasses the queue of runtime actions and claims no authority revision, so that an action queued or under way starts the
   service behind it.

Seen while modelling, without a run of its own:

- `request-image-reconcile.ts:11` says that every orphan is reached.  A run lists from the start of the namespace to `MAX_LIST_PAGES`
  pages; with a `ListHorizon` smaller than what stays there, TLC finds an orphan that is never listed.
- Provider app: while `_applyConfiguration` awaits the cancelling of the old stream, a failing POST of the old
  configuration still passes `_ownsConfiguration` and clears the submission state; the new stream is then installed with
  nobody to take its positions, and the app sees a running collector.  `NoOpsAreTrue` is about the stream only.
- Provider app: the worker's GET may be answered "on the way" before a transition arrives whose configuration is applied
  first; the restored configuration then brings the old cadence back while the app believes the new one.
- The staff's dashboard shows the latest quote of a request rather than the approved one, and offers a "replacement
  quote" that the server refuses (`apps/admin-web/src/app/page.tsx:718-731`, `:788-814`).
- `notification-outbox.writer.ts:60-65` speaks of one retry of a best-effort event, whose attempts start one
  below the limit, so that its first failure is its last.
- `fcm-dispatch.worker.ts:286-290` promises that no lease expires within a batch, which holds as long as one row takes less than the
  TTL leaves after a renewal (`TimingAssumption`), while the SQL statements have no timeout of their own.

## 4. Proofs

Assumptions are the named ASSUMEs of the modules: SQL NULL is not an id, suitability relates requests to
providers, the ownerless requests are some of the requests, the switches are Boolean; for the dispatch, positive limits and
`RenewEvery + RowTime <= LeaseTTL`; for the images, `MaxAttempt + MaxScan < Grace`; for one-time codes, a cooldown no longer
than the window; for samples, a raw retention no shorter than the time a sample may be sent again.  For the provider app (`TrackingAssumption`),
`Called` has calls of `reconcile`, at least one generation can be claimed and one message sent, and `MaxFaults` is any number: the three
maxima are bounds of a behaviour, which may take every value.  There is no bound
on the number of requests, providers, quotes, rows, devices, workers, attempts, keys, calls, instances or failures.

**ServiceRequests** (`ServiceRequestsProofs`).  `IInv` is the conjunction of the type invariant and
eight safety properties; none is inductive alone.  For example `OnePriceIsOwed` needs
`AssignmentIsAuthoritative` (no other bid is undecided once a provider is assigned) and
`FlowsNeverMix` (no bid beside a staff quote); `OutboxTellsTheStory` needs `OpportunityTracksBid`
for the losers told by an assignment.  There is one lemma per transaction, and helpers for the
outbox and the awarding of a request are proved once.  `RacyInvariance` gives the invariant for
`RacySpec`, from which the theorems for the single properties follow; `HistoryFinal` is the action
property, proved step by step from the same invariant.

**RequestViews** (`RequestViewsProofs`).  `OneDeal` rests on `IInv` and on two facts about ids: they are dense
(`IdsAreDense`), and no staff quote of a request is newer than one of its that is active (`LiveIsLatest`).  From these the
rules of the reads are shown to pick the same quote.

**FcmDispatch** (`FcmDispatchProofs`).  `LeasesAreHeld` is not inductive: it needs how old a lease
may be.  `Timed` says that a lease is at most as old as the last renewal while none is due, and
at most `RenewEvery + busy - 1` at any time; `Held` that a row of a batch is leased to its worker and
unchanged since its claim; `Counted` that a row still to be sent has an attempt left; `Known`
that a row accepted by a device, none of whose outcomes was lost, is settled or is about to be settled by the worker that
holds it.  `OneHolder` (two workers never share a row) follows from `Held`.  From `IInv` come
`LeasesHeld`, `DuplicatesExplained`, and, with `RowChanges` (which steps write a row), the action
properties `SettledFinal` and `RetriesCounted`.

**RequestImages** (`RequestImagesProofs`), under `Harmless`: only contents without images lose an acknowledgement.  The invariant
says that attempts have no key in common (`KeysApart`), that the uploads of a live attempt are in the store and younger
than its clock (`CallsSafe`), that a committed key a scan has not read is ahead of it or too young (`ScanSafe`), and that
what it will delete nobody refers to (`OrphansSafe`).  `ImagesKept` and `AnswersAgreed` follow, and
`Implements`: the initial states are those of `ImageKeeping`, and each step is one of its steps or changes neither store.

**Sign-in** (`SignInProofs`).  `CodesRotated` needs that what a login found is still in force unless the code was rotated
since (`LoginsAreFounded`).  `LimitsHeld` compares the stored counters with the calls that will still add to them.
`OtpLimited` needs that an accepted ask's row is in the table until a cleanup of a later clock took it (`RowsAreKept`).
`ChallengesSpent` counts the checks that have counted and not yet guessed (`Waiting`) and shows that whoever is past the DELETE of the
challenge is alone there (`Beyond`).

**DeviceRegistry** (`SignInProofs`).  One transaction per owner (`OwnersAreSerialized`), room for the device of whoever has
counted (`RoomIsLeft`), and whoever has inserted is alone with its token but for the row it takes over
(`InsertsAreAlone`); hence `DevicesLimited` and the action property `TokensWhole`, which
is proved only: a revocation and its insert are one commit of the model, as they are of the code.

**RequestTransactions** (`RequestTransactionsProofs`, over `ServiceRequestsProofs`), for any number of connections and any plans.  Serializability is an argument of ownership:
whoever changes a row has it locked in a mode that excludes every other change (`Owns`), and each statement has secured the
rows whose change could refute what the transaction found.  `TxInv` joins `IInv` and `TxTypeOK` to `Sound` for every
connection: the rows it must own (`RowsSecured`, `MatchesOwned`), what it has checked and is still so (`Checked`), and
that the rows it collected are those its WHERE clauses name now (`AwardExact`, `AnswerExact`, `StopsExact`).  Eligibility
is the one thing found that nothing locks: `SeenInv` says instead that what an assignment or invitation has found fit was fit
together at a moment that `seen` recorded, which `ChoicesSeen` shows for every step.  A commit then changes what
the atomic transaction changes (`Atomicity`, one lemma per commit), and changes a row only while its transaction owns it or
the request it belongs to (`Guarantee`), so that what the others found survives it.  `RowsStaySound` carries the
safety of the lifecycle, and `TxHistoryFinal` its finality, over to the interleaved transactions.

`DeadlocksKnown` needs a second invariant, `WaitInv`, of what a transaction waits for and what each lock it holds is for: rows
of its own request, providers that its statement names, or what a suspension finds.  `OrderedLocks` then
looks at a circle without a withdrawal.  Its members own different requests, so that none waits for a row of its own request;
nobody waits for a position or a session, which are held last or by a suspension that has the provider, too; nobody waits for
a provider FOR UPDATE, since whoever does so holds none.  What remains, at any length of the circle, are approvals that each
hold a provider FOR UPDATE and wait to name another one in a notification.

**ProviderTracking** (`ProviderTrackingProofs`).  `TrackingInv` adds to the types: who owns the service and when it is ending
(`NativeHolds`); that nobody has heard of a generation not yet claimed (`GensAreKnown`); that the worker's stream is
that of its configuration (`StreamHolds`); that while a setup for an earlier generation is under way nothing of the current
one exists yet (`SetupsAreInOrder`, `Fresh`).  The part that matters is `BeliefsAreTrue`: messages of one generation arrive in
order, so what the app will believe once it has read all is the last thing said (`Believed`, `LastWord`), and if that is "running"
the worker has the stream of this generation or is about to say otherwise (`Busy`).  With nothing under way it is `NoOpsAreTrue`
(`NoOpsTrue`).  `ReplacementsLive` is the action property.

**ServiceStart** (`PlatformProofs`).  The advisory lock makes what an instance found stay so until it is done (`InstOK`), from which
`HistoryTrue`; the startup statements find every shape there (`StartupHarmless`), because an instance past its migrations has its release in
the history; `AccountsKept` needs that, once there is an account, whoever still means to make one had looked before.

**LocationSamples** (`PlatformProofs`).  The position is the newest sample taken (`NewestIsHeld`); the retention
cannot reach a sample that could be sent again (`RecentIsStored`); the session's columns are the count, first and last of the samples near the
place (`EvidenceIsExact`).  Hence `SamplesKept` and `ArrivalEarned`.

**Platform** (`PlatformProofs`).  `PartsImplemented`: a behaviour of the parts together is, for each part, a behaviour of its own
specification (`EveryPartSteps`).  Every theorem about a part therefore holds of what the `platform` run checks:
`PlatformTypes` for the types, `PlatformSafe` for the other invariants and the action properties.

Every invariant and action property of a passing run is thus a theorem.  Only model-checked: the liveness properties
`EveryTransactionEnds`, `EveryRowSettles` and `OrphansGo`, since liveness under fairness is out of the
prover's reach, and the five violations.

## 5. Not modelled, and why

- Support tickets and ratings: single updates without interaction.  The event timeline and the audit log: inserted with
  what they record and read by no guard.  Role checks of staff: single statements around the operations.
- The admin dashboard and the customer app: pages over the API that keep nothing but what they show; what the API shows
  them is `RequestViews`.
- The test database guard and scripts: test infrastructure.
- Provider app: a configuration is known here by its generation, its status and who sent it, while the worker compares the
  object (`_configuration != config`): two configurations of one generation that agree in all three are taken for one.  It
  makes a difference only when a position is taken under the one and answered under the other.  The stops beside the queue (sign-out, expiry, failed
  refresh) follow one another.  The second look at the dashboard after a reconciliation that found nothing is left out: the
  tracking is off by then.
- `validateProviderLocationSample` reads the clock before the locks of `AcceptSample` are granted, while the model
  reads it at the commit.  A sample that waited may thus be stored a little older than `SampleAge`, which is harmless since the raw
  samples are kept for days.
- Provider app: permission prompts, a user interface that is recreated half way (runtime epochs), a service that outlasts the wait for
  its stop, cadence and the sample queue.  After a logout during a start an empty foreground service may stay; it collects
  nothing.
- JSON creations without a submission key: they are not idempotent and touch no object.
- `findByCustomerId` reads requests and quotes in two queries without a common snapshot; a page may then mix two
  states that are one commit apart, until it is read again.
- The orphan beyond the listing's horizon (`request-image-reconcile.ts:187`), which needs
  a namespace larger than a run lists.
- Within modelled components: amounts, scopes and addresses, which no guard reads; the order of a batch, the error kinds
  and the limit of ten devices read by the worker; the decoding of images and signed URLs; the in-memory fallbacks that
  only tests use; the contents of the schema contracts, of which only whether they match is kept.
