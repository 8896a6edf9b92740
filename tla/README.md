# Verification of Dear Angel Nail Studio

TLA+ models of the studio's booking system, the TLC runs that check them on
small instances, and proofs that TLAPS checks for every size. Source paths are
relative to `src/`; API paths without a prefix are under `apps/api/src/`.

## 1. The system

A NestJS API (`apps/api`) keeps all of its state in PostgreSQL through Prisma at
the default isolation level, READ COMMITTED. Files are objects in MinIO. A
BullMQ worker (`apps/worker`) calls the API's internal endpoints on a schedule;
its queue lives in Redis. A Next.js client (`apps/web`) only calls the API.
Several API processes and any number of browser tabs act at once, and every
`await` lets another request in.

| Component | State | Operations that change it |
|---|---|---|
| Appointments, `scheduling/appointment.service.ts` | `appointments`: status, technician, interval, `holdExpiresAt`, reschedule count, quote, `updatedAt` | `createHold`, `createManual`, `reschedule`, `cancel`, `updateStatus`, `expireHolds` |
| Deposits, `payments/payments.service.ts` | `deposit_payments`: status, receipt, retention | `createForAppointment`, `uploadReceipt`, `review`, `expireAwaitingReceipts`, `cancelForAppointment`, `purgeExpiredReceiptFiles`, `updateConfiguration` |
| Receipt files, `infrastructure/storage.service.ts` | objects of the MinIO bucket | `putObject`, `removeObject` |
| Quotes, `catalog/catalog.service.ts` | `custom_quotes`, their images | create, upload image, claim, assign, review, cancel |
| Catalog and calculator, same file | designs, images, options, prices, favourites | create/update/delete, upload and delete images |
| Loyalty, `loyalty/loyalty.service.ts` | visit ledger, coupons, rules, promotions | completed visit, correction, redeem, reverse, `syncRewards` |
| Notifications, `notifications/notifications.service.ts` | notifications, deliveries with attempts | `notify`, `processPending`, reminders |
| Calendar, `notifications/calendar.service.ts` | connections, event links | `syncAppointment`, connect, disconnect |
| Identity, `identity/*.ts` | users, sessions, challenges, login counters; guards and roles | register, verify, log in, reset, change of phone, pause, revoke, purge |
| Working hours, `scheduling/schedule.service.ts` | weekly periods, exceptions, policy | replace, inherit, override, warn |
| Worker, `apps/worker/src` | job schedulers, health in memory and Redis | run a job, record its result, hydrate |
| Messaging, `identity/messaging.service.ts` | the environment | choose a provider, send |
| Reports, `operations/reports.service.ts` | the audit log | dashboard, log pages, CSV and XLSX |
| Studio settings, `operations/studio.service.ts` | one row, logo and icon | update, upload |
| Web client, `apps/web/src` | what each panel shows and has in flight | load, choose, save; the quote builder |
| Backup and restore, `docker/*.sh` | none | dump, copy, restore |

How they interact. `createHold` inserts an appointment and its deposit in one
transaction, then notifies. `uploadReceipt` writes MinIO and then both tables.
`review` decides both tables. `cancel` calls `cancelForAppointment` inside its
transaction. `updateStatus` registers the visit with Loyalty. All of them end by
notifying and by synchronising the calendar, after the commit and with errors
swallowed. Availability is computed from Working hours and from the blocking
appointments, and the worker's `payment-expiry` job and several listings run the
same sweep of lapsed holds.

What is hard here:

* handlers read a row, await other queries, and write later: what they decided
  on may be stale, and only a `where` clause on status or `updatedAt` protects it;
* two tables tell one story, and the sweep reads and writes in two statements;
* double booking is excluded by an exclusion constraint and a partial unique
  index, not by the checks in the code;
* MinIO and PostgreSQL share no transaction, and a handler or job may stop, or
  die, between the two;
* jobs overlap: the worker gives up on a call after 120 s while the API goes on;
* holds end only because something keeps sweeping;
* what ends sessions, empties hours or withdraws rewards is several statements,
  with a moment between them;
* a provider, Google or Redis may take a call and not answer, and a page may get
  its answers in another order than it asked.

`PROJECT.json` lists each of these at its line under "hazards", with the
property that covers it.

What makes each component correct: appointments of one technician do not overlap,
each status change is legal and authorised when it is written, a hold ends
(Appointments); the deposit's status fits the appointment's (Deposits); a file
lives exactly as long as its row says (Receipt files); one technician per quote and
one booking per quote (Quotes); five ordered images (Catalog); a visit counted once,
a coupon used once, and rewards that fit the visits (Loyalty); a message sent while
attempts remain, and not lost (Notifications); one event per appointment, showing its
latest state (Calendar); a code used once within its attempts, a locked account after
too many failures, no session older than what ended it, no route for who may not use it
(Identity); non-overlapping periods, and warnings that name every appointment left
outside (Working hours); health that reports the last result (Worker); no mock taken for
a delivery (Messaging); totals and pages that agree with the rows (Reports); a page that
shows the rows of the user's choice (Web client).

## 2. Modules

| Module | What it is |
|---|---|
| `Booking` | appointments and deposits together, every handler of both, and the sweep |
| `Reservation` | the abstract promise: one reservation, its stage, its place in the diary |
| `BookingProofs` | the inductive invariant and the theorems of `Booking`, which implements `Reservation` |
| `MCBooking` | values of the constants for TLC |
| `Receipts`, `MCReceipts` | the stored receipt, the row that refers to it, the retention job |
| `ReceiptsProofs` | the inductive invariant and the safety theorems of `Receipts` |
| `CustomQuotes` | a quote's life: claim, assignment, images, decision |
| `CustomQuotesProofs` | the inductive invariant and the safety theorems of `CustomQuotes` |
| `Loyalty` | visits, rules, promotions, coupons and `syncRewards` |
| `LoyaltyProofs` | the inductive invariant and the safety theorems of `Loyalty` |
| `CouponUses`, `MCCouponUses` | `Loyalty` with a history of the uses of coupons |
| `Accounts` | clients' accounts: codes, registration, recovery, phone, administration |
| `AccountsProofs` | the inductive invariant and the theorems of `Accounts` |
| `Access` | logins, the lock after failures, sessions and their revocation |
| `Routes` | every route of the API with its roles, the guards, the access to a row |
| `Messaging` | the environment, the choice of provider, what the provider answers |
| `Deliveries` | the queue of messages and the job that sends it |
| `Reminders` | the job that queues reminders of an appointment that is moved |
| `CalendarSync` | one appointment and its event in the technicians' Google calendars |
| `CatalogAssets` | images of designs, options and the studio, in row and bucket |
| `Calculator` | the options, their seeding, the page's estimate and the API's |
| `WorkingHours` | hours, warnings, the slots offered and the bookings checked against them |
| `Reports` | the dashboard's queries, the log's pages, the CSV of an export |
| `JobHealth` | the worker's health across restarts and losses of Redis |
| `Screens` | what each panel of the web client loads, writes and shows |
| `MCFront` | composes `CustomQuotes`, `Accounts`, `Access`, `Routes`, `Messaging`, `Screens` for TLC |
| `MCStudio` | composes `Loyalty`, `WorkingHours`, `Reminders`, `Reports`, `Calculator` for TLC |
| `MCServices` | composes `Deliveries`, `CalendarSync`, `CatalogAssets`, `JobHealth` for TLC |
| `FrontProofs` | invariants and theorems of `Access`, `Routes`, `Messaging`, `Screens`, and of `MCFront` |
| `StudioProofs` | the same of `WorkingHours`, `Reminders`, `Reports`, `Calculator`, and of `MCStudio` |
| `ServicesProofs` | the same of `Deliveries`, `CalendarSync`, `CatalogAssets`, `JobHealth`, and of `MCServices` |

### Booking and the code

A process is an HTTP request or a run of `payment-expiry`. `proc[p]` says what it
still has to do and what it read. An operation is cut where the code awaits and
another request may write in between:

| Code | Actions |
|---|---|
| `expireAwaitingReceipts` | `SweepSelect`, `SweepWrite` |
| `createHold` | the sweep, `HoldCheck`, then per candidate technician `HoldInsert` or `HoldCollides` |
| `createManual` | the sweep, `ManualInsert` |
| `reschedule` | the sweep, `RescheduleCheck`, `RescheduleCommit` |
| `cancel` | `CancelCheck`, `CancelCommit` |
| `updateStatus` | `CloseCheck`, `CloseCommit` |
| `uploadReceipt` | `UploadCheck`, `UploadStamp` (MinIO has answered), `UploadCommit` |
| `review` | `ReviewCheck`, `ReviewCommit` |
| any error, refused write or dead process | `Abandon` |

Abstractions, each of them deliberate:

* A write transaction is one step. Each of them writes the appointment row first
  and therefore holds its lock until the commit; the deposit is touched only
  under that lock. The sweep is the exception: its SELECT takes no lock, so it is
  two steps. Its UPDATEs are one step for all rows: the first locks every row the
  second depends on.
* `updatedAt` is not a number. `stale` holds the processes whose row was written
  since they read it, which is what comparing `updatedAt` tells. The column has
  millisecond precision: two writes in the same millisecond are taken to differ.
* `candidates` is an input: the technicians `activeTechnicians` returns and
  `isWithinAvailability` accepts. Neither reads the appointments table.
* `createForAppointment` repeats a colliding reference inside the transaction
  that PostgreSQL has already aborted, so it fails as a whole: `Abandon`.
* Visits, notifications and calendar calls after a commit do not write these two
  tables and are left out. `clientMoves` is a history variable for a property.
* Minutes are ticks of one clock. It is shared: the processes and the database of
  the studio run on one host.

### Receipts and the code

Each upload request stores one object under a key with a fresh UUID, so the
request names the object. `held` is what `Booking` knows as status HELD; there
other handlers end it, here `EndHold` does. The actions follow `uploadReceipt`:
`UploadCheck`, `PutObject` or `PutFails` (outside the `try`), `Commit` or
`CommitFails`, `Answer` or `FailsAfterCommit` (the audit record and the search for
administrators are inside the same `try`), `CleanUp` (the `catch`, whose own error is
swallowed), and `Crash` anywhere. `purgeExpiredReceiptFiles` is `PurgeSelect`, then
per entry `PurgeRemove` and `PurgeClear`, with `PurgeStops` anywhere.

### CustomQuotes and the code

`createQuote` is `CreateQuote`; `claimQuote`, `assignQuote`, `reviewQuote` and
`cancelQuote` are each a `...Check` (the read and the early returns) and a `...Commit`
(the `updateMany`, with every condition of its `where`). `uploadQuoteImage` is
`ImageCheck`, `PutObject`, `ImageCommit` (it locks the quote by writing `updatedAt`,
counts again, inserts), then the answer (`Leave`) or `ImageFails` and `CleanUp`. As
in `Booking`, `stale` is the comparison of `updatedAt`. A technician who is not
active, a refused write and a dead process are `Leave`. `claims` and `judged` are history
variables. Prices, notes and selections are left out; so are the active appointments
that assign and cancel look for, since `createHold` books approved quotes only and no
approved quote is ever open again (`FinalIsFinal`).

`DecidedByResponsible` is what `Booking` assumes of its quotes: an approved quote has
a technician (`QuotesAssumption` there).

### Loyalty and the code

`registerCompletedAppointment` and `correctVisits` are transactions at READ COMMITTED:
`Complete` or `CorrectVisits` (what is read and inserted), then the statements of
`syncRewards` one by one: `SyncCount` (the sum, with the transaction's own entry),
`SyncWithdraw` (the `deleteMany`, only after a correction), `SyncChoose` (the rules reached),
`SyncCommit` (`createMany` with `skipDuplicates`, and the commit). A row deleted and not
committed makes others wait (`LockedFor`), and a redemption that finds it deleted after
the wait matches nothing (`gone`). `saveRule` is `SaveRule`, `ReadRule`, `IssueTotals`,
`IssueToEligible`; `redeem` and `reverse` are a read and a write each, with the
partial unique index on the appointment (`IndexAdmits`). `raced` is a history variable: the
clients for whom two computations of rewards overlapped, or whose process died after saving a rule. The code takes no
lock there, so the promise holds for the others, and the exception is exactly that.
`CouponUses` adds the uses the studio has to honour.

### Accounts, Access and Routes and the code

`Accounts` follows one table of users and one of codes. `ChallengeService.issue` is
`IssueCooldown` (SET NX in Redis and the registration's deadline), `IssueCreate`,
`IssueSent` or `IssueFails`; it is called by `Register`, `Resend`, `LoginPending`,
`ForgotPassword`, `ProfileRead` and `SendPasswordReset`. `consume` is a loop: `Answer`
reads, `ConsumeWrong` and `ConsumeRight` write under the `where` on attempts and
`consumedAt`, `ConsumeAgain` repeats. `VerifyWrite` and `ResetWrite` decide on the row read
with the code and write under their own `where`. `AdminUpdate`, `AdminStatus` and
`ProfileSave` write by identifier. `PurgeExpired` is the worker's job. A request keeps of
a row only what it still uses (`OfPhone`).

`Access` is one account's password, lock and sessions: `login` is a read, the
comparison, and for a wrong password two statements (`FailedIncrement`, `FailedLock`).
Whatever ends sessions writes the account (`Ends`) and revokes afterwards (`RevokeAll`).
`epoch` counts those writes, `late` holds sessions opened by a login that read the account
before one. `Routes` lists the handlers of every controller with the roles of their decorators, the two guards
(`Guards`), and the check of the row in the service (`QuoteAccess`, `AppointmentAccess`); between them the
administrator may pause the user and the row may pass to another (`overtaken`).

### Messaging, Deliveries and Reminders and the code

`Messaging` starts with any environment, refuses those `validateEnvironment` refuses, then
chooses (`Choice`), calls (`Calling`) and may lose the answer. `Deliveries`: `Notify`
queues; a run of `processPending` is `Recover` (PROCESSING for ten minutes goes back to
the queue), `ReadCandidates`, then for each `Claim` (a conditional `updateMany`), `Send`, `MarkSent` or
`MarkFailed`. `Unwritten` and `SentFails` are a sent message whose row could not be written, `Crash` a process that
dies. Instants are kept relative to the clock, so its value needs no bound.
`Reminders` is `queueAppointmentReminders` against one appointment that is confirmed, moved, passed
on and cancelled. The unique key of a notice names window, appointment, start and role, not the
user: when an appointment passes to another manicurist at the same hour after the first was
told, the second is not. `RemindedInTime` has that exception: the documents promise reminders of
each confirmed appointment and do not say to which of the two.

### CalendarSync, CatalogAssets and JobHealth and the code

`CalendarSync` has the appointment's handlers as far as they call `syncAppointment`, and its
calls of Google one by one (`Post`, `Patch`, `SyncDelete`, `MoveRemove`), each of which may fail before
or after it took effect. `disturbed` remembers overlaps and failures, `unlinked` a change of
technician before the first event. `CatalogAssets` has upload, insert, audit record and removal as
separate steps that may fail or be cut by a crash; `unserved` holds the keys of images whose object
was discarded after a failed audit record, `crowded` designs whose uploads overlapped.
`JobHealth` has the tracker's memory, the commands queued for a Redis that is away, hydration, and
`Restart`.

### WorkingHours, Reports, Calculator and Screens and the code

`WorkingHours`: the saves of the screens, each followed by `ListAppointments`, `Compare` and `Warn`;
`updateGlobal` is a delete and a create in a transaction, then the technicians that inherit; bookings are a check against the hours and
a place taken later. `Slots` is the algorithm of availability, compared with what
`createHold` accepts. `Reports` asks the dashboard's questions one by one while rows change, cuts the
audit log by offset, and writes CSV fields with `Escape`; `ReadFields` is a reader of CSV, the reference
the export is compared with. `Calculator` has the seeding at start-up by several instances, the page's
selection and estimate (`EstimatedPrice`, `EstimatedTime`), and `Quote`, what the API computes again. A tile sets its option
to one or to nothing (`TileQuantity`); an option with a limit above one also has a counter, whatever its pricing mode
(`CounterQuantities`); the button waits for a technique or for no design (`SendEnabled`). No seeded option is FIXED with
a limit above one, but the administrator saves the limit apart from the mode (`Edits`), and then the page counts such an
option while neither side multiplies its price: `EstimateAgrees` compares the two on those selections too, and
an API that multiplied every option would break it. `SentIsTaken` relates the page's clamp and button, which work on the
options it loaded, to what `createQuote` refuses. The form stays open while a call is out, but the call sends what was chosen at
the click, so a change made meanwhile is modelled as one made after it comes back; a request, an answer or an image may be lost.
Edits of an option's kind or parent, and clients who are not signed in, are left out. `Screens` describes each
panel by what it chooses, whether it drops late answers, and what its handlers reload afterwards; the
calls go out and come back in any order.

## 3. Runs

Deadlock is not checked: clocks stop at their bound, rows reach final statuses,
and the system may really be at rest.

| Run | Instance | What it asks |
|---|---|---|
| `booking` | one row, two technicians, one client, one quote, two requests, times up to 3 | every pair of handlers interleaved at every await over one row |
| `booking_pair` | two rows, one technician, one quote, two requests, time up to 1 | two rows competing for time and for the quote |
| `booking_live` | two rows, one request, the job, time up to 2, durations of 2 | holds end; the tables implement `Reservation` |
| `receipts` | two deposits, two uploads, two overlapping runs, batches of one | file and row through races, failures and crashes; every receipt ends purged |
| `front` | below | what requests go through: quotes, accounts, sessions, routes, messages, pages |
| `studio` | below | loyalty, hours, reminders, reports and the calculator |
| `services` | below | deliveries, calendars, images and the worker's health |
| `booking_attended`, `receipts_kept`, `coupon_uses`, `calendar_moves`, `active_phones` | the smallest that shows it | documented claims that the code does not keep |

**Composition.** Three runs check several components each. Those components share no
state that two of them write: what one keeps the others only read, or not at all. A behaviour of such a
run is therefore one of a single component, chosen at the start by `part`; the
product of their states would repeat each one's behaviours and no more. Variables of the
other parts stand still or are `None`. The parts reuse the same pairs of model values,
so the symmetry of a run is two small groups of permutations. `services` has a liveness property and
uses no symmetry. Where components do share state that both write, they are one
module: appointments and deposits in `Booking`, visits and coupons in `Loyalty`,
users and codes in `Accounts`.

`front`: one quote, two technicians, one client, two requests, three image keys against a limit of
two, made in the order of their numbers (`KeysInOrder`: fresh keys differ in nothing
else); one account, one code at a time, two phones, two requests, two attempts; two sessions,
two logins, a limit of two failures, one write that ends sessions; two clients, two technicians and
the administrator against every route; two destinations, one of them a tester's; two calls in flight and two changes on every panel.

`studio`: one client, one appointment, one rule, one promotion, two requests, milestones 1 and
2 (the theorems of `LoyaltyProofs` cover any number; `coupon_uses` has two appointments and
three requests); one manicurist with hours of one or two periods that may overlap, one appointment, two
requests; one appointment reminded by one run at a time or interrupted, moved between two hours and two
manicurists; a table of two appointments for the dashboard, a log of three entries on pages of one, every pair
of texts of up to two characters for the export; two instances that seed, one edit, two quotes.

`services`: one message, two overlapping runs, two attempts and one fault; one appointment, two
technicians, two hours, two events; one design, one icon and the logo, two uploads, three objects; one job, a clock
of two and three commands.

Why the bounds suffice. A race in this code needs the request that read a row
and another that writes it: two requests. Overlap and the quote's
index relate two rows. Two technicians let the administrator move an appointment
away from one; two start times let it move there and back. Hold, lead and notice of one
tick put both sides of each comparison within the clock. `ClientLimit` 1 lets the
limit be reached and raced for; runs not about it take 0. With durations of
2 and starts 1 and 2, intervals overlap without being equal. Two deposits with batches
of one make the job's limit bite and two uploads race for one deposit. Two attempts
let stale reads of the counter differ from the last attempt, and two sessions one be
kept while the other ends. Three image keys against a limit of two let two uploads race
for the last place. The proofs below lift the bounds off every
safety property of the passing runs.

Each property is stated in words where it is defined, and each has a mutant in `PROJECT.json`: a
plausible bug in one definition that makes it fail. Several carry an exception, kept in a history variable
(`raced`, `late`, `died`, `overtaken`, `crowded`, `unserved`, `disturbed`, `crossed`, `lost`): it names
precisely the interleaving or failure the code leaves open, so a property
says both what is kept and what is not.

### Fairness

* The clock goes on.
* `payment-expiry` runs every minute (`apps/worker/src/jobs.ts`), so its SELECT is weakly
  fair; a run can fail or die before its UPDATEs, but BullMQ retries it five times and
  starts it again a minute later, so the write is strongly fair. Nothing else is assumed: not that a
  client uploads, nor that the administrator decides. A receipt under review may
  keep its slot for ever, in the model as in the code.
* `receipt-retention` likewise, every six hours; removal and clearing are strongly
  fair: MinIO and PostgreSQL do not refuse them for ever. Without that the oldest
  receipt whose removal always fails would stop every run before the others.
* The delivery job is started every thirty seconds and a call that goes on ends, so
  `StartRun` and `Step` are weakly fair and time passes. Crashes are bounded by
  `MaxFaults`: a run that dies for ever sends nothing.

### Findings

* `docs/DECISIONES.md:58` says that no appointment may overlap another of the same
  technician. The exclusion constraint covers blocking statuses only, so
  once an appointment is COMPLETED another can be recorded by hand over the same
  minutes (`booking_attended`).
* `docs/DECISIONES.md:139` says that receipts are kept for one year.
  `uploadReceipt` removes the object whenever something in its `try` throws, and the
  audit record and the search for administrators come after the commit: the
  deposit is under review and refers to an object that is gone (`receipts_kept`).
* `docs/ROADMAP.md:208` says that rewards are of a single use. `reverse` reads the coupon
  and updates it by its identifier alone: two reversals around a second redemption give the
  coupon back although that redemption stands (`coupon_uses`).
* `docs/MANUAL_USUARIO.html:450` says that Dear Angel creates, changes and cancels its own
  events. The upsert of `syncAppointment` writes the technician only when it makes the link;
  an appointment that passes on twice leaves an event in a calendar for good, with every
  call in order and answered (`calendar_moves`).
* `docs/DECISIONES.md:165` says that a changed WhatsApp number has to be verified. The
  administrator's `updateStatus` checks the verification it read and writes the status
  alone; a change of phone in between ends ACTIVE with a number nobody verified
  (`active_phones`).

## 4. Proofs

All for arbitrary sets of rows, users, quotes, requests, jobs and times. An
assumption on the constants is named in the module that declares them, and TLC evaluates it
in a run. `Booking` has three: times are naturals, durations and the hold are positive
(`TimesAssumption`); roles, processes and `None` are distinct (`UsersAssumption`);
an approved quote has a technician and a client (`QuotesAssumption`).

`BookingProofs`: `TypeCorrect`, one step per action. The properties of the two tables are not inductive, because what a
commit writes was decided by a check some steps before. `ReadInv` adds to
`TypeOK` what connects them:

* `Fresh`: a process that compares `updatedAt` and is not in `stale` remembers the
  row as it is now. It holds because every write of a row puts its readers in `stale`.
* `Decided`: what a process carries was right for the row it remembers: it was
  authorised, blocking or confirmed; the chosen technician fits the quote; the client had a move
  left; the end or start had passed.

At the conditional write both meet: the row is still the one read, so the decision
still holds for it. One lemma, `RowStep`, summarises every action as what it
may do to a single row and its deposit. The safety theorems are then short inductions over
`RowStep`: `DepositsAgree`, `FinalStaysFinal`, `NeverOverlaps`, `QuotesBookedOnce`,
`QuotesKeepTechnician`, `ClientMovesStayBounded` (strengthened: a client's moves are at
most the row's own count), `ClosedOnlyInTime` and `AuthorizedAtWrite`.

The same module ends with `BookingKeepsPromise`. A row and its deposit map to a stage
(`StageOf`) and a place. The initial state maps to `Reservation!Init`; given
`ReadInv`, `DepositAgrees` and `NoOverlap`, each action is one event of
`Reservation` (a sweep may lapse several reservations at once) or a stutter.

`ReceiptsProofs`, from `ReceiptsAssumption`: `ReceiptsTypeCorrect`,
`AcceptedReceiptsKept`, `AtMostOneAccepted` and `AnsweredNeverForgotten`. The
inductive invariant `IInv` adds to `TypeOK`: rows refer only to finished uploads and
carry their retention (`RowsMatch`); whatever a run has on its list is due, and an
entry whose row is about to be cleared has lost its object (`ListsMatch`); accepted
objects are those of their rows (`ObjectsMatch`); an accepted upload has consumed
the hold (`HoldsConsumed`), so no second commit overwrites a row. The lists are what
makes it necessary: a run acts on rows it read long ago, and is harmless because a
receipt that was due stays due and its key is never used again.

`CustomQuotesProofs`, from `CustomQuotesAssumption`: `QuotesTypeCorrect`,
`ResponsibleDecides`, `ClaimExclusive`, `ImagesStayOrdered`, `DecisionsOnWhatWasRead`,
`FinalQuotesStayFinal`. The invariant has the shape of `ReadInv`: `Fresh` says that
whoever is not stale remembers the quote and its images as they are, `Carries` that what a
handler intends was right for what it remembers; `Responsible` and `Positions` say of
the tables what the properties need. Two lemmas do most of the work: `QuietStep` for
steps that write no row, `WriteStep` for the conditional writes.

`LoyaltyProofs`, from `LoyaltyAssumption`: `LoyaltyTypeCorrect`, `CouponsNeverCombined`,
`EarnedAlwaysGranted`, `UsedAlwaysStays`. What a rewards computation commits was counted
and chosen statements before, and a rule is saved before its coupons are: the
invariant says what holds in between.

* `Alone`: one request at most works on a client who is not in `raced`. That is what the
  code gives instead of a lock, and what the rest needs.
* `Counted`: for such a client the sum a transaction has counted is still the sum, and the
  keys it chose are still the rules reached.
* `Owed`: a coupon that was earned and is missing is on its way: some request still
  carries the rule, and the client's key once it has read the totals. At rest nobody carries
  anything, so none is missing: `EarnedIsGranted`.
* `Withdrawals`: a coupon deleted and not committed is unused and deleted once, so the
  deletion takes no used coupon; this and the index on the appointment give
  `NotCombined` and `UsedStays`.
* `Carries`: what a redemption read of appointment and client, which nothing changes.

One lemma per kind of step (`RequestStep`, `EarnedStep`, `QuietStep`, `EndStep`), then one per action.

`AccountsProofs`, from `Parameters` (the limit of answers is a natural, the administrator's targets are
statuses; `MCFront` assumes the same): `AccountsTypeCorrect`, `CodeAcceptedOnce`,
`ActivationProven` and `PauseSurvives`, which are `AnswersOnce`, `ActivatesProven` and
`PauseStays`, the properties that `front` checks as `CodesAnswerOnce`, `CodeActivatesProven` and
`PauseBeatsCode`. A request that compares a code remembers its user and phone, which the row still has while the
code is open (`Carries`, `CodeKept`), and had an attempt left when it read it; the conditional
write requires the count it read. An accepted answer therefore stands for a phone in `proved`, and the write
of `verifyPhone` or `resetPassword` requires that the account still has that phone and a status that is no
pause.

`FrontProofs`, `StudioProofs` and `ServicesProofs` are about the compositions, whose properties the
runs check. Their invariants are conjunctions, one conjunct per part, under the condition that the behaviour
is of it where the variables of the other parts are `None`; `FrontStep`, `StudioStep` and `ServicesNextIInv` say
that a step is one of its part.

`FrontProofs`, from `FrontAssumption` (limits are naturals, nobody is both client and technician, `None` is no
user, message or page): `FrontTypeCorrect`, `SessionsAreGuarded`, `PagesTellTheTruth`, and the three action
properties of `Accounts` in the composition (`CodesAreAnsweredOnce`, `ActivationsAreProven`, `PausesAreKept`).

* Sessions: a session in force is of the current `epoch`, or opened late, or the request that wrote that
  epoch is still to revoke (`SessionsCurrent`). Only the last write matters: its revocation takes the sessions
  of every write before.
* Routes: a request that passed the guards holds a row it may see, and one read before the row passed
  to another is `overtaken` (`Checked`).
* Messages: the answer and what the provider took follow from the choice made for the message on its way
  (`Followed`).
* Pages: an undisturbed page has at most one write in flight; beside the load it waits for, calls in flight are ones
  whose answer the panel drops (`Orderly`). Both are needed: a page is right again only because what comes
  back last was read after what she wrote.

`StudioProofs`, from `StudioAssumption` (minutes and instants are naturals, any minute of the grid of slots may be asked
for, the long window of reminders is longer than the short one, a page has a size, a table of appointments is
finite): `StudioTypeCorrect`, `AgendaIsKept`, `ComputationsAreRight`, `LinesReadBack`.

* Hours: a blocking appointment outside the hours was warned of, took its place on a check made before the
  change, or is in what a request under way `WillWarn` of, at each stage of that request (`Covered`). The race it
  excludes is that of a booking checked against hours that change: `CheckStands`. `Replacements` says that a
  change of the global hours that crosses no other deletes the rows there are. That the slots offered are those
  `createHold` accepts is arithmetic on the grid.
* Reminders: a run begun after the last change works on the row as it is (`Works`), and whoever went through a
  window's last moment told both (`ToldInTime`).
* The log: an entry alone at its instant has as many before it as are newer; newer entries only arrive, so the
  entry never moves towards the front and what a page has passed it has read (`ReadSoFar`).
* Sums: the code adds up rows in an order the model leaves open (`MapThenSumSet` picks any). What such a
  fold computes is proved by induction on the number of elements. The library's induction theorems take a
  property as a parameter, which the provers cannot instantiate; `Inductive` takes it as a set of naturals instead, and
  follows from there being a least natural outside (`Least`). From it come that a fold exists
  (`SumIsThere`), is one whatever it picks (`SumIsOne`), and counts a set that it takes class by class
  (`SumOfClasses`).
* The dashboard: its counts by status and by day partition the rows that the first statement read
  (`TotalsAgree`); what each statement read is finite (`ColumnsRead`), and while
  nothing changed it is of the rows there are now, in the range asked for (`ColumnsFresh`).
* The estimate: page and server fold the same products, each over its own function, as long as the rows
  are those the page showed (`QuoteAgrees`); after that neither the quote nor its estimate changes.
* The export: a reader's path over a line is put together from its parts (`ReadsOn`). A text without quotes or
  commas is read as it is (`ReadsPlain`), one with its quotes doubled leaves the reader inside quotes with
  the text itself (`ReadsDoubled`), and the fold of the reader ends where its path ends (`ReadsAll`).
  `LinesReadBack` says so of two texts of any length over any characters.
* The calculator: one instance at most gets past the first option of the list, because the code of an option
  is unique (`Seeding`); a page that sends again lost an answer, and one that sends has a technique or no design
  (`Sending`, `Sendable`); a selection has the shape of a quote, and no quantity above the limit the page
  shows, after each change of the page (`PageTyped`). From the last two it follows that the API takes what is sent of rows
  that did not change (`RowsTaken`).

`ServicesProofs`, from `DeliveriesAssumption` and `ServicesAssumption` (bounds are naturals, the kinds of identifiers
are apart): `ServicesTypeCorrect`, `EventsFollowAppointment`, `RowsHaveObjects`, `FailuresStay`, and
for deliveries the two theorems below.

* Calendars: while handlers come one at a time and no call fails, what the one at work has still to do
  (`Copying`) is all that link and event lack of the appointment, stage by stage; once it rests nothing is lacking
  (`Rested`). Overlaps and failures are what `disturbed` excepts, since the code repairs neither.
* Images: a key has one owner at a time: the request that made it, the row that shows it, the request that
  removes it (`KeysOwned`). A request removes only keys that are in no row, so every row keeps its object.
* Health: the last failure of a job is stored or on its way, in order, and the memory has it or is not yet
  hydrated (`FailuresKnown`).

Deliveries, from `DeliveriesAssumption` (there is an attempt, every delay after a failed one is
positive): `DeliveriesTypeCorrect` and `NeverSentTwice`, which is `DuplicatesExplained`.

* `Solo`: a run works on a message alone, the row is PROCESSING and its lock is not older than ten
  minutes. A call of the provider ends within its timeout (the guard of `Tick`), so no `Recover` takes
  the row away, and `Claim` passes over a row that is PROCESSING.
* `Accounted`: an acceptance that is not lost is in the row (SENT) or about to be written by a run
  that confirms it. With `Solo` nobody else can send that message in between.
* `Listed`: `Claim` does not look at `attempts`, so a list read long ago could lead it past five. It
  does not, because whatever used the last attempt came after the `now` of every run that
  still lists the message: the row is SENT, locked no longer ago than that `now`, or due again only after it.

Only model-checked:

* `HoldsEnd`, `EventuallyPurged`, `EventuallySettled`: liveness under fairness is beyond the prover.
* The five claims of section 3 that fail: their runs show the counterexamples.

## 5. Not modelled

* Payment settings, the studio's texts, the texts of a design (`updateDesign`),
  favourites and the demonstration catalogue: single rows or pairs where the last write wins.
* The templates of messages, their texts, and the read marks of notices.
* Hashing of passwords, codes and tokens; the first administrator, which a start-up script makes.
* The XLSX container, which holds the rows of the CSV.
* Layout, navigation and the service worker of the web client.
* `docker/backup.sh` and `docker/restore.sh`, which call `pg_dump` and `mc` in order.

## 6. Plan

1. `Booking`, `Reservation`, `Receipts`, `CustomQuotes` with proofs. Done.
2. `Loyalty` with proofs; `CouponUses`. Done.
3. `Deliveries`, `CalendarSync`, `CatalogAssets`, `JobHealth`, `Reminders`, `WorkingHours`,
   `Accounts`, `Access`, `Routes`, `Messaging`, `Reports`, `Calculator`, `Screens`. Done.
4. `AccountsProofs`, `FrontProofs`, `StudioProofs`, `ServicesProofs`. Done.
5. Left: an abstract queue that `Deliveries` implements.
