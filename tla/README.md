# The booking service in TLA+

Models, checks and proofs for the booking service in `src/booking` (package
`main`, one Go process, one SQLite file, Google Calendar and Gmail behind it)
and for the programs around it. Line numbers are those of the commit in `src/`.

Contents: [inventory](#inventory), [plan](#plan), [modules](#modules),
[runs](#runs), [fairness](#fairness), [proofs](#proofs),
[disagreements found](#disagreements-found), [limits](#limits).

## Inventory

| component | state | operations | interacts with |
|---|---|---|---|
| Booking store (`store.go`, `bookings.go`) | table `bookings`: status, calendar_status, start/end/blocked_end, generation, sync_generation, attempts, next_attempt; trigger `prevent_booking_overlap` | INSERT by `createBooking`, UPDATEs by `patchBooking`, the retry handler, `syncDue`, `applyCalendarEvent`, `resetCalendarSyncTx` | every other part; one connection, `_txlock=immediate`, so each transaction is atomic |
| Appointment lifecycle (`bookings.go`, `server.go`) | `bookingMu`; nothing else between requests | `createBooking` = idempotency check, settings, `availableSlots` (forced refresh, external busy, local busy), INSERT; `patchBooking`; retry | refresh, Google, email outbox (same transaction), worker wake-up |
| Calendar worker (`syncDue`, `Google.Sync`) | `workerMu`; the job it read; shared `ops` during the calls | pick the oldest due row, DELETE / GET / import / conflict check / POST / GET, then UPDATE `WHERE generation=?` | Google Calendar, store |
| Calendar refresh (`calendar_sync.go`) | exclusive `ops`; `calendar_cursor` (sync token) | read pages, 410 handling, recovery of a lost calendar, apply a snapshot in one transaction | Google Calendar, store, email outbox |
| Google connection (`google.go`, `calendar_busy.go`) | `owner`, `google_tokens`, `mu` | connect, token refresh (may drop a revoked grant), disconnect, free/busy | sessions, worker, refresh |
| Email outbox (`notifications.go`) | tables `email_outbox`, `email_booking_state`; `email_settings`; `emailMu` | queue (in the booking's transaction), settings, test, manual retry, `sendEmailDue` | Gmail, calendar refresh, bookings |
| Mail sender (`google_mail.go`) | `google_mail_tokens`, `mail_authorization_version` | connect, disconnect, `Send` | outbox, `ops` |
| Access (`auth.go`, `invitations.go`, `workspace_members.go`, `operator_access.go`) | sessions, oauth_states, invitations, workspace_members, operator_identity, owner, `bootstrap_disabled` | bootstrap, sign-in, callback, invite/claim/revoke, remove, calendar authorization | `ops` serialises it with connection changes |
| Availability (`availability.go`) | none (pure) | settings validation, block compilation, slot generation, conflicts | lifecycle, worker |
| HTTP layer (`server.go`) | rate limiter buckets | origin and CSRF checks, body limits, routing, `saveSettings` under `bookingMu` | all handlers |
| Store opening (`store.go`) | data directory lock, install id, secret key | `openStore`, `migrate`, `cleanup` | all |
| Browser client (`dist/booking.js`) | selected slot, attempt key, receipt checks | load slots, submit, check a receipt after a lost answer | public API |
| Owner portal (`web/admin.js`) | session with its epoch; lists, drafts, confirmations, one revision per kind of data, a flag per operation under way, a timer | start, refresh, sign-in, Google connection, log-out; bookings, availability, emails, access panels | admin API, the browser's timer, focus, visibility and page cache, other devices of the owners |
| Development updater (`server/dev/update-release.py`) | releases, manifest, data snapshot | test, snapshot, switch, rollback | containers, data directory |
| Static updater (`server/update-release.sh`) | releases, `current` link | deploy, rollback, cleanup | web server |

What is hard here:

* **Two owners of the truth.** An appointment lives in SQLite and in Google. The
  portal cancels, the owner moves and deletes in Google, and each side's change
  must reach the other. The database transaction and the Google call cannot be
  one step, so every worker step is *read, call, write back*, with the world
  changing in between. `generation` and `sync_generation` are the protocol.
* **Three activities** (a booking request, the worker, a refresh) interleave
  under `bookingMu`, `workerMu` and the `ops` RWMutex; the worker's last UPDATE
  runs outside all of them but `workerMu`.
* **An unreliable network**: a lost answer, an insert that arrives after its
  client gave up, an expired sync token, a calendar the owner deleted, a grant
  that was revoked.
* **Emails cannot be taken back**, and Gmail's answer may be lost.
* **A page that is always a little late.** The portal's answers arrive in any
  order, after the session they were asked in, under a dialog the owner types
  in, or not at all; a timer, focus and visibility start loads at any moment.

Properties that make each component correct:

* store: no two held times overlap; a cancelled booking keeps its time until its
  event is gone.
* lifecycle: a customer who was told "yes" keeps the time until a cancellation;
  a cancellation is final; a time that was given away is not given twice.
* worker and refresh: nothing but an owner cancels; every change is seen
  eventually; database and calendar converge.
* outbox: at most one send without the owner's consent; in order; true when
  sent; nothing waits for ever.
* access: a removed member's sessions stay dead after the member is invited
  again; operator and calendar owner keep access; an invitation and the
  bootstrap are used once.
* availability: every slot offered is inside working hours and clear of blocks
  and protected busy times, and every such slot on the grid is offered.
* client: one attempt key makes at most one booking, across lost answers.
* portal: it keeps nothing its session has no right to; a late answer restores
  nothing that was ended or replaced; what the owner types stays until it is saved
  or given up; no flag outlives its call; the list catches up with the server.
* updaters: the live release is one that passed, or the one before.

## Plan

The modules in the order of importance, as built.

1. `BookingStore`, `CalendarSync` (store, lifecycle, worker, refresh),
   `AppointmentBook` (abstract) and `CalendarSyncRefinement`; proofs in
   `CalendarSync_proofs`.
2. `EmailOutbox`, with proofs in `EmailOutbox_proofs`.
3. `Access`: sessions, invitations, members, operator, calendar owner, with the
   callback as *read, ask Google, lock, check again, write*; proofs in
   `Access_proofs`.
4. The owner portal: `PortalShell` and its panels, composed in `OwnerPortal`;
   `SettingsForm` as pure functions beside the server's validation; proofs in
   `OwnerPortal_proofs` and `OwnerPortalAnswers_proofs`.
5. `BookingClient`: the browser's attempt key, lost answers and receipt checks,
   composed with an idempotent service; proofs in `BookingClient_proofs`.
6. `DevUpdater`: snapshot, switch, crash, rollback; proofs in `DevUpdater_proofs`.
7. `Availability`: the interval algorithms against a reference definition, with
   proofs in `Availability_proofs`; `PortalHours` joins them with the portal, whose
   saved hours they serve.

Still worth doing: models of the rate limiter and of the opening of the store.

## Modules

### BookingStore

The row and its updates, as pure operators. A span is `<<start, end>>`;
`blocked_end` is `end + Buffer` (stored at insertion; every import keeps
`blocked_end - end`). `waiting` stands for *next_attempt is in the future*; the
number of attempts only lengthens the back-off and is left out. Each UPDATE of
the source is one operator: `PortalCancel`, `PortalRetry`, `WorkerSynced`,
`WorkerFailed`, `ImportRemoval`, `ImportOfCancelled`, `ImportOfActive`,
`ResetForNewCalendar`.

### CalendarSync

| variable | code |
|---|---|
| `row` | table `bookings`, in the order of `created_at` |
| `event`, `calendarLost`, `primary` | Google: the booking calendar by event id (`"d"+id`), whether it still exists, the busy spans of the primary calendar |
| `connected` | `google_tokens` present |
| `cursor`, `feed` | the stored sync token and what Google would report for it |
| `late` | inserts whose client gave up |
| `worker` | `syncDue` and its `Google.Sync`: program counter, the row as it was read, the event found |
| `refresh` | `Google.Refresh`: at `read` or `apply`, by whom, what it saw, what changed since |
| `create` | `createBooking`: program counter, wanted span, external busy times read |
| `moved`, `removed`, `returned`, `overtaken`, `create.changed` | history, for the properties |
| `edits`, `faults` | counters of the bounds |

Locks: `bookingMu` is the single `create`, `workerMu` the single `worker`,
`ops` is `SyncHoldsOps` (shared) against `RefreshHoldsOps` (exclusive); the
booking request's short shared hold in `ExternalBusy` is one atomic step. Each
HTTP call to Google is a step of its own, with `SyncFails` as its failure,
including the lost answer of a call that took effect. `RefreshApplies` is the
transaction of `applyCalendarSnapshot`, cursor included.

Simplifications, each without effect on the properties: the callback's separate
`UPDATE ... SET next_attempt=0` after `connectAuthorized` is merged into
`Connect` (it equals `BackoffEnds`); any of several pages of a read failing is
one failure; retention (`cleanup`, 180 days) is left out; a calendar created by
a recovery whose transaction then fails stays empty and unreferenced, and is
left out.

### AppointmentBook and CalendarSyncRefinement

The abstract book: an appointment is open, closing (cancelled, its time still
taken) or closed, at a time. It may be requested, moved, cancelled and released;
nothing reopens it, and a request is accepted only if it is clear of everything held.
`CalendarSyncRefinement` maps a row to its phase and instantiates the book;
`ImplementsBook` is its specification.

### EmailOutbox

| variable | code |
|---|---|
| `booking` | status, start, synced, `email_booking_state.version` |
| `clock` | per appointment time: 0 early, 1 and 2 in the reminder windows, 3 started |
| `settings`, `asked` | `email_settings` with the hours of the reminder (`lead`: the first window it may be sent in); a settings request between its connection check and its save |
| `grant` | `GoogleMail.Connected` |
| `mail` | `email_outbox` by `dedupe_key` (booking, version, kind) |
| `sender` | `sendEmailDue` under `emailMu`: picked, send, and Gmail's answer |
| `accepted`, `confirmed`, `told`, `caught` | history |

`Changes` is `queueBookingEmailTx`, called by the actions that stand for
`createBooking`, `patchBooking` and the import, which also moves the time of a
cancelled booking without a message (`ImportMovesCancelled`); the calendar side of a booking
is only its `synced` flag, which `CalendarTurns` sets freely: whatever
`CalendarSync` does, the outbox sees one of these steps. Marking a message
`sending` (`Marks`), Gmail's decision (`Accepts`, `Declines`) and the UPDATE with
the result (`Records`) are separate steps, so a crash or any booking change may
fall between them. `ORDER BY scheduled` is abstracted: any due message may be
next. `MailDisconnect` is one step for the two transactions of the handler; what
a settings request may do between them, it may do after both (`asked`).

### Access

| variable | code |
|---|---|
| `operator` | `operator_identity`; its subject is None until a policy that names only an address is bound |
| `owner`, `connected` | setting `owner`, setting `google_tokens` |
| `mail`, `mailVersion` | the account of `google_mail_tokens`; `mail_authorization_version`, counted |
| `disabled` | setting `bootstrap_disabled` |
| `members` | `workspace_members` by `google_sub`, with `session_version` |
| `invitations`, `sessions` | the tables; a pending invitation past its expiry is *expired* |
| `flows` | a consent flow, from its row in `oauth_states` to the session it opens |
| `waiting` | requests to disconnect the calendar or the mail, or to remove a member, that have passed the check of their session and wait for `ops` |
| `outdated`, `withdrawn` | history: sessions, and flows about to open one, of a member removed since; flows begun before the last withdrawal of the mail grant |

A flow's stage is where `handleCallback` can be overtaken:

| stage | code |
|---|---|
| `open` | the state is stored and the person is at Google |
| `asked` | a connection's callback deleted the row, passed its first checks and asks Google |
| `establishing` | an unknown identity with a set-up session, before `establishOperator`'s transaction |
| `connecting` | `connectAuthorized` holds `ops` and looks for the calendar |
| `granted` | the transaction is done, `newSession` is next |
| `entering` | `newSession` has read the access of the account and has not stored the session |

`Fail` ends a flow in any stage: the person declines, Google fails or leaves a
scope out, a check fails, the process stops. `ops` is the stage `connecting`:
it is the only hold of `ops` that spans a call to Google, so every action that
takes it requires `OpsFree`. Three handlers ask for the session's rights before they
take `ops` and not again (`server.go:273`, `google_mail.go:187`,
`workspace_members.go:150`): `Wait` is such a check when `ops` is held, and `Takes` says that
the change is made by a session that has the right now or by a request that had it when
it began to wait, whatever became of its session since.

Abstractions: the stored roles *owner* and *operator* of a session are one kind,
because every use asks `identityAccess` again; a session's expiry is
`EndSession`; names of sessions, flows and invitations stand for random
identifiers and are used again only when nothing refers to them; sessions and
flows have different names; a connection's reply without a refresh token, when
none is stored, is `Fail`; what a handler reads just before the transaction
that reads it again is part of that transaction's step. `handleGoogleConfigure` and
`migrateInvitationOnlyOwner`, a conversion at the start of old data, are left
out.

### The owner portal

`web/admin.js` is one page with one piece of state; its handlers run to their
next `await` without interruption, so a step of the model is a handler from its
start, or from the answer it awaited, to its next request or its end.

| module | models |
|---|---|
| `PortalShell` | requests under way, flags, revisions, the epoch; what a panel loads; how the timer's chain and `start` go on |
| `PortalSession` | `start`, `refreshSession`, `showSignedOut`, sign-in, configuration, disconnection, log-out, panels, timer, focus, visibility, page cache; the server's sessions |
| `PortalBookings` | the list, the dialog with its unsaved note and status, save, cancel, retry |
| `PortalAccess` | invitations, private links, members, confirmations |
| `PortalEmails` | preferences with unsaved edits, sender, history, confirmed retries |
| `PortalSettings`, `SettingsForm` | the availability form; what it renders, reads, refuses, and what the server accepts |
| `OwnerPortal` | the composition and the properties |
| `PortalHours` | the saved hours as the service reads them, beside `Availability` |

| variable | code |
|---|---|
| `session`, `view`, `activePanel`, `poll`, `entry`, `hidden`, `leaving` | `state.session`; which view is visible; `state.activePanel`; `state.poll` is set; tokens of the address, the outcome of a consent and (history) whether the page was started again while it had a session; `document.hidden`; `location.assign` to Google was called |
| `net.calls` | requests under way, each with what awaits it (`then`), how the server answered (`status`, `answer`) and its `standing` |
| `net.busy` | `refreshingSession`, `loadingBookings`, `saving`, `savingInvitation`, `emailBusy`, ... by the operation that raises them |
| `shown`, `selected`, `fields`; `invitations`, `link`, `pendingRevoke`, `members`, `pendingRemove`; `email`, `form`, `emailDirty`, `pendingRetry`, `pendingDisconnect`; `settings`, `rows`, `dirty`, `resettable` | the fields of `state` and the form fields of the panels |
| `granted`, `google`, `stored`, `issued`, `roster`, `lapsed`, `mail`, `saved` | the server's data as the portal's handlers read and write them |
| `orphaned`, `overlapped`, `settled`, `faults` | history, and the bound of failures |

A handler compares the epoch and the revision it began with to the present ones
and does nothing else with them. The model therefore keeps the result of the
comparison: a call is *live*, *superseded* by a change of its revision, or
*stale* when its epoch has ended. `Superseded` and `Stale` are `++revision` and
`++sessionEpoch`. This keeps the state finite without a bound on the numbers.

The server's side is one step for each request, taken at any time between the
request and its answer; a request that fails for the page may still be handled
(`Remains`). Other owners, Google Calendar, the worker and other devices change
the same data (`BookingChanges`, `DirectoryChanges`, `MailChanges`,
`SettingsChange`, `ConnectionChanges`, `Regranted`); how the server comes to
those changes is the matter of the other modules, and each datum carries a count of
changes so that going back is visible. A refusal by the server (404, 409, a
validation) is a status of its own and needs no fault. Whether the event of a booking
is synced, which a confirmation waits for (`bookings.go:354`), is left open (`MayRefuse`).

Abstractions: kinds, filters and search only choose what is listed; texts,
formatting, focus (but for the list that holds it, `held`) and copying the
link change no state that another operation reads; the history of emails is
one message; the preferences and a booking's note are one value each; the minutes and names
of the settings are copied and left out. The page asks the browser's Intl about the time zone, the server asks
Go, and each knows names that the other does not: the zones are members of `TimeZones`, and
`PageZones` and `ServiceZones` are any two sets of them. A date is a number, and those up to
`LastDate` are written YYYY-MM-DD; a date input holds later years too. `confirm` dialogs are answered yes, a no
being the step not taken. `beforeunload` is not modelled.

### Availability

Pure functions, from the settings, a date, a zone, the present time and both
calendars to the slots of the day: `WallInstant`, `WorkingWindows`,
`BlockedIntervals`, `MergeBusy`, `SubtractBusy`, `CalendarProtection`,
`Conflicts` and `ScheduledSlots` are the functions of the same names. A loop
over minutes or over sorted spans is a fold over the set of them (`OverMinutes`,
`OverSpans`), whose step is the body of the loop (`WindowStep`, `BlockStep`, `Absorb`,
`Cut`). Instants are numbers, `Minute` of them to a minute, so that an event may end
within one and `ceilMinute` matters; a day of the wall clock has `DayMinutes`, and the
code's three hours are `Reach`. A zone is an offset that changes once. Go's `time.Date`
and `In` are modelled as `InZone` and `Offset`.

`Fits` says without an algorithm which times may be offered. Its part on blocked
time is `blockedSchedule.overlaps` (`availability.go:221`), which the service
itself no longer calls. `Right` compares the two: each slot fits, no two overlap, and
for every time that fits there is a slot at it or so shortly before that both
would not fit. It also asks that `conflicts` (the worker's check before it
creates an event, `google.go:486`) lets every slot pass.

`PortalHours` composes this with the portal: a plan that is saved there, with the
minutes of a slot, its buffers, notice and horizon given by `Rules`, is what the service
reads (`With`), and `SavedHoursAreServed` asks that `Right` holds of it.

Abstractions: the ranges of the minutes in `validateSettings`; a zone has one change of
its clock, by whole minutes and by `Reach` at most (`RealZone`), so that zones which
crossed the date line, or in the 19th century kept the sun's time, are left out; a time of
a request is a whole or a half minute. `AddDate`, which ends the horizon, keeps the time of the
wall clock as Go does (`FromWall`).

### BookingClient

| variable | code |
|---|---|
| `kind`, `config`, `date` | the kind of request the page is for; the configuration, its load and whether the form is open; the date input |
| `loads`, `slots`, `selected` | `loadSlots` requests, each with what awaits it and whether its number is still the current one; the times shown; the time chosen |
| `attempt`, `submitting`, `call` | `state.attempt` with its key; the flag; the request that is awaited |
| `receipt` | the saved request that is shown, its checks and its timer |
| `keys`, `wire` | keys made; requests the service has not seen, those the page gave up included |
| `saved`, `taken` | rows by idempotency key; times that others hold |
| `refused`, `overdue`, `faults` | history, and the bound of failures |

The service's side is `createBooking` with its order of decisions: the
validation of the details, the key, the times, the insert. The rest of the
service is what `CalendarSync` is about; here the owner cancels, events become
synced or fail and others come and go (`OwnerCancels`, `CalendarMoves`,
`OthersTake`, `OthersLeave`). A date has one time, so that times of another date
are not offered; services, texts and the customer's details are left out, but
for whether the service accepts them. A page that is reloaded starts anew.

### DevUpdater

| variable | code |
|---|---|
| `published` | `deployment.json` of the release |
| `disk` | what outlives the process: the installed files, `current.json`, `transaction.json`, the directory of the last check, `previous`, the volume with the database, and which release's containers run |
| `u` | the process: the next step, the release, the one before, and the flags of `execute` and `deploy` |
| `accepted`, `promised`, `made` | history: the release committed last, the bookings made with it |
| `unguarded`, `bared`, `faults` | history of two situations described below; the bound of faults |

A release is its number (`runId`, `runAttempt`), a file or the database the
number of the release that wrote it. Every step of `deploy` and `rollback` is
one action with the same three ends (`Step`): it is done; a command fails or a
signal arrives, with the disk as before, half or wholly changed, and the
exception takes its course; or the process is killed, with the same
possibilities for the disk. `Fails` are the commands that cannot succeed, such as compose
with a torn file, or a live check of a broken release.

Abstractions: candidates are removed in every case and leave nothing; the
checks of manifest and image are one step that may fail; two updaters cannot
run (`update.lock`); what was written is not lost by a power failure after
a step has ended (`compose.yaml` and the environment are copied without `fsync`).

### MC modules

`CalendarSyncMC`, `EmailOutboxMC`, `AccessMC`, `OwnerPortalMC` and
`BookingClientMC` give the constants that a `.cfg` cannot write: spans, the
preferences an owner chooses from, accounts and policies, the parts of the
portal, settings, forms and days, configurations. `DevUpdater` needs none.

## Runs

| run | question | bounds |
|---|---|---|
| `calendar_bookings` | no double booking, no booking over a visible event, the book is implemented | 2 bookings, 3 spans of which two overlap within the buffer and one is clear of both, a longer buffer for busy times of the primary calendar, owner moves / deletes / loses the calendar, 1 edit, 1 fault |
| `calendar_sync` | finality, who cancels, when a cancelled booking gives its time back, what may be forgotten, convergence | 1 booking, 2 spans, every kind of edit, 2 edits, 1 fault, fairness |
| `forgotten_change` | violation, see below | 1 booking |
| `email_delivery` | resend, order, truth | 1 booking at one of 2 times, the second after the first by more than a reminder's window (`FarApart`), 2 versions, receipt and reminder; emails off, on, and on with reminders later, where the hours change while a reminder is queued (`HoursMatter`); 1 decline before it is final, 1 crash, manual retry or change to later hours at a time (`OneTrouble`); the mail grant goes and comes |
| `email_live` | nothing waits for ever | reminder and test message, 1 crash |
| `email_off` | violation, see below | 1 receipt |
| `access` | removed members, the calendar owner's access, invitations, pinned identities, connections, withdrawn consent | 2 accounts, a policy with an address, 2 sessions, 2 flows, 2 invitations, 2 joins, 1 withdrawal, grants that end; a behaviour has a mail grant, or a second invitation and a return, but not both (`GrantOrReturn`); 1 request waiting for `ops`, from when a connection holds it, without a mail grant before and with one invitation (`OneWaits`, `WaitsForOps`) |
| `renamed_account` | violation, see below | 2 subjects, one with two addresses, 1 flow |
| `owner_portal` | rights, flags, overlaps, offers, late answers, drafts, forms, the times offered under saved hours | eight parts, below; 2 requests under way, 1 failure, 1 change of each datum, 1 booking, 1 address, 1 member, 2 invitations |
| `portal_live` | the list catches up | the list with orders, timer and visibility; 2 requests, 1 failure, 1 change |
| `booking_client` | nothing saved is forgotten, offers are current, the outcome becomes known | 2 kinds of which one may have no duration, 2 dates, 2 requests, 2 loads under way, 1 fault |
| `dev_updater` | a settled installation is whole, everything can be recovered, the newest release arrives | 3 releases of which the second is broken, 2 bookings, 4 faults |

Why these are enough: the code's decisions about one booking read that row, its
event and the activities, so one booking with every edit covers the protocol;
two bookings are what an overlap, an order of work and "another booking's
event" need. Two edits let the second undo or overtake the first (move then
delete, delete then restore); a fault may fall on any call or be the crash. A version-2 message
beside a version-1 message is what order needs. In `Access` two sessions and
two flows let any flow be overtaken by a flow or a request of another actor,
two invitations let one replace the other, and two joins are a removal and a
return. The mail grant and the members share no state but sessions and flows, and
`GrantOrReturn` keeps the two long histories apart. The client's one fault may fall on any
call, and two requests are what a duplicate needs; a third kind, date or load would repeat
what two show. The updater's four faults let a deployment fail, its recovery fail, and
both happen again to the next release; three releases are one that serves, one that is rolled
back and one that has to arrive afterwards. The counters `edits`, `faults`,
`retries`, `MaxVersion`, `MaxJoins` and `MaxWithdrawals` only bound the environment; the code's own counters
are `MaxAttempts` (5 in the code, small here) and the generations, which grow
only with edits.

The portal's panels share only the session, the panel that is open and the
flags of the Google operations. `owner_portal` therefore follows the page in
eight parts (`EveryPart`), each a set of operations with every interleaving of
them; a load that is not in `part.does` is simply not begun. The parts overlap
where panels meet: the session with invitations and members (a role that is lost),
with emails (a session that ends), with the Google operations (their flags and
`sessionRequest`). Two requests under way are what one overtaking another needs,
and a third would only wait behind one of them; one failure may fall on any
request; one change of a booking, list or preference tells before from after,
and a second would repeat it. The forms of the availability are 26: two windows
of a day in every order and overlap, empty and inverted hours, missing and
repeated dates, closings and blocks of every kind, a time zone for each of what browser
and server may say of it, and dates after the year 9999.

`SavedHoursAreServed` takes every plan that the portal can save through
`Availability`: on four days (with an exception, without one, with two windows, with an
evening that ends near midnight), in seven zones (the clock turned forward or back
at midnight, at noon, in the afternoon, or not on that day), with and without
buffers and events in both calendars, which begin, end or touch at edges and
within a minute, and at four times of the request. An hour of these days is one
minute, so that a change of the clock is a jump of one minute and `Reach` is 3; the code
compares and counts minutes and nothing in it depends on there being sixty to an hour.
The theorem below is for any numbers. TLC
works the comparison out once, before it explores the states.

In the access runs (`access`, `renamed_account`) the names of sessions, flows and invitations are
symmetric; they check no liveness, so this is sound.

Deadlock is checked in the access runs, where a sign-in can always begin or
end. It is not checked in the others: with all bookings made and cancelled
and the bounds used up, the system rests.

## Fairness

`CalendarSync`: the worker and the timer refresh run in a goroutine with a
5-second ticker, so each is weakly fair once it can move; waiting for `ops` is
strongly fair because Go's RWMutex starves neither readers nor a writer; a
back-off ends; a request that was sent arrives or is lost. No fairness is
assumed of the booking handler, the portal, the owner, faults or connections.

`EmailOutbox`: strong fairness for the pass over leases and due messages (each
pass starts with the leases and takes messages in order), weak for the steps of
a send, whose calls have time-outs. Strong fairness of `Marks` says that the
forced refresh before a reminder does not fail every time: a reminder really is
postponed for as long as the calendar cannot be read.

`Access` states no liveness and assumes no fairness.

`BookingClient` (`Fairness`): the service works off what it was sent, and every
call of the page ends, because fetch has a limit of 25 seconds and promises
settle. Nothing is assumed of the visitor: `OutcomeKnown` speaks of one who keeps
checking a request whose outcome is unknown. Faults are bounded, which stands for
"not every answer is lost".

`DevUpdater` (`FairSpec`): the timer starts the updater 60 seconds after it
ended, and every command has a time limit. Faults are bounded, and
`NewestArrives` excepts the journal, which by design waits for an operator.

`OwnerPortal` (`Fair`): the timer fires when it is due (weak); every request for a
session, the list or an order is answered and its answer is handled (weak): the
browser's fetch has a 25-second limit and promises settle. No fairness is
assumed of failures, of the owner or of visibility. `CatchesUp` holds
of behaviours in which the page in the end stays visible with the list and the
owner is not saving; an endless series of saves may keep superseding the loads, and a
hidden page is not refreshed.

## Proofs

`CalendarSync_proofs` proves, for every number of bookings and every set of
spans, buffers, edits and bounds that satisfies the named assumptions:

* `TypeCorrect` (`TypeOK`).
* `TimeReleasedWhenGone` (`ReleasedOnlyWhenGone`): a cancelled booking gives its time back
  only when Google shows no event of it, or the event came back without the worker (`returned`: the
  owner restored it, or a given-up insert arrived). `SyncInv` says that no row is ahead
  of its own generation and that a worker's generation is never ahead of its
  row's, so that a write back with an old generation is recognised; `GoneInv` (over `Gone`)
  that the worker which is about to settle a cancellation of this generation, and a
  refresh's snapshot that would, have seen the event gone.
* `CancelledStaysCancelled` (`CancelledForGood`), from type correctness.
* `NeverDoubleBooked` (`NoDoubleBooking`). The strengthening `SpansFollow` says where a
  span can come from: an event, a late insert, the worker's job and the
  refresh's snapshot of a booking the owner never moved all carry the row's
  own span; so an import never changes the span of an unmoved row, and the
  insert's own check does the rest.
* `NothingElseIsForgotten` (`ForgottenOnlyInWindow`). `FeedInv` says that a row
  which claims to agree with Google (*synced*, or about to be written so by a worker
  of its generation) agrees, or Google still has the change to report, or a
  refresh has passed it in the window. To be inductive this has to be said of the
  refresh's snapshot and next token too (`SnapshotInv`), of what the worker knows of
  its row and of the event it found (`KnowsInv`, `CarriesInv`), and that the two
  never hold `ops` together (`OpsInv`).
* `RowsImplementBook` (`ImplementsBook`): every step of `CalendarSync` is, for the
  rows, a step of `AppointmentBook` or a stutter. `Moves` says what an UPDATE of
  `BookingStore` may do to a row's phase and span, one lemma for each; a step that
  updates rows settles the book (`MovesSettle`), and the insert accepts a request
  because its trigger found the time free of every held row (`InsertAccepts`). The
  generations (`SyncInv`) are what keeps a worker's late write back from settling a row
  that has moved on.
* `OnlyTheOwnerCancels` (`OnlyOwnersCancel`). `OwnerInv` adds to `FeedInv` and
  `SpansFollow` that only bookings which exist are noted anywhere (`NotedInv`), and, of
  every appointment that is on, that whoever takes its event for removed, or would
  take its absence for a removal, is right: the owner removed it, or the whole
  calendar is lost (`CancelInv`).
* `NewBookingsAvoidGoogle` (`NewBookingAvoidsCalendar`): a shown event stands where
  its row is, or a change of it has still to be read (`PlaceInv`, of the refresh's snapshot
  too); and from the handler's own refresh to its insert only a change of the
  event, or a refresh that overtook it, can part the two (`SinceInv`), which are the exceptions
  the property names. What is left is the insert's check of the rows. The property
  speaks of `Buffer`: `ExternalBuffer` protects the other events of the owner's
  calendars, and events of bookings are exempt from it.

`Access_proofs` proves, for any accounts (several with one subject, or with one
address), policies, sessions, flows, invitations and bounds that satisfy
`AccessAssumption`:

* `TypeCorrect` (`TypeOK`), action by action.
* `RemovedMembersStayOut` (`RemovedStaysOut`). The property speaks of sessions
  only, and is not inductive: a session may be stored after the removal by a
  `newSession` that read the access before it. `AccessInv` therefore speaks of
  *holders*, sessions and flows that are about to open one: version 0 is held by
  the operator's and the calendar's subject alone, nobody holds a version ahead
  of the member's, whoever joined has a version above 0, and an outdated
  holder's version is one its member has left or leaves on return (`Spent`).
  Every step is then one of two: what is held afterwards was held before, or
  was read from the access of this moment (`HoldersStep`); versions only grow
  (`MembersStep`) and subjects are pinned (`Pinned`).
* `IdentitiesStayPinned` (`IdentitiesPinned`). A connection may replace the
  owner's address, never the subject: the part `ConnectingInv` of the invariant
  says that one flow at a time holds `ops`, for the subject that was the
  owner's when it took it.
* `OneInvitationPerAddress` (`OneLiveInvitation`).
* `ConnectionsAreAllowed` (`ConnectsWhileAllowed`), `WithdrawnGrantsStayOut`
  (`WithdrawnStaysWithdrawn`) and `MembersAreInvited` (`JoinsByLiveInvitation`), from
  `ConsentInv`: what a flow is about, in each of its stages, and that a flow begun before a
  withdrawal has an older version of the mail authorization.
* `CalendarOwnerKeepsAccess` (`CalendarOwnerHasAccess`), under the hypothesis
  `AddressesStay` that accounts of one subject have one address. The hypothesis is needed:
  `renamed_account` shows the owner locked out without it. The strengthening says that a
  member's row has the address of an account of its subject (`MemberEmailsInv`), that nobody
  joins before the set-up sign-in is closed (`SetUpInv`), and that a connection under
  way is for the account of the session that asked for it (`ConnectorInv`).

`EmailOutbox_proofs` proves, for any appointments, times, preferences and bounds:

* `TypeCorrect` (`TypeOK`).
* `NeverResentUnasked` (`NoAutomaticResend`). `EmailInv` says that a message
  which may be sent without asking (`Unsent`) has been taken no more often than
  confirmed (`RowsInv`), that the message at Gmail is *sending* (`JobInv`), so
  that neither a lease nor a retry touches it, and that attempts keep behind
  their bound (`CountsInv`).
* `CustomersAreToldInOrder` (`ToldInOrder`), from "no message is ahead of its
  appointment" (`FreshInv`) and "what is at Gmail is not older than what was told"
  (`ToldInv`).
* `MessagesAreTrueWhenTaken` (`TrueWhenTaken`), from `AtGmailInv`, and for the hours of the
  reminder from `TimedInv`: a queued reminder that was not tried yet is scheduled by the hours chosen last
  (`HoursInv`, `WindowInv`), because the save of the hours schedules it anew.

`BookingClient_proofs` proves `NothingSavedIsForgotten` (`SavedIsKnown`) and
`OffersAreCurrent` (`OfferIsCurrent`) for any kinds, dates, configurations and
bounds. `ClientInv` follows the copies of a request: what is on its way is the
request that is tried, the one that is shown, or one that was refused for good
(`WireInv`), an answer is about the request that is awaited (`ReplyInv`), and a
refused key is saved only by an overdue copy (`SavedInv`); `PageInv` and
`RefusalInv` relate the page's flags to what is under way.

`DevUpdater_proofs` proves `AlwaysSettled` (`SettledIsWhole`), `AlwaysRecoverable`
(`Recoverable`) and `TypeCorrect` for any releases, broken releases, bookings and
numbers of faults. Neither property is inductive: what is in place depends on
the step the updater is at. `UpdaterInv` says for each phase what is there:
while looking, settled or at rest without a journal, the accepted generation is
`Intact`; from the copy of the files on they are kept (`KeepsFiles`), and from
the snapshot on the data are kept and no container of the accepted release
writes them (`KeepsData`) until they are restored; a recovery that began before the
journal was published has moved nothing (`Unmoved`) and can tear only files; and
`previous` is complete but between its removal and the renaming. Each step is
one lemma with two cases: it is done, or it ended early, where one lemma per
phase (`LookingEnds`, `DeployEnds`, `SettlingEnds`, `BackFails`) covers all
failures, signals and kills.

`OwnerPortal_proofs` proves, for any parts, bookings, addresses, people, preferences,
settings and bounds that satisfy the named assumptions:

* `PortalTyped` (`TypeOK`) and `NothingBeyondRightsHolds` (`NothingBeyondRights`), from
  `PortalInv`. A late answer can restore what a session lost only if its call still
  counts, so the invariant is about calls: a live one is one the session may make, a
  page that is signed out waits for its start or for Google only (`Rightful`), and
  every call carries arguments and answers of its kind (`Asked`, `Told`). With it go
  the page (`PageInv`, `SideInv`) and one part per panel (`BookingsInv`, `AccessInv`,
  `EmailsInv`, `SettingsInv`). A step of the shell is proved to leave the calls fitting the new
  session as seen by the old panels (`CoreNext`), and then the panels follow
  (`CoreFollows`), as `OwnerPortal` composes them.
* `BusyHasCauseHolds` (`BusyHasCause`) and `NoOverlapHolds` (`NoOverlap`), from `OrderInv`. A
  flag and the call that will lower it are each other's reason, so neither property is
  inductive alone: `Caused` and `Raised` are the two directions, `Alone` says that one
  call of a kind is waited for, and `Onward` which calls lead on to what follows
  `start`. A load of the list counts as waited for even when it is superseded,
  because its handler alone lowers its flag (`Waits`). Operations without a flag
  (`start`, the load of the availability), and some with one, are waited for in certain
  states only (`MayWait`); two reloads of the availability that overlap are the
  exception that the properties name (`Free`).
* `OffersStandHolds` (`OffersStand`), from `OffersInv`: no end of a call opens the access
  panel, and what it offers goes with it.
* `DraftsKeptHolds` (`DraftsKept`): while no save is under way, only an answer of
  `loadBookings` changes the list under an open dialog, by `Raised`.

Then `OwnerPortal_proofs` turns to what the answers may do to what is shown. What a waiting call
says is its arguments, if it is an order under way, and its answer, if it succeeded (`Tells`,
`Fact`). A step *brings* what live calls say after it and did not say before (`Brings`). Most
steps bring nothing: the nets of which nothing else is known (`Known`) are closed under everything
that a page does with its calls but the giving of orders and the answering (`Closed`), and each of
those brings one fact. The operations that exclude each other never have two flags raised
(`FlagsApart`), and no list of bookings is waited for while a booking is changed (`Quiet`). On this
base (`BaseInv`) each panel has an invariant that relates what its calls say to what the server has
and what the page shows:

* `EmailDraftKeptHolds` (`EmailDraftKept`), from `DraftInv`: while preferences are
  being saved they are what the form holds.
* `EditsSurviveHolds` (`EditsSurvive`), from `EditsInv`: a save under way is of what
  the form holds, unless two reloads overlapped.

`OwnerPortalAnswers_proofs` goes on with the other panels:

* `NothingRevivedHolds` (`NothingRevived`), from `ListInv` and `PeopleInv`: what has been revoked or
  removed is so at the server, in the list, and in every answer on its way that still counts.
* `NothingGoesBackHolds` (`NothingGoesBack`), from `ShownInv`, `MailInv` and `GoogleInv`: every
  answer on its way that counts lies between what is shown and what the server has.
  That an order's answer cannot pass one that is newer rests on what excludes
  what: of two calls that could bring the same datum only one counts (`Quiet` for
  bookings, `OneLetter` for emails, `OneSession` for the connection). The last fails
  after "Try again" with a session, which is the exception that the property names (see below).
* `FormAgreesHolds` (`FormAgrees`): for every form, all settings and any two sets of time zones that
  browser and server know. Two lemmas carry it. `ReadAccepted`: what `readSettings` finds no
  problem with is written as the page writes settings (`Written`), and the server accepts it, with
  the exceptions that `Unseen` names: more than 35 hours or 365 dates, which only the server
  counts, a time zone that Go does not know, and an exception on a date after the year
  9999, which is not YYYY-MM-DD. `RenderedAgain`: settings so written and accepted are
  read back as they were, and shown without a problem unless this browser does not know their time zone, so that their days, their stable sort by
  start (`ByStart`) and the two kinds of time off (`At`) come back in their old order. Neither
  is an induction over sequences: `InOrder` puts a finite set in the order of a relation
  by counting what comes before each member, and `InOrderOnly` says that no other
  sequence does, which makes two sequences equal. `FormInv` then says
  that what the server has, what is shown, and what any request to save it carries, even one that
  nobody waits for any more, is so written and accepted (`Agreed`, `Saves`).
* `SavedHoursAreServedHolds` (`SavedHoursAreServed`): what is so written and accepted has
  periods that do not overlap on a weekday and end after they start (`AgreedAreReal`), which is what
  `OffersAreRight` (below) asks of settings.

`Availability_proofs` proves `OffersAreRight`: `Right` holds of every settings the service
accepts (`RealSettings`), every zone (`RealZone`), date, time of the request and calendars
whose intervals `busyCalendars` lets through (`Intervals`: finitely many, none of them empty),
whatever the numbers of instants and minutes. The loops are folds over
finite sets. What a fold computes is not had by an induction theorem here, so it is had without
one: a statement that holds of the empty part of a walk, and of a part whenever it holds of that
part without its last member, holds of all of the walk, or else there would be a smallest part
of which it does not (`SmallestSet`, `FromBelow`); that the fold has the value of its loop is
shown in the same way (`FoldExists`). On this rest one lemma for the body of each loop and one
for the loop:

* `AbsorbMerges`, `MergeBusyMerges`: the merged intervals have gaps between them and cover the
  same instants.
* `CutCuts`, `SubtractFrees`: the free intervals keep off the list, and every span of the
  window that does is in one of them.
* `BlockStepBlocks`, `BlockedIntervalsBlock`: every blocked minute is covered with the buffer
  before it, and any other minute that is covered is within the buffer before a blocked one.
* `WindowStepWorks`, `WindowsOfWindow`: the windows of a period hold exactly its minutes that the clock shows
  once, in intervals over which the clock keeps its offset.
* `WallIs`, `CertainIs`: instants of one wall time are within `Reach`, so that `wallInstant` and the
  walk over the date look far enough; the check of a start succeeds exactly on a clock that
  does not jump.
* `StartsAre`, `RungIs`: the starts that are tried in a free interval are a ladder on which every slot has a
  rung so shortly before it that the two would overlap.

From these, a slot that is offered fits (`SlotsFit`), two that are offered are apart
(`SlotsApart`), and a time that fits is inside one window (`WorkingIsWorked`) and in its free
time (`FitIsOff`), where a rung is offered for it (`FitIsServed`).

The assumptions on the constants say that there are notes and preferences, that the two
statuses the code names exist, that the bounds are numbers, and that `None`, which stands
for a null of the page, is none of the values it is told apart from: a booking, a list
of bookings, or an answer about the emails. `SettingsAssumption` says that the hours of new rows
are in order (9 before 5, 12 before 1), and that the settings stored at first or by other
owners are written as the page writes them and accepted, which `defaultSettings` and every save of
this page, in whichever browser, are; that all of these are hours of the clock; and nothing
of the time zones but that the two sets are of `TimeZones`. `HoursAssumption` says
that the days, rules, zones and calendars that are looked at are such as the theorem above takes, and
that the portal and the service mean the same clock (`DayMinutes = Midnight`).

Every invariant and every action property that the passing runs check is stated by a
theorem. Only model-checked: liveness, which the prover does not reach under
fairness.

## Disagreements found

* `forgotten_change`: `syncDue` marks a row synced after `Sync` released `ops`
  (`bookings.go:422`). A refresh in that window reads the owner's restore (or
  a late insert) of a booking whose delete just succeeded, finds the row still
  pending, and leaves it; its new token has passed the change. The UPDATE then
  settles the row, and the event stays in Google. `ForgottenOnlyInWindow` shows
  that this window is the only one.
* `email_off`: a message in flight while emails are turned off is queued again
  when Gmail declines it (`notifications.go:369`), although the documents say
  that pending messages are skipped.
* `renamed_account`: `claimInvitation` compares addresses only
  (`invitations.go:210`). When the calendar's Google account has a new address,
  it can accept an invitation for that address; from then on `identityAccess`
  judges the account by its row of members, whose address is not the stored
  owner's, and nobody may reconnect or disconnect the calendar. The documents
  and `workspace_members.go:187` say that the calendar account keeps its access.

The models had to allow for what follows too, and each is a flaw worth mending. Only of one
is there a document that promises otherwise (the journal of the updater, below); none is a
run of its own, and the properties name them as exceptions. In the portal:

* "Try again" (`admin.js:781`) starts a new epoch without lowering the flags of
  the old one. After a sign-in that was under way, `connecting` stays raised and
  Google cannot be opened until the page is reloaded. `orphaned` records these flags,
  and `BusyHasCause` excepts them.
* The sign-in view may have a full session: it was shown for the private set-up, another
  tab signed in, and an import of the Google configuration (832) read
  that session. "Try again" then keeps it while `start` asks for it anew; a refresh may
  run beside `start` (a page that becomes visible, 771), nothing tells which of the two
  answers is newer, and the older Google connection may be shown last. It takes two changes
  of the connection. `entry.again` records this, and `NothingGoesBack` excepts it.
* Leaving for Google leaves `connecting` or `emailBusy` raised; if the
  navigation is cancelled, the page stays that way (`leaving` in `BusyHasCause`).
* `loadSettings` (354) has neither a flag nor a revision: with "Reload
  availability" pressed twice, the second answer overwrites edits made after the
  first, and unlocks the form while it is saved, so that a second save can
  overlap the first. `overlapped` records this; `EditsSurvive` and `NoOverlap` except it.
* A cancellation or a retry of a booking (264) renders its dialog anew and drops an
  unsaved note; a save of the status sends the note as last shown (855), and so
  undoes another owner's note.
* The availability form takes a time zone by the browser's word and a date of any year, and the
  server does not (`admin.js:362`, `availability.go:79`, 116): the save is refused with a message. A
  stored time zone that a browser does not know cannot be saved again from it. `FormAgrees` names both.
* An error of one booking's order is shown in the dialog of whichever booking is
  open (267). A timer callback that is past its check of `document.hidden` goes on
  loading while the page is hidden (760).

In the booking page:

* When the service has no time left for a request, the page forgets it. A copy of
  the request that was given up earlier and arrives later may find the time free
  again and is saved without the visitor knowing. `overdue` records this, and
  `SavedIsKnown` excepts it.
* The key of a request whose outcome is unknown lives in the page only; a reload
  forgets it (`state.attempt`, `dist/booking.js:50`).

In the development updater:

* When `transaction.json` cannot be written (a full disk), `rollback` runs although nothing
  was changed yet, and copies the kept files over the installed ones. If that fails too, a
  torn file stays and no journal holds back the next poll, although
  `server/dev/README.md:36` says that directory and journal are retained. `unguarded` records this.
* A second signal that arrives between the first one and the line that ignores
  signals ends `rollback` before it began, and the recovery files are deleted. `bared` records this.
* An end between the commit and the removal of the journal leaves a journal that
  names a directory which has been renamed or deleted, while line 321 tells the operator
  that it identifies the retained recovery files. The release itself is whole.

## Limits

Not modelled, and why:

* the rate limiter (`server.go:125`): counters of one handler, without effect on
  any other state; a unit test reaches its limit.
* the static updater: it replaces one container that has no data and keeps no
  journal; after a failed recovery its files stay and the next poll goes on.
* the opening of the store: runs once, before anything else does, and a second
  process is kept out by the lock of the directory.
* launchers and checks, the preview proxy, the static site, configuration files:
  input, output and layout without state of their own.

Not modelled by
choice: how pages look, the preview proxy and the browser tests, message
texts and MIME encoding, encryption of stored values, vendored and generated
code, launch scripts. In `EmailOutbox`, a message that reaches Gmail after its client has
given up is taken to arrive before the failure is recorded. The models of the service take a
SQL statement that the code ignores the error of to succeed.
