---------------------------- MODULE CalendarSync ----------------------------
(***************************************************************************)
(* Appointments in the local database and their events in the business     *)
(* owner's Google calendar: the public booking handler, the owner's portal *)
(* handlers, the calendar worker (syncDue / Google.Sync), the refresh that *)
(* reads Google's changes back (Google.Refresh), connection changes and    *)
(* recovery of a lost calendar, against an owner who edits the calendar in *)
(* Google and a network that loses requests and answers.                   *)
(*                                                                         *)
(* Bookings are numbered in the order of created_at.  The random id, the   *)
(* idempotency key and "d"+id, the stable event id, all stand for the same *)
(* number: a repeated submission finds the row and changes nothing.        *)
(***************************************************************************)
EXTENDS BookingStore, FiniteSets

CONSTANTS
  N,          \* bookings that may be made
  OwnerEdits, \* what the owner may do in Google, and disconnect from it
  MaxEdits,   \* bound: such edits by the owner
  MaxFaults   \* bound: crashes, failed requests, lost answers

ASSUME NAssumption == N \in Nat

ASSUME EditsAssumption ==
  OwnerEdits \subseteq {"move", "delete", "restore", "series", "moveout", "calendar", "busy",
                 "disconnect"}

ASSUME BoundsAssumption == MaxEdits \in Nat /\ MaxFaults \in Nat

VARIABLES
  row,          \* the bookings table
  event,        \* the booking calendar in Google, by stable event id
  calendarLost, \* the calendar the owner record names is gone from Google
  primary,      \* busy spans of the owner's primary calendar
  connected,    \* google_tokens are stored
  cursor,       \* the stored sync token: "none", "valid", "expired" at Google
  feed,         \* events changed at Google since the valid token was issued
  late,         \* inserts whose client gave up and that may still arrive
  worker,       \* syncDue and the Google.Sync it runs
  refresh,      \* Google.Refresh, at most one under ops.Lock
  create,       \* createBooking, at most one under bookingMu
  moved,        \* history: the owner has given this event a time in Google
  removed,      \* history: the owner has removed this event in Google
  returned,     \* history: the event came (back) without the worker's doing:
                \* the owner restored it, or a request given up arrived
  overtaken,    \* history: a refresh passed between Google's answer about this
                \* booking and the worker's UPDATE, and left the row alone
  edits,        \* owner edits so far
  faults        \* faults so far

google == <<event, calendarLost, primary, feed, late, moved, removed, returned, edits>>
vars   == <<row, google, connected, cursor, worker, refresh, create, faults, overtaken>>

Bookings == 1..N

-----------------------------------------------------------------------------
(* Events.  "none": Google has nothing under this id; "deleted": a         *)
(* tombstone; "series": turned into a recurring event, which the service   *)
(* refuses to import.                                                      *)

Event   == [kind : {"none", "live", "series", "deleted"}, span : Spans]
NoEvent == [kind |-> "none", span |-> AnySpan]
Live(s) == [kind |-> "live", span |-> s]
Tombstone(ev) == [ev EXCEPT !.kind = "deleted"]

Shown(ev) == ev.kind \in {"live", "series"}

\* Google.matchesEvent: not cancelled, ours, and at the booking's time.  It
\* does not look at the recurrence.
Matches(ev, s) == Shown(ev) /\ ev.span = s

\* externalBusy: an event is known only while its row holds the time it shows.
Known(b, ev) == Held(row[b]) /\ ev.kind = "live" /\ ev.span = row[b].span

ExternalBusy ==
  primary \cup {event[b].span : b \in {c \in Bookings : Shown(event[c]) /\ ~Known(c, event[c])}}

\* Mutant: a cancellation gives its time back before Google has let go of it.
FreeOfActive(s, others) == \A b \in others : Active(row[b]) => ~Overlaps(s, row[b].span)

\* Mutant: a request waits for its event before it takes the time.
FreeOfSynced(s, others) ==
  \A b \in others : Held(row[b]) /\ row[b].cal = "synced" => ~Overlaps(s, row[b].span)

\* localBusyExcept with the margins of calendarProtection.
FreeLocally(s, others) == \A b \in others : Held(row[b]) => ~Overlaps(s, row[b].span)
FreeOf(s, busy) == \A x \in busy : ~Touches(s, x)

-----------------------------------------------------------------------------
(* The three activities.                                                   *)

CallStates == {"call", "import", "check", "post", "reget"}

Worker == [at : {"idle", "ready", "ok", "err"} \cup CallStates,
           job : 0..N, status : Statuses \cup {"absent"}, span : Spans, gen : Nat,
           found : Event]

IdleWorker == [at |-> "idle", job |-> 0, status |-> "absent", span |-> AnySpan,
               gen |-> 0, found |-> NoEvent]

Refresh == [at : {"idle", "read", "apply"}, by : {"timer", "create"}, full : BOOLEAN,
            recovered : BOOLEAN, listed : SUBSET Bookings, saw : [Bookings -> Event],
            since : SUBSET Bookings]

IdleRefresh == [at |-> "idle", by |-> "timer", full |-> FALSE, recovered |-> FALSE,
                listed |-> {}, saw |-> [b \in Bookings |-> NoEvent], since |-> {}]

Create == [at : {"idle", "refresh", "external", "local", "insert"}, span : Spans,
           busy : SUBSET Spans, changed : SUBSET Bookings]

IdleCreate == [at |-> "idle", span |-> AnySpan, busy |-> {}, changed |-> {}]

\* Google.ops: a running Sync holds it shared, a running Refresh alone.
SyncHoldsOps    == worker.at \in CallStates
RefreshHoldsOps == refresh.at # "idle"

\* Google records that these events changed: in the change feed of the valid
\* token, and of the token a read in progress will be given.  create.changed is
\* a history variable: what changed since the booking handler's own refresh.
Changed(S) ==
  /\ feed' = IF cursor = "valid" THEN feed \cup S ELSE feed
  /\ refresh' = IF refresh.at = "apply" THEN [refresh EXCEPT !.since = @ \cup S] ELSE refresh
  /\ create' = IF create.at \in {"external", "local", "insert"}
                 THEN [create EXCEPT !.changed = @ \cup S] ELSE create

Edit(kind) == kind \in OwnerEdits /\ edits < MaxEdits /\ edits' = edits + 1

Fault == faults < MaxFaults /\ faults' = faults + 1

-----------------------------------------------------------------------------
Init ==
  /\ row = [b \in Bookings |-> NoRow]
  /\ event = [b \in Bookings |-> NoEvent]
  /\ calendarLost = FALSE
  /\ primary = {}
  /\ connected = TRUE
  /\ cursor = "none"
  /\ feed = {}
  /\ late = {}
  /\ worker = IdleWorker
  /\ refresh = IdleRefresh
  /\ create = IdleCreate
  /\ moved = {}
  /\ removed = {}
  /\ returned = {}
  /\ overtaken = {}
  /\ edits = 0
  /\ faults = 0

-----------------------------------------------------------------------------
(* createBooking and availableSlots: a fresh read of Google, the external  *)
(* busy times, the local ones, then the insert under the overlap trigger.  *)

IsNext(b) == ~Exists(row[b]) /\ \A c \in 1..(b - 1) : Exists(row[c])

CreateBegin(s) ==
  /\ create.at = "idle"
  /\ \E b \in Bookings : IsNext(b)
  /\ connected
  /\ create' = [at |-> "refresh", span |-> s, busy |-> {}, changed |-> {}]
  /\ UNCHANGED <<row, google, connected, cursor, worker, refresh, faults, overtaken>>

\* refreshCalendar returns nil without reading when the tokens have gone.
CreateSkipsRefresh ==
  /\ create.at = "refresh"
  /\ ~(RefreshHoldsOps /\ refresh.by = "create")
  /\ ~connected
  /\ create' = [create EXCEPT !.at = "external", !.changed = Bookings]
  /\ UNCHANGED <<row, google, connected, cursor, worker, refresh, faults, overtaken>>

CreateReadsExternal ==
  /\ create.at = "external"
  /\ ~RefreshHoldsOps
  /\ connected /\ ~calendarLost
  /\ create' = [create EXCEPT !.at = "local", !.busy = ExternalBusy]
  /\ UNCHANGED <<row, google, connected, cursor, worker, refresh, faults, overtaken>>

\* Any failed read ends the request: no slot is offered on old knowledge.
CreateFails ==
  /\ create.at = "external"
  /\ IF connected /\ ~calendarLost THEN Fault ELSE UNCHANGED faults
  /\ create' = IdleCreate
  /\ UNCHANGED <<row, google, connected, cursor, worker, refresh, overtaken>>

CreateReadsLocal ==
  /\ create.at = "local"
  /\ create' = IF FreeOf(create.span, create.busy) /\ FreeLocally(create.span, Bookings)
                 THEN [create EXCEPT !.at = "insert"] ELSE IdleCreate
  /\ UNCHANGED <<row, google, connected, cursor, worker, refresh, faults, overtaken>>

\* The trigger prevent_booking_overlap looks again, in the same statement.
InsertAllowed(s) == FreeLocally(s, Bookings)

CreateInserts ==
  /\ create.at = "insert"
  /\ \E b \in Bookings :
       /\ IsNext(b)
       /\ row' = IF InsertAllowed(create.span)
                   THEN [row EXCEPT ![b] = NewRow(create.span)] ELSE row
  /\ create' = IdleCreate
  /\ UNCHANGED <<google, connected, cursor, worker, refresh, faults, overtaken>>

-----------------------------------------------------------------------------
(* The owner's portal.                                                     *)

\* Mutant: the handler forgets that a cancelled booking is closed.
PatchStatusOfAny(b, st) ==
  /\ Exists(row[b])
  /\ st = "confirmed" => row[b].cal = "synced"
  /\ row' = [row EXCEPT ![b].status = st]
  /\ UNCHANGED <<google, connected, cursor, worker, refresh, create, faults, overtaken>>

PatchStatus(b, st) ==
  /\ Active(row[b])
  /\ st = "confirmed" => row[b].cal = "synced"
  /\ row' = [row EXCEPT ![b].status = st]
  /\ UNCHANGED <<google, connected, cursor, worker, refresh, create, faults, overtaken>>

PatchCancel(b) ==
  /\ Active(row[b])
  /\ row' = [row EXCEPT ![b] = PortalCancel(@)]
  /\ UNCHANGED <<google, connected, cursor, worker, refresh, create, faults, overtaken>>

Retry(b) ==
  /\ Exists(row[b]) /\ row[b].cal # "synced"
  /\ row' = [row EXCEPT ![b] = PortalRetry(@)]
  /\ UNCHANGED <<google, connected, cursor, worker, refresh, create, faults, overtaken>>

-----------------------------------------------------------------------------
(* The calendar worker.                                                    *)

\* next_attempt passes.
BackoffEnds(b) ==
  /\ row[b].waiting
  /\ row' = [row EXCEPT ![b].waiting = FALSE]
  /\ UNCHANGED <<google, connected, cursor, worker, refresh, create, faults, overtaken>>

WorkerPicks(b) ==
  /\ worker.at = "idle"
  /\ Due(row[b])
  /\ \A c \in 1..(b - 1) : ~Due(row[c])
  /\ worker' = [at |-> "ready", job |-> b, status |-> row[b].status, span |-> row[b].span,
                gen |-> row[b].gen, found |-> NoEvent]
  /\ UNCHANGED <<row, google, connected, cursor, refresh, create, faults, overtaken>>

SyncEnters ==
  /\ worker.at = "ready"
  /\ ~RefreshHoldsOps
  /\ worker' = [worker EXCEPT !.at = "call"]
  /\ UNCHANGED <<row, google, connected, cursor, refresh, create, faults, overtaken>>

CanCall == connected /\ ~calendarLost

\* A request that is not answered, or not usefully: the call ends in an error.
\* Without tokens or without the calendar that costs no fault.
SyncFails ==
  /\ \/ /\ worker.at \in {"call", "reget"}
        /\ IF connected THEN Fault ELSE UNCHANGED faults
     \/ /\ worker.at \in {"check", "post"}
        /\ IF CanCall THEN Fault ELSE UNCHANGED faults
  /\ worker' = [worker EXCEPT !.at = "err"]
  /\ UNCHANGED <<row, google, connected, cursor, refresh, create, overtaken>>

\* 404 and 410 count as deleted.  The answer may be lost after the effect.
SyncDeletes ==
  /\ worker.at = "call" /\ worker.status = "cancelled"
  /\ connected
  /\ \/ worker' = [worker EXCEPT !.at = "ok"] /\ UNCHANGED faults
     \/ worker' = [worker EXCEPT !.at = "err"] /\ Fault
  /\ IF Shown(event[worker.job])
       THEN /\ event' = [event EXCEPT ![worker.job] = Tombstone(@)]
            /\ Changed({worker.job})
       ELSE UNCHANGED <<event, feed, refresh, create>>
  /\ UNCHANGED <<row, calendarLost, primary, late, moved, removed, returned, edits, connected,
                 cursor, overtaken>>

\* GET: an event as expected, another event to import, or 404.
SyncGets ==
  /\ worker.at = "call" /\ worker.status # "cancelled"
  /\ connected
  /\ LET ev == event[worker.job] IN
       worker' = CASE ev.kind = "none"         -> [worker EXCEPT !.at = "check"]
                   [] Matches(ev, worker.span) -> [worker EXCEPT !.at = "ok"]
                   [] OTHER                    -> [worker EXCEPT !.at = "import", !.found = ev]
  /\ UNCHANGED <<row, google, connected, cursor, refresh, create, faults, overtaken>>

\* applyCalendarSnapshot of the one event, without cursor.
SyncImports ==
  /\ worker.at = "import"
  /\ IF worker.found.kind = "series"
       THEN worker' = [worker EXCEPT !.at = "err", !.found = NoEvent] /\ UNCHANGED row
       ELSE /\ worker' = [worker EXCEPT !.at = "ok", !.found = NoEvent]
            /\ row' = [row EXCEPT ![worker.job] = ImportEvent(@, worker.found)]
  /\ UNCHANGED <<google, connected, cursor, refresh, create, faults, overtaken>>

SyncChecksConflict ==
  /\ worker.at = "check"
  /\ CanCall
  /\ worker' = IF /\ FreeOf(worker.span, ExternalBusy)
                  /\ FreeLocally(worker.span, Bookings \ {worker.job})
                 THEN [worker EXCEPT !.at = "post"] ELSE [worker EXCEPT !.at = "err"]
  /\ UNCHANGED <<row, google, connected, cursor, refresh, create, faults, overtaken>>

\* POST under the stable id: inserted and answered, inserted with the answer
\* lost, not yet arrived when the client gives up, or 409.
SyncPosts ==
  /\ worker.at = "post"
  /\ CanCall
  /\ IF event[worker.job].kind = "none"
       THEN \/ /\ event' = [event EXCEPT ![worker.job] = Live(worker.span)]
               /\ Changed({worker.job})
               /\ UNCHANGED late
               /\ \/ worker' = [worker EXCEPT !.at = "ok"] /\ UNCHANGED faults
                  \/ worker' = [worker EXCEPT !.at = "err"] /\ Fault
            \/ /\ late' = late \cup {<<worker.job, worker.span>>}
               /\ worker' = [worker EXCEPT !.at = "err"]
               /\ Fault
               /\ UNCHANGED <<event, feed, refresh, create>>
       ELSE /\ worker' = [worker EXCEPT !.at = "reget"]
            /\ UNCHANGED <<event, feed, late, refresh, create, faults>>
  /\ UNCHANGED <<row, calendarLost, primary, moved, removed, returned, edits, connected, cursor,
                 overtaken>>

SyncGetsAfterConflict ==
  /\ worker.at = "reget"
  /\ connected
  /\ worker' = [worker EXCEPT !.at = IF Matches(event[worker.job], worker.span)
                                       THEN "ok" ELSE "err"]
  /\ UNCHANGED <<row, google, connected, cursor, refresh, create, faults, overtaken>>

\* Mutant: the loop ends with the booking of the last round still in hand.
WorkerMarksAndKeeps ==
  /\ worker.at \in {"ok", "err"}
  /\ row' = [row EXCEPT ![worker.job] = IF worker.at = "ok"
                                          THEN WorkerSynced(@, worker.gen)
                                          ELSE WorkerFailed(@, worker.gen)]
  /\ worker' = [worker EXCEPT !.at = "idle"]
  /\ UNCHANGED <<google, connected, cursor, refresh, create, faults, overtaken>>

\* After Sync has returned and released ops.
WorkerMarks ==
  /\ worker.at \in {"ok", "err"}
  /\ row' = [row EXCEPT ![worker.job] = IF worker.at = "ok"
                                          THEN WorkerSynced(@, worker.gen)
                                          ELSE WorkerFailed(@, worker.gen)]
  /\ worker' = IdleWorker
  /\ UNCHANGED <<google, connected, cursor, refresh, create, faults, overtaken>>

-----------------------------------------------------------------------------
(* Google.Refresh: under ops.Lock, one read of the calendar or of its      *)
(* changes, then one transaction that applies all of it with the new       *)
(* token.  by = "create" is the forced refresh of a booking request;       *)
(* "timer" is the worker's, or one an owner's or a visitor's page asks for. *)

RefreshBegins(by) ==
  /\ ~RefreshHoldsOps /\ ~SyncHoldsOps
  /\ connected
  /\ by = "create" => create.at = "refresh"
  /\ refresh' = [at |-> "read", by |-> by, full |-> cursor = "none", recovered |-> FALSE,
                 listed |-> {}, saw |-> IdleRefresh.saw, since |-> {}]
  /\ UNCHANGED <<row, google, connected, cursor, worker, create, faults, overtaken>>

RefreshOver(create_at) ==
  /\ refresh' = IdleRefresh
  /\ create' = IF refresh.by # "create" THEN create
               ELSE IF create_at = "idle" THEN IdleCreate
               ELSE [create EXCEPT !.at = create_at, !.changed = refresh.since]

\* 410 for the token: forget it in memory and read everything.
RefreshTokenExpired ==
  /\ refresh.at = "read" /\ ~refresh.full
  /\ connected /\ ~calendarLost /\ cursor = "expired"
  /\ refresh' = [refresh EXCEPT !.full = TRUE]
  /\ UNCHANGED <<row, google, connected, cursor, worker, create, faults, overtaken>>

\* showDeleted: tombstones are listed.  A change entry of an event that is no
\* longer in this calendar reads as a removal.
RefreshReads ==
  /\ refresh.at = "read"
  /\ connected /\ ~calendarLost
  /\ refresh.full \/ cursor = "valid"
  /\ refresh' = [refresh EXCEPT
       !.at = "apply",
       !.listed = IF refresh.full THEN {b \in Bookings : event[b].kind # "none"} ELSE feed,
       !.saw = [b \in Bookings |-> IF event[b].kind = "none" /\ ~refresh.full /\ b \in feed
                                     THEN Tombstone(event[b]) ELSE event[b]]]
  /\ UNCHANGED <<row, google, connected, cursor, worker, create, faults, overtaken>>

Importable == \A b \in refresh.listed : Exists(row[b]) => refresh.saw[b].kind # "series"

\* Mutant: an insert still to be made is taken for a removed event.
MissingOrPending(b) ==
  refresh.full /\ b \notin refresh.listed /\ Exists(row[b]) /\ row[b].status # "cancelled"

\* In a complete read, a synced event that is missing was removed.
Missing(b) == /\ refresh.full /\ b \notin refresh.listed
              /\ row[b].cal = "synced" /\ row[b].status # "cancelled"

RefreshApplies ==
  /\ refresh.at = "apply"
  /\ Importable
  /\ row' = [b \in Bookings |->
       IF b \in refresh.listed THEN ImportEvent(row[b], refresh.saw[b])
       ELSE IF Missing(b) THEN ImportEvent(row[b], Tombstone(NoEvent))
       ELSE row[b]]
  /\ cursor' = "valid"
  /\ feed' = refresh.since
  /\ overtaken' = overtaken \cup {b \in Bookings : worker.at = "ok" /\ worker.job = b
                                                  /\ row'[b] = row[b]}
  /\ RefreshOver("external")
  /\ UNCHANGED <<event, calendarLost, primary, late, moved, removed, returned, edits,
                 connected, worker, faults>>

\* Nothing of a failed refresh is kept.
RefreshFails ==
  /\ \/ /\ refresh.at = "read"
        /\ IF connected /\ ~(calendarLost /\ refresh.recovered) THEN Fault ELSE UNCHANGED faults
     \/ refresh.at = "apply" /\ ~Importable /\ UNCHANGED faults
  /\ RefreshOver("idle")
  /\ UNCHANGED <<row, google, connected, cursor, worker, overtaken>>

\* recoverMissingCalendar: a new calendar and every held row reset, one
\* transaction; the same refresh goes on with a complete read.  Events of the
\* lost calendar and requests on their way to it are gone.
RefreshRecovers ==
  /\ refresh.at = "read"
  /\ connected /\ calendarLost /\ ~refresh.recovered
  /\ calendarLost' = FALSE
  /\ row' = [b \in Bookings |-> ResetForNewCalendar(row[b])]
  /\ cursor' = "none"
  /\ feed' = {}
  /\ late' = {}
  /\ refresh' = [refresh EXCEPT !.full = TRUE, !.recovered = TRUE]
  /\ UNCHANGED <<event, primary, moved, removed, returned, edits, connected, worker, create,
                 faults, overtaken>>

-----------------------------------------------------------------------------
(* Connection changes, under ops.Lock.                                     *)

\* connectAuthorized keeps the calendar unless Google says it is gone; the
\* callback then makes every unsynced row due.
Connect ==
  /\ ~SyncHoldsOps /\ ~RefreshHoldsOps
  /\ connected' = TRUE
  /\ LET kept(r) == IF calendarLost THEN ResetForNewCalendar(r) ELSE r
     IN  row' = [b \in Bookings |->
                   [kept(row[b]) EXCEPT !.waiting = @ /\ kept(row[b]).cal = "synced"]]
  /\ IF calendarLost THEN cursor' = "none" /\ feed' = {} /\ late' = {}
                     ELSE UNCHANGED <<cursor, feed, late>>
  /\ calendarLost' = FALSE
  /\ UNCHANGED <<event, primary, moved, removed, returned, edits, worker, refresh, create, faults,
                 overtaken>>

Disconnect ==
  /\ ~SyncHoldsOps /\ ~RefreshHoldsOps
  /\ connected
  /\ Edit("disconnect")
  /\ connected' = FALSE
  /\ UNCHANGED <<row, event, calendarLost, primary, feed, late, moved, removed, returned,
                 cursor, worker, refresh, create, faults, overtaken>>

\* A token refresh inside any call finds the grant revoked and drops it.
GrantRevoked ==
  /\ connected
  /\ SyncHoldsOps \/ refresh.at = "read" \/ create.at = "external"
  /\ Fault
  /\ connected' = FALSE
  /\ UNCHANGED <<row, google, cursor, worker, refresh, create, overtaken>>

\* The process dies: memory is lost, the database and Google are not.
Crash ==
  /\ Fault
  /\ worker' = IdleWorker /\ refresh' = IdleRefresh /\ create' = IdleCreate
  /\ UNCHANGED <<row, google, connected, cursor, overtaken>>

-----------------------------------------------------------------------------
(* Google and its owner.                                                   *)

\* A request whose client gave up arrives.
LateInsert(b, s) ==
  /\ <<b, s>> \in late
  /\ late' = late \ {<<b, s>>}
  /\ IF event[b].kind = "none" /\ ~calendarLost
       THEN /\ event' = [event EXCEPT ![b] = Live(s)]
            /\ Changed({b})
            /\ returned' = returned \cup {b}
       ELSE UNCHANGED <<event, feed, refresh, create, returned>>
  /\ UNCHANGED <<row, calendarLost, primary, moved, removed, edits, connected, cursor, worker,
                 faults, overtaken>>

TokenExpires ==
  /\ cursor = "valid"
  /\ Fault
  /\ cursor' = "expired"
  /\ feed' = {}
  /\ UNCHANGED <<row, event, calendarLost, primary, late, moved, removed, returned, edits,
                 connected, worker, refresh, create, overtaken>>

OwnerChanges(b, ev) ==
  /\ event' = [event EXCEPT ![b] = ev]
  /\ Changed({b})
  /\ UNCHANGED <<row, calendarLost, primary, late, connected, cursor, worker, faults, overtaken>>

OwnerMoves(b, s) ==
  /\ Edit("move")
  /\ event[b].kind = "live" /\ event[b].span # s
  /\ OwnerChanges(b, Live(s))
  /\ moved' = moved \cup {b}
  /\ UNCHANGED <<removed, returned>>

OwnerDeletes(b) ==
  /\ Edit("delete")
  /\ Shown(event[b])
  /\ OwnerChanges(b, Tombstone(event[b]))
  /\ removed' = removed \cup {b}
  /\ UNCHANGED <<moved, returned>>

OwnerRestores(b) ==
  /\ Edit("restore")
  /\ event[b].kind = "deleted"
  /\ OwnerChanges(b, Live(event[b].span))
  /\ returned' = returned \cup {b}
  /\ UNCHANGED <<moved, removed>>

OwnerMakesSeries(b) ==
  /\ Edit("series")
  /\ event[b].kind = "live"
  /\ OwnerChanges(b, [event[b] EXCEPT !.kind = "series"])
  /\ UNCHANGED <<moved, removed, returned>>

\* The way out of the warning: the series becomes a single event again.
OwnerMakesSingle(b) ==
  /\ event[b].kind = "series"
  /\ OwnerChanges(b, Live(event[b].span))
  /\ UNCHANGED <<moved, removed, returned, edits>>

\* To another calendar.
OwnerMovesOut(b) ==
  /\ Edit("moveout")
  /\ event[b].kind = "live"
  /\ OwnerChanges(b, NoEvent)
  /\ removed' = removed \cup {b}
  /\ UNCHANGED <<moved, returned>>

OwnerDeletesCalendar ==
  /\ Edit("calendar")
  /\ ~calendarLost
  /\ calendarLost' = TRUE
  /\ event' = [b \in Bookings |-> NoEvent]
  /\ Changed({b \in Bookings : event[b].kind # "none"})
  /\ UNCHANGED <<row, primary, late, moved, removed, returned, connected, cursor, worker, faults,
                 overtaken>>

OwnerGetsBusy(s) ==
  /\ Edit("busy")
  /\ primary' = (primary \ {s}) \cup ({s} \ primary)
  /\ UNCHANGED <<row, event, calendarLost, feed, late, moved, removed, returned, connected, cursor,
                 worker, refresh, create, faults, overtaken>>

-----------------------------------------------------------------------------
CreateNext ==
  \/ \E s \in Spans : CreateBegin(s)
  \/ CreateSkipsRefresh
  \/ CreateReadsExternal
  \/ CreateFails
  \/ CreateReadsLocal
  \/ CreateInserts

PortalNext ==
  \E b \in Bookings :
    \/ \E st \in Followups : PatchStatus(b, st)
    \/ PatchCancel(b)
    \/ Retry(b)

SyncCalls ==
  \/ SyncFails
  \/ SyncDeletes
  \/ SyncGets
  \/ SyncImports
  \/ SyncChecksConflict
  \/ SyncPosts
  \/ SyncGetsAfterConflict

WorkerNext ==
  \/ \E b \in Bookings : WorkerPicks(b)
  \/ SyncEnters
  \/ SyncCalls
  \/ WorkerMarks

RefreshSteps ==
  \/ RefreshTokenExpired
  \/ RefreshReads
  \/ RefreshApplies
  \/ RefreshFails
  \/ RefreshRecovers

RefreshNext == (\E by \in {"timer", "create"} : RefreshBegins(by)) \/ RefreshSteps

ConnectionNext == Connect \/ Disconnect \/ GrantRevoked \/ Crash

OwnerNext ==
  \/ \E b \in Bookings, s \in Spans : LateInsert(b, s) \/ OwnerMoves(b, s)
  \/ \E b \in Bookings :
       \/ OwnerDeletes(b)
       \/ OwnerRestores(b)
       \/ OwnerMakesSeries(b)
       \/ OwnerMakesSingle(b)
       \/ OwnerMovesOut(b)
  \/ OwnerDeletesCalendar
  \/ \E s \in Spans : OwnerGetsBusy(s)
  \/ TokenExpires

TimeNext == \E b \in Bookings : BackoffEnds(b)

Next ==
  \/ CreateNext
  \/ PortalNext
  \/ WorkerNext
  \/ RefreshNext
  \/ ConnectionNext
  \/ OwnerNext
  \/ TimeNext

Spec == Init /\ [][Next]_vars

\* The worker is a goroutine with a ticker; a Go RWMutex lets neither readers
\* nor a writer wait for ever, so waiting for ops ends (strong fairness);
\* back-offs are finite and a request that was sent arrives or is lost.
Fairness ==
  /\ \A b \in Bookings : WF_vars(WorkerPicks(b)) /\ WF_vars(BackoffEnds(b))
  /\ SF_vars(SyncEnters)
  /\ WF_vars(SyncCalls)
  /\ WF_vars(WorkerMarks)
  /\ SF_vars(RefreshBegins("timer"))
  /\ WF_vars(RefreshSteps)
  /\ \A b \in Bookings, s \in Spans : WF_vars(LateInsert(b, s))

FairSpec == Spec /\ Fairness

-----------------------------------------------------------------------------
TypeOK ==
  /\ row \in [Bookings -> Row]
  /\ event \in [Bookings -> Event]
  /\ calendarLost \in BOOLEAN
  /\ primary \subseteq Spans
  /\ connected \in BOOLEAN
  /\ cursor \in {"none", "valid", "expired"}
  /\ feed \subseteq Bookings
  /\ late \subseteq Bookings \X Spans
  /\ worker \in Worker
  /\ (worker.job = 0) <=> (worker.at = "idle")
  /\ refresh \in Refresh
  /\ create \in Create
  /\ moved \subseteq Bookings
  /\ removed \subseteq Bookings
  /\ returned \subseteq Bookings
  /\ overtaken \subseteq Bookings
  /\ edits \in 0..MaxEdits
  /\ faults \in 0..MaxFaults

-----------------------------------------------------------------------------
(* Safety.                                                                 *)

\* Two appointments that are both still on never overlap, buffer included,
\* unless the owner gave one of them its time in Google: not through a stale
\* read of createBooking, nor a late insert, nor a replaced calendar.
NoDoubleBooking ==
  \A b, c \in Bookings :
    b # c /\ Active(row[b]) /\ Active(row[c]) /\ Overlaps(row[b].span, row[c].span)
      => b \in moved \/ c \in moved

\* What Google shows of a synced row is what the row says.
Agrees(b) ==
  IF row[b].status = "cancelled" THEN ~Shown(event[b])
                                 ELSE Matches(event[b], row[b].span)

\* Google contradicts a synced row and nothing will make the service look.
Forgotten(b) ==
  /\ Exists(row[b]) /\ row[b].cal = "synced" /\ ~Agrees(b)
  /\ ~calendarLost /\ cursor = "valid" /\ b \notin feed

\* A change made in Google is never forgotten: it is still in the feed of the
\* stored token, or everything will be read.  This is what "Google deletions
\* cancel the matching request" and "an owner cancellation in the portal wins
\* over a still-present Google event" need.
NoForgottenChange == \A b \in Bookings : ~Forgotten(b)

\* What the code guarantees: a change is forgotten only when a refresh passed
\* in the window between Google's answer to the worker and the worker's
\* UPDATE, which syncDue runs after Sync has released ops.
ForgottenOnlyInWindow == \A b \in Bookings : Forgotten(b) => b \in overtaken

\* A cancelled booking is never open again, whatever Google still shows or a
\* late answer says.
CancelledForGood ==
  [][\A b \in Bookings : row[b].status = "cancelled" => row'[b].status = "cancelled"]_vars

\* Only the portal, or the owner who removed the event in Google, cancels an
\* appointment: a snapshot never takes an insert in progress, or the empty
\* calendar after a recovery, for a deletion (calendar_sync.go:43-44,
\* calendar_recovery.go:44-46).
OnlyOwnersCancel ==
  [][\A b \in Bookings :
       Active(row[b]) /\ row'[b].status = "cancelled" /\ row'[b].cal = "synced"
         => b \in removed]_vars

\* A cancelled appointment gives its time back only when Google shows no event
\* of it: not on an answer to an insert that the cancellation overtook, nor on
\* an old snapshot or a replaced calendar (bookings.go:422, calendar_sync.go:256,
\* calendar_recovery.go:48).  The named exception is an event that comes back by
\* itself: the owner restores it, or an insert the worker gave up arrives.
ReleasedOnlyWhenGone ==
  [][\A b \in Bookings :
       Held(row[b]) /\ ~Held(row'[b]) => ~Shown(event[b]) \/ b \in returned]_vars

\* A booking is never accepted within the buffer of an event of another booking
\* that Google shows, unless that event changed after the handler's forced
\* refresh, or is a forgotten one.  Events of known bookings are exempt from
\* externalBuffer: between them the buffer of the appointments counts.
NewBookingAvoidsCalendar ==
  [][\A b, c \in Bookings :
       ~Exists(row[b]) /\ Exists(row'[b]) /\ c # b
         /\ Shown(event[c]) /\ Overlaps(row'[b].span, event[c].span)
         => c \in create.changed \cup overtaken]_vars

-----------------------------------------------------------------------------
(* Liveness.                                                               *)

\* The insert of b is refused: something else holds its time.
Contested(b) ==
  \/ ~FreeOf(row[b].span, ExternalBusy)
  \/ ~FreeLocally(row[b].span, Bookings \ {b})

\* Once edits and faults have ended (they are bounded) and while Google stays
\* connected and no event is a series, every row comes to agree with Google
\* and stays so, or waits because its time is taken.
Converges ==
  <>[](connected /\ \A b \in Bookings : event[b].kind # "series")
    => <>[](\A b \in Bookings :
              b \in overtaken \/ ~Exists(row[b]) \/ (row[b].cal = "synced" /\ Agrees(b))
                \/ (Active(row[b]) /\ Contested(b)))
=============================================================================
