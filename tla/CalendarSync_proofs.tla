------------------------ MODULE CalendarSync_proofs ------------------------
(***************************************************************************)
(* Theorems about CalendarSync, for any number of bookings, any times and  *)
(* buffers and any bounds.  First its types and what holds of the rows and *)
(* of the spans they hold; then what is never forgotten: a change made in  *)
(* Google is still to be read, unless a refresh passed between Google's    *)
(* answer about a booking and the worker's UPDATE; then that CalendarSync  *)
(* implements AppointmentBook, and what its steps may do to an             *)
(* appointment.                                                            *)
(***************************************************************************)
EXTENDS CalendarSyncRefinement, TLAPS

-----------------------------------------------------------------------------
(* The updates of a row.                                                   *)

LEMMA AnySpanType == AnySpan \in Spans
BY SpansAssumption DEF AnySpan

LEMMA ColumnsType ==
  ASSUME NEW st \in Statuses \cup {"absent"}, NEW c \in CalendarStatuses, NEW s \in Spans,
         NEW g \in Nat, NEW sg \in Nat
  PROVE  /\ Columns(st, c, s, g, sg) \in Row
         /\ Columns(st, c, s, g, sg).status = st
         /\ Columns(st, c, s, g, sg).cal = c
         /\ Columns(st, c, s, g, sg).span = s
         /\ Columns(st, c, s, g, sg).gen = g
         /\ Columns(st, c, s, g, sg).syncGen = sg
BY DEF Columns, Row

LEMMA NoRowType == NoRow \in Row /\ ~Exists(NoRow)
BY AnySpanType, ColumnsType DEF NoRow, CalendarStatuses, Exists

LEMMA NewRowType ==
  ASSUME NEW s \in Spans
  PROVE  /\ NewRow(s) \in Row /\ NewRow(s).span = s /\ Active(NewRow(s))
         /\ NewRow(s).cal = "pending" /\ NewRow(s).syncGen # NewRow(s).gen
BY ColumnsType, FollowupsAssumption DEF NewRow, Statuses, Active, CalendarStatuses

LEMMA PortalTypes ==
  ASSUME NEW r \in Row
  PROVE  PortalCancel(r) \in Row /\ PortalRetry(r) \in Row
<1>1. PortalCancel(r) \in Row
  BY DEF PortalCancel, Columns, Row, Statuses, CalendarStatuses
<1>2. PortalRetry(r) \in Row
  BY DEF PortalRetry, Row, CalendarStatuses
<1> QED BY <1>1, <1>2

LEMMA WorkerTypes ==
  ASSUME NEW r \in Row, NEW g \in Nat
  PROVE  WorkerSynced(r, g) \in Row /\ WorkerFailed(r, g) \in Row
BY DEF WorkerSynced, WorkerFailed, Row, CalendarStatuses

LEMMA SettledType ==
  ASSUME NEW r \in Row, NEW s \in Spans, NEW st \in Statuses
  PROVE  Settled(r, s, st) \in Row
BY DEF Settled, Columns, Row, CalendarStatuses

LEMMA ResetType ==
  ASSUME NEW r \in Row
  PROVE  ResetForNewCalendar(r) \in Row
BY DEF ResetForNewCalendar, Settled, Columns, Row, Held, Exists, Statuses, CalendarStatuses

LEMMA ImportType ==
  ASSUME NEW r \in Row, NEW ev \in Event
  PROVE  ImportEvent(r, ev) \in Row
<1>1. ImportRemoval(r) \in Row
  BY SettledType DEF ImportRemoval, Row, Statuses
<1>2. ImportOfCancelled(r, ev.span) \in Row
  BY DEF ImportOfCancelled, Columns, Row, Statuses, CalendarStatuses, Event
<1>3. Exists(r) => ImportOfActive(r, ev.span) \in Row
  BY SettledType DEF ImportOfActive, Row, Statuses, Event, Exists
<1> QED BY <1>1, <1>2, <1>3 DEF ImportEvent

-----------------------------------------------------------------------------
(* Type correctness.                                                       *)

LEMMA EventTypes ==
  /\ NoEvent \in Event
  /\ \A s \in Spans : Live(s) \in Event
  /\ \A ev \in Event : Tombstone(ev) \in Event
  /\ \A ev \in Event : [ev EXCEPT !.kind = "series"] \in Event
BY AnySpanType DEF NoEvent, Live, Tombstone, Event

LEMMA IdleTypes ==
  /\ IdleWorker \in Worker
  /\ IdleRefresh \in Refresh
  /\ IdleCreate \in Create
BY AnySpanType, EventTypes, NAssumption
   DEF IdleWorker, Worker, IdleRefresh, Refresh, IdleCreate, Create, CallStates, Statuses

\* What Google's change notes do to the types of the three readers of them.
LEMMA ChangedTypes ==
  ASSUME TypeOK, NEW S \in SUBSET Bookings, Changed(S)
  PROVE  feed' \subseteq Bookings /\ refresh' \in Refresh /\ create' \in Create
<1>1. feed' \subseteq Bookings
  BY DEF TypeOK, Changed
<1>2. refresh' \in Refresh
  BY DEF TypeOK, Changed, Refresh
<1>3. create' \in Create
  BY DEF TypeOK, Changed, Create
<1> QED BY <1>1, <1>2, <1>3

LEMMA BudgetTypes ==
  ASSUME TypeOK
  PROVE  /\ Fault => faults' \in 0..MaxFaults
         /\ \A k : Edit(k) => edits' \in 0..MaxEdits
BY BoundsAssumption DEF TypeOK, Fault, Edit

LEMMA ExternalBusyType == TypeOK => ExternalBusy \subseteq Spans
BY DEF TypeOK, ExternalBusy, Event

LEMMA CreateType ==
  ASSUME TypeOK, CreateNext
  PROVE  TypeOK'
<1> USE DEF TypeOK
<1>1. ASSUME NEW s \in Spans, CreateBegin(s) PROVE TypeOK'
  BY <1>1 DEF CreateBegin, google, Create
<1>2. CASE CreateSkipsRefresh
  BY <1>2 DEF CreateSkipsRefresh, google, Create
<1>3. CASE CreateReadsExternal
  BY <1>3, ExternalBusyType DEF CreateReadsExternal, google, Create
<1>4. CASE CreateFails
  BY <1>4, IdleTypes, BudgetTypes DEF CreateFails, google
<1>5. CASE CreateReadsLocal
  BY <1>5, IdleTypes DEF CreateReadsLocal, google, Create
<1>6. CASE CreateInserts
  <2>1. create.span \in Spans
    BY DEF Create
  <2>2. row' \in [Bookings -> Row]
    BY <1>6, <2>1, NewRowType DEF CreateInserts
  <2> QED BY <1>6, <2>2, IdleTypes DEF CreateInserts, google
<1> QED BY <1>1, <1>2, <1>3, <1>4, <1>5, <1>6 DEF CreateNext

LEMMA PortalType ==
  ASSUME TypeOK, PortalNext
  PROVE  TypeOK'
<1> USE DEF TypeOK
<1> SUFFICES ASSUME NEW b \in Bookings,
                    \/ \E st \in Followups : PatchStatus(b, st)
                    \/ PatchCancel(b)
                    \/ Retry(b)
             PROVE  TypeOK'
  BY DEF PortalNext
<1>1. ASSUME NEW st \in Followups, PatchStatus(b, st) PROVE TypeOK'
  <2>1. [row[b] EXCEPT !.status = st] \in Row
    BY DEF Row, Statuses
  <2>2. row' \in [Bookings -> Row]
    BY <1>1, <2>1 DEF PatchStatus
  <2> QED BY <1>1, <2>2 DEF PatchStatus, google
<1>2. CASE PatchCancel(b)
  BY <1>2, PortalTypes DEF PatchCancel, google
<1>3. CASE Retry(b)
  BY <1>3, PortalTypes DEF Retry, google
<1> QED BY <1>1, <1>2, <1>3

LEMMA JobType == TypeOK /\ worker.at # "idle" => worker.job \in Bookings
BY NAssumption DEF TypeOK, Worker, Bookings

LEMMA WorkerStateType ==
  ASSUME TypeOK, WorkerNext
  PROVE  TypeOK'
<1> USE DEF TypeOK
<1>1. ASSUME NEW b \in Bookings, WorkerPicks(b) PROVE TypeOK'
  <2>1. b \in 0..N /\ b # 0
    BY NAssumption DEF Bookings
  <2>2. worker' \in Worker /\ worker'.job # 0 /\ worker'.at # "idle"
    BY <1>1, <2>1, EventTypes DEF WorkerPicks, Worker, Row
  <2> QED BY <1>1, <2>2 DEF WorkerPicks, google
<1>2. CASE SyncEnters
  BY <1>2 DEF SyncEnters, google, Worker, CallStates
<1>3. CASE SyncFails
  BY <1>3, BudgetTypes DEF SyncFails, google, Worker
<1>4. CASE SyncDeletes
  <2>1. worker' \in Worker /\ ((worker'.job = 0) <=> (worker'.at = "idle"))
    BY <1>4 DEF SyncDeletes, Worker
  <2>2. faults' \in 0..MaxFaults
    BY <1>4, BudgetTypes DEF SyncDeletes
  <2>3. event' \in [Bookings -> Event] /\ feed' \subseteq Bookings
        /\ refresh' \in Refresh /\ create' \in Create
    BY <1>4, JobType, EventTypes, ChangedTypes DEF SyncDeletes
  <2> QED BY <1>4, <2>1, <2>2, <2>3 DEF SyncDeletes
<1>5. CASE SyncGets
  <2>1. event[worker.job] \in Event
    BY <1>5, JobType DEF SyncGets
  <2>2. worker' \in Worker /\ ((worker'.job = 0) <=> (worker'.at = "idle"))
    BY <1>5, <2>1 DEF SyncGets, Worker, CallStates
  <2> QED BY <1>5, <2>2 DEF SyncGets, google
<1>6. CASE SyncImports
  <2>1. worker' \in Worker /\ ((worker'.job = 0) <=> (worker'.at = "idle"))
    BY <1>6, EventTypes DEF SyncImports, Worker
  <2>2. worker.found \in Event
    BY DEF Worker
  <2>3. row' \in [Bookings -> Row]
    BY <1>6, <2>2, ImportType DEF SyncImports
  <2> QED BY <1>6, <2>1, <2>3 DEF SyncImports, google
<1>7. CASE SyncChecksConflict
  BY <1>7 DEF SyncChecksConflict, google, Worker, CallStates
<1>8. CASE SyncPosts
  <2>1. worker' \in Worker /\ ((worker'.job = 0) <=> (worker'.at = "idle"))
    BY <1>8 DEF SyncPosts, Worker, CallStates
  <2>2. worker.span \in Spans /\ worker.job \in Bookings
    BY <1>8, JobType DEF SyncPosts, Worker
  <2>3. faults' \in 0..MaxFaults
    BY <1>8, BudgetTypes DEF SyncPosts
  <2>4. event' \in [Bookings -> Event] /\ feed' \subseteq Bookings
        /\ refresh' \in Refresh /\ create' \in Create
    BY <1>8, <2>2, EventTypes, ChangedTypes DEF SyncPosts
  <2>5. late' \subseteq Bookings \X Spans
    BY <1>8, <2>2 DEF SyncPosts
  <2> QED BY <1>8, <2>1, <2>3, <2>4, <2>5 DEF SyncPosts
<1>9. CASE SyncGetsAfterConflict
  BY <1>9 DEF SyncGetsAfterConflict, google, Worker
<1>10. CASE WorkerMarks
  <2>1. worker.gen \in Nat
    BY DEF Worker
  <2>2. row' \in [Bookings -> Row]
    BY <1>10, <2>1, WorkerTypes DEF WorkerMarks
  <2>3. worker'.job = 0 /\ worker'.at = "idle"
    BY <1>10 DEF WorkerMarks, IdleWorker
  <2> QED BY <1>10, <2>2, <2>3, IdleTypes DEF WorkerMarks, google
<1> QED BY <1>1, <1>2, <1>3, <1>4, <1>5, <1>6, <1>7, <1>8, <1>9, <1>10
        DEF WorkerNext, SyncCalls

LEMMA RefreshOverType ==
  ASSUME TypeOK, NEW at \in {"idle", "external"}, RefreshOver(at)
  PROVE  refresh' \in Refresh /\ create' \in Create
<1>1. [create EXCEPT !.at = at, !.changed = refresh.since] \in Create
  BY DEF TypeOK, Create, Refresh
<1> QED BY <1>1, IdleTypes DEF TypeOK, RefreshOver

LEMMA RefreshType ==
  ASSUME TypeOK, RefreshNext
  PROVE  TypeOK'
<1> USE DEF TypeOK
<1>1. ASSUME NEW by \in {"timer", "create"}, RefreshBegins(by) PROVE TypeOK'
  <2>1. IdleRefresh.saw \in [Bookings -> Event]
    BY EventTypes DEF IdleRefresh
  <2> QED BY <1>1, <2>1 DEF RefreshBegins, google, Refresh
<1>2. CASE RefreshTokenExpired
  BY <1>2 DEF RefreshTokenExpired, google, Refresh
<1>3. CASE RefreshReads
  <2> DEFINE seen == [b \in Bookings |-> IF event[b].kind = "none" /\ ~refresh.full /\ b \in feed
                                          THEN Tombstone(event[b]) ELSE event[b]]
             ids == IF refresh.full THEN {b \in Bookings : event[b].kind # "none"} ELSE feed
  <2>1. seen \in [Bookings -> Event] /\ ids \in SUBSET Bookings
    BY EventTypes
  <2>2. refresh' = [refresh EXCEPT !.at = "apply", !.listed = ids, !.saw = seen]
    BY <1>3 DEF RefreshReads
  <2> HIDE DEF seen, ids
  <2>3. refresh' \in Refresh
    BY <2>1, <2>2 DEF Refresh
  <2> QED BY <1>3, <2>3 DEF RefreshReads, google
<1>4. CASE RefreshApplies
  <2>1. Tombstone(NoEvent) \in Event
    BY EventTypes
  <2>2. \A b \in Bookings : refresh.saw[b] \in Event
    BY DEF Refresh
  <2>3. row' \in [Bookings -> Row]
    BY <1>4, <2>1, <2>2, ImportType DEF RefreshApplies
  <2>4. feed' \subseteq Bookings
    BY <1>4 DEF RefreshApplies, Refresh
  <2> QED BY <1>4, <2>3, <2>4, RefreshOverType DEF RefreshApplies
<1>5. CASE RefreshFails
  BY <1>5, RefreshOverType, BudgetTypes DEF RefreshFails, google
<1>6. CASE RefreshRecovers
  <2>1. row' \in [Bookings -> Row]
    BY <1>6, ResetType DEF RefreshRecovers
  <2>2. refresh' \in Refresh
    BY <1>6 DEF RefreshRecovers, Refresh
  <2> QED BY <1>6, <2>1, <2>2 DEF RefreshRecovers
<1> QED BY <1>1, <1>2, <1>3, <1>4, <1>5, <1>6 DEF RefreshNext, RefreshSteps

LEMMA ConnectionType ==
  ASSUME TypeOK, ConnectionNext
  PROVE  TypeOK'
<1> USE DEF TypeOK
<1>1. CASE Connect
  <2> DEFINE kept(r) == IF calendarLost THEN ResetForNewCalendar(r) ELSE r
  <2>1. \A b \in Bookings : kept(row[b]) \in Row
    BY ResetType
  <2>2. row' = [b \in Bookings |->
                  [kept(row[b]) EXCEPT !.waiting = kept(row[b]).waiting /\ kept(row[b]).cal = "synced"]]
    BY <1>1 DEF Connect
  <2> HIDE DEF kept
  <2>3. ASSUME NEW r \in Row
        PROVE  [r EXCEPT !.waiting = r.waiting /\ r.cal = "synced"] \in Row
    BY DEF Row
  <2>4. row' \in [Bookings -> Row]
    BY <2>1, <2>2, <2>3
  <2> QED BY <1>1, <2>4 DEF Connect
<1>2. CASE Disconnect
  BY <1>2, BudgetTypes DEF Disconnect
<1>3. CASE GrantRevoked
  BY <1>3, BudgetTypes DEF GrantRevoked, google
<1>4. CASE Crash
  <2>1. IdleWorker.job = 0 /\ IdleWorker.at = "idle"
    BY DEF IdleWorker
  <2> QED BY <1>4, <2>1, IdleTypes, BudgetTypes DEF Crash, google
<1> QED BY <1>1, <1>2, <1>3, <1>4 DEF ConnectionNext

LEMMA OwnerType ==
  ASSUME TypeOK, OwnerNext
  PROVE  TypeOK'
<1> USE DEF TypeOK
<1>1. ASSUME NEW b \in Bookings, NEW ev \in Event, OwnerChanges(b, ev),
             edits' \in 0..MaxEdits, moved' \subseteq Bookings, removed' \subseteq Bookings,
             returned' \subseteq Bookings
      PROVE  TypeOK'
  BY <1>1, ChangedTypes DEF OwnerChanges
<1>2. ASSUME NEW b \in Bookings, NEW s \in Spans, LateInsert(b, s) PROVE TypeOK'
  <2>1. event' \in [Bookings -> Event] /\ feed' \subseteq Bookings
        /\ refresh' \in Refresh /\ create' \in Create
    BY <1>2, EventTypes, ChangedTypes DEF LateInsert
  <2> QED BY <1>2, <2>1 DEF LateInsert
<1>3. ASSUME NEW b \in Bookings, NEW s \in Spans, OwnerMoves(b, s) PROVE TypeOK'
  BY <1>1, <1>3, EventTypes, BudgetTypes DEF OwnerMoves
<1>4. ASSUME NEW b \in Bookings, OwnerDeletes(b) PROVE TypeOK'
  BY <1>1, <1>4, EventTypes, BudgetTypes DEF OwnerDeletes
<1>5. ASSUME NEW b \in Bookings, OwnerRestores(b) PROVE TypeOK'
  <2>1. Live(event[b].span) \in Event
    BY EventTypes DEF Event
  <2> QED BY <1>1, <1>5, <2>1, BudgetTypes DEF OwnerRestores
<1>6. ASSUME NEW b \in Bookings, OwnerMakesSeries(b) PROVE TypeOK'
  BY <1>1, <1>6, EventTypes, BudgetTypes DEF OwnerMakesSeries
<1>7. ASSUME NEW b \in Bookings, OwnerMakesSingle(b) PROVE TypeOK'
  <2>1. Live(event[b].span) \in Event
    BY EventTypes DEF Event
  <2> QED BY <1>1, <1>7, <2>1 DEF OwnerMakesSingle
<1>8. ASSUME NEW b \in Bookings, OwnerMovesOut(b) PROVE TypeOK'
  BY <1>1, <1>8, EventTypes, BudgetTypes DEF OwnerMovesOut
<1>9. CASE OwnerDeletesCalendar
  BY <1>9, EventTypes, BudgetTypes, ChangedTypes DEF OwnerDeletesCalendar
<1>10. ASSUME NEW s \in Spans, OwnerGetsBusy(s) PROVE TypeOK'
  BY <1>10, BudgetTypes DEF OwnerGetsBusy
<1>11. CASE TokenExpires
  BY <1>11, BudgetTypes DEF TokenExpires
<1> QED BY <1>2, <1>3, <1>4, <1>5, <1>6, <1>7, <1>8, <1>9, <1>10, <1>11 DEF OwnerNext

LEMMA TimeType ==
  ASSUME TypeOK, TimeNext
  PROVE  TypeOK'
<1> SUFFICES ASSUME NEW b \in Bookings, BackoffEnds(b) PROVE TypeOK'
  BY DEF TimeNext
<1>1. [row[b] EXCEPT !.waiting = FALSE] \in Row
  BY DEF TypeOK, Row
<1> QED BY <1>1 DEF TypeOK, BackoffEnds, google

\* Every state of every behaviour is well typed; a worker that is at work
\* has a booking.
THEOREM TypeCorrect == Spec => []TypeOK
<1>1. Init => TypeOK
  <2> SUFFICES ASSUME Init PROVE TypeOK
    OBVIOUS
  <2>1. row \in [Bookings -> Row] /\ event \in [Bookings -> Event]
    BY NoRowType, EventTypes DEF Init
  <2>2. worker \in Worker /\ worker.job = 0 /\ worker.at = "idle"
    BY IdleTypes DEF Init, IdleWorker
  <2>3. edits \in 0..MaxEdits /\ faults \in 0..MaxFaults
    BY BoundsAssumption DEF Init
  <2> QED BY <2>1, <2>2, <2>3, IdleTypes DEF Init, TypeOK
<1>2. TypeOK /\ [Next]_vars => TypeOK'
  <2> SUFFICES ASSUME TypeOK, [Next]_vars PROVE TypeOK'
    OBVIOUS
  <2>1. CASE UNCHANGED vars
    BY <2>1 DEF TypeOK, vars, google
  <2> QED BY <2>1, CreateType, PortalType, WorkerStateType, RefreshType, ConnectionType,
             OwnerType, TimeType DEF Next
<1> QED BY <1>1, <1>2, PTL DEF Spec

-----------------------------------------------------------------------------
(* What any statement but the worker's UPDATE does to a row.               *)

\* sync_generation is never ahead, and equals generation in synced rows only.
Sound(r) == r.syncGen <= r.gen /\ ((r.cal = "synced") <=> (r.syncGen = r.gen))

RowStep(r, q) ==
  /\ Exists(q) <=> Exists(r)
  /\ r.status = "cancelled" => q.status = "cancelled"
  /\ Sound(r) => Sound(q)
  /\ q.gen >= r.gen
  /\ r.cal # "synced" /\ q.cal = "synced" => q.gen > r.gen

LEMMA RowStepRefl == ASSUME NEW r \in Row PROVE RowStep(r, r)
BY DEF RowStep, Row

LEMMA StatusStep ==
  ASSUME NEW r \in Row, Active(r), NEW st \in Followups
  PROVE  RowStep(r, [r EXCEPT !.status = st])
BY FollowupsAssumption DEF RowStep, Sound, Row, Active, Exists

LEMMA PortalCancelStep ==
  ASSUME NEW r \in Row, Active(r)
  PROVE  RowStep(r, PortalCancel(r))
BY FollowupsAssumption DEF RowStep, Sound, Row, Active, Exists, PortalCancel, Columns

LEMMA PortalRetryStep ==
  ASSUME NEW r \in Row, r.cal # "synced"
  PROVE  RowStep(r, PortalRetry(r))
BY DEF RowStep, Sound, Row, Exists, PortalRetry

LEMMA WaitingStep ==
  ASSUME NEW r \in Row, NEW q \in Row, RowStep(r, q), NEW w \in BOOLEAN
  PROVE  RowStep(r, [q EXCEPT !.waiting = w])
BY DEF RowStep, Sound, Row, Exists

LEMMA SettledStep ==
  ASSUME NEW r \in Row, Exists(r), NEW s \in Spans, NEW st \in Statuses,
         r.status = "cancelled" => st = "cancelled"
  PROVE  RowStep(r, Settled(r, s, st))
BY FollowupsAssumption DEF RowStep, Sound, Row, Exists, Statuses, Settled, Columns

LEMMA ResetStep ==
  ASSUME NEW r \in Row
  PROVE  RowStep(r, ResetForNewCalendar(r))
<1>1. CASE ~Held(r)
  BY <1>1, RowStepRefl DEF ResetForNewCalendar
<1>2. CASE Held(r) /\ r.status = "cancelled"
  BY <1>2, SettledStep DEF ResetForNewCalendar, Held, Statuses, Row
<1>3. CASE Held(r) /\ r.status # "cancelled"
  BY <1>3 DEF ResetForNewCalendar, Held, RowStep, Sound, Row, Exists, Columns
<1> QED BY <1>1, <1>2, <1>3

LEMMA ImportStep ==
  ASSUME NEW r \in Row, NEW ev \in Event
  PROVE  RowStep(r, ImportEvent(r, ev))
<1>1. CASE ~Exists(r)
  BY <1>1, RowStepRefl DEF ImportEvent
<1>2. ASSUME Exists(r) PROVE RowStep(r, ImportRemoval(r))
  BY <1>2, RowStepRefl, SettledStep DEF ImportRemoval, Statuses, Row
<1>3. ASSUME Exists(r), r.status = "cancelled" PROVE RowStep(r, ImportOfCancelled(r, ev.span))
  <2>1. CASE ev.span # r.span \/ r.cal = "synced"
    BY <1>3, <2>1 DEF ImportOfCancelled, RowStep, Sound, Row, Exists, Columns
  <2>2. CASE ~(ev.span # r.span \/ r.cal = "synced")
    BY <2>2, RowStepRefl DEF ImportOfCancelled
  <2> QED BY <2>1, <2>2
<1>4. ASSUME Exists(r), r.status # "cancelled" PROVE RowStep(r, ImportOfActive(r, ev.span))
  <2>1. ev.span \in Spans /\ r.status \in Statuses
    BY <1>4 DEF Event, Row, Exists
  <2> QED BY <1>4, <2>1, RowStepRefl, SettledStep DEF ImportOfActive
<1> QED BY <1>1, <1>2, <1>3, <1>4 DEF ImportEvent

\* Every step but an accepted booking and the worker's UPDATE is a RowStep of
\* every row.
LEMMA RowSteps ==
  ASSUME TypeOK, [Next]_vars, ~CreateInserts, ~WorkerMarks
  PROVE  \A b \in Bookings : RowStep(row[b], row'[b])
<1>0. \A b \in Bookings : row[b] \in Row
  BY DEF TypeOK
<1>1. CASE UNCHANGED row
  BY <1>0, <1>1, RowStepRefl
<1>2. CASE PortalNext
  <2> SUFFICES ASSUME NEW b \in Bookings,
                      \/ \E st \in Followups : PatchStatus(b, st)
                      \/ PatchCancel(b)
                      \/ Retry(b)
               PROVE  \A c \in Bookings : RowStep(row[c], row'[c])
    BY <1>2 DEF PortalNext
  <2>1. ASSUME NEW st \in Followups, PatchStatus(b, st)
        PROVE  \A c \in Bookings : RowStep(row[c], row'[c])
    BY <1>0, <2>1, StatusStep, RowStepRefl DEF PatchStatus, TypeOK
  <2>2. CASE PatchCancel(b)
    BY <1>0, <2>2, PortalCancelStep, RowStepRefl DEF PatchCancel, TypeOK
  <2>3. CASE Retry(b)
    BY <1>0, <2>3, PortalRetryStep, RowStepRefl DEF Retry, TypeOK
  <2> QED BY <2>1, <2>2, <2>3
<1>3. CASE SyncImports
  <2>1. worker.found \in Event
    BY DEF TypeOK, Worker
  <2> QED BY <1>0, <1>3, <2>1, ImportStep, RowStepRefl DEF SyncImports, TypeOK
<1>4. CASE RefreshApplies
  <2>1. Tombstone(NoEvent) \in Event
    BY EventTypes
  <2>2. \A b \in Bookings : refresh.saw[b] \in Event
    BY DEF TypeOK, Refresh
  <2> QED BY <1>0, <1>4, <2>1, <2>2, ImportStep, RowStepRefl DEF RefreshApplies
<1>5. CASE RefreshRecovers
  BY <1>0, <1>5, ResetStep DEF RefreshRecovers
<1>6. CASE Connect
  <2> DEFINE kept(r) == IF calendarLost THEN ResetForNewCalendar(r) ELSE r
  <2>1. \A b \in Bookings : kept(row[b]) \in Row /\ RowStep(row[b], kept(row[b]))
    BY <1>0, ResetType, ResetStep, RowStepRefl
  <2>2. row' = [b \in Bookings |->
                  [kept(row[b]) EXCEPT !.waiting = kept(row[b]).waiting /\ kept(row[b]).cal = "synced"]]
    BY <1>6 DEF Connect
  <2>3. ASSUME NEW r \in Row PROVE (r.waiting /\ r.cal = "synced") \in BOOLEAN
    BY DEF Row
  <2> HIDE DEF kept
  <2> QED BY <1>0, <2>1, <2>2, <2>3, WaitingStep
<1>7. CASE TimeNext
  <2> SUFFICES ASSUME NEW b \in Bookings, BackoffEnds(b), NEW c \in Bookings
               PROVE  RowStep(row[c], row'[c])
    BY <1>7 DEF TimeNext
  <2>1. RowStep(row[b], [row[b] EXCEPT !.waiting = FALSE])
    BY <1>0, RowStepRefl, WaitingStep
  <2> QED BY <1>0, <2>1, RowStepRefl DEF BackoffEnds, TypeOK
<1>8. CASE CreateNext
  BY <1>1, <1>8 DEF CreateNext, CreateBegin, CreateSkipsRefresh, CreateReadsExternal,
     CreateFails, CreateReadsLocal
<1>9. CASE WorkerNext
  BY <1>1, <1>3, <1>9 DEF WorkerNext, SyncCalls, WorkerPicks, SyncEnters, SyncFails, SyncDeletes,
     SyncGets, SyncChecksConflict, SyncPosts, SyncGetsAfterConflict
<1>10. CASE RefreshNext
  BY <1>1, <1>4, <1>5, <1>10 DEF RefreshNext, RefreshSteps, RefreshBegins, RefreshTokenExpired,
     RefreshReads, RefreshFails
<1>11. CASE ConnectionNext
  BY <1>1, <1>6, <1>11 DEF ConnectionNext, Disconnect, GrantRevoked, Crash
<1>12. CASE OwnerNext
  BY <1>1, <1>12 DEF OwnerNext, OwnerChanges, LateInsert, OwnerMoves, OwnerDeletes, OwnerRestores,
     OwnerMakesSeries, OwnerMakesSingle, OwnerMovesOut, OwnerDeletesCalendar, OwnerGetsBusy,
     TokenExpires
<1> QED BY <1>1, <1>2, <1>7, <1>8, <1>9, <1>10, <1>11, <1>12 DEF Next, vars

-----------------------------------------------------------------------------
(* Generations.                                                            *)

\* What a running worker read is not newer than its row, and if it is not
\* older, the row is still to be synced.
WorkerBehind ==
  worker.at # "idle" =>
    /\ worker.job \in Bookings
    /\ Exists(row[worker.job])
    /\ worker.gen <= row[worker.job].gen
    /\ worker.gen = row[worker.job].gen => row[worker.job].cal # "synced"

SyncInv == (\A b \in Bookings : Sound(row[b])) /\ WorkerBehind

\* The worker keeps the booking it picked, as it was.
LEMMA WorkerKeeps ==
  ASSUME TypeOK, [Next]_vars, ~(\E b \in Bookings : WorkerPicks(b)), worker'.at # "idle"
  PROVE  /\ worker.at # "idle" /\ worker'.job = worker.job /\ worker'.gen = worker.gen
         /\ worker'.span = worker.span /\ worker'.status = worker.status
<1>1. CASE UNCHANGED worker
  BY <1>1
<1>2. CASE WorkerNext
  <2> USE DEF TypeOK, Worker
  <2>1. CASE SyncEnters
    BY <2>1 DEF SyncEnters
  <2>2. CASE SyncFails
    BY <2>2 DEF SyncFails
  <2>3. CASE SyncDeletes
    BY <2>3 DEF SyncDeletes
  <2>4. CASE SyncGets
    <3>1. worker.at # "idle"
      BY <2>4 DEF SyncGets
    <3>2. CASE event[worker.job].kind = "none"
      BY <2>4, <3>1, <3>2 DEF SyncGets
    <3>3. CASE event[worker.job].kind # "none" /\ Matches(event[worker.job], worker.span)
      BY <2>4, <3>1, <3>3 DEF SyncGets
    <3>4. CASE event[worker.job].kind # "none" /\ ~Matches(event[worker.job], worker.span)
      BY <2>4, <3>1, <3>4 DEF SyncGets
    <3> QED BY <3>2, <3>3, <3>4
  <2>5. CASE SyncImports
    BY <2>5 DEF SyncImports
  <2>6. CASE SyncChecksConflict
    BY <2>6 DEF SyncChecksConflict
  <2>7. CASE SyncPosts
    BY <2>7 DEF SyncPosts
  <2>8. CASE SyncGetsAfterConflict
    BY <2>8 DEF SyncGetsAfterConflict
  <2>9. CASE WorkerMarks
    BY <2>9 DEF WorkerMarks, IdleWorker
  <2> QED BY <1>2, <2>1, <2>2, <2>3, <2>4, <2>5, <2>6, <2>7, <2>8, <2>9 DEF WorkerNext, SyncCalls
<1>3. CASE Crash
  BY <1>3 DEF Crash, IdleWorker
<1>4. CASE CreateNext
  BY <1>1, <1>4 DEF CreateNext, CreateBegin, CreateSkipsRefresh, CreateReadsExternal,
     CreateFails, CreateReadsLocal, CreateInserts
<1>5. CASE PortalNext
  BY <1>1, <1>5 DEF PortalNext, PatchStatus, PatchCancel, Retry
<1>6. CASE RefreshNext
  BY <1>1, <1>6 DEF RefreshNext, RefreshSteps, RefreshBegins, RefreshTokenExpired,
     RefreshReads, RefreshApplies, RefreshFails, RefreshRecovers
<1>7. CASE Connect \/ Disconnect \/ GrantRevoked
  BY <1>1, <1>7 DEF Connect, Disconnect, GrantRevoked
<1>8. CASE OwnerNext
  BY <1>1, <1>8 DEF OwnerNext, OwnerChanges, LateInsert, OwnerMoves, OwnerDeletes, OwnerRestores,
     OwnerMakesSeries, OwnerMakesSingle, OwnerMovesOut, OwnerDeletesCalendar, OwnerGetsBusy,
     TokenExpires
<1>9. CASE TimeNext
  BY <1>1, <1>9 DEF TimeNext, BackoffEnds
<1> QED BY <1>1, <1>2, <1>3, <1>4, <1>5, <1>6, <1>7, <1>8, <1>9 DEF Next, ConnectionNext, vars

LEMMA MarkStep ==
  ASSUME NEW r \in Row, NEW g \in Nat, Exists(r), Sound(r), r.gen = g => r.cal # "synced"
  PROVE  /\ Sound(WorkerSynced(r, g)) /\ WorkerSynced(r, g).status = r.status
         /\ Sound(WorkerFailed(r, g)) /\ WorkerFailed(r, g).status = r.status
         /\ WorkerSynced(r, g).span = r.span /\ WorkerFailed(r, g).span = r.span
BY DEF Sound, Row, WorkerSynced, WorkerFailed

LEMMA SyncInvKept ==
  ASSUME TypeOK, TypeOK', SyncInv, [Next]_vars
  PROVE  SyncInv'
<1>0. \A b \in Bookings : row[b] \in Row /\ row'[b] \in Row
  BY DEF TypeOK
<1>1. CASE CreateInserts
  <2>1. PICK b \in Bookings : IsNext(b) /\ row' = IF InsertAllowed(create.span)
                                THEN [row EXCEPT ![b] = NewRow(create.span)] ELSE row
    BY <1>1 DEF CreateInserts
  <2>2. Sound(NewRow(create.span))
    BY DEF Sound, NewRow, Columns
  <2>3. \A c \in Bookings : Exists(row[c]) => row'[c] = row[c]
    BY <2>1 DEF IsNext, TypeOK
  <2>4. \A c \in Bookings : Sound(row'[c])
    BY <2>1, <2>2 DEF SyncInv, TypeOK
  <2>5. UNCHANGED worker
    BY <1>1 DEF CreateInserts
  <2> QED BY <2>3, <2>4, <2>5 DEF SyncInv, WorkerBehind
<1>2. CASE WorkerMarks
  <2>1. worker'.at = "idle"
    BY <1>2 DEF WorkerMarks, IdleWorker
  <2>2. worker.job \in Bookings /\ worker.gen \in Nat
    BY <1>2 DEF WorkerMarks, SyncInv, WorkerBehind, TypeOK, Worker
  <2>3. Sound(WorkerSynced(row[worker.job], worker.gen)) /\ Sound(WorkerFailed(row[worker.job], worker.gen))
    BY <1>0, <1>2, <2>2, MarkStep DEF WorkerMarks, SyncInv, WorkerBehind
  <2>4. \A c \in Bookings : Sound(row'[c])
    BY <1>2, <2>2, <2>3 DEF WorkerMarks, SyncInv, TypeOK
  <2> QED BY <2>1, <2>4 DEF SyncInv, WorkerBehind
<1>3. CASE ~CreateInserts /\ ~WorkerMarks
  <2>1. \A b \in Bookings : RowStep(row[b], row'[b])
    BY <1>3, RowSteps
  <2>2. \A b \in Bookings : Sound(row'[b])
    BY <2>1 DEF SyncInv, RowStep
  <2>3. CASE \E b \in Bookings : WorkerPicks(b)
    <3>1. PICK b \in Bookings : WorkerPicks(b)
      BY <2>3
    <3>2. worker'.job = b /\ worker'.gen = row[b].gen /\ row'[b] = row[b]
      BY <3>1 DEF WorkerPicks
    <3>3. Exists(row[b]) /\ row[b].cal # "synced"
      BY <3>1 DEF WorkerPicks, Due
    <3> QED BY <1>0, <2>2, <3>2, <3>3 DEF SyncInv, WorkerBehind, Row
  <2>4. CASE ~(\E b \in Bookings : WorkerPicks(b)) /\ worker'.at # "idle"
    <3>1. worker.at # "idle" /\ worker'.job = worker.job /\ worker'.gen = worker.gen
      BY <2>4, WorkerKeeps
    <3>2. worker.job \in Bookings /\ RowStep(row[worker.job], row'[worker.job])
          /\ worker.gen \in Nat
      BY <2>1, <3>1 DEF SyncInv, WorkerBehind, TypeOK, Worker
    <3> QED BY <1>0, <2>2, <3>1, <3>2 DEF SyncInv, WorkerBehind, RowStep, Row
  <2> QED BY <2>2, <2>3, <2>4 DEF SyncInv, WorkerBehind
<1> QED BY <1>1, <1>2, <1>3

LEMMA SyncInvHolds == Spec => [](TypeOK /\ SyncInv)
<1>1. Init => SyncInv
  BY DEF Init, SyncInv, WorkerBehind, Sound, NoRow, Columns, IdleWorker
<1>2. TypeOK /\ TypeOK' /\ SyncInv /\ [Next]_vars => SyncInv'
  BY SyncInvKept
<1> QED BY <1>1, <1>2, TypeCorrect, PTL DEF Spec

\* A booking that exists goes on existing, and no step reopens a cancelled one.
LEMMA StatusKept ==
  ASSUME TypeOK, SyncInv, [Next]_vars, NEW b \in Bookings, Exists(row[b])
  PROVE  Exists(row'[b]) /\ (row[b].status = "cancelled" => row'[b].status = "cancelled")
<1>0. \A c \in Bookings : row[c] \in Row
  BY DEF TypeOK
<1>1. CASE CreateInserts
  BY <1>1 DEF CreateInserts, IsNext, TypeOK
<1>2. CASE WorkerMarks
  <2>1. worker.job \in Bookings /\ worker.gen \in Nat
    BY <1>2 DEF WorkerMarks, SyncInv, WorkerBehind, TypeOK, Worker
  <2>2. WorkerSynced(row[worker.job], worker.gen).status = row[worker.job].status
        /\ WorkerFailed(row[worker.job], worker.gen).status = row[worker.job].status
    BY <1>0, <1>2, <2>1, MarkStep DEF WorkerMarks, SyncInv, WorkerBehind
  <2> QED BY <1>2, <2>1, <2>2 DEF WorkerMarks, TypeOK, Exists
<1>3. CASE ~CreateInserts /\ ~WorkerMarks
  BY <1>3, RowSteps DEF RowStep
<1> QED BY <1>1, <1>2, <1>3

\* No step reopens a cancelled booking: not an answer that arrives late, not an
\* event that is still there or there again, not a replaced calendar.
THEOREM CancelledStaysCancelled == Spec => CancelledForGood
<1>1. TypeOK /\ SyncInv /\ [Next]_vars
        => [\A b \in Bookings : row[b].status = "cancelled" => row'[b].status = "cancelled"]_vars
  BY StatusKept DEF Exists
<1> QED BY <1>1, SyncInvHolds, PTL DEF Spec, CancelledForGood

-----------------------------------------------------------------------------
(* Times.  Whoever holds a time for a booking, Google, a request on its    *)
(* way, the worker or a snapshot, holds the time of its row, unless the    *)
(* owner moved the event.                                                  *)

InEvent(b, s) == event[b].kind # "none" /\ event[b].span = s

InLate(b, s) == <<b, s>> \in late

InWorker(b, s) ==
  /\ worker.at # "idle" /\ worker.job = b
  /\ \/ worker.span = s
     \/ worker.at = "import" /\ worker.found.kind # "deleted" /\ worker.found.span = s

InSnapshot(b, s) ==
  /\ refresh.at = "apply" /\ b \in refresh.listed
  /\ refresh.saw[b].kind # "deleted" /\ refresh.saw[b].span = s

KnownSpan(b, s) == InEvent(b, s) \/ InLate(b, s) \/ InWorker(b, s) \/ InSnapshot(b, s)

SpansFollow ==
  \A b \in Bookings, s \in Spans :
    KnownSpan(b, s) => Exists(row[b]) /\ (b \in moved \/ s = row[b].span)

\* A new time in Google was sent by the worker, or given by the owner.
LEMMA EventStep ==
  ASSUME TypeOK, [Next]_vars, NEW b \in Bookings, NEW s \in Spans, InEvent(b, s)'
  PROVE  KnownSpan(b, s) \/ (b \in moved' /\ InEvent(b, event[b].span))
<1> USE DEF TypeOK, KnownSpan, InEvent
<1>1. CASE UNCHANGED event
  BY <1>1
<1>2. CASE SyncDeletes
  <2>1. CASE event' = [event EXCEPT ![worker.job] = Tombstone(event[worker.job])]
             /\ Shown(event[worker.job])
    BY <2>1 DEF Tombstone, Shown, Event
  <2> QED BY <1>1, <1>2, <2>1 DEF SyncDeletes
<1>3. CASE SyncPosts
  <2>1. CASE event' = [event EXCEPT ![worker.job] = Live(worker.span)]
    BY <1>3, <2>1 DEF SyncPosts, Live, InWorker, Event
  <2> QED BY <1>1, <1>3, <2>1 DEF SyncPosts
<1>4. ASSUME NEW c \in Bookings, NEW t \in Spans, LateInsert(c, t)
      PROVE  KnownSpan(b, s) \/ (b \in moved' /\ InEvent(b, event[b].span))
  <2>1. CASE event' = [event EXCEPT ![c] = Live(t)]
    BY <1>4, <2>1 DEF LateInsert, Live, InLate, Event
  <2> QED BY <1>1, <1>4, <2>1 DEF LateInsert
<1>5. ASSUME NEW c \in Bookings, NEW t \in Spans, OwnerMoves(c, t)
      PROVE  KnownSpan(b, s) \/ (b \in moved' /\ InEvent(b, event[b].span))
  BY <1>5 DEF OwnerMoves, OwnerChanges, Live, Event
<1>6. ASSUME NEW c \in Bookings, OwnerDeletes(c) PROVE KnownSpan(b, s)
  BY <1>6 DEF OwnerDeletes, OwnerChanges, Tombstone, Shown, Event
<1>7. ASSUME NEW c \in Bookings, OwnerRestores(c) PROVE KnownSpan(b, s)
  BY <1>7 DEF OwnerRestores, OwnerChanges, Live, Event
<1>8. ASSUME NEW c \in Bookings, OwnerMakesSeries(c) PROVE KnownSpan(b, s)
  BY <1>8 DEF OwnerMakesSeries, OwnerChanges, Event
<1>9. ASSUME NEW c \in Bookings, OwnerMakesSingle(c) PROVE KnownSpan(b, s)
  BY <1>9 DEF OwnerMakesSingle, OwnerChanges, Live, Event
<1>10. ASSUME NEW c \in Bookings, OwnerMovesOut(c) PROVE KnownSpan(b, s)
  BY <1>10 DEF OwnerMovesOut, OwnerChanges, NoEvent, Event
<1>11. CASE OwnerDeletesCalendar
  BY <1>11 DEF OwnerDeletesCalendar, NoEvent
<1>12. CASE OwnerNext
  <2> SUFFICES ASSUME TokenExpires \/ \E t \in Spans : OwnerGetsBusy(t)
               PROVE  UNCHANGED event
    BY <1>1, <1>4, <1>5, <1>6, <1>7, <1>8, <1>9, <1>10, <1>11, <1>12 DEF OwnerNext
  <2> QED BY DEF TokenExpires, OwnerGetsBusy
<1>13. CASE CreateNext \/ PortalNext \/ TimeNext
  BY <1>1, <1>13 DEF CreateNext, CreateBegin, CreateSkipsRefresh, CreateReadsExternal,
     CreateFails, CreateReadsLocal, CreateInserts, PortalNext, PatchStatus, PatchCancel, Retry,
     TimeNext, BackoffEnds, google
<1>14. CASE WorkerNext
  BY <1>1, <1>2, <1>3, <1>14 DEF WorkerNext, SyncCalls, WorkerPicks, SyncEnters, SyncFails, SyncGets,
     SyncImports, SyncChecksConflict, SyncGetsAfterConflict, WorkerMarks, google
<1>15. CASE RefreshNext
  BY <1>1, <1>15 DEF RefreshNext, RefreshSteps, RefreshBegins, RefreshTokenExpired, RefreshReads,
     RefreshApplies, RefreshFails, RefreshRecovers, google
<1>16. CASE ConnectionNext
  BY <1>1, <1>16 DEF ConnectionNext, Connect, Disconnect, GrantRevoked, Crash, google
<1> QED BY <1>1, <1>12, <1>13, <1>14, <1>15, <1>16 DEF Next, vars, google

\* Only the worker's own request can be on its way.
LEMMA LateStep ==
  ASSUME TypeOK, [Next]_vars, NEW b \in Bookings, NEW s \in Spans, InLate(b, s)'
  PROVE  KnownSpan(b, s)
<1> USE DEF TypeOK, KnownSpan, InLate
<1>1. CASE UNCHANGED late
  BY <1>1
<1>2. CASE SyncPosts
  <2>1. CASE late' = late \cup {<<worker.job, worker.span>>}
    BY <1>2, <2>1 DEF SyncPosts, InWorker
  <2> QED BY <1>1, <1>2, <2>1 DEF SyncPosts
<1>3. CASE late' = {}
  BY <1>3
<1>4. ASSUME NEW c \in Bookings, NEW t \in Spans, LateInsert(c, t) PROVE KnownSpan(b, s)
  BY <1>4 DEF LateInsert
<1>5. CASE OwnerNext
  BY <1>1, <1>4, <1>5 DEF OwnerNext, OwnerChanges, OwnerMoves, OwnerDeletes, OwnerRestores,
     OwnerMakesSeries, OwnerMakesSingle, OwnerMovesOut, OwnerDeletesCalendar, OwnerGetsBusy,
     TokenExpires
<1>6. CASE CreateNext \/ PortalNext \/ TimeNext
  BY <1>1, <1>6 DEF CreateNext, CreateBegin, CreateSkipsRefresh, CreateReadsExternal,
     CreateFails, CreateReadsLocal, CreateInserts, PortalNext, PatchStatus, PatchCancel, Retry,
     TimeNext, BackoffEnds, google
<1>7. CASE WorkerNext
  BY <1>1, <1>2, <1>7 DEF WorkerNext, SyncCalls, WorkerPicks, SyncEnters, SyncFails, SyncDeletes,
     SyncGets, SyncImports, SyncChecksConflict, SyncGetsAfterConflict, WorkerMarks, google
<1>8. CASE RefreshNext
  BY <1>1, <1>3, <1>8 DEF RefreshNext, RefreshSteps, RefreshBegins, RefreshTokenExpired, RefreshReads,
     RefreshApplies, RefreshFails, RefreshRecovers, google
<1>9. CASE ConnectionNext
  BY <1>1, <1>3, <1>9 DEF ConnectionNext, Connect, Disconnect, GrantRevoked, Crash, google
<1> QED BY <1>1, <1>5, <1>6, <1>7, <1>8, <1>9 DEF Next, vars, google

\* The worker takes a time from the row, or from an answer of Google's.
LEMMA WorkerSpanStep ==
  ASSUME TypeOK, [Next]_vars, NEW b \in Bookings, NEW s \in Spans, InWorker(b, s)'
  PROVE  KnownSpan(b, s) \/ (Exists(row[b]) /\ s = row[b].span)
<1> USE DEF TypeOK, Worker, KnownSpan, InWorker
<1>1. CASE UNCHANGED worker
  BY <1>1
<1>2. CASE worker' = IdleWorker
  BY <1>2 DEF IdleWorker
<1>3. ASSUME NEW c \in Bookings, WorkerPicks(c)
      PROVE  Exists(row[b]) /\ s = row[b].span
  BY <1>3 DEF WorkerPicks, Due
<1>4. CASE SyncGets
  <2>0. worker.at = "call"
    BY <1>4 DEF SyncGets
  <2>1. CASE event[worker.job].kind = "none"
    BY <1>4, <2>0, <2>1 DEF SyncGets
  <2>2. CASE event[worker.job].kind # "none" /\ Matches(event[worker.job], worker.span)
    BY <1>4, <2>0, <2>2 DEF SyncGets
  <2>3. CASE event[worker.job].kind # "none" /\ ~Matches(event[worker.job], worker.span)
    <3>1. worker' = [worker EXCEPT !.at = "import", !.found = event[worker.job]]
      BY <1>4, <2>3 DEF SyncGets
    <3> QED BY <2>0, <2>3, <3>1 DEF InEvent
  <2> QED BY <2>1, <2>2, <2>3
<1>5. CASE SyncEnters
  BY <1>5 DEF SyncEnters
<1>6. CASE SyncFails
  BY <1>6 DEF SyncFails
<1>7. CASE SyncDeletes
  BY <1>7 DEF SyncDeletes
<1>8. CASE SyncImports
  BY <1>8 DEF SyncImports
<1>9. CASE SyncChecksConflict
  BY <1>9 DEF SyncChecksConflict
<1>10. CASE SyncPosts
  BY <1>10 DEF SyncPosts
<1>11. CASE SyncGetsAfterConflict
  BY <1>11 DEF SyncGetsAfterConflict
<1>12. CASE WorkerNext
  BY <1>2, <1>3, <1>4, <1>5, <1>6, <1>7, <1>8, <1>9, <1>10, <1>11, <1>12
     DEF WorkerNext, SyncCalls, WorkerMarks
<1>13. CASE CreateNext \/ PortalNext \/ TimeNext
  BY <1>1, <1>13 DEF CreateNext, CreateBegin, CreateSkipsRefresh, CreateReadsExternal,
     CreateFails, CreateReadsLocal, CreateInserts, PortalNext, PatchStatus, PatchCancel, Retry,
     TimeNext, BackoffEnds
<1>14. CASE RefreshNext
  BY <1>1, <1>14 DEF RefreshNext, RefreshSteps, RefreshBegins, RefreshTokenExpired, RefreshReads,
     RefreshApplies, RefreshFails, RefreshRecovers
<1>15. CASE ConnectionNext
  BY <1>1, <1>2, <1>15 DEF ConnectionNext, Connect, Disconnect, GrantRevoked, Crash
<1>16. CASE OwnerNext
  BY <1>1, <1>16 DEF OwnerNext, OwnerChanges, LateInsert, OwnerMoves, OwnerDeletes, OwnerRestores,
     OwnerMakesSeries, OwnerMakesSingle, OwnerMovesOut, OwnerDeletesCalendar, OwnerGetsBusy,
     TokenExpires
<1> QED BY <1>1, <1>12, <1>13, <1>14, <1>15, <1>16 DEF Next, vars

\* A snapshot shows what the calendar showed when it was read.
LEMMA SnapshotStep ==
  ASSUME TypeOK, [Next]_vars, NEW b \in Bookings, NEW s \in Spans, InSnapshot(b, s)'
  PROVE  KnownSpan(b, s)
<1> USE DEF TypeOK, Refresh, KnownSpan, InSnapshot
<1>1. CASE UNCHANGED refresh
  BY <1>1
<1>2. CASE refresh' = IdleRefresh
  BY <1>2 DEF IdleRefresh
<1>3. ASSUME NEW S, Changed(S) PROVE KnownSpan(b, s)
  BY <1>3 DEF Changed
<1>4. CASE RefreshReads
  <2>1. /\ refresh'.listed = IF refresh.full THEN {c \in Bookings : event[c].kind # "none"} ELSE feed
        /\ refresh'.saw[b] = IF event[b].kind = "none" /\ ~refresh.full /\ b \in feed
                               THEN Tombstone(event[b]) ELSE event[b]
    BY <1>4 DEF RefreshReads
  <2>2. CASE event[b].kind = "none"
    BY <2>1, <2>2 DEF Tombstone, Event
  <2>3. CASE event[b].kind # "none"
    BY <2>1, <2>3 DEF InEvent
  <2> QED BY <2>2, <2>3
<1>5. CASE RefreshNext
  <2>1. CASE \E by \in {"timer", "create"} : RefreshBegins(by)
    BY <2>1 DEF RefreshBegins
  <2>2. CASE RefreshTokenExpired
    BY <2>2 DEF RefreshTokenExpired
  <2>3. CASE RefreshApplies \/ RefreshFails
    BY <1>2, <2>3 DEF RefreshApplies, RefreshFails, RefreshOver
  <2>4. CASE RefreshRecovers
    BY <2>4 DEF RefreshRecovers
  <2> QED BY <1>4, <1>5, <2>1, <2>2, <2>3, <2>4 DEF RefreshNext, RefreshSteps
<1>6. CASE CreateNext \/ PortalNext \/ TimeNext
  BY <1>1, <1>6 DEF CreateNext, CreateBegin, CreateSkipsRefresh, CreateReadsExternal,
     CreateFails, CreateReadsLocal, CreateInserts, PortalNext, PatchStatus, PatchCancel, Retry,
     TimeNext, BackoffEnds
<1>7. CASE WorkerNext
  BY <1>1, <1>3, <1>7 DEF WorkerNext, SyncCalls, WorkerPicks, SyncEnters, SyncFails, SyncDeletes,
     SyncGets, SyncImports, SyncChecksConflict, SyncPosts, SyncGetsAfterConflict, WorkerMarks
<1>8. CASE ConnectionNext
  BY <1>1, <1>2, <1>8 DEF ConnectionNext, Connect, Disconnect, GrantRevoked, Crash
<1>9. CASE OwnerNext
  BY <1>1, <1>3, <1>9 DEF OwnerNext, OwnerChanges, LateInsert, OwnerMoves, OwnerDeletes, OwnerRestores,
     OwnerMakesSeries, OwnerMakesSingle, OwnerMovesOut, OwnerDeletesCalendar, OwnerGetsBusy,
     TokenExpires
<1> QED BY <1>1, <1>5, <1>6, <1>7, <1>8, <1>9 DEF Next, vars

\* The row of an existing booking takes another time only from an event.
LEMMA ImportSpan ==
  ASSUME NEW r \in Row, NEW ev \in Event
  PROVE  \/ ImportEvent(r, ev).span = r.span
         \/ Exists(r) /\ ev.kind # "deleted" /\ ImportEvent(r, ev).span = ev.span
BY DEF ImportEvent, ImportRemoval, ImportOfCancelled, ImportOfActive, Settled, Columns

LEMMA RowSpanStep ==
  ASSUME TypeOK, SyncInv, [Next]_vars, NEW b \in Bookings, Exists(row[b])
  PROVE  \/ row'[b].span = row[b].span
         \/ (SyncImports \/ RefreshApplies) /\ KnownSpan(b, row'[b].span)
<1>0. \A c \in Bookings : row[c] \in Row
  BY DEF TypeOK
<1>1. CASE UNCHANGED row
  BY <1>1
<1>2. CASE CreateInserts
  BY <1>2 DEF CreateInserts, IsNext, TypeOK
<1>3. CASE PortalNext
  <2> SUFFICES ASSUME NEW c \in Bookings,
                      \/ \E st \in Followups : PatchStatus(c, st)
                      \/ PatchCancel(c)
                      \/ Retry(c)
               PROVE  row'[b].span = row[b].span
    BY <1>3 DEF PortalNext
  <2>1. ASSUME NEW st \in Followups, PatchStatus(c, st) PROVE row'[b].span = row[b].span
    BY <1>0, <2>1 DEF PatchStatus, TypeOK, Row
  <2>2. CASE PatchCancel(c)
    BY <1>0, <2>2 DEF PatchCancel, PortalCancel, Columns, TypeOK
  <2>3. CASE Retry(c)
    BY <1>0, <2>3 DEF Retry, PortalRetry, TypeOK, Row
  <2> QED BY <2>1, <2>2, <2>3
<1>4. CASE WorkerMarks
  <2>1. worker.job \in Bookings /\ worker.gen \in Nat
    BY <1>4 DEF WorkerMarks, SyncInv, WorkerBehind, TypeOK, Worker
  <2>2. WorkerSynced(row[worker.job], worker.gen).span = row[worker.job].span
        /\ WorkerFailed(row[worker.job], worker.gen).span = row[worker.job].span
    BY <1>0, <1>4, <2>1, MarkStep DEF WorkerMarks, SyncInv, WorkerBehind
  <2> QED BY <1>4, <2>1, <2>2 DEF WorkerMarks, TypeOK
<1>5. CASE SyncImports
  <2>1. worker.found \in Event /\ worker.at = "import"
    BY <1>5 DEF SyncImports, TypeOK, Worker
  <2>2. CASE b = worker.job /\ row'[b] = ImportEvent(row[b], worker.found)
    BY <1>0, <1>5, <2>1, <2>2, ImportSpan DEF KnownSpan, InWorker
  <2>3. row'[b] = row[b] \/ (b = worker.job /\ row'[b] = ImportEvent(row[b], worker.found))
    BY <1>5 DEF SyncImports, TypeOK
  <2> QED BY <2>2, <2>3
<1>6. CASE RefreshApplies
  <2>1. refresh.saw[b] \in Event /\ Tombstone(NoEvent) \in Event /\ Tombstone(NoEvent).kind = "deleted"
    BY EventTypes DEF TypeOK, Refresh, Tombstone, NoEvent
  <2>2. CASE b \in refresh.listed
    <3>1. row'[b] = ImportEvent(row[b], refresh.saw[b])
      BY <1>6, <2>2 DEF RefreshApplies
    <3> QED BY <1>0, <1>6, <2>1, <2>2, <3>1, ImportSpan DEF RefreshApplies, KnownSpan, InSnapshot
  <2>3. CASE b \notin refresh.listed
    <3>1. row'[b] = row[b] \/ row'[b] = ImportEvent(row[b], Tombstone(NoEvent))
      BY <1>6, <2>3 DEF RefreshApplies
    <3> QED BY <1>0, <2>1, <3>1, ImportSpan
  <2> QED BY <2>2, <2>3
<1>7. \A r \in Row : ResetForNewCalendar(r).span = r.span
  BY DEF ResetForNewCalendar, Settled, Columns
<1>8. CASE RefreshRecovers
  BY <1>0, <1>7, <1>8 DEF RefreshRecovers
<1>9. CASE Connect
  <2> DEFINE kept(r) == IF calendarLost THEN ResetForNewCalendar(r) ELSE r
  <2>1. kept(row[b]) \in Row /\ kept(row[b]).span = row[b].span
    BY <1>0, <1>7, ResetType
  <2>2. row'[b] = [kept(row[b]) EXCEPT !.waiting = kept(row[b]).waiting /\ kept(row[b]).cal = "synced"]
    BY <1>9 DEF Connect
  <2> HIDE DEF kept
  <2> QED BY <2>1, <2>2 DEF Row
<1>10. CASE TimeNext
  <2> SUFFICES ASSUME NEW c \in Bookings, BackoffEnds(c) PROVE row'[b].span = row[b].span
    BY <1>10 DEF TimeNext
  <2> QED BY <1>0 DEF BackoffEnds, TypeOK, Row
<1>11. CASE CreateNext
  BY <1>1, <1>2, <1>11 DEF CreateNext, CreateBegin, CreateSkipsRefresh, CreateReadsExternal,
     CreateFails, CreateReadsLocal
<1>12. CASE WorkerNext
  BY <1>1, <1>4, <1>5, <1>12 DEF WorkerNext, SyncCalls, WorkerPicks, SyncEnters, SyncFails, SyncDeletes,
     SyncGets, SyncChecksConflict, SyncPosts, SyncGetsAfterConflict
<1>13. CASE RefreshNext
  BY <1>1, <1>6, <1>8, <1>13 DEF RefreshNext, RefreshSteps, RefreshBegins, RefreshTokenExpired,
     RefreshReads, RefreshFails
<1>14. CASE ConnectionNext
  BY <1>1, <1>9, <1>14 DEF ConnectionNext, Disconnect, GrantRevoked, Crash
<1>15. CASE OwnerNext
  BY <1>1, <1>15 DEF OwnerNext, OwnerChanges, LateInsert, OwnerMoves, OwnerDeletes, OwnerRestores,
     OwnerMakesSeries, OwnerMakesSingle, OwnerMovesOut, OwnerDeletesCalendar, OwnerGetsBusy,
     TokenExpires
<1> QED BY <1>1, <1>3, <1>10, <1>11, <1>12, <1>13, <1>14, <1>15 DEF Next, vars

LEMMA MovedGrows ==
  ASSUME TypeOK, [Next]_vars
  PROVE  moved \subseteq moved'
<1>1. CASE OwnerNext
  BY <1>1 DEF OwnerNext, OwnerChanges, LateInsert, OwnerMoves, OwnerDeletes, OwnerRestores,
     OwnerMakesSeries, OwnerMakesSingle, OwnerMovesOut, OwnerDeletesCalendar, OwnerGetsBusy,
     TokenExpires
<1>2. CASE CreateNext \/ PortalNext \/ TimeNext
  BY <1>2 DEF CreateNext, CreateBegin, CreateSkipsRefresh, CreateReadsExternal,
     CreateFails, CreateReadsLocal, CreateInserts, PortalNext, PatchStatus, PatchCancel, Retry,
     TimeNext, BackoffEnds, google
<1>3. CASE WorkerNext
  BY <1>3 DEF WorkerNext, SyncCalls, WorkerPicks, SyncEnters, SyncFails, SyncDeletes, SyncGets,
     SyncImports, SyncChecksConflict, SyncPosts, SyncGetsAfterConflict, WorkerMarks, google
<1>4. CASE RefreshNext
  BY <1>4 DEF RefreshNext, RefreshSteps, RefreshBegins, RefreshTokenExpired, RefreshReads,
     RefreshApplies, RefreshFails, RefreshRecovers, google
<1>5. CASE ConnectionNext
  BY <1>5 DEF ConnectionNext, Connect, Disconnect, GrantRevoked, Crash, google
<1> QED BY <1>1, <1>2, <1>3, <1>4, <1>5 DEF Next, vars, google

LEMMA SpansFollowKept ==
  ASSUME TypeOK, TypeOK', SyncInv, SpansFollow, [Next]_vars
  PROVE  SpansFollow'
<1> SUFFICES ASSUME NEW b \in Bookings, NEW s \in Spans, KnownSpan(b, s)'
             PROVE  Exists(row'[b]) /\ (b \in moved' \/ s = row'[b].span)
  BY DEF SpansFollow
<1>1. row[b] \in Row /\ row'[b] \in Row /\ event[b].span \in Spans
  BY DEF TypeOK, Event
<1>2. \/ KnownSpan(b, s)
      \/ b \in moved' /\ InEvent(b, event[b].span)
      \/ Exists(row[b]) /\ s = row[b].span
  BY EventStep, LateStep, WorkerSpanStep, SnapshotStep DEF KnownSpan
<1>3. Exists(row[b])
  BY <1>1, <1>2 DEF SpansFollow, KnownSpan
<1>4. Exists(row'[b])
  BY <1>3, StatusKept
<1>5. b \in moved \/ row'[b].span = row[b].span
  <2>1. row'[b].span \in Spans
    BY <1>1 DEF Row
  <2> QED BY <1>3, <2>1, RowSpanStep DEF SpansFollow
<1>6. b \in moved' \/ s = row[b].span
  BY <1>2, MovedGrows DEF SpansFollow
<1> QED BY <1>4, <1>5, <1>6, MovedGrows

LEMMA SpansFollowHolds == Spec => [](TypeOK /\ SyncInv /\ SpansFollow)
<1>1. Init => SpansFollow
  BY DEF Init, SpansFollow, KnownSpan, InEvent, InLate, InWorker, InSnapshot, NoEvent, IdleWorker,
     IdleRefresh
<1>2. TypeOK /\ TypeOK' /\ SyncInv /\ SpansFollow /\ [Next]_vars => SpansFollow'
  BY SpansFollowKept
<1> QED BY <1>1, <1>2, TypeCorrect, SyncInvHolds, PTL DEF Spec

-----------------------------------------------------------------------------
(* Two appointments at one time.                                           *)

LEMMA OverlapsBothWays ==
  ASSUME NEW s \in Spans, NEW t \in Spans
  PROVE  Overlaps(s, t) <=> Overlaps(t, s)
BY SpansAssumption, BuffersAssumption DEF Overlaps

LEMMA ActiveRow ==
  ASSUME NEW r \in Row
  PROVE  /\ Active(r) <=> Exists(r) /\ r.status # "cancelled"
         /\ Active(r) => Held(r)
BY FollowupsAssumption DEF Row, Active, Exists, Held, Statuses

LEMMA NoDoubleKept ==
  ASSUME TypeOK, TypeOK', SyncInv, SpansFollow, NoDoubleBooking, [Next]_vars
  PROVE  NoDoubleBooking'
<1>0. \A b \in Bookings : row[b] \in Row /\ row'[b] \in Row
  BY DEF TypeOK
\* An appointment that was there keeps its time, unless moved, and was on.
<1>1. ASSUME NEW b \in Bookings, Exists(row[b]), Active(row'[b])
      PROVE  Active(row[b]) /\ (b \in moved \/ row'[b].span = row[b].span)
  <2>1. Active(row[b])
    BY <1>0, <1>1, StatusKept, ActiveRow
  <2>2. row'[b].span \in Spans
    BY <1>0 DEF Row
  <2> QED BY <1>1, <2>1, <2>2, RowSpanStep DEF SpansFollow
\* One that is new was found free of every held row.
<1>2. ASSUME NEW b \in Bookings, NEW c \in Bookings, b # c, ~Exists(row[b]),
             Active(row'[b]), Active(row'[c])
      PROVE  Exists(row[c]) /\ ~Overlaps(row'[b].span, row'[c].span)
  <2>1. Exists(row'[b])
    BY <1>0, <1>2, ActiveRow
  <2>2. CreateInserts
    <3>1. WorkerMarks => Exists(row[worker.job])
      BY DEF WorkerMarks, SyncInv, WorkerBehind
    <3>2. WorkerMarks => row'[b] = row[b]
      BY <1>2, <3>1 DEF WorkerMarks, TypeOK
    <3> QED BY <1>2, <2>1, <3>2, RowSteps DEF RowStep
  <2>3. PICK d \in Bookings : IsNext(d) /\ row' = IF InsertAllowed(create.span)
                                THEN [row EXCEPT ![d] = NewRow(create.span)] ELSE row
    BY <2>2 DEF CreateInserts
  <2>4. d = b /\ InsertAllowed(create.span) /\ row'[b] = NewRow(create.span) /\ row'[c] = row[c]
    BY <1>2, <2>1, <2>3 DEF TypeOK
  <2>5. create.span \in Spans
    BY DEF TypeOK, Create
  <2>6. row'[b].span = create.span /\ Active(row[c])
    BY <1>2, <2>4, <2>5, NewRowType
  <2> QED BY <1>0, <2>4, <2>6, ActiveRow DEF InsertAllowed, FreeLocally
<1> SUFFICES ASSUME NEW b \in Bookings, NEW c \in Bookings, b # c,
                    Active(row'[b]), Active(row'[c]), Overlaps(row'[b].span, row'[c].span)
             PROVE  b \in moved' \/ c \in moved'
  BY DEF NoDoubleBooking
<1>3. Overlaps(row'[c].span, row'[b].span)
  BY <1>0, OverlapsBothWays DEF Row
<1>4. Exists(row[b]) /\ Exists(row[c])
  BY <1>2, <1>3
<1> QED BY <1>1, <1>4, MovedGrows DEF NoDoubleBooking

\* Two appointments that are both on never overlap, unless the owner moved one
\* of them in Google: for any number of bookings, any times and any buffer,
\* through crashes, lost answers, late inserts and replaced calendars.
THEOREM NeverDoubleBooked == Spec => []NoDoubleBooking
<1>1. Init => NoDoubleBooking
  <2>1. ~Active(NoRow)
    BY NoRowType, ActiveRow
  <2> QED BY <2>1 DEF Init, NoDoubleBooking
<1>2. TypeOK /\ TypeOK' /\ SyncInv /\ SpansFollow /\ NoDoubleBooking /\ [Next]_vars
        => NoDoubleBooking'
  BY NoDoubleKept
<1> QED BY <1>1, <1>2, SpansFollowHolds, PTL DEF Spec

-----------------------------------------------------------------------------
(* What is never forgotten: the invariant                                  *)

\* The row says that Google agrees, or the worker is about to write that it does.
Claimed(b) ==
  /\ Exists(row[b])
  /\ \/ row[b].cal = "synced"
     \/ worker.at = "ok" /\ worker.job = b /\ worker.gen = row[b].gen

\* The next refresh will look at b, or one has passed it in the window.
Seen(b) == calendarLost \/ cursor # "valid" \/ b \in feed \/ b \in overtaken

\* The same of the token that the refresh about to be applied was given.
SeenNext(b) == calendarLost \/ b \in refresh.since \/ b \in overtaken

ClaimsInv == \A b \in Bookings : Claimed(b) => Agrees(b) \/ Seen(b)

\* A snapshot names an event by what it is, or by a tombstone if it has left.
Named(saw, ev) == saw.kind # "none" /\ (saw = ev \/ (saw.kind = "deleted" /\ ev.kind = "none"))

\* What the snapshot about to be applied says, or passes over, is true.
SnapshotInv ==
  refresh.at = "apply" =>
    \A b \in Bookings :
      \/ SeenNext(b)
      \/ b \in refresh.listed /\ Named(refresh.saw[b], event[b])
      \/ b \notin refresh.listed /\ refresh.full /\ event[b].kind = "none"
      \/ b \notin refresh.listed /\ ~refresh.full /\ (Claimed(b) => Agrees(b))

\* While its row is at the worker's generation, the worker knows its time and
\* whether it is cancelled.
KnowsInv ==
  worker.at # "idle" /\ row[worker.job].gen = worker.gen =>
    /\ row[worker.job].span = worker.span
    /\ row[worker.job].status = "cancelled" <=> worker.status = "cancelled"

\* An event on its way to its row is as Google has it, unless Google recorded a
\* change; cancelled bookings have no such steps.
CarriesInv ==
  /\ worker.at \in {"import", "check", "post", "reget"} => worker.status # "cancelled"
  /\ worker.at = "import" => /\ worker.found.kind # "none"
                             /\ worker.found = event[worker.job] \/ Seen(worker.job)

OpsInv == ~(SyncHoldsOps /\ RefreshHoldsOps)

FeedInv == TypeOK /\ SyncInv /\ OpsInv /\ KnowsInv /\ CarriesInv /\ ClaimsInv /\ SnapshotInv

-----------------------------------------------------------------------------
(* What a step does to a row *)

Same(r, q) == q.span = r.span /\ (q.status = "cancelled" <=> r.status = "cancelled")

\* The generation tells the times and the cancellations of a row apart.
GenStep(r, q) == q.gen >= r.gen /\ (q.gen = r.gen => Same(r, q))

\* No row comes to say that Google agrees, or to say it of something else.
Mild(r, q) ==
  /\ Exists(q) /\ q.cal = "synced" => Exists(r) /\ r.cal = "synced" /\ Same(r, q)
  /\ Exists(r) => GenStep(r, q)

LEMMA StaysMild == ASSUME NEW r \in Row PROVE Mild(r, r)
BY DEF Mild, GenStep, Same, Row

LEMMA PortalMild ==
  ASSUME NEW r \in Row, Active(r), NEW st \in Followups
  PROVE  Mild(r, [r EXCEPT !.status = st]) /\ Mild(r, PortalCancel(r))
<1>1. st # "cancelled" /\ r.status # "cancelled"
  BY FollowupsAssumption DEF Active
<1>2. Mild(r, [r EXCEPT !.status = st])
  BY <1>1, FollowupsAssumption DEF Mild, GenStep, Same, Row, Active, Exists
<1>3. Mild(r, PortalCancel(r))
  BY DEF Mild, GenStep, Same, Row, PortalCancel, Columns
<1> QED BY <1>2, <1>3

LEMMA RetryMild ==
  ASSUME NEW r \in Row
  PROVE  /\ Mild(r, PortalRetry(r))
         /\ \A w \in BOOLEAN : Mild(r, [r EXCEPT !.waiting = w])
BY DEF Mild, GenStep, Same, Row, Exists, PortalRetry

LEMMA SettledGen ==
  ASSUME NEW r \in Row, NEW s \in Spans, NEW st \in Statuses
  PROVE  GenStep(r, Settled(r, s, st))
BY DEF GenStep, Settled, Columns, Row

LEMMA ImportGen ==
  ASSUME NEW r \in Row, NEW ev \in Event
  PROVE  /\ GenStep(r, ImportEvent(r, ev))
         /\ ImportEvent(r, ev).gen = r.gen => ImportEvent(r, ev) = r
<1>1. GenStep(r, r)
  BY DEF GenStep, Same, Row
<1>2. \A s, st : Settled(r, s, st).gen = r.gen + 1 /\ r.gen + 1 > r.gen /\ r.gen \in Nat
  BY DEF Settled, Columns, Row
<1>3. ImportEvent(r, ev) = r \/ ImportEvent(r, ev).gen = r.gen + 1
  BY <1>2 DEF ImportEvent, ImportRemoval, ImportOfCancelled, ImportOfActive, Columns
<1> QED BY <1>1, <1>2, <1>3 DEF GenStep

LEMMA ResetGen ==
  ASSUME NEW r \in Row
  PROVE  GenStep(r, ResetForNewCalendar(r))
<1>1. GenStep(r, r)
  BY DEF GenStep, Same, Row
<1>2. ResetForNewCalendar(r) = r \/ ResetForNewCalendar(r).gen = r.gen + 1
  BY DEF ResetForNewCalendar, Settled, Columns
<1> QED BY <1>1, <1>2 DEF GenStep, Row

LEMMA MarkGen ==
  ASSUME NEW r \in Row, NEW g \in Nat
  PROVE  /\ GenStep(r, WorkerSynced(r, g)) /\ GenStep(r, WorkerFailed(r, g))
         /\ Mild(r, WorkerFailed(r, g))
BY DEF GenStep, Same, Mild, Row, Exists, WorkerSynced, WorkerFailed, CalendarStatuses

\* What the import of an event leaves: the row is not synced, or agrees with it.
LEMMA ImportAgrees ==
  ASSUME NEW r \in Row, NEW saw \in Event, NEW ev \in Event, Exists(r), saw.kind # "series", Named(saw, ev)
  PROVE  LET q == ImportEvent(r, saw) IN
         q.cal = "synced" => IF q.status = "cancelled" THEN ~Shown(ev) ELSE Matches(ev, q.span)
<1>1. CASE saw.kind = "deleted"
  <2>1. ImportEvent(r, saw).status = "cancelled" /\ ~Shown(ev)
    BY <1>1 DEF ImportEvent, ImportRemoval, Settled, Columns, Named, Shown, Event
  <2> QED BY <2>1
<1>2. CASE saw.kind = "live" /\ r.status = "cancelled"
  BY <1>2 DEF ImportEvent, ImportOfCancelled, Columns
<1>3. CASE saw.kind = "live" /\ r.status # "cancelled"
  <2>1. ev = saw /\ Shown(ev)
    BY <1>3 DEF Named, Shown
  <2>2. ImportEvent(r, saw).status # "cancelled" /\ ImportEvent(r, saw).span = saw.span
    BY <1>3 DEF ImportEvent, ImportOfActive, Settled, Columns
  <2> QED BY <2>1, <2>2 DEF Matches
<1> QED BY <1>1, <1>2, <1>3 DEF Named, Event

\* The steps that make or move claims; all others are mild.
Claims == WorkerMarks \/ SyncImports \/ RefreshApplies \/ RefreshRecovers \/ (Connect /\ calendarLost)

LEMMA RowsMove ==
  ASSUME TypeOK, [Next]_vars, ~Claims
  PROVE  \A b \in Bookings : Mild(row[b], row'[b])
<1>0. \A b \in Bookings : row[b] \in Row
  BY DEF TypeOK
<1>1. CASE UNCHANGED row
  BY <1>0, <1>1, StaysMild
<1>2. CASE PortalNext
  <2> SUFFICES ASSUME NEW b \in Bookings,
                      \/ \E st \in Followups : PatchStatus(b, st)
                      \/ PatchCancel(b)
                      \/ Retry(b)
               PROVE  \A c \in Bookings : Mild(row[c], row'[c])
    BY <1>2 DEF PortalNext
  <2>1. ASSUME NEW st \in Followups, PatchStatus(b, st) PROVE \A c \in Bookings : Mild(row[c], row'[c])
    BY <1>0, <2>1, PortalMild, StaysMild DEF PatchStatus, TypeOK
  <2>2. CASE PatchCancel(b)
    BY <1>0, <2>2, PortalMild, StaysMild, FollowupsAssumption DEF PatchCancel, TypeOK
  <2>3. CASE Retry(b)
    BY <1>0, <2>3, RetryMild, StaysMild DEF Retry, TypeOK
  <2> QED BY <2>1, <2>2, <2>3
<1>3. CASE Connect /\ ~calendarLost
  <2>1. row' = [b \in Bookings |-> [row[b] EXCEPT !.waiting = row[b].waiting /\ row[b].cal = "synced"]]
    BY <1>3 DEF Connect
  <2>2. ASSUME NEW r \in Row PROVE (r.waiting /\ r.cal = "synced") \in BOOLEAN
    BY DEF Row
  <2> QED BY <1>0, <2>1, <2>2, RetryMild
<1>4. CASE TimeNext
  BY <1>0, <1>4, RetryMild, StaysMild DEF TimeNext, BackoffEnds, TypeOK
<1>5. CASE CreateInserts
  <2>1. PICK b \in Bookings : IsNext(b) /\ row' = IF InsertAllowed(create.span)
                                THEN [row EXCEPT ![b] = NewRow(create.span)] ELSE row
    BY <1>5 DEF CreateInserts
  <2>2. Mild(row[b], NewRow(create.span))
    BY <2>1 DEF IsNext, Mild, NewRow, Columns
  <2> QED BY <1>0, <2>1, <2>2, StaysMild DEF TypeOK
<1>6. CASE CreateNext
  BY <1>1, <1>5, <1>6 DEF CreateNext, CreateBegin, CreateSkipsRefresh, CreateReadsExternal, CreateFails,
    CreateReadsLocal
<1>7. CASE WorkerNext
  BY <1>1, <1>7 DEF Claims, WorkerNext, SyncCalls, WorkerPicks, SyncEnters, SyncFails, SyncDeletes, SyncGets,
    SyncChecksConflict, SyncPosts, SyncGetsAfterConflict
<1>8. CASE RefreshNext
  BY <1>1, <1>8 DEF Claims, RefreshNext, RefreshSteps, RefreshBegins, RefreshTokenExpired, RefreshReads, RefreshFails
<1>9. CASE ConnectionNext
  BY <1>1, <1>3, <1>9 DEF Claims, ConnectionNext, Disconnect, GrantRevoked, Crash
<1>10. CASE OwnerNext
  BY <1>1, <1>10 DEF OwnerNext, OwnerChanges, LateInsert, OwnerMoves, OwnerDeletes, OwnerRestores,
    OwnerMakesSeries, OwnerMakesSingle, OwnerMovesOut, OwnerDeletesCalendar, OwnerGetsBusy, TokenExpires
<1> QED BY <1>1, <1>2, <1>4, <1>6, <1>7, <1>8, <1>9, <1>10 DEF Next, vars

LEMMA GenSteps ==
  ASSUME TypeOK, SyncInv, [Next]_vars, NEW b \in Bookings, Exists(row[b])
  PROVE  GenStep(row[b], row'[b])
<1>0. row[b] \in Row /\ GenStep(row[b], row[b])
  BY DEF TypeOK, GenStep, Same, Row
<1>1. CASE ~Claims
  BY <1>1, RowsMove DEF Mild
<1>2. CASE WorkerMarks
  <2>1. worker.job \in Bookings /\ worker.gen \in Nat
    BY <1>2 DEF WorkerMarks, SyncInv, WorkerBehind, TypeOK, Worker
  <2>2. row[worker.job] \in Row
    BY <2>1 DEF TypeOK
  <2> QED BY <1>0, <1>2, <2>1, <2>2, MarkGen DEF WorkerMarks, TypeOK
<1>3. CASE SyncImports
  <2>1. worker.found \in Event
    BY DEF TypeOK, Worker
  <2> QED BY <1>0, <1>3, <2>1, ImportGen DEF SyncImports, TypeOK
<1>4. CASE RefreshApplies
  <2>1. Tombstone(NoEvent) \in Event /\ refresh.saw[b] \in Event
    BY EventTypes DEF TypeOK, Refresh
  <2> QED BY <1>0, <1>4, <2>1, ImportGen DEF RefreshApplies
<1>5. CASE RefreshRecovers
  BY <1>0, <1>5, ResetGen DEF RefreshRecovers
<1>6. CASE Connect /\ calendarLost
  <2> DEFINE q == ResetForNewCalendar(row[b])
  <2>1. row'[b] = [q EXCEPT !.waiting = q.waiting /\ q.cal = "synced"]
    BY <1>6 DEF Connect
  <2>2. q \in Row /\ GenStep(row[b], q)
    BY <1>0, ResetType, ResetGen
  <2> HIDE DEF q
  <2>3. row'[b].gen = q.gen /\ row'[b].span = q.span /\ row'[b].status = q.status
    BY <2>1, <2>2 DEF Row
  <2> QED BY <2>2, <2>3 DEF GenStep, Same
<1> QED BY <1>1, <1>2, <1>3, <1>4, <1>5, <1>6 DEF Claims

-----------------------------------------------------------------------------
(* What the worker knows, and who holds ops *)

LEMMA KnowsKept ==
  ASSUME TypeOK, SyncInv, KnowsInv, [Next]_vars
  PROVE  KnowsInv'
<1> SUFFICES ASSUME worker'.at # "idle", row'[worker'.job].gen = worker'.gen
             PROVE  /\ row'[worker'.job].span = worker'.span
                    /\ row'[worker'.job].status = "cancelled" <=> worker'.status = "cancelled"
  BY DEF KnowsInv
<1>1. CASE \E b \in Bookings : WorkerPicks(b)
  <2>1. PICK b \in Bookings : WorkerPicks(b)
    BY <1>1
  <2>2. worker'.job = b /\ worker'.span = row[b].span /\ worker'.status = row[b].status /\ row' = row
    BY <2>1 DEF WorkerPicks
  <2> QED BY <2>2
<1>2. CASE ~\E b \in Bookings : WorkerPicks(b)
  <2>1. /\ worker.at # "idle" /\ worker'.job = worker.job /\ worker'.gen = worker.gen
        /\ worker'.span = worker.span /\ worker'.status = worker.status
    BY <1>2, WorkerKeeps
  <2>2. worker.job \in Bookings /\ Exists(row[worker.job]) /\ worker.gen <= row[worker.job].gen /\ worker.gen \in Nat
    BY <2>1 DEF SyncInv, WorkerBehind, TypeOK, Worker
  <2>3. GenStep(row[worker.job], row'[worker.job])
    BY <2>2, GenSteps
  <2>4. row[worker.job].gen \in Nat
    BY <2>2 DEF TypeOK, Row
  <2>5. row[worker.job].gen = worker.gen /\ row'[worker.job].gen = row[worker.job].gen
    BY <2>1, <2>2, <2>3, <2>4 DEF GenStep
  <2> QED BY <2>1, <2>3, <2>5 DEF GenStep, Same, KnowsInv
<1> QED BY <1>1, <1>2

\* Who else moves neither the worker nor the refresh.
LEMMA Bystanders ==
  ASSUME CreateNext \/ PortalNext \/ TimeNext
  PROVE  UNCHANGED <<event, calendarLost, cursor, feed, overtaken, worker, refresh>>
<1>1. CASE CreateNext
  BY <1>1 DEF CreateNext, CreateBegin, CreateSkipsRefresh, CreateReadsExternal, CreateFails, CreateReadsLocal,
    CreateInserts, google
<1>2. CASE PortalNext
  BY <1>2 DEF PortalNext, PatchStatus, PatchCancel, Retry, google
<1>3. CASE TimeNext
  BY <1>3 DEF TimeNext, BackoffEnds, google
<1> QED BY <1>1, <1>2, <1>3

\* A change that Google records reaches the readers of the feeds.
LEMMA ChangedParts ==
  ASSUME TypeOK, NEW S \in SUBSET Bookings, Changed(S)
  PROVE  /\ feed' = IF cursor = "valid" THEN feed \cup S ELSE feed
         /\ refresh'.at = refresh.at /\ refresh'.full = refresh.full
         /\ refresh'.listed = refresh.listed /\ refresh'.saw = refresh.saw
         /\ refresh'.since = IF refresh.at = "apply" THEN refresh.since \cup S ELSE refresh.since
BY DEF TypeOK, Refresh, Changed

\* What the owner's and Google's steps come to.
LEMMA OwnerSteps ==
  ASSUME TypeOK, OwnerNext
  PROVE  /\ UNCHANGED <<row, worker, overtaken>>
         /\ \/ UNCHANGED <<event, calendarLost, cursor, feed, refresh, create>>
            \/ cursor' = "expired" /\ UNCHANGED <<event, calendarLost, refresh, create>>
            \/ \E S \in SUBSET Bookings :
                 /\ Changed(S) /\ UNCHANGED cursor
                 /\ \A c \in Bookings \ S : event'[c] = event[c] \/ calendarLost'
                 /\ UNCHANGED calendarLost \/ calendarLost'
<1>1. ASSUME NEW b \in Bookings, NEW s \in Spans, LateInsert(b, s)
      PROVE  /\ UNCHANGED <<row, worker, overtaken, cursor, calendarLost>>
             /\ \/ UNCHANGED <<event, feed, refresh, create>>
                \/ Changed({b}) /\ \A c \in Bookings \ {b} : event'[c] = event[c]
  BY <1>1 DEF LateInsert, TypeOK
<1>2. ASSUME NEW b \in Bookings, NEW ev, OwnerChanges(b, ev)
      PROVE  /\ UNCHANGED <<row, worker, overtaken, cursor, calendarLost>>
             /\ Changed({b}) /\ \A c \in Bookings \ {b} : event'[c] = event[c]
  BY <1>2 DEF OwnerChanges, TypeOK
<1>3. ASSUME NEW b \in Bookings,
             \/ \E s \in Spans : OwnerMoves(b, s)
             \/ OwnerDeletes(b) \/ OwnerRestores(b) \/ OwnerMakesSeries(b) \/ OwnerMakesSingle(b) \/ OwnerMovesOut(b)
      PROVE  \E ev : OwnerChanges(b, ev)
  BY <1>3 DEF OwnerMoves, OwnerDeletes, OwnerRestores, OwnerMakesSeries, OwnerMakesSingle, OwnerMovesOut
<1>4. CASE OwnerDeletesCalendar
  <2> DEFINE S == {b \in Bookings : event[b].kind # "none"}
  <2>1. /\ Changed(S) /\ calendarLost' = TRUE
        /\ UNCHANGED <<row, worker, overtaken, cursor>>
    BY <1>4 DEF OwnerDeletesCalendar
  <2>2. S \in SUBSET Bookings
    OBVIOUS
  <2> HIDE DEF S
  <2> QED BY <2>1, <2>2
<1>5. ASSUME NEW s \in Spans, OwnerGetsBusy(s)
      PROVE  UNCHANGED <<row, worker, overtaken, event, calendarLost, cursor, feed, refresh, create>>
  BY <1>5 DEF OwnerGetsBusy
<1>6. CASE TokenExpires
  BY <1>6 DEF TokenExpires
<1>7. \A b \in Bookings : {b} \in SUBSET Bookings
  OBVIOUS
<1> QED BY <1>1, <1>2, <1>3, <1>4, <1>5, <1>6, <1>7 DEF OwnerNext

\* What the worker's steps come to for Google: nothing, or a recorded change.
LEMMA SyncSteps ==
  ASSUME TypeOK, WorkerNext
  PROVE  /\ UNCHANGED <<calendarLost, cursor, overtaken>>
         /\ \/ UNCHANGED <<event, feed, refresh, create>>
            \/ /\ SyncHoldsOps /\ Changed({worker.job})
               /\ worker.job \in Bookings /\ \A c \in Bookings \ {worker.job} : event'[c] = event[c]
<1>1. CASE SyncDeletes
  <2>1. worker.job \in Bookings /\ SyncHoldsOps
    BY <1>1, JobType DEF SyncDeletes, SyncHoldsOps, CallStates
  <2> QED BY <1>1, <2>1 DEF SyncDeletes, TypeOK
<1>2. CASE SyncPosts
  <2>1. worker.job \in Bookings /\ SyncHoldsOps
    BY <1>2, JobType DEF SyncPosts, SyncHoldsOps, CallStates
  <2> QED BY <1>2, <2>1 DEF SyncPosts, TypeOK
<1>3. CASE \/ \E b \in Bookings : WorkerPicks(b)
           \/ SyncEnters \/ SyncFails \/ SyncGets \/ SyncImports \/ SyncChecksConflict \/ SyncGetsAfterConflict
           \/ WorkerMarks
  BY <1>3 DEF WorkerPicks, SyncEnters, SyncFails, SyncGets, SyncImports, SyncChecksConflict, SyncGetsAfterConflict,
    WorkerMarks, google
<1> QED BY <1>1, <1>2, <1>3 DEF WorkerNext, SyncCalls

LEMMA WorkerHolds ==
  ASSUME TypeOK, [Next]_vars, SyncHoldsOps'
  PROVE  SyncHoldsOps \/ SyncEnters
<1>1. CASE UNCHANGED worker
  BY <1>1 DEF SyncHoldsOps
<1>2. CASE WorkerNext
  BY <1>2 DEF WorkerNext, SyncCalls, WorkerPicks, SyncFails, SyncDeletes, SyncGets, SyncImports,
    SyncChecksConflict, SyncPosts, SyncGetsAfterConflict, WorkerMarks, IdleWorker, SyncHoldsOps, CallStates
<1>3. CASE RefreshNext
  BY <1>1, <1>3 DEF RefreshNext, RefreshSteps, RefreshBegins, RefreshTokenExpired, RefreshReads, RefreshApplies,
    RefreshFails, RefreshRecovers
<1>4. CASE ConnectionNext
  BY <1>1, <1>4 DEF ConnectionNext, Connect, Disconnect, GrantRevoked, Crash, IdleWorker, SyncHoldsOps, CallStates
<1> QED BY <1>1, <1>2, <1>3, <1>4, Bystanders, OwnerSteps DEF Next, vars

LEMMA RefreshHolds ==
  ASSUME TypeOK, [Next]_vars, RefreshHoldsOps'
  PROVE  RefreshHoldsOps \/ \E by \in {"timer", "create"} : RefreshBegins(by)
<1>1. CASE refresh'.at = refresh.at
  BY <1>1 DEF RefreshHoldsOps
<1>2. CASE RefreshNext
  BY <1>2 DEF RefreshNext, RefreshSteps, RefreshTokenExpired, RefreshReads, RefreshApplies,
    RefreshFails, RefreshRecovers, RefreshHoldsOps
<1>3. CASE ConnectionNext
  BY <1>1, <1>3 DEF ConnectionNext, Connect, Disconnect, GrantRevoked, Crash, IdleRefresh, RefreshHoldsOps
<1>4. CASE WorkerNext
  <2>1. worker.job \in Bookings /\ Changed({worker.job}) => refresh'.at = refresh.at
    BY ChangedParts
  <2> QED BY <1>1, <1>4, <2>1, SyncSteps
<1>5. CASE OwnerNext
  <2>1. \A S \in SUBSET Bookings : Changed(S) => refresh'.at = refresh.at
    BY ChangedParts
  <2> QED BY <1>1, <1>5, <2>1, OwnerSteps
<1> QED BY <1>1, <1>2, <1>3, <1>4, <1>5, Bystanders DEF Next, vars

LEMMA OpsKept ==
  ASSUME TypeOK, OpsInv, [Next]_vars
  PROVE  OpsInv'
<1> SUFFICES ASSUME SyncHoldsOps', RefreshHoldsOps' PROVE FALSE
  BY DEF OpsInv
<1>1. CASE SyncEnters
  BY <1>1 DEF SyncEnters, RefreshHoldsOps
<1>2. CASE \E by \in {"timer", "create"} : RefreshBegins(by)
  BY <1>2 DEF RefreshBegins, SyncHoldsOps
<1> QED BY <1>1, <1>2, WorkerHolds, RefreshHolds DEF OpsInv

-----------------------------------------------------------------------------
(* Calm steps: what Google changes is recorded, what is seen stays seen *)

EventsNoted ==
  \A b \in Bookings :
    \/ event'[b] = event[b]
    \/ /\ calendarLost' \/ cursor' # "valid" \/ b \in feed'
       /\ refresh'.at = "apply" => calendarLost' \/ b \in refresh'.since

SeenGrows == \A b \in Bookings : Seen(b) => Seen(b)'

SnapshotKept ==
  refresh'.at = "apply" =>
    /\ refresh.at = "apply" /\ refresh'.full = refresh.full
    /\ refresh'.listed = refresh.listed /\ refresh'.saw = refresh.saw
    /\ \A b \in Bookings : SeenNext(b) => SeenNext(b)'

Calm == EventsNoted /\ SeenGrows /\ SnapshotKept

LEMMA ChangedIsCalm ==
  ASSUME TypeOK, NEW S \in SUBSET Bookings, Changed(S), UNCHANGED <<cursor, overtaken>>,
         UNCHANGED calendarLost \/ calendarLost',
         \A c \in Bookings \ S : event'[c] = event[c] \/ calendarLost'
  PROVE  Calm
<1>1. /\ feed' = IF cursor = "valid" THEN feed \cup S ELSE feed
      /\ refresh'.at = refresh.at /\ refresh'.full = refresh.full
      /\ refresh'.listed = refresh.listed /\ refresh'.saw = refresh.saw
      /\ refresh'.since = IF refresh.at = "apply" THEN refresh.since \cup S ELSE refresh.since
  BY ChangedParts
<1>2. calendarLost => calendarLost'
  OBVIOUS
<1>3. EventsNoted
  <2> SUFFICES ASSUME NEW b \in Bookings, event'[b] # event[b]
               PROVE  /\ calendarLost' \/ cursor' # "valid" \/ b \in feed'
                      /\ refresh'.at = "apply" => calendarLost' \/ b \in refresh'.since
    BY DEF EventsNoted
  <2>1. CASE b \in S
    BY <1>1, <2>1
  <2>2. CASE calendarLost'
    BY <2>2
  <2> QED BY <2>1, <2>2
<1>4. SeenGrows
  BY <1>1, <1>2 DEF SeenGrows, Seen
<1>5. SnapshotKept
  BY <1>1, <1>2 DEF SnapshotKept, SeenNext
<1> QED BY <1>3, <1>4, <1>5 DEF Calm

LEMMA StepsAreCalm ==
  ASSUME TypeOK, [Next]_vars, ~RefreshReads, ~RefreshApplies
  PROVE  Calm \/ (cursor' # "valid" /\ refresh'.at # "apply")
<1>1. CASE UNCHANGED <<event, calendarLost, cursor, feed, overtaken>> /\ (refresh' = refresh \/ refresh'.at # "apply")
  BY <1>1 DEF Calm, EventsNoted, SeenGrows, Seen, SnapshotKept, SeenNext
<1>2. CASE WorkerNext
  <2>1. CASE UNCHANGED <<event, feed, refresh>>
    BY <1>1, <1>2, <2>1, SyncSteps
  <2>2. CASE Changed({worker.job}) /\ worker.job \in Bookings /\ \A c \in Bookings \ {worker.job} : event'[c] = event[c]
    <3>1. {worker.job} \in SUBSET Bookings
      BY <2>2
    <3> QED BY <1>2, <2>2, <3>1, SyncSteps, ChangedIsCalm
  <2> QED BY <1>2, <2>1, <2>2, SyncSteps
<1>3. CASE OwnerNext
  <2>1. CASE cursor' = "expired" /\ UNCHANGED <<event, calendarLost, refresh>>
    BY <1>3, <2>1, OwnerSteps DEF Calm, EventsNoted, SeenGrows, Seen, SnapshotKept, SeenNext
  <2>2. ASSUME NEW S \in SUBSET Bookings, Changed(S), UNCHANGED cursor,
               \A c \in Bookings \ S : event'[c] = event[c] \/ calendarLost',
               UNCHANGED calendarLost \/ calendarLost'
        PROVE  Calm
    BY <1>3, <2>2, OwnerSteps, ChangedIsCalm
  <2> QED BY <1>1, <1>3, <2>1, <2>2, OwnerSteps
<1>4. CASE RefreshRecovers
  BY <1>4 DEF RefreshRecovers, TypeOK, Refresh
<1>5. CASE Connect
  <2>1. CASE calendarLost
    BY <1>5, <2>1 DEF Connect, RefreshHoldsOps
  <2>2. CASE ~calendarLost
    BY <1>1, <1>5, <2>2 DEF Connect, TypeOK
  <2> QED BY <2>1, <2>2
<1>6. CASE RefreshNext
  BY <1>1, <1>4, <1>6 DEF RefreshNext, RefreshSteps, RefreshBegins, RefreshTokenExpired,
    RefreshFails, RefreshOver, IdleRefresh, google, TypeOK, Refresh
<1>7. CASE ConnectionNext
  BY <1>1, <1>5, <1>7 DEF ConnectionNext, Disconnect, GrantRevoked, Crash, IdleRefresh, google
<1>8. CASE UNCHANGED vars
  BY <1>1, <1>8 DEF vars, google
<1> QED BY <1>1, <1>2, <1>3, <1>6, <1>7, <1>8, Bystanders DEF Next

-----------------------------------------------------------------------------
(* Claims *)

\* A claim after the step is one from before it, about the same time, or is
\* true, or will be looked at.
Carried(b) ==
  Claimed(b)' => \/ Claimed(b) /\ Same(row[b], row'[b])
                 \/ refresh'.at # "apply" /\ (Agrees(b)' \/ Seen(b)')

LEMMA SameAgrees ==
  ASSUME NEW b \in Bookings, Agrees(b), Same(row[b], row'[b]), event'[b] = event[b]
  PROVE  Agrees(b)'
BY DEF Agrees, Same

LEMMA CalmKeeps ==
  ASSUME FeedInv, Calm, \A b \in Bookings : Carried(b)
  PROVE  ClaimsInv' /\ SnapshotInv'
<1>1. ASSUME NEW b \in Bookings, Claimed(b)' PROVE Agrees(b)' \/ Seen(b)'
  <2>1. CASE Claimed(b) /\ Same(row[b], row'[b])
    <3>1. Agrees(b) \/ Seen(b)
      BY <2>1 DEF FeedInv, ClaimsInv
    <3>2. CASE Seen(b)
      BY <3>2 DEF Calm, SeenGrows
    <3>3. CASE Agrees(b) /\ event'[b] = event[b]
      BY <2>1, <3>3, SameAgrees
    <3>4. CASE event'[b] # event[b]
      BY <3>4 DEF Calm, EventsNoted, Seen
    <3> QED BY <3>1, <3>2, <3>3, <3>4
  <2> QED BY <1>1, <2>1 DEF Carried
<1>2. ASSUME refresh'.at = "apply", NEW b \in Bookings
      PROVE  \/ SeenNext(b)'
             \/ b \in refresh'.listed /\ Named(refresh'.saw[b], event'[b])
             \/ b \notin refresh'.listed /\ refresh'.full /\ event'[b].kind = "none"
             \/ b \notin refresh'.listed /\ ~refresh'.full /\ (Claimed(b)' => Agrees(b)')
  <2>1. /\ refresh.at = "apply" /\ refresh'.full = refresh.full
        /\ refresh'.listed = refresh.listed /\ refresh'.saw = refresh.saw
        /\ SeenNext(b) => SeenNext(b)'
    BY <1>2 DEF Calm, SnapshotKept
  <2>2. CASE event'[b] # event[b]
    BY <1>2, <2>2 DEF Calm, EventsNoted, SeenNext
  <2>3. CASE event'[b] = event[b]
    <3>1. Claimed(b)' => Claimed(b) /\ Same(row[b], row'[b])
      BY <1>2 DEF Carried
    <3>2. (Claimed(b) => Agrees(b)) => (Claimed(b)' => Agrees(b)')
      BY <2>3, <3>1, SameAgrees
    <3>3. \/ SeenNext(b)
          \/ b \in refresh.listed /\ Named(refresh.saw[b], event[b])
          \/ b \notin refresh.listed /\ refresh.full /\ event[b].kind = "none"
          \/ b \notin refresh.listed /\ ~refresh.full /\ (Claimed(b) => Agrees(b))
      BY <2>1 DEF FeedInv, SnapshotInv
    <3> QED BY <2>1, <2>3, <3>2, <3>3
  <2> QED BY <2>2, <2>3
<1> QED BY <1>1, <1>2 DEF ClaimsInv, SnapshotInv

\* A mild row makes no claim of its own: the worker does.
LEMMA MildCarries ==
  ASSUME TypeOK, SyncInv, NEW b \in Bookings, Mild(row[b], row'[b]),
         worker'.at = "ok" => worker.at = "ok" /\ worker'.job = worker.job /\ worker'.gen = worker.gen
  PROVE  Claimed(b)' => Claimed(b) /\ Same(row[b], row'[b])
<1> SUFFICES ASSUME Claimed(b)' PROVE Claimed(b) /\ Same(row[b], row'[b])
  OBVIOUS
<1>1. CASE row'[b].cal = "synced"
  BY <1>1 DEF Claimed, Mild
<1>2. CASE worker'.at = "ok" /\ worker'.job = b /\ worker'.gen = row'[b].gen
  <2>1. worker.at = "ok" /\ worker.job = b /\ worker.gen = row'[b].gen
    BY <1>2
  <2>2. Exists(row[b]) /\ worker.gen <= row[b].gen /\ worker.gen \in Nat /\ row[b].gen \in Nat
    BY <2>1 DEF SyncInv, WorkerBehind, TypeOK, Worker, Row
  <2>3. GenStep(row[b], row'[b])
    BY <2>2 DEF Mild
  <2>4. row'[b].gen = row[b].gen
    BY <2>1, <2>2, <2>3 DEF GenStep
  <2> QED BY <2>1, <2>2, <2>3, <2>4 DEF Claimed, GenStep
<1> QED BY <1>1, <1>2 DEF Claimed

\* The steps of the worker that end a call with a result.
Answers == SyncDeletes \/ SyncGets \/ SyncImports \/ SyncPosts \/ SyncGetsAfterConflict

LEMMA NoAnswer ==
  ASSUME TypeOK, [Next]_vars, ~Answers, worker'.at = "ok"
  PROVE  worker.at = "ok" /\ worker'.job = worker.job /\ worker'.gen = worker.gen
<1>1. CASE UNCHANGED worker
  BY <1>1
<1>2. CASE WorkerNext
  BY <1>2 DEF Answers, WorkerNext, SyncCalls, WorkerPicks, SyncEnters, SyncFails, SyncChecksConflict,
    WorkerMarks, IdleWorker, TypeOK, Worker
<1>3. CASE RefreshNext
  BY <1>1, <1>3 DEF RefreshNext, RefreshSteps, RefreshBegins, RefreshTokenExpired, RefreshReads, RefreshApplies,
    RefreshFails, RefreshRecovers
<1>4. CASE ConnectionNext
  BY <1>1, <1>4 DEF ConnectionNext, Connect, Disconnect, GrantRevoked, Crash, IdleWorker
<1> QED BY <1>1, <1>2, <1>3, <1>4, Bystanders, OwnerSteps DEF Next, vars

LEMMA MarksCarries ==
  ASSUME TypeOK, SyncInv, WorkerMarks, NEW b \in Bookings
  PROVE  Claimed(b)' => Claimed(b) /\ Same(row[b], row'[b])
<1>1. worker.job \in Bookings /\ worker.gen \in Nat /\ worker'.at = "idle"
  BY DEF WorkerMarks, SyncInv, WorkerBehind, TypeOK, Worker, IdleWorker
<1>2. row[b] \in Row /\ Exists(row[worker.job])
  BY DEF TypeOK, WorkerMarks, SyncInv, WorkerBehind
<1>3. CASE b # worker.job
  <2>1. row'[b] = row[b]
    BY <1>3 DEF WorkerMarks, TypeOK
  <2> QED BY <1>1, <1>2, <2>1 DEF Claimed, Same
<1>4. CASE b = worker.job /\ worker.at = "ok"
  <2>1. row'[b] = WorkerSynced(row[b], worker.gen)
    BY <1>4, <1>1 DEF WorkerMarks, TypeOK
  <2>2. CASE row[b].gen = worker.gen
    BY <1>2, <1>4, <2>1, <2>2 DEF Claimed, Same, WorkerSynced, Row
  <2>3. CASE row[b].gen # worker.gen
    BY <1>1, <2>1, <2>3 DEF Claimed, Same, WorkerSynced
  <2> QED BY <2>2, <2>3
<1>5. CASE b = worker.job /\ worker.at = "err"
  <2>1. row'[b] = WorkerFailed(row[b], worker.gen)
    BY <1>1, <1>5 DEF WorkerMarks, TypeOK
  <2>2. Mild(row[b], row'[b])
    BY <1>1, <1>2, <2>1, MarkGen
  <2> QED BY <1>1, <2>2, MildCarries
<1> QED BY <1>3, <1>4, <1>5 DEF WorkerMarks

\* An import that leaves the generation alone found the row as it should be.
LEMMA IdleImport ==
  ASSUME NEW r \in Row, NEW ev \in Event, Exists(r), r.status # "cancelled",
         ImportEvent(r, ev).gen = r.gen
  PROVE  ImportEvent(r, ev) = r /\ r.cal = "synced"
<1>1. \A s, st : Settled(r, s, st).gen = r.gen + 1
  BY DEF Settled, Columns
<1>2. r.gen + 1 # r.gen
  BY DEF Row
<1> QED BY <1>1, <1>2 DEF ImportEvent, ImportRemoval, ImportOfActive

LEMMA ImportsCarry ==
  ASSUME FeedInv, SyncImports, Calm, refresh'.at # "apply", NEW b \in Bookings, b = worker.job
  PROVE  Carried(b)
<1>1. /\ b \in Bookings /\ Exists(row[b]) /\ row[b] \in Row /\ worker.found \in Event /\ event[b] \in Event
      /\ worker.gen <= row[b].gen /\ worker.gen \in Nat
  BY DEF FeedInv, SyncInv, WorkerBehind, TypeOK, Worker, SyncImports
<1>2. event' = event
  BY DEF SyncImports, google
<1>3. CASE worker.found.kind = "series"
  <2>1. row' = row /\ worker'.at = "err"
    BY <1>3 DEF SyncImports, FeedInv, TypeOK, Worker
  <2> QED BY <1>1, <2>1 DEF Carried, Claimed, Same
<1>4. CASE Seen(b)
  BY <1>1, <1>4 DEF Calm, SeenGrows, Carried
<1>5. CASE worker.found.kind # "series" /\ worker.found = event[b]
  <2>1. row'[b] = ImportEvent(row[b], worker.found) /\ worker'.gen = worker.gen
    BY <1>1, <1>5 DEF SyncImports, FeedInv, TypeOK, Worker
  <2>2. Named(worker.found, event[b])
    BY <1>5 DEF Named, FeedInv, CarriesInv, SyncImports
  <2>3. row'[b].cal = "synced" => Agrees(b)'
    BY <1>1, <1>2, <1>5, <2>1, <2>2, ImportAgrees DEF Agrees
  <2>4. CASE row'[b].cal # "synced" /\ Claimed(b)'
    <3>1. worker.gen = row'[b].gen
      BY <2>1, <2>4 DEF Claimed
    <3>2. row'[b].gen = row[b].gen /\ row[b].gen = worker.gen
      BY <1>1, <2>1, <3>1, ImportGen DEF GenStep, Row
    <3>3. row[b].status # "cancelled"
      BY <3>2 DEF FeedInv, KnowsInv, CarriesInv, SyncImports
    <3>4. row'[b] = row[b] /\ row[b].cal = "synced"
      BY <1>1, <2>1, <3>2, <3>3, IdleImport
    <3> QED BY <2>4, <3>4
  <2> QED BY <2>3, <2>4 DEF Carried
<1> QED BY <1>3, <1>4, <1>5 DEF FeedInv, CarriesInv, SyncImports

\* An answer is about the row as the worker read it.
LEMMA AnswersCarry ==
  ASSUME FeedInv, NEW b \in Bookings, b = worker.job,
         SyncDeletes \/ SyncGets \/ SyncPosts \/ SyncGetsAfterConflict
  PROVE  Claimed(b)' => (Claimed(b) /\ Same(row[b], row'[b])) \/ Agrees(b)'
<1>1. /\ b \in Bookings /\ Exists(row[b]) /\ row[b] \in Row /\ event \in [Bookings -> Event] /\ worker.span \in Spans
  BY DEF FeedInv, SyncInv, WorkerBehind, TypeOK, Worker, SyncDeletes, SyncGets, SyncPosts, SyncGetsAfterConflict
<1>2. row' = row
  BY DEF SyncDeletes, SyncGets, SyncPosts, SyncGetsAfterConflict
<1>3. CASE row[b].cal = "synced"
  BY <1>1, <1>2, <1>3 DEF Claimed, Same
<1>4. ASSUME row[b].cal # "synced", Claimed(b)' PROVE Agrees(b)'
  <2>0. worker.at # "idle"
    BY DEF SyncDeletes, SyncGets, SyncPosts, SyncGetsAfterConflict
  <2>1. worker'.at = "ok" /\ row[b].gen = worker'.gen
    BY <1>2, <1>4 DEF Claimed
  <2>2. row[b].gen = worker.gen
    BY <2>1 DEF SyncDeletes, SyncGets, SyncPosts, SyncGetsAfterConflict, FeedInv, TypeOK, Worker
  <2>3. row[b].span = worker.span /\ (row[b].status = "cancelled" <=> worker.status = "cancelled")
    BY <2>0, <2>2 DEF FeedInv, KnowsInv
  <2>4. CASE SyncDeletes
    <3>1. ~Shown(event'[b])
      BY <1>1, <2>4 DEF SyncDeletes, Tombstone, Shown, Event
    <3>2. row[b].status = "cancelled"
      BY <2>3, <2>4 DEF SyncDeletes
    <3> QED BY <1>2, <3>1, <3>2 DEF Agrees
  <2>5. CASE SyncGets
    <3>1. Matches(event[b], worker.span) /\ event' = event
      BY <2>1, <2>5 DEF SyncGets, google, FeedInv, TypeOK, Worker
    <3>2. row[b].status # "cancelled"
      BY <2>3, <2>5 DEF SyncGets
    <3> QED BY <1>2, <2>3, <3>1, <3>2 DEF Agrees
  <2>6. CASE SyncPosts
    <3>1. event'[b] = Live(worker.span)
      BY <1>1, <2>1, <2>6 DEF SyncPosts, FeedInv, TypeOK, Worker
    <3>2. row[b].status # "cancelled"
      BY <2>3, <2>6 DEF SyncPosts, FeedInv, CarriesInv
    <3> QED BY <1>2, <2>3, <3>1, <3>2 DEF Agrees, Matches, Shown, Live
  <2>7. CASE SyncGetsAfterConflict
    <3>1. Matches(event[b], worker.span) /\ event' = event
      BY <2>1, <2>7 DEF SyncGetsAfterConflict, google, FeedInv, TypeOK, Worker
    <3>2. row[b].status # "cancelled"
      BY <2>3, <2>7 DEF SyncGetsAfterConflict, FeedInv, CarriesInv
    <3> QED BY <1>2, <2>3, <3>1, <3>2 DEF Agrees
  <2> QED BY <2>4, <2>5, <2>6, <2>7
<1> QED BY <1>2, <1>3, <1>4

\* A call holds ops, so no snapshot is in hand.
LEMMA AnswersInv ==
  ASSUME FeedInv, [Next]_vars, Answers
  PROVE  ClaimsInv' /\ SnapshotInv'
<1>1. SyncHoldsOps /\ worker.job \in Bookings
  BY JobType DEF Answers, SyncDeletes, SyncGets, SyncImports, SyncPosts, SyncGetsAfterConflict, SyncHoldsOps,
    CallStates, FeedInv
<1>2. refresh.at = "idle"
  BY <1>1 DEF FeedInv, OpsInv, RefreshHoldsOps
<1>3. ~RefreshReads /\ ~RefreshApplies
  BY <1>2 DEF RefreshReads, RefreshApplies
<1>4. UNCHANGED cursor
  BY DEF Answers, SyncDeletes, SyncGets, SyncImports, SyncPosts, SyncGetsAfterConflict
<1>5. refresh'.at # "apply"
  <2>1. ~\E by \in {"timer", "create"} : RefreshBegins(by)
    BY <1>1 DEF RefreshBegins
  <2>2. ~RefreshHoldsOps'
    BY <1>2, <2>1, RefreshHolds DEF FeedInv, RefreshHoldsOps
  <2> QED BY <2>2 DEF RefreshHoldsOps
<1>6. CASE Calm
  <2>1. \A b \in Bookings : b = worker.job => Carried(b)
    BY <1>5, <1>6, ImportsCarry, AnswersCarry DEF Answers, Carried
  <2>2. ASSUME NEW b \in Bookings, b # worker.job PROVE Carried(b)
    <3>1. row'[b] = row[b] /\ worker'.job = worker.job
      BY <1>1, <2>2 DEF Answers, SyncDeletes, SyncGets, SyncImports, SyncPosts, SyncGetsAfterConflict,
        FeedInv, TypeOK, Worker
    <3> QED BY <2>2, <3>1 DEF Carried, Claimed, Same
  <2> QED BY <1>6, <2>1, <2>2, CalmKeeps
<1>7. CASE cursor' # "valid"
  BY <1>5, <1>7 DEF ClaimsInv, SnapshotInv, Seen
<1> QED BY <1>3, <1>6, <1>7, StepsAreCalm DEF FeedInv

-----------------------------------------------------------------------------
(* The refresh *)

\* A snapshot names what it lists; what changed since the last one is listed.
LEMMA ReadsInv ==
  ASSUME FeedInv, RefreshReads
  PROVE  ClaimsInv' /\ SnapshotInv'
<1> DEFINE ids == IF refresh.full THEN {b \in Bookings : event[b].kind # "none"} ELSE feed
           seen == [b \in Bookings |-> IF event[b].kind = "none" /\ ~refresh.full /\ b \in feed
                                         THEN Tombstone(event[b]) ELSE event[b]]
<1>1. /\ UNCHANGED <<row, event, calendarLost, cursor, feed, worker, overtaken>>
      /\ ~calendarLost /\ (refresh.full \/ cursor = "valid")
      /\ refresh' = [refresh EXCEPT !.at = "apply", !.listed = ids, !.saw = seen]
  BY DEF RefreshReads, google
<1>2. event \in [Bookings -> Event]
  BY DEF FeedInv, TypeOK
<1>3. ASSUME NEW b \in Bookings
      PROVE  \/ b \in overtaken
             \/ b \in ids /\ Named(seen[b], event[b])
             \/ b \notin ids /\ refresh.full /\ event[b].kind = "none"
             \/ b \notin ids /\ ~refresh.full /\ (Claimed(b) => Agrees(b))
  <2>1. CASE refresh.full
    BY <2>1 DEF Named
  <2>2. CASE ~refresh.full /\ b \in feed
    BY <1>2, <2>2 DEF Named, Tombstone, Event
  <2>3. CASE ~refresh.full /\ b \notin feed
    BY <1>1, <2>3 DEF FeedInv, ClaimsInv, Seen
  <2> QED BY <2>1, <2>2, <2>3
<1> HIDE DEF ids, seen
<1>4. refresh'.full = refresh.full /\ refresh'.listed = ids /\ refresh'.saw = seen /\ refresh'.at = "apply"
  BY <1>1 DEF FeedInv, TypeOK, Refresh
<1>5. \A b \in Bookings : (Claimed(b)' <=> Claimed(b)) /\ (Agrees(b)' <=> Agrees(b)) /\ (Seen(b)' <=> Seen(b))
  BY <1>1 DEF Claimed, Agrees, Seen
<1>6. ClaimsInv'
  BY <1>5 DEF FeedInv, ClaimsInv
<1>7. SnapshotInv'
  BY <1>1, <1>3, <1>4, <1>5 DEF SnapshotInv, SeenNext
<1> QED BY <1>6, <1>7

\* An import that the worker's result survives is one that passed it by.
LEMMA AppliedRow ==
  ASSUME FeedInv, RefreshApplies, NEW b \in Bookings, NEW saw \in Event,
         row'[b] = ImportEvent(row[b], saw), saw.kind # "series" \/ ~Exists(row[b]), Named(saw, event[b]),
         Claimed(b)'
  PROVE  Agrees(b)' \/ Seen(b)'
<1>1. /\ row[b] \in Row /\ event[b] \in Event /\ event' = event /\ worker' = worker
      /\ overtaken' = overtaken \cup {c \in Bookings : worker.at = "ok" /\ worker.job = c /\ row'[c] = row[c]}
  BY DEF FeedInv, TypeOK, RefreshApplies
<1>2. Exists(row[b])
  BY <1>1, ImportStep DEF RowStep, Claimed
<1>3. CASE row'[b].cal = "synced"
  BY <1>1, <1>2, <1>3, ImportAgrees DEF Agrees
<1>4. CASE worker.at = "ok" /\ worker.job = b /\ worker.gen = row'[b].gen
  <2>1. worker.gen <= row[b].gen /\ worker.gen \in Nat /\ row[b].gen \in Nat
    BY <1>1, <1>4 DEF FeedInv, SyncInv, WorkerBehind, TypeOK, Worker, Row
  <2>2. row'[b].gen = row[b].gen
    BY <1>1, <1>4, <2>1, ImportGen DEF GenStep
  <2>3. row'[b] = row[b]
    BY <1>1, <2>2, ImportGen
  <2> QED BY <1>1, <1>4, <2>3 DEF Seen
<1> QED BY <1>1, <1>3, <1>4 DEF Claimed

LEMMA AppliesInv ==
  ASSUME FeedInv, RefreshApplies
  PROVE  ClaimsInv' /\ SnapshotInv'
<1>1. /\ refresh.at = "apply" /\ cursor' = "valid" /\ feed' = refresh.since
      /\ overtaken' = overtaken \cup {c \in Bookings : worker.at = "ok" /\ worker.job = c /\ row'[c] = row[c]}
      /\ UNCHANGED <<event, calendarLost, worker>>
      /\ refresh'.at = "idle"
  BY DEF RefreshApplies, RefreshOver, IdleRefresh
<1>2. \A b \in Bookings : row'[b] = IF b \in refresh.listed THEN ImportEvent(row[b], refresh.saw[b])
                                    ELSE IF Missing(b) THEN ImportEvent(row[b], Tombstone(NoEvent))
                                    ELSE row[b]
  BY DEF RefreshApplies
<1>3. ASSUME NEW b \in Bookings, Claimed(b)' PROVE Agrees(b)' \/ Seen(b)'
  <2>1. CASE SeenNext(b)
    BY <1>1, <2>1 DEF SeenNext, Seen
  <2>2. CASE b \in refresh.listed /\ Named(refresh.saw[b], event[b])
    <3>1. refresh.saw[b] \in Event /\ (refresh.saw[b].kind # "series" \/ ~Exists(row[b]))
      BY <2>2 DEF FeedInv, TypeOK, Refresh, RefreshApplies, Importable
    <3> QED BY <1>2, <1>3, <2>2, <3>1, AppliedRow
  <2>3. CASE b \notin refresh.listed /\ refresh.full /\ event[b].kind = "none"
    <3>1. CASE Missing(b)
      <4>1. Tombstone(NoEvent) \in Event /\ Tombstone(NoEvent).kind = "deleted"
        BY EventTypes DEF Tombstone, NoEvent
      <4>2. Named(Tombstone(NoEvent), event[b])
        BY <2>3, <4>1 DEF Named
      <4> QED BY <1>2, <1>3, <2>3, <3>1, <4>1, <4>2, AppliedRow
    <3>2. CASE ~Missing(b)
      <4>1. row'[b] = row[b]
        BY <1>2, <2>3, <3>2
      <4>2. CASE row[b].cal = "synced"
        <5>1. row[b].status = "cancelled" /\ ~Shown(event[b])
          BY <2>3, <3>2, <4>2 DEF Missing, Shown
        <5> QED BY <1>1, <4>1, <5>1 DEF Agrees
      <4>3. CASE row[b].cal # "synced"
        BY <1>1, <1>3, <4>1, <4>3 DEF Claimed, Seen
      <4> QED BY <4>2, <4>3
    <3> QED BY <3>1, <3>2
  <2>4. CASE b \notin refresh.listed /\ ~refresh.full /\ (Claimed(b) => Agrees(b))
    <3>1. row'[b] = row[b]
      BY <1>2, <2>4 DEF Missing
    <3> QED BY <1>1, <1>3, <2>4, <3>1 DEF Claimed, Agrees
  <2> QED BY <1>1, <2>1, <2>2, <2>3, <2>4 DEF FeedInv, SnapshotInv
<1>4. SnapshotInv'
  BY <1>1 DEF SnapshotInv
<1> QED BY <1>3, <1>4 DEF ClaimsInv

-----------------------------------------------------------------------------
(* Every step *)

LEMMA ClaimsKept ==
  ASSUME FeedInv, [Next]_vars
  PROVE  ClaimsInv' /\ SnapshotInv'
<1>1. CASE Answers
  BY <1>1, AnswersInv
<1>2. CASE RefreshReads
  BY <1>2, ReadsInv
<1>3. CASE RefreshApplies
  BY <1>3, AppliesInv
<1>4. CASE ~Answers /\ ~RefreshReads /\ ~RefreshApplies /\ Calm
  <2>1. CASE WorkerMarks
    BY <1>4, <2>1, MarksCarries, CalmKeeps DEF FeedInv, Carried
  <2>2. CASE ~Claims
    <3>1. \A b \in Bookings : Carried(b)
      BY <1>4, <2>2, RowsMove, NoAnswer, MildCarries DEF FeedInv, Carried
    <3> QED BY <1>4, <3>1, CalmKeeps
  <2>3. CASE RefreshRecovers \/ (Connect /\ calendarLost)
    <3>1. cursor' # "valid" /\ refresh'.at # "apply"
      BY <2>3 DEF RefreshRecovers, Connect, RefreshHoldsOps, FeedInv, TypeOK, Refresh
    <3> QED BY <3>1 DEF ClaimsInv, SnapshotInv, Seen
  <2> QED BY <1>4, <2>1, <2>2, <2>3 DEF Claims, Answers
<1>5. CASE cursor' # "valid" /\ refresh'.at # "apply"
  BY <1>5 DEF ClaimsInv, SnapshotInv, Seen
<1> QED BY <1>1, <1>2, <1>3, <1>4, <1>5, StepsAreCalm DEF FeedInv

LEMMA WorkerGoes ==
  ASSUME TypeOK, [Next]_vars, worker'.at \in {"import", "check", "post", "reget"}
  PROVE  \/ worker' = worker
         \/ SyncGets
         \/ worker.at \in {"check", "post"} /\ worker'.at # "import"
<1>1. CASE WorkerNext
  <2> USE DEF TypeOK, Worker
  <2>1. CASE SyncEnters \/ SyncFails \/ SyncDeletes
    BY <2>1 DEF SyncEnters, SyncFails, SyncDeletes
  <2>2. CASE SyncImports
    BY <2>2 DEF SyncImports
  <2>3. CASE SyncChecksConflict
    BY <2>3 DEF SyncChecksConflict
  <2>4. CASE SyncPosts
    BY <2>4 DEF SyncPosts
  <2>5. CASE SyncGetsAfterConflict
    BY <2>5 DEF SyncGetsAfterConflict
  <2>6. CASE WorkerMarks \/ \E b \in Bookings : WorkerPicks(b)
    BY <2>6 DEF WorkerMarks, WorkerPicks, IdleWorker
  <2> QED BY <1>1, <2>1, <2>2, <2>3, <2>4, <2>5, <2>6 DEF WorkerNext, SyncCalls
<1>2. CASE RefreshNext
  BY <1>2 DEF RefreshNext, RefreshSteps, RefreshBegins, RefreshTokenExpired, RefreshReads, RefreshApplies,
    RefreshFails, RefreshRecovers
<1>3. CASE ConnectionNext
  BY <1>3 DEF ConnectionNext, Connect, Disconnect, GrantRevoked, Crash, IdleWorker
<1> QED BY <1>1, <1>2, <1>3, Bystanders, OwnerSteps DEF Next, vars

LEMMA CarriesKept ==
  ASSUME FeedInv, [Next]_vars
  PROVE  CarriesInv'
<1> SUFFICES ASSUME worker'.at \in {"import", "check", "post", "reget"}
             PROVE  /\ worker'.status # "cancelled"
                    /\ worker'.at = "import" =>
                         /\ worker'.found.kind # "none"
                         /\ \/ worker'.found = event'[worker'.job]
                            \/ calendarLost' \/ cursor' # "valid"
                            \/ worker'.job \in feed' \/ worker'.job \in overtaken'
  <2>1. CASE worker'.at \in {"import", "check", "post", "reget"}
    BY <2>1 DEF CarriesInv, Seen
  <2>2. CASE worker'.at \notin {"import", "check", "post", "reget"}
    BY <2>2 DEF CarriesInv
  <2> QED BY <2>1, <2>2
<1>1. CASE SyncGets
  <2>1. worker.status # "cancelled" /\ event' = event /\ worker'.status = worker.status /\ worker'.job = worker.job
    BY <1>1 DEF SyncGets, google, FeedInv, TypeOK, Worker
  <2>2. worker'.at = "import" => worker'.found = event[worker.job] /\ event[worker.job].kind # "none"
    BY <1>1 DEF SyncGets, FeedInv, TypeOK, Worker
  <2> QED BY <2>1, <2>2
<1>2. CASE worker' = worker
  <2>1. worker.status # "cancelled" /\ SyncHoldsOps /\ worker.job \in Bookings
    BY <1>2, JobType DEF FeedInv, CarriesInv, SyncHoldsOps, CallStates
  <2>2. CASE worker.at = "import"
    <3>1. ~RefreshReads /\ ~RefreshApplies
      BY <2>1 DEF FeedInv, OpsInv, RefreshHoldsOps, RefreshReads, RefreshApplies
    <3>2. Calm \/ cursor' # "valid"
      BY <3>1, StepsAreCalm DEF FeedInv
    <3>3. worker.found.kind # "none" /\ (worker.found = event[worker.job] \/ Seen(worker.job))
      BY <2>2 DEF FeedInv, CarriesInv
    <3>4. PICK b \in Bookings : b = worker.job
      BY <2>1
    <3>5. worker.found = event'[b] \/ calendarLost' \/ cursor' # "valid" \/ b \in feed' \/ b \in overtaken'
      BY <3>2, <3>3, <3>4 DEF Calm, EventsNoted, SeenGrows, Seen
    <3> QED BY <1>2, <2>1, <3>3, <3>4, <3>5
  <2> QED BY <1>2, <2>1, <2>2
<1>3. CASE worker.at \in {"check", "post"} /\ worker'.at # "import"
  <2>1. ~\E b \in Bookings : WorkerPicks(b)
    BY <1>3 DEF WorkerPicks
  <2>2. worker'.status = worker.status
    BY <2>1, WorkerKeeps DEF FeedInv
  <2> QED BY <1>3, <2>2 DEF FeedInv, CarriesInv
<1> QED BY <1>1, <1>2, <1>3, WorkerGoes DEF FeedInv

\* A change made in Google is forgotten only if a refresh passed between Google's
\* answer about that booking and the worker's UPDATE: no other interleaving of
\* the worker, the refresh, the portal and the owner's edits loses one, nor does
\* an expired token, a lost calendar, a reconnection or a crash.
THEOREM NothingElseIsForgotten == Spec => []ForgottenOnlyInWindow
<1>1. FeedInv => ForgottenOnlyInWindow
  BY DEF FeedInv, ClaimsInv, ForgottenOnlyInWindow, Forgotten, Claimed, Seen
<1>2. Init => OpsInv /\ KnowsInv /\ CarriesInv /\ ClaimsInv /\ SnapshotInv
  BY DEF Init, OpsInv, SyncHoldsOps, CallStates, IdleWorker, KnowsInv, CarriesInv, ClaimsInv, Seen, SnapshotInv,
    IdleRefresh
<1>3. FeedInv /\ [Next]_vars => OpsInv' /\ KnowsInv' /\ CarriesInv' /\ ClaimsInv' /\ SnapshotInv'
  BY OpsKept, KnowsKept, CarriesKept, ClaimsKept DEF FeedInv
<1>4. FeedInv <=> (TypeOK /\ SyncInv) /\ (OpsInv /\ KnowsInv /\ CarriesInv /\ ClaimsInv /\ SnapshotInv)
  BY DEF FeedInv
<1> QED BY <1>1, <1>2, <1>3, <1>4, SyncInvHolds, PTL DEF Spec


-----------------------------------------------------------------------------
(* What an update of a row is in the book                                  *)

LEMMA Phases ==
  ASSUME NEW r \in Row
  PROVE  /\ PhaseOf(r) \in {"none", "open", "cancelling", "closed"}
         /\ PhaseOf(r) = "none" <=> ~Exists(r)
         /\ PhaseOf(r) = "open" <=> Exists(r) /\ r.status # "cancelled"
         /\ PhaseOf(r) = "cancelling" <=> r.status = "cancelled" /\ r.cal # "synced"
         /\ PhaseOf(r) = "closed" <=> r.status = "cancelled" /\ r.cal = "synced"
         /\ Held(r) <=> PhaseOf(r) \in {"open", "cancelling"}
<1>1. Exists(r) => r.status \in Followups \cup {"cancelled"}
  BY DEF Exists, Row, Statuses
<1>2. "cancelled" \notin Followups /\ "absent" \notin Followups
  BY FollowupsAssumption
<1>3. CASE ~Exists(r)
  <2>1. PhaseOf(r) = "none"
    BY <1>2, <1>3 DEF PhaseOf, Exists, Active
  <2> QED BY <1>3, <2>1 DEF Exists, Held
<1>4. CASE Active(r)
  BY <1>2, <1>4 DEF PhaseOf, Exists, Held, Active
<1>5. CASE Exists(r) /\ ~Active(r)
  BY <1>1, <1>2, <1>5 DEF PhaseOf, Exists, Held, Active
<1> QED BY <1>3, <1>4, <1>5

\* The moves of the book that are not the acceptance of a request.
Moves(r, q) ==
  \/ PhaseOf(q) = PhaseOf(r) /\ (Held(r) \/ q.span = r.span)
  \/ PhaseOf(r) = "open" /\ PhaseOf(q) = "cancelling" /\ q.span = r.span
  \/ Held(r) /\ PhaseOf(q) = "closed" /\ q.span = r.span
  \/ PhaseOf(r) = "closed" /\ PhaseOf(q) = "cancelling"

LEMMA StaysMoves == ASSUME NEW r \in Row PROVE Moves(r, r)
BY DEF Moves

LEMMA StatusMoves ==
  ASSUME NEW r \in Row, Active(r), NEW st \in Followups
  PROVE  Moves(r, [r EXCEPT !.status = st])
<1>1. [r EXCEPT !.status = st] \in Row /\ [r EXCEPT !.status = st].status = st
      /\ [r EXCEPT !.status = st].span = r.span
  BY DEF Row, Statuses
<1>2. Exists(r) /\ r.status # "cancelled" /\ st # "cancelled" /\ st # "absent"
  BY FollowupsAssumption DEF Active, Exists
<1> QED BY <1>1, <1>2, Phases DEF Moves, Exists

LEMMA PortalCancelMoves ==
  ASSUME NEW r \in Row, Active(r)
  PROVE  Moves(r, PortalCancel(r))
<1>1. PortalCancel(r).status = "cancelled" /\ PortalCancel(r).cal = "pending"
      /\ PortalCancel(r).span = r.span
  BY DEF PortalCancel, Columns
<1>2. Exists(r) /\ r.status # "cancelled"
  BY FollowupsAssumption DEF Active, Exists
<1> QED BY <1>1, <1>2, PortalTypes, Phases DEF Moves

LEMMA RetryMoves ==
  ASSUME NEW r \in Row, r.cal # "synced"
  PROVE  Moves(r, PortalRetry(r))
<1>1. PortalRetry(r).status = r.status /\ PortalRetry(r).cal = "pending"
      /\ PortalRetry(r).span = r.span
  BY DEF PortalRetry, Row
<1> QED BY <1>1, PortalTypes, Phases DEF Moves, Exists

LEMMA WaitingMoves ==
  ASSUME NEW r \in Row, NEW q \in Row, Moves(r, q), NEW w \in BOOLEAN
  PROVE  Moves(r, [q EXCEPT !.waiting = w])
<1>1. [q EXCEPT !.waiting = w] \in Row /\ [q EXCEPT !.waiting = w].status = q.status
      /\ [q EXCEPT !.waiting = w].cal = q.cal /\ [q EXCEPT !.waiting = w].span = q.span
  BY DEF Row
<1>2. PhaseOf([q EXCEPT !.waiting = w]) = PhaseOf(q)
  BY <1>1 DEF PhaseOf, Exists, Active
<1> QED BY <1>1, <1>2 DEF Moves

\* Only an appointment that holds its time is settled: it keeps its status,
\* or it is closed at its time.
LEMMA SettledMoves ==
  ASSUME NEW r \in Row, NEW s \in Spans, NEW st \in Statuses, Held(r),
         \/ st = r.status /\ st # "cancelled"
         \/ st = "cancelled" /\ s = r.span
  PROVE  Moves(r, Settled(r, s, st))
<1>1. Settled(r, s, st).status = st /\ Settled(r, s, st).cal = "synced"
      /\ Settled(r, s, st).span = s
  BY DEF Settled, Columns
<1>2. st # "absent"
  BY FollowupsAssumption DEF Statuses
<1> QED BY <1>1, <1>2, SettledType, Phases DEF Moves, Exists

LEMMA ResetMoves ==
  ASSUME NEW r \in Row
  PROVE  Moves(r, ResetForNewCalendar(r))
<1>1. CASE ~Held(r)
  BY <1>1, StaysMoves DEF ResetForNewCalendar
<1>2. CASE Held(r) /\ r.status = "cancelled"
  <2>1. r.span \in Spans /\ "cancelled" \in Statuses
    BY DEF Row, Statuses
  <2> QED BY <1>2, <2>1, SettledMoves DEF ResetForNewCalendar
<1>3. CASE Held(r) /\ r.status # "cancelled"
  <2>1. ResetForNewCalendar(r).status = r.status /\ ResetForNewCalendar(r).span = r.span
    BY <1>3 DEF ResetForNewCalendar, Columns
  <2>2. PhaseOf(r) = "open" /\ PhaseOf(ResetForNewCalendar(r)) = "open"
    BY <1>3, <2>1, ResetType, Phases DEF Held, Exists
  <2> QED BY <1>3, <2>1, <2>2 DEF Moves
<1> QED BY <1>1, <1>2, <1>3

LEMMA ImportMoves ==
  ASSUME NEW r \in Row, NEW ev \in Event
  PROVE  Moves(r, ImportEvent(r, ev))
<1>0. r.span \in Spans /\ ev.span \in Spans /\ "cancelled" \in Statuses
      /\ (Exists(r) => r.status \in Statuses)
  BY DEF Row, Event, Statuses, Exists
<1>1. CASE ~Exists(r)
  BY <1>1, StaysMoves DEF ImportEvent
<1>2. CASE Exists(r) /\ ev.kind = "deleted"
  <2>1. CASE r.status = "cancelled" /\ r.cal = "synced"
    BY <1>2, <2>1, StaysMoves DEF ImportEvent, ImportRemoval
  <2>2. CASE ~(r.status = "cancelled" /\ r.cal = "synced")
    BY <1>0, <1>2, <2>2, SettledMoves DEF ImportEvent, ImportRemoval, Held
  <2> QED BY <2>1, <2>2
<1>3. CASE Exists(r) /\ ev.kind # "deleted" /\ r.status = "cancelled"
  <2>1. CASE ev.span # r.span \/ r.cal = "synced"
    <3>1. ImportEvent(r, ev).status = "cancelled" /\ ImportEvent(r, ev).cal = "pending"
      BY <1>3, <2>1 DEF ImportEvent, ImportOfCancelled, Columns
    <3>2. PhaseOf(ImportEvent(r, ev)) = "cancelling"
      BY <3>1, ImportType, Phases
    <3> QED BY <1>3, <3>2, Phases DEF Moves
  <2>2. CASE ~(ev.span # r.span \/ r.cal = "synced")
    BY <1>3, <2>2, StaysMoves DEF ImportEvent, ImportOfCancelled
  <2> QED BY <2>1, <2>2
<1>4. CASE Exists(r) /\ ev.kind # "deleted" /\ r.status # "cancelled"
  BY <1>0, <1>4, StaysMoves, SettledMoves DEF ImportEvent, ImportOfActive, Held
<1> QED BY <1>1, <1>2, <1>3, <1>4

LEMMA MarkMoves ==
  ASSUME NEW r \in Row, NEW g \in Nat, r.gen = g => r.cal # "synced"
  PROVE  Moves(r, WorkerSynced(r, g)) /\ Moves(r, WorkerFailed(r, g))
<1>1. CASE r.gen # g
  BY <1>1, StaysMoves DEF WorkerSynced, WorkerFailed
<1>2. CASE r.gen = g
  <2>1. WorkerSynced(r, g).status = r.status /\ WorkerSynced(r, g).cal = "synced"
        /\ WorkerSynced(r, g).span = r.span
    BY <1>2 DEF WorkerSynced, Row
  <2>2. WorkerFailed(r, g).status = r.status /\ WorkerFailed(r, g).cal = "failed"
        /\ WorkerFailed(r, g).span = r.span
    BY <1>2 DEF WorkerFailed, Row
  <2>3. WorkerSynced(r, g) \in Row /\ WorkerFailed(r, g) \in Row
    BY WorkerTypes
  <2>4. r.cal # "synced"
    BY <1>2
  <2>5. Moves(r, WorkerSynced(r, g))
    BY <2>1, <2>3, <2>4, Phases DEF Moves, Exists
  <2>6. Moves(r, WorkerFailed(r, g))
    BY <2>2, <2>3, <2>4, Phases DEF Moves, Exists
  <2> QED BY <2>5, <2>6
<1> QED BY <1>1, <1>2

\* Every step but an accepted booking moves every appointment as the book allows.
LEMMA StepsMove ==
  ASSUME TypeOK, SyncInv, [Next]_vars, ~CreateInserts
  PROVE  \A b \in Bookings : Moves(row[b], row'[b])
<1>0. \A b \in Bookings : row[b] \in Row
  BY DEF TypeOK
<1>1. CASE UNCHANGED row
  BY <1>0, <1>1, StaysMoves
<1>2. CASE PortalNext
  <2> SUFFICES ASSUME NEW b \in Bookings,
                      \/ \E st \in Followups : PatchStatus(b, st)
                      \/ PatchCancel(b)
                      \/ Retry(b)
               PROVE  \A c \in Bookings : Moves(row[c], row'[c])
    BY <1>2 DEF PortalNext
  <2>1. ASSUME NEW st \in Followups, PatchStatus(b, st)
        PROVE  \A c \in Bookings : Moves(row[c], row'[c])
    BY <1>0, <2>1, StatusMoves, StaysMoves DEF PatchStatus, TypeOK
  <2>2. CASE PatchCancel(b)
    BY <1>0, <2>2, PortalCancelMoves, StaysMoves DEF PatchCancel, TypeOK
  <2>3. CASE Retry(b)
    BY <1>0, <2>3, RetryMoves, StaysMoves DEF Retry, TypeOK
  <2> QED BY <2>1, <2>2, <2>3
<1>3. CASE SyncImports
  <2>1. worker.found \in Event
    BY DEF TypeOK, Worker
  <2> QED BY <1>0, <1>3, <2>1, ImportMoves, StaysMoves DEF SyncImports, TypeOK
<1>4. CASE WorkerMarks
  <2>1. worker.job \in Bookings /\ worker.gen \in Nat
        /\ (row[worker.job].gen = worker.gen => row[worker.job].cal # "synced")
    BY <1>4 DEF WorkerMarks, SyncInv, WorkerBehind, TypeOK, Worker
  <2>2. /\ Moves(row[worker.job], WorkerSynced(row[worker.job], worker.gen))
        /\ Moves(row[worker.job], WorkerFailed(row[worker.job], worker.gen))
    BY <1>0, <2>1, MarkMoves
  <2> QED BY <1>0, <1>4, <2>2, StaysMoves DEF WorkerMarks, TypeOK
<1>5. CASE RefreshApplies
  <2>1. Tombstone(NoEvent) \in Event
    BY EventTypes
  <2>2. \A b \in Bookings : refresh.saw[b] \in Event
    BY DEF TypeOK, Refresh
  <2> QED BY <1>0, <1>5, <2>1, <2>2, ImportMoves, StaysMoves DEF RefreshApplies
<1>6. CASE RefreshRecovers
  BY <1>0, <1>6, ResetMoves DEF RefreshRecovers
<1>7. CASE Connect
  <2> DEFINE kept(r) == IF calendarLost THEN ResetForNewCalendar(r) ELSE r
  <2>1. \A b \in Bookings : kept(row[b]) \in Row /\ Moves(row[b], kept(row[b]))
    BY <1>0, ResetType, ResetMoves, StaysMoves
  <2>2. row' = [b \in Bookings |->
                  [kept(row[b]) EXCEPT !.waiting = kept(row[b]).waiting /\ kept(row[b]).cal = "synced"]]
    BY <1>7 DEF Connect
  <2>3. ASSUME NEW r \in Row PROVE (r.waiting /\ r.cal = "synced") \in BOOLEAN
    BY DEF Row
  <2> HIDE DEF kept
  <2> QED BY <1>0, <2>1, <2>2, <2>3, WaitingMoves
<1>8. CASE TimeNext
  <2> SUFFICES ASSUME NEW b \in Bookings, BackoffEnds(b), NEW c \in Bookings
               PROVE  Moves(row[c], row'[c])
    BY <1>8 DEF TimeNext
  <2>1. Moves(row[b], [row[b] EXCEPT !.waiting = FALSE])
    BY <1>0, StaysMoves, WaitingMoves
  <2> QED BY <1>0, <2>1, StaysMoves DEF BackoffEnds, TypeOK
<1>9. CASE CreateNext
  BY <1>1, <1>9 DEF CreateNext, CreateBegin, CreateSkipsRefresh, CreateReadsExternal,
     CreateFails, CreateReadsLocal
<1>10. CASE WorkerNext
  BY <1>1, <1>3, <1>4, <1>10 DEF WorkerNext, SyncCalls, WorkerPicks, SyncEnters, SyncFails,
     SyncDeletes, SyncGets, SyncChecksConflict, SyncPosts, SyncGetsAfterConflict
<1>11. CASE RefreshNext
  BY <1>1, <1>5, <1>6, <1>11 DEF RefreshNext, RefreshSteps, RefreshBegins, RefreshTokenExpired,
     RefreshReads, RefreshFails
<1>12. CASE ConnectionNext
  BY <1>1, <1>7, <1>12 DEF ConnectionNext, Disconnect, GrantRevoked, Crash
<1>13. CASE OwnerNext
  BY <1>1, <1>13 DEF OwnerNext, OwnerChanges, LateInsert, OwnerMoves, OwnerDeletes, OwnerRestores,
     OwnerMakesSeries, OwnerMakesSingle, OwnerMovesOut, OwnerDeletesCalendar, OwnerGetsBusy,
     TokenExpires
<1> QED BY <1>1, <1>2, <1>8, <1>9, <1>10, <1>11, <1>12, <1>13 DEF Next, vars

-----------------------------------------------------------------------------
(* The refinement                                                          *)

LEMMA BookEntries ==
  ASSUME TypeOK, NEW b \in Bookings
  PROVE  /\ bookOf[b] = [phase |-> PhaseOf(row[b]), span |-> row[b].span]
         /\ bookOf[b].phase = PhaseOf(row[b])
         /\ bookOf[b].span = row[b].span
         /\ bookOf[b] \in Book!Entry
<1>1. row[b] \in Row /\ row[b].span \in Spans
  BY DEF TypeOK, Row
<1>2. PhaseOf(row[b]) \in {"none", "open", "cancelling", "closed"}
  BY <1>1, Phases
<1> QED BY <1>1, <1>2 DEF bookOf, Book!Entry, Book!Phases

LEMMA BookType == TypeOK => bookOf \in [Bookings -> Book!Entry]
BY BookEntries DEF bookOf

LEMMA BookEntriesNext ==
  ASSUME TypeOK', NEW b \in Bookings
  PROVE  /\ bookOf'[b] = [phase |-> PhaseOf(row'[b]), span |-> row'[b].span]
         /\ bookOf'[b].phase = PhaseOf(row'[b])
         /\ bookOf'[b].span = row'[b].span
         /\ bookOf'[b] \in Book!Entry
<1>1. row'[b] \in Row /\ row'[b].span \in Spans
  BY DEF TypeOK, Row
<1>2. PhaseOf(row'[b]) \in {"none", "open", "cancelling", "closed"}
  BY <1>1, Phases
<1> QED BY <1>1, <1>2 DEF bookOf, Book!Entry, Book!Phases

\* A request is accepted: the trigger found its time free of every held row.
LEMMA InsertAccepts ==
  ASSUME TypeOK, TypeOK', CreateInserts
  PROVE  (\E b \in Bookings, s \in Spans : Book!Accept(b, s)) \/ UNCHANGED bookOf
<1>1. PICK b \in Bookings : IsNext(b) /\ row' = IF InsertAllowed(create.span)
                              THEN [row EXCEPT ![b] = NewRow(create.span)] ELSE row
  BY DEF CreateInserts
<1>2. create.span \in Spans /\ row[b] \in Row
  BY DEF TypeOK, Create
<1>3. CASE ~InsertAllowed(create.span)
  BY <1>1, <1>3 DEF bookOf
<1>4. CASE InsertAllowed(create.span)
  <2>1. bookOf[b].phase = "none"
    BY <1>1, <1>2, BookEntries, Phases DEF IsNext
  <2>2. ASSUME NEW c \in Bookings, Book!Holds(bookOf[c])
        PROVE  ~Book!Clash(create.span, bookOf[c].span)
    <3>1. row[c] \in Row
      BY DEF TypeOK
    <3>2. Held(row[c]) /\ bookOf[c].span = row[c].span
      BY <2>2, <3>1, BookEntries, Phases DEF Book!Holds
    <3> QED BY <1>4, <3>2 DEF InsertAllowed, FreeLocally, Overlaps, Book!Clash
  <2>3. bookOf' = [bookOf EXCEPT ![b] = [phase |-> "open", span |-> create.span]]
    <3>1. row' = [row EXCEPT ![b] = NewRow(create.span)]
      BY <1>1, <1>4
    <3>2. PhaseOf(NewRow(create.span)) = "open" /\ NewRow(create.span).span = create.span
      BY <1>2, NewRowType, ActiveRow, Phases
    <3>3. ASSUME NEW c \in Bookings
          PROVE  bookOf'[c] = [bookOf EXCEPT ![b] = [phase |-> "open", span |-> create.span]][c]
      BY <3>1, <3>2, BookEntries, BookEntriesNext DEF TypeOK, bookOf
    <3> QED BY <3>3 DEF bookOf
  <2>4. Book!Accept(b, create.span)
    BY <2>1, <2>2, <2>3 DEF Book!Accept
  <2> QED BY <1>2, <2>4
<1> QED BY <1>3, <1>4

LEMMA MovesSettle ==
  ASSUME TypeOK, TypeOK', \A b \in Bookings : Moves(row[b], row'[b])
  PROVE  Book!Settle
<1>1. bookOf' \in [Bookings -> Book!Entry]
  BY BookEntriesNext DEF bookOf
<1>2. ASSUME NEW b \in Bookings
      PROVE  \/ bookOf'[b] = bookOf[b]
             \/ Book!Reschedule(bookOf[b], bookOf'[b])
             \/ Book!Cancel(bookOf[b], bookOf'[b])
             \/ Book!Close(bookOf[b], bookOf'[b])
             \/ Book!Reappear(bookOf[b], bookOf'[b])
  <2>1. row[b] \in Row /\ Moves(row[b], row'[b])
    BY DEF TypeOK
  <2>2. Held(row[b]) <=> Book!Holds(bookOf[b])
    BY <2>1, BookEntries, Phases DEF Book!Holds
  <2> QED BY <2>1, <2>2, BookEntries, BookEntriesNext
          DEF Moves, Book!Reschedule, Book!Cancel, Book!Close, Book!Reappear
<1> QED BY <1>1, <1>2 DEF Book!Settle

\* The rows behave like the book of appointments the service promises, whatever
\* the worker, the refresh, crashes and Google do: every statement of the
\* service that changes a row accepts a request into free time, settles
\* appointments as the book allows, or leaves the book alone.
THEOREM RowsImplementBook == Spec => ImplementsBook
<1>1. Init => Book!Init
  <2> SUFFICES ASSUME Init PROVE bookOf \in [Bookings -> [phase : {"none"}, span : Spans]]
    BY DEF Book!Init
  <2>1. ASSUME NEW b \in Bookings
        PROVE  PhaseOf(row[b]) = "none" /\ row[b].span \in Spans
    BY NoRowType, Phases DEF Init, Row
  <2> QED BY <2>1 DEF bookOf
<1>2. TypeOK /\ TypeOK' /\ SyncInv /\ [Next]_vars => [Book!Next]_bookOf
  BY InsertAccepts, StepsMove, MovesSettle DEF Book!Next
<1> QED BY <1>1, <1>2, SyncInvHolds, PTL DEF Spec, ImplementsBook, Book!Spec

-----------------------------------------------------------------------------
(* What Google or the service has noted of an event *)

\* Only bookings that exist are noted; what changes after a read is kept from
\* the read on; a worker that deletes an event has read a cancelled row.
NotedInv ==
  /\ \A b \in Bookings : b \in feed \/ b \in refresh.since \/ b \in refresh.listed => Exists(row[b])
  /\ refresh.at # "apply" => refresh.since = {}
  /\ worker.at # "idle" /\ worker.status = "cancelled" => row[worker.job].status = "cancelled"

\* An event stands for a booking that exists.
LEMMA EventExists ==
  ASSUME TypeOK, SpansFollow, NEW b \in Bookings, event[b].kind # "none"
  PROVE  Exists(row[b])
<1>1. event[b].span \in Spans
  BY DEF TypeOK, Event
<1> QED BY <1>1 DEF SpansFollow, KnownSpan, InEvent

\* What Google records in a step is recorded of bookings that exist.
LEMMA NotedSteps ==
  ASSUME TypeOK, SyncInv, SpansFollow, NotedInv, [Next]_vars, NEW b \in Bookings,
         b \in feed' \/ b \in refresh'.since \/ b \in refresh'.listed
  PROVE  Exists(row[b])
<1>1. ASSUME NEW S \in SUBSET Bookings, Changed(S), \A c \in S : Exists(row[c])
      PROVE  Exists(row[b])
  BY <1>1, ChangedParts DEF NotedInv
<1>2. CASE UNCHANGED <<feed, refresh>>
  BY <1>2 DEF NotedInv
<1>3. CASE WorkerNext
  <2>1. SyncHoldsOps => Exists(row[worker.job])
    BY DEF SyncHoldsOps, CallStates, SyncInv, WorkerBehind
  <2>2. worker.job \in Bookings => {worker.job} \in SUBSET Bookings
    OBVIOUS
  <2>3. CASE Changed({worker.job}) /\ worker.job \in Bookings /\ SyncHoldsOps
    BY <1>1, <2>1, <2>2, <2>3
  <2> QED BY <1>2, <1>3, <2>3, SyncSteps
<1>4. CASE OwnerNext
  <2>1. ASSUME NEW c \in Bookings, Exists(row[c]), Changed({c}) PROVE Exists(row[b])
    <3>1. {c} \in SUBSET Bookings
      OBVIOUS
    <3> QED BY <1>1, <2>1, <3>1
  <2>2. ASSUME NEW c \in Bookings, NEW s \in Spans, LateInsert(c, s) PROVE Exists(row[b])
    <3>1. Exists(row[c])
      BY <2>2 DEF LateInsert, SpansFollow, KnownSpan, InLate
    <3> QED BY <1>2, <2>1, <2>2, <3>1 DEF LateInsert
  <2>3. ASSUME NEW c \in Bookings,
               \/ \E s \in Spans : OwnerMoves(c, s)
               \/ OwnerDeletes(c) \/ OwnerRestores(c) \/ OwnerMakesSeries(c)
               \/ OwnerMakesSingle(c) \/ OwnerMovesOut(c)
        PROVE  Exists(row[b])
    <3>1. event[c].kind # "none" /\ Changed({c})
      BY <2>3 DEF OwnerMoves, OwnerDeletes, OwnerRestores, OwnerMakesSeries, OwnerMakesSingle,
         OwnerMovesOut, OwnerChanges, Shown
    <3> QED BY <2>1, <3>1, EventExists
  <2>4. CASE OwnerDeletesCalendar
    <3> DEFINE S == {c \in Bookings : event[c].kind # "none"}
    <3>1. Changed(S) /\ S \in SUBSET Bookings /\ \A c \in S : Exists(row[c])
      BY <2>4, EventExists DEF OwnerDeletesCalendar
    <3> QED BY <1>1, <3>1
  <2>5. CASE TokenExpires \/ \E s \in Spans : OwnerGetsBusy(s)
    BY <2>5 DEF TokenExpires, OwnerGetsBusy, NotedInv
  <2> QED BY <1>4, <2>2, <2>3, <2>4, <2>5 DEF OwnerNext
<1>5. CASE RefreshReads
  BY <1>5, EventExists DEF RefreshReads, google, TypeOK, Refresh, NotedInv
<1>6. CASE RefreshNext
  <2>1. CASE \E by \in {"timer", "create"} : RefreshBegins(by)
    BY <2>1 DEF RefreshBegins, google, NotedInv
  <2>2. CASE RefreshTokenExpired \/ RefreshRecovers
    BY <2>2 DEF RefreshTokenExpired, RefreshRecovers, google, TypeOK, Refresh, NotedInv
  <2>3. CASE RefreshApplies \/ RefreshFails
    BY <2>3 DEF RefreshApplies, RefreshFails, RefreshOver, IdleRefresh, google, NotedInv
  <2> QED BY <1>5, <1>6, <2>1, <2>2, <2>3 DEF RefreshNext, RefreshSteps
<1>7. CASE ConnectionNext
  BY <1>7 DEF ConnectionNext, Connect, Disconnect, GrantRevoked, Crash, IdleRefresh, google, NotedInv
<1> QED BY <1>2, <1>3, <1>4, <1>6, <1>7, Bystanders DEF Next, vars, google

LEMMA SinceSteps ==
  ASSUME TypeOK, NotedInv, [Next]_vars, refresh'.at # "apply"
  PROVE  refresh'.since = {}
<1>1. ASSUME NEW S \in SUBSET Bookings, Changed(S) PROVE refresh'.since = {}
  BY <1>1, ChangedParts DEF NotedInv
<1>2. CASE UNCHANGED refresh
  BY <1>2 DEF NotedInv
<1>3. CASE WorkerNext
  <2>1. worker.job \in Bookings => {worker.job} \in SUBSET Bookings
    OBVIOUS
  <2> QED BY <1>1, <1>2, <1>3, <2>1, SyncSteps
<1>4. CASE OwnerNext
  BY <1>1, <1>2, <1>4, OwnerSteps
<1>5. CASE RefreshNext
  <2>1. CASE \E by \in {"timer", "create"} : RefreshBegins(by)
    BY <2>1 DEF RefreshBegins
  <2>2. CASE RefreshTokenExpired \/ RefreshRecovers
    BY <2>2 DEF RefreshTokenExpired, RefreshRecovers, TypeOK, Refresh, NotedInv
  <2>3. CASE RefreshReads
    BY <2>3 DEF RefreshReads, TypeOK, Refresh
  <2>4. CASE RefreshApplies \/ RefreshFails
    BY <2>4 DEF RefreshApplies, RefreshFails, RefreshOver, IdleRefresh
  <2> QED BY <1>5, <2>1, <2>2, <2>3, <2>4 DEF RefreshNext, RefreshSteps
<1>6. CASE ConnectionNext
  BY <1>2, <1>6 DEF ConnectionNext, Connect, Disconnect, GrantRevoked, Crash, IdleRefresh
<1> QED BY <1>2, <1>3, <1>4, <1>5, <1>6, Bystanders DEF Next, vars

LEMMA NotedKept ==
  ASSUME TypeOK, SyncInv, SpansFollow, NotedInv, [Next]_vars
  PROVE  NotedInv'
<1>1. ASSUME NEW b \in Bookings, b \in feed' \/ b \in refresh'.since \/ b \in refresh'.listed
      PROVE  Exists(row'[b])
  BY <1>1, NotedSteps, StatusKept
<1>2. ASSUME worker'.at # "idle", worker'.status = "cancelled"
      PROVE  row'[worker'.job].status = "cancelled"
  <2>1. ASSUME NEW b \in Bookings, WorkerPicks(b) PROVE row'[worker'.job].status = "cancelled"
    BY <1>2, <2>1 DEF WorkerPicks
  <2>2. CASE ~\E b \in Bookings : WorkerPicks(b)
    <3>1. worker.at # "idle" /\ worker'.job = worker.job /\ worker'.status = worker.status
      BY <1>2, <2>2, WorkerKeeps
    <3>2. worker.job \in Bookings /\ Exists(row[worker.job]) /\ row[worker.job].status = "cancelled"
      BY <1>2, <3>1 DEF NotedInv, SyncInv, WorkerBehind
    <3> QED BY <3>1, <3>2, StatusKept
  <2> QED BY <2>1, <2>2
<1> QED BY <1>1, <1>2, SinceSteps DEF NotedInv

-----------------------------------------------------------------------------
(* Cancellations *)

On(b) == Exists(row[b]) /\ row[b].status # "cancelled"

\* Somebody takes the event of b for removed, or is about to.
Removal(b) ==
  \/ event[b].kind = "deleted"
  \/ worker.at = "import" /\ worker.job = b /\ worker.found.kind = "deleted"
  \/ /\ refresh.at = "apply"
     /\ \/ b \in refresh.listed /\ refresh.saw[b].kind = "deleted"
        \/ b \notin refresh.listed /\ refresh.full /\ Claimed(b)

\* Somebody knows of the event of b, and would take its absence for a removal.
Traced(b) ==
  \/ b \in feed \/ b \in refresh.since
  \/ Claimed(b)
  \/ worker.at = "import" /\ worker.job = b /\ worker.found.kind # "deleted"
  \/ refresh.at = "apply" /\ b \in refresh.listed /\ refresh.saw[b].kind # "deleted"

\* Of an appointment that is on, only the owner can have removed the event.
Removed(b) ==
  On(b) =>
    /\ Removal(b) => b \in removed
    /\ event[b].kind = "none" /\ Traced(b) => b \in removed \/ calendarLost

CancelInv == \A b \in Bookings : Removed(b)

LEMMA RemovedGrows ==
  ASSUME TypeOK, [Next]_vars
  PROVE  removed \subseteq removed'
<1>1. CASE OwnerNext
  BY <1>1 DEF OwnerNext, OwnerChanges, LateInsert, OwnerMoves, OwnerDeletes, OwnerRestores,
     OwnerMakesSeries, OwnerMakesSingle, OwnerMovesOut, OwnerDeletesCalendar, OwnerGetsBusy,
     TokenExpires
<1>2. CASE CreateNext \/ PortalNext \/ TimeNext
  BY <1>2 DEF CreateNext, CreateBegin, CreateSkipsRefresh, CreateReadsExternal,
     CreateFails, CreateReadsLocal, CreateInserts, PortalNext, PatchStatus, PatchCancel, Retry,
     TimeNext, BackoffEnds, google
<1>3. CASE WorkerNext
  BY <1>3 DEF WorkerNext, SyncCalls, WorkerPicks, SyncEnters, SyncFails, SyncDeletes, SyncGets,
     SyncImports, SyncChecksConflict, SyncPosts, SyncGetsAfterConflict, WorkerMarks, google
<1>4. CASE RefreshNext
  BY <1>4 DEF RefreshNext, RefreshSteps, RefreshBegins, RefreshTokenExpired, RefreshReads,
     RefreshApplies, RefreshFails, RefreshRecovers, google
<1>5. CASE ConnectionNext
  BY <1>5 DEF ConnectionNext, Connect, Disconnect, GrantRevoked, Crash, google
<1> QED BY <1>1, <1>2, <1>3, <1>4, <1>5 DEF Next, vars, google

\* An appointment that is on was on, or has just been accepted.
LEMMA OnSteps ==
  ASSUME TypeOK, TypeOK', SyncInv, [Next]_vars, NEW b \in Bookings, On(b)'
  PROVE  On(b) \/ ~Exists(row[b])
BY StatusKept DEF On

\* One that has just been accepted is not known to anybody.
LEMMA Accepted ==
  ASSUME TypeOK, TypeOK', SyncInv, SpansFollow, NotedInv, [Next]_vars, NEW b \in Bookings,
         Exists(row'[b]), ~Exists(row[b])
  PROVE  /\ CreateInserts
         /\ ~Removal(b)' /\ ~Traced(b)'
<1>1. CreateInserts
  <2>1. WorkerMarks => Exists(row[worker.job])
    BY DEF WorkerMarks, SyncInv, WorkerBehind
  <2>2. WorkerMarks => row'[b] = row[b]
    BY <2>1 DEF WorkerMarks, TypeOK
  <2> QED BY <2>2, RowSteps DEF RowStep
<1>2. UNCHANGED <<event, worker, feed, refresh>>
  BY <1>1 DEF CreateInserts, google
<1>3. event[b].kind = "none" /\ b \notin feed /\ b \notin refresh.since /\ b \notin refresh.listed
  BY EventExists DEF NotedInv
<1>4. worker.at = "idle" \/ worker.job # b
  BY DEF SyncInv, WorkerBehind
<1>5. row'[b].cal # "synced"
  BY <1>1, NewRowType DEF CreateInserts, TypeOK, Create
<1>6. worker.at = "idle" \/ worker'.job # b
  BY <1>2, <1>4
<1>7. ~Claimed(b)'
  BY <1>2, <1>5, <1>6 DEF Claimed
<1> QED BY <1>1, <1>2, <1>3, <1>6, <1>7 DEF Removal, Traced

\* The worker's UPDATE makes a row say what the worker knew.
LEMMA MarksClaim ==
  ASSUME TypeOK, SyncInv, WorkerMarks, NEW b \in Bookings, Claimed(b)'
  PROVE  Claimed(b)
<1>1. worker.job \in Bookings /\ worker'.at = "idle"
  BY DEF WorkerMarks, SyncInv, WorkerBehind, IdleWorker
<1>2. Exists(row'[b]) /\ row'[b].cal = "synced"
  BY <1>1 DEF Claimed
<1>3. CASE b # worker.job
  BY <1>2, <1>3 DEF WorkerMarks, TypeOK, Claimed
<1>4. CASE b = worker.job
  <2>1. row[b] \in Row /\ Exists(row[b])
    BY <1>4 DEF TypeOK, SyncInv, WorkerBehind, WorkerMarks
  <2>2. row'[b] = IF worker.at = "ok" THEN WorkerSynced(row[b], worker.gen) ELSE WorkerFailed(row[b], worker.gen)
    BY <1>1, <1>4 DEF WorkerMarks, TypeOK
  <2> QED BY <1>2, <1>4, <2>1, <2>2 DEF WorkerMarks, WorkerSynced, WorkerFailed, Claimed, Row
<1> QED BY <1>3, <1>4

\* A row that was reset for a new calendar claims nothing while it is on.
LEMMA ResetClaims ==
  ASSUME TypeOK, SyncInv, NEW b \in Bookings, UNCHANGED worker, On(b)', On(b),
         row'[b].status = ResetForNewCalendar(row[b]).status,
         row'[b].cal = ResetForNewCalendar(row[b]).cal,
         row'[b].gen = ResetForNewCalendar(row[b]).gen
  PROVE  ~Claimed(b)'
<1>1. row[b] \in Row /\ row[b].gen \in Nat /\ row[b].status # "cancelled" /\ Held(row[b])
  BY DEF TypeOK, Row, On, Held
<1>2. row'[b].cal = "pending" /\ row'[b].gen = row[b].gen + 1
  BY <1>1 DEF ResetForNewCalendar, Columns
<1>3. worker.at # "idle" /\ worker.job = b => worker.gen \in Nat /\ worker.gen <= row[b].gen
  BY DEF SyncInv, WorkerBehind, TypeOK, Worker
<1> QED BY <1>1, <1>2, <1>3 DEF Claimed

\* Of an appointment that is on, no step but an answer or an import makes anybody
\* claim that Google agrees.
LEMMA NoNewClaim ==
  ASSUME TypeOK, SyncInv, [Next]_vars, ~Answers, ~RefreshApplies, NEW b \in Bookings,
         On(b), On(b)', Claimed(b)'
  PROVE  /\ Claimed(b)
         /\ ~RefreshRecovers /\ ~(Connect /\ calendarLost)
<1>1. CASE WorkerMarks
  BY <1>1, MarksClaim DEF WorkerMarks, RefreshRecovers, Connect, IdleWorker
<1>2. CASE RefreshRecovers
  <2>1. row'[b] = ResetForNewCalendar(row[b]) /\ UNCHANGED worker
    BY <1>2 DEF RefreshRecovers
  <2> QED BY <2>1, ResetClaims
<1>3. CASE Connect /\ calendarLost
  <2> DEFINE q == ResetForNewCalendar(row[b])
  <2>1. row'[b] = [q EXCEPT !.waiting = q.waiting /\ q.cal = "synced"] /\ UNCHANGED worker
    BY <1>3 DEF Connect
  <2>2. q \in Row
    BY ResetType DEF TypeOK
  <2> HIDE DEF q
  <2>3. row'[b].gen = q.gen /\ row'[b].cal = q.cal /\ row'[b].status = q.status
    BY <2>1, <2>2 DEF Row
  <2> QED BY <2>1, <2>3, ResetClaims DEF q
<1>4. CASE ~Claims
  BY <1>4, RowsMove, NoAnswer, MildCarries DEF Claims
<1> QED BY <1>1, <1>2, <1>3, <1>4 DEF Claims, Answers

OwnerInv == FeedInv /\ SpansFollow /\ NotedInv /\ CancelInv

\* Steps that neither touch an event nor learn of one.
Quiet ==
  /\ UNCHANGED <<event, removed>> /\ feed' \subseteq feed
  /\ worker'.at = "import" => worker' = worker
  /\ refresh' = refresh \/ (refresh'.at # "apply" /\ refresh'.since = {})
  /\ \/ UNCHANGED calendarLost
     \/ feed' = {} /\ refresh'.since = {} /\ worker'.at # "import" /\ refresh'.at # "apply"

LEMMA QuietKeeps ==
  ASSUME OwnerInv, [Next]_vars, ~Answers, ~RefreshApplies, Quiet, NEW b \in Bookings,
         On(b), On(b)',
         UNCHANGED calendarLost \/ RefreshRecovers \/ (Connect /\ calendarLost)
  PROVE  Removed(b)'
<1>1. Claimed(b)' => Claimed(b) /\ UNCHANGED calendarLost
  BY NoNewClaim DEF OwnerInv, FeedInv
<1>2. Removed(b)
  BY DEF OwnerInv, CancelInv
<1>3. Removal(b)' => Removal(b)
  BY <1>1 DEF Quiet, Removal
<1>4. Traced(b)' => Traced(b) /\ UNCHANGED calendarLost
  <2>1. CASE UNCHANGED calendarLost
    BY <1>1, <2>1 DEF Quiet, Traced
  <2>2. CASE ~UNCHANGED calendarLost
    BY <1>1, <2>2 DEF Quiet, Traced
  <2> QED BY <2>1, <2>2
<1> QED BY <1>2, <1>3, <1>4 DEF Quiet, Removed

\* An event appears, is given another time, or is removed by the owner.
LEMMA ChangeKeeps ==
  ASSUME OwnerInv, [Next]_vars, OwnerNext, NEW c \in Bookings, Changed({c}),
         UNCHANGED calendarLost, \A d \in Bookings \ {c} : event'[d] = event[d],
         event'[c].kind \in {"live", "series"} \/ c \in removed',
         NEW b \in Bookings, On(b), On(b)'
  PROVE  Removed(b)'
<1>1. UNCHANGED <<row, worker>> /\ (Claimed(b)' <=> Claimed(b))
  BY OwnerSteps DEF OwnerInv, FeedInv, Claimed
<1>2. Removed(b) /\ removed \subseteq removed'
  BY RemovedGrows DEF OwnerInv, CancelInv, FeedInv
<1>3. /\ feed' \subseteq feed \cup {c} /\ refresh'.since \subseteq refresh.since \cup {c}
      /\ refresh'.at = refresh.at /\ refresh'.full = refresh.full
      /\ refresh'.listed = refresh.listed /\ refresh'.saw = refresh.saw
  <2>1. {c} \in SUBSET Bookings
    OBVIOUS
  <2> QED BY <2>1, ChangedParts DEF OwnerInv, FeedInv
<1>4. CASE b # c
  <2>1. event'[b] = event[b]
    BY <1>4
  <2>2. (Removal(b)' => Removal(b)) /\ (Traced(b)' => Traced(b))
    BY <1>1, <1>3, <1>4, <2>1 DEF Removal, Traced
  <2> QED BY <1>2, <2>1, <2>2 DEF Removed
<1>5. CASE b = c /\ event'[b].kind \in {"live", "series"}
  <2>1. Removal(b)' => Removal(b)
    BY <1>1, <1>3, <1>5 DEF Removal
  <2> QED BY <1>2, <1>5, <2>1 DEF Removed
<1>6. CASE b \in removed'
  BY <1>6 DEF Removed
<1> QED BY <1>4, <1>5, <1>6

LEMMA OwnerKeeps ==
  ASSUME OwnerInv, [Next]_vars, OwnerNext, NEW b \in Bookings, On(b), On(b)'
  PROVE  Removed(b)'
<1> USE DEF OwnerInv, FeedInv
<1>0. event \in [Bookings -> Event]
  BY DEF TypeOK
<1>1. ASSUME NEW c \in Bookings, NEW ev \in Event, OwnerChanges(c, ev),
             ev.kind \in {"live", "series"} \/ c \in removed'
      PROVE  Removed(b)'
  <2>1. /\ Changed({c}) /\ UNCHANGED calendarLost /\ event'[c] = ev
        /\ \A d \in Bookings \ {c} : event'[d] = event[d]
    BY <1>0, <1>1 DEF OwnerChanges
  <2> QED BY <1>1, <2>1, ChangeKeeps
<1>2. ASSUME NEW c \in Bookings, NEW s \in Spans, LateInsert(c, s) PROVE Removed(b)'
  <2>1. CASE event[c].kind = "none" /\ ~calendarLost
    <3>1. /\ Changed({c}) /\ UNCHANGED calendarLost /\ event'[c].kind = "live"
          /\ \A d \in Bookings \ {c} : event'[d] = event[d]
      BY <1>0, <1>2, <2>1 DEF LateInsert, Live
    <3> QED BY <3>1, ChangeKeeps
  <2>2. CASE ~(event[c].kind = "none" /\ ~calendarLost)
    <3>1. UNCHANGED <<row, worker, event, feed, refresh, calendarLost, removed>>
      BY <1>2, <2>2 DEF LateInsert
    <3>2. (Removal(b)' <=> Removal(b)) /\ (Traced(b)' <=> Traced(b))
      BY <3>1 DEF Removal, Traced, Claimed
    <3> QED BY <3>1, <3>2 DEF Removed, CancelInv
  <2> QED BY <2>1, <2>2
<1>3. ASSUME NEW c \in Bookings, NEW s \in Spans, OwnerMoves(c, s) PROVE Removed(b)'
  BY <1>1, <1>3, EventTypes DEF OwnerMoves, Live
<1>4. ASSUME NEW c \in Bookings, OwnerDeletes(c) PROVE Removed(b)'
  BY <1>0, <1>1, <1>4, EventTypes DEF OwnerDeletes
<1>5. ASSUME NEW c \in Bookings, OwnerRestores(c) \/ OwnerMakesSingle(c) PROVE Removed(b)'
  <2>1. Live(event[c].span) \in Event /\ Live(event[c].span).kind = "live"
    BY <1>0, EventTypes DEF Event, Live
  <2> QED BY <1>1, <1>5, <2>1 DEF OwnerRestores, OwnerMakesSingle
<1>6. ASSUME NEW c \in Bookings, OwnerMakesSeries(c) PROVE Removed(b)'
  <2>1. [event[c] EXCEPT !.kind = "series"] \in Event /\ [event[c] EXCEPT !.kind = "series"].kind = "series"
    BY <1>0, EventTypes DEF Event
  <2> QED BY <1>1, <1>6, <2>1 DEF OwnerMakesSeries
<1>7. ASSUME NEW c \in Bookings, OwnerMovesOut(c) PROVE Removed(b)'
  BY <1>1, <1>7, EventTypes DEF OwnerMovesOut
<1>8. CASE OwnerDeletesCalendar
  <2>1. calendarLost' /\ event'[b].kind = "none" /\ UNCHANGED <<row, worker, removed>>
    BY <1>8 DEF OwnerDeletesCalendar, NoEvent
  <2>2. /\ refresh'.at = refresh.at /\ refresh'.full = refresh.full
        /\ refresh'.listed = refresh.listed /\ refresh'.saw = refresh.saw
    <3>1. {c \in Bookings : event[c].kind # "none"} \in SUBSET Bookings
      OBVIOUS
    <3> QED BY <1>8, <3>1, ChangedParts DEF OwnerDeletesCalendar
  <2>3. Removal(b)' => Removal(b)
    BY <2>1, <2>2 DEF Removal, Claimed
  <2> QED BY <2>1, <2>3 DEF Removed, CancelInv
<1>9. CASE TokenExpires \/ \E s \in Spans : OwnerGetsBusy(s)
  <2>1. UNCHANGED <<row, worker, event, refresh, calendarLost, removed>> /\ feed' \subseteq feed
    BY <1>9 DEF TokenExpires, OwnerGetsBusy
  <2>2. (Removal(b)' => Removal(b)) /\ (Traced(b)' => Traced(b))
    BY <2>1 DEF Removal, Traced, Claimed
  <2> QED BY <2>1, <2>2 DEF Removed, CancelInv
<1> QED BY <1>2, <1>3, <1>4, <1>5, <1>6, <1>7, <1>8, <1>9 DEF OwnerNext

\* The worker's calls: an answer about an appointment that is on shows its event.
LEMMA AnswersKeep ==
  ASSUME OwnerInv, [Next]_vars, Answers, NEW b \in Bookings, On(b), On(b)'
  PROVE  Removed(b)'
<1> USE DEF OwnerInv, FeedInv
<1>1. /\ worker.job \in Bookings /\ SyncHoldsOps /\ refresh.at = "idle"
      /\ Removed(b) /\ worker.at # "idle"
  BY JobType DEF Answers, SyncDeletes, SyncGets, SyncImports, SyncPosts, SyncGetsAfterConflict,
     SyncHoldsOps, CallStates, OpsInv, RefreshHoldsOps, CancelInv
<1>2. UNCHANGED <<calendarLost, removed>> /\ worker'.job = worker.job /\ worker'.gen = worker.gen
  BY DEF Answers, SyncDeletes, SyncGets, SyncImports, SyncPosts, SyncGetsAfterConflict, google,
     TypeOK, Worker
<1>3. \A c \in Bookings \ {worker.job} : event'[c] = event[c] /\ row'[c] = row[c]
  BY <1>1 DEF Answers, SyncDeletes, SyncGets, SyncImports, SyncPosts, SyncGetsAfterConflict, google,
     TypeOK
<1>4. feed' \subseteq feed \cup {worker.job} /\ refresh'.at # "apply" /\ refresh'.since = refresh.since
  <2>1. {worker.job} \in SUBSET Bookings
    BY <1>1
  <2>2. CASE UNCHANGED <<feed, refresh>>
    BY <1>1, <2>2
  <2>3. CASE Changed({worker.job})
    BY <1>1, <2>1, <2>3, ChangedParts
  <2> QED BY <2>2, <2>3 DEF Answers, SyncDeletes, SyncGets, SyncImports, SyncPosts,
             SyncGetsAfterConflict, google
<1>5. CASE b # worker.job
  <2>1. (Removal(b)' => Removal(b)) /\ (Traced(b)' => Traced(b))
    BY <1>2, <1>3, <1>4, <1>5 DEF Removal, Traced, Claimed
  <2> QED BY <1>1, <1>2, <1>3, <1>5, <2>1 DEF Removed
<1>6. CASE b = worker.job /\ SyncDeletes
  BY <1>1, <1>6 DEF SyncDeletes, NotedInv, On
<1>7. CASE b = worker.job /\ SyncGets
  <2>1. UNCHANGED <<row, event, feed, refresh>>
    BY <1>7 DEF SyncGets, google
  <2>2. \/ worker'.at \notin {"import", "ok"}
        \/ worker'.at = "ok" /\ event[b].kind \in {"live", "series"}
        \/ worker'.at = "import" /\ worker'.found = event[b] /\ event[b].kind # "none"
    BY <1>7 DEF SyncGets, Matches, Shown, TypeOK, Worker
  <2>3. Removal(b)' => Removal(b)
    BY <1>4, <2>1, <2>2 DEF Removal
  <2>4. event[b].kind = "none" /\ Traced(b)' => Traced(b)
    BY <1>4, <2>1, <2>2 DEF Traced, Claimed
  <2> QED BY <1>1, <1>2, <2>1, <2>3, <2>4 DEF Removed
<1>8. CASE b = worker.job /\ SyncImports
  <2>1. UNCHANGED <<event, feed, refresh>> /\ worker.at = "import" /\ worker'.at # "import"
    BY <1>8 DEF SyncImports, google, TypeOK, Worker
  <2>2. CASE worker.found.kind = "deleted"
    <3>1. row'[b].status = "cancelled"
      BY <1>1, <1>8, <2>2 DEF SyncImports, TypeOK, ImportEvent, ImportRemoval, Settled, Columns, On
    <3> QED BY <3>1 DEF On
  <2>3. CASE worker.found.kind # "deleted"
    <3>1. Removal(b)' => Removal(b)
      BY <1>4, <2>1 DEF Removal
    <3>2. Traced(b)
      BY <1>8, <2>1, <2>3 DEF Traced
    <3> QED BY <1>1, <1>2, <2>1, <3>1, <3>2 DEF Removed
  <2> QED BY <2>2, <2>3
<1>9. CASE b = worker.job /\ SyncPosts
  <2>1. worker'.at # "import" /\ row' = row
    BY <1>9 DEF SyncPosts, TypeOK, Worker
  <2>2. CASE event'[b].kind = "live"
    BY <1>4, <2>1, <2>2 DEF Removal, Removed
  <2>3. CASE UNCHANGED <<event, feed>> /\ worker'.at # "ok"
    <3>1. (Removal(b)' => Removal(b)) /\ (Traced(b)' => Traced(b))
      BY <1>4, <2>1, <2>3 DEF Removal, Traced, Claimed
    <3> QED BY <1>1, <1>2, <2>3, <3>1 DEF Removed
  <2> QED BY <1>1, <1>9, <2>2, <2>3 DEF SyncPosts, TypeOK, Worker, Live
<1>10. CASE b = worker.job /\ SyncGetsAfterConflict
  <2>1. /\ UNCHANGED <<row, event, feed, refresh>> /\ worker'.at # "import"
        /\ worker'.at = "ok" => event[b].kind \in {"live", "series"}
    BY <1>10 DEF SyncGetsAfterConflict, google, Matches, Shown, TypeOK, Worker
  <2>2. Removal(b)' => Removal(b)
    BY <1>4, <2>1 DEF Removal
  <2>3. event[b].kind = "none" /\ Traced(b)' => Traced(b)
    BY <1>4, <2>1 DEF Traced, Claimed
  <2> QED BY <1>1, <1>2, <2>1, <2>2, <2>3 DEF Removed
<1> QED BY <1>5, <1>6, <1>7, <1>8, <1>9, <1>10 DEF Answers

\* What a read lists as removed, or does not list, the owner has removed.
LEMMA ReadsKeep ==
  ASSUME OwnerInv, RefreshReads, NEW b \in Bookings, On(b), On(b)'
  PROVE  Removed(b)'
<1> USE DEF OwnerInv, FeedInv
<1>1. /\ UNCHANGED <<row, event, calendarLost, feed, worker, removed>>
      /\ ~calendarLost /\ Removed(b) /\ refresh.at = "read"
  BY DEF RefreshReads, google, CancelInv
<1>2. /\ refresh'.at = "apply" /\ refresh'.full = refresh.full /\ refresh'.since = refresh.since
      /\ b \in refresh'.listed <=> IF refresh.full THEN event[b].kind # "none" ELSE b \in feed
      /\ refresh'.saw[b] = IF event[b].kind = "none" /\ ~refresh.full /\ b \in feed
                             THEN Tombstone(event[b]) ELSE event[b]
  BY DEF RefreshReads, TypeOK, Refresh
<1>3. Removal(b)' => Removal(b) \/ (event[b].kind = "none" /\ Traced(b))
  <2>1. CASE event[b].kind = "none"
    BY <1>1, <1>2, <2>1 DEF Removal, Traced, Claimed
  <2>2. CASE event[b].kind # "none"
    BY <1>1, <1>2, <2>2 DEF Removal
  <2> QED BY <2>1, <2>2
<1>4. event[b].kind = "none" /\ Traced(b)' => Traced(b)
  <2> SUFFICES ASSUME event[b].kind = "none",
                      b \in refresh'.listed /\ refresh'.saw[b].kind # "deleted"
               PROVE  FALSE
    BY <1>1, <1>2 DEF Traced, Claimed
  <2>1. ~refresh.full /\ b \in feed
    BY <1>2
  <2>2. refresh'.saw[b].kind = "deleted"
    BY <1>2, <2>1 DEF Tombstone, TypeOK, Event
  <2> QED BY <2>2
<1> QED BY <1>1, <1>3, <1>4 DEF Removed

\* An appointment that a snapshot leaves on was shown by it, or passed over.
LEMMA AppliesKeep ==
  ASSUME OwnerInv, RefreshApplies, NEW b \in Bookings, On(b), On(b)'
  PROVE  Removed(b)'
<1> USE DEF OwnerInv, FeedInv
<1>1. /\ refresh.at = "apply" /\ refresh'.at = "idle" /\ refresh'.since = {} /\ feed' = refresh.since
      /\ UNCHANGED <<event, calendarLost, worker, removed>> /\ Removed(b)
  BY DEF RefreshApplies, RefreshOver, IdleRefresh, CancelInv
<1>2. row'[b] = IF b \in refresh.listed THEN ImportEvent(row[b], refresh.saw[b])
                ELSE IF Missing(b) THEN ImportEvent(row[b], Tombstone(NoEvent))
                ELSE row[b]
  BY DEF RefreshApplies
<1>3. Removal(b)' => Removal(b)
  BY <1>1 DEF Removal
<1>4. ASSUME NEW ev, Exists(row[b]), row'[b] = ImportEvent(row[b], ev) PROVE ev.kind # "deleted"
  BY <1>4 DEF ImportEvent, ImportRemoval, Settled, Columns, On
<1>5. Claimed(b)' => Traced(b)
  <2>1. CASE b \in refresh.listed
    <3>1. refresh.saw[b].kind # "deleted"
      BY <1>2, <1>4, <2>1 DEF On
    <3> QED BY <1>1, <2>1, <3>1 DEF Traced
  <2>2. CASE b \notin refresh.listed
    <3>1. Tombstone(NoEvent).kind = "deleted"
      BY DEF Tombstone, NoEvent
    <3>2. row'[b] = row[b]
      BY <1>2, <1>4, <2>2, <3>1 DEF On
    <3> QED BY <1>1, <3>2 DEF Claimed, Traced
  <2> QED BY <2>1, <2>2
<1>6. Traced(b)' => Traced(b)
  BY <1>1, <1>5 DEF Traced
<1> QED BY <1>1, <1>3, <1>6 DEF Removed

LEMMA QuietSteps ==
  ASSUME OwnerInv, [Next]_vars, ~OwnerNext, ~Answers, ~RefreshReads, ~RefreshApplies
  PROVE  /\ Quiet
         /\ UNCHANGED calendarLost \/ RefreshRecovers \/ (Connect /\ calendarLost)
<1> USE DEF OwnerInv, FeedInv
<1>1. CASE UNCHANGED vars
  BY <1>1 DEF vars, google, Quiet
<1>2. CASE CreateNext \/ PortalNext \/ TimeNext
  <2>1. UNCHANGED removed
    BY <1>2 DEF CreateNext, CreateBegin, CreateSkipsRefresh, CreateReadsExternal, CreateFails,
       CreateReadsLocal, CreateInserts, PortalNext, PatchStatus, PatchCancel, Retry, TimeNext,
       BackoffEnds, google
  <2> QED BY <1>2, <2>1, Bystanders DEF Quiet
<1>3. CASE WorkerNext
  BY <1>3 DEF Answers, WorkerNext, SyncCalls, WorkerPicks, SyncEnters, SyncFails,
     SyncChecksConflict, WorkerMarks, IdleWorker, google, Quiet, TypeOK, Worker
<1>4. CASE RefreshRecovers
  <2>1. worker.at # "import"
    BY <1>4 DEF RefreshRecovers, OpsInv, RefreshHoldsOps, SyncHoldsOps, CallStates
  <2>2. refresh'.at = "read" /\ refresh'.since = {}
    BY <1>4 DEF RefreshRecovers, TypeOK, Refresh, NotedInv
  <2> QED BY <1>4, <2>1, <2>2 DEF RefreshRecovers, Quiet
<1>5. CASE RefreshFails
  BY <1>5 DEF RefreshFails, RefreshOver, IdleRefresh, google, Quiet
<1>6. CASE RefreshTokenExpired
  <2>1. refresh'.at = "read" /\ refresh'.since = {}
    BY <1>6 DEF RefreshTokenExpired, TypeOK, Refresh, NotedInv
  <2> QED BY <1>6, <2>1 DEF RefreshTokenExpired, google, Quiet
<1>7. ASSUME NEW by \in {"timer", "create"}, RefreshBegins(by)
      PROVE  Quiet /\ UNCHANGED calendarLost
  BY <1>7 DEF RefreshBegins, google, Quiet
<1>8. CASE Connect
  <2>1. worker.at # "import" /\ refresh.at = "idle" /\ refresh.since = {}
    BY <1>8 DEF Connect, RefreshHoldsOps, SyncHoldsOps, CallStates, NotedInv
  <2> QED BY <1>8, <2>1 DEF Connect, Quiet, TypeOK
<1>9. CASE Disconnect \/ GrantRevoked
  BY <1>9 DEF Disconnect, GrantRevoked, google, Quiet
<1>10. CASE Crash
  BY <1>10 DEF Crash, google, IdleWorker, IdleRefresh, Quiet
<1> QED BY <1>1, <1>2, <1>3, <1>4, <1>5, <1>6, <1>7, <1>8, <1>9, <1>10
        DEF Next, RefreshNext, RefreshSteps, ConnectionNext

LEMMA CancelKept ==
  ASSUME OwnerInv, TypeOK', [Next]_vars
  PROVE  CancelInv'
<1> SUFFICES ASSUME NEW b \in Bookings PROVE Removed(b)'
  BY DEF CancelInv
<1>1. CASE ~On(b)'
  BY <1>1 DEF Removed
<1>2. CASE On(b)' /\ ~Exists(row[b])
  <2>1. Exists(row'[b])
    BY <1>2 DEF On
  <2> QED BY <1>2, <2>1, Accepted DEF OwnerInv, FeedInv, Removed
<1>3. CASE On(b)' /\ On(b)
  BY <1>3, OwnerKeeps, AnswersKeep, ReadsKeep, AppliesKeep, QuietSteps, QuietKeeps
<1> QED BY <1>1, <1>2, <1>3, OnSteps DEF OwnerInv, FeedInv

LEMMA OwnerInvHolds == Spec => [](OwnerInv /\ TypeOK)
<1>1. Init => NotedInv /\ CancelInv
  BY DEF Init, NotedInv, CancelInv, Removed, On, Exists, NoRow, Columns, IdleRefresh, IdleWorker
<1>2. OwnerInv /\ TypeOK' /\ [Next]_vars => NotedInv' /\ CancelInv'
  BY NotedKept, CancelKept DEF OwnerInv, FeedInv
<1>3. Init => OpsInv /\ KnowsInv /\ CarriesInv /\ ClaimsInv /\ SnapshotInv
  BY DEF Init, OpsInv, SyncHoldsOps, CallStates, IdleWorker, KnowsInv, CarriesInv, ClaimsInv, Seen, SnapshotInv,
    IdleRefresh
<1>4. FeedInv /\ [Next]_vars => OpsInv' /\ KnowsInv' /\ CarriesInv' /\ ClaimsInv' /\ SnapshotInv'
  BY OpsKept, KnowsKept, CarriesKept, ClaimsKept DEF FeedInv
<1>5. FeedInv <=> (TypeOK /\ SyncInv) /\ (OpsInv /\ KnowsInv /\ CarriesInv /\ ClaimsInv /\ SnapshotInv)
  BY DEF FeedInv
<1>6. OwnerInv <=> FeedInv /\ SpansFollow /\ NotedInv /\ CancelInv
  BY DEF OwnerInv
<1> QED BY <1>1, <1>2, <1>3, <1>4, <1>5, <1>6, SpansFollowHolds, PTL DEF Spec

\* Nobody but the portal, or the owner who removed the event in Google, cancels
\* an appointment: an insert still to be made, an answer that comes late, a
\* change feed read after the calendar was lost or replaced, and a snapshot taken
\* before the worker's UPDATE are never taken for a removal.
THEOREM OnlyTheOwnerCancels == Spec => OnlyOwnersCancel
<1>1. ASSUME OwnerInv, TypeOK', [Next]_vars, NEW b \in Bookings,
             Active(row[b]), row'[b].status = "cancelled", row'[b].cal = "synced"
      PROVE  b \in removed
  <2>1. On(b) /\ row[b] \in Row /\ Removed(b)
    BY <1>1, ActiveRow DEF On, OwnerInv, FeedInv, TypeOK, CancelInv
  <2>2. ASSUME NEW ev \in Event, row'[b] = ImportEvent(row[b], ev)
        PROVE  ev.kind = "deleted"
    BY <1>1, <2>1, <2>2 DEF ImportEvent, ImportOfActive, Settled, Columns, On
  <2>3. CASE SyncImports
    <3>1. row'[b] = row[b] \/ (b = worker.job /\ row'[b] = ImportEvent(row[b], worker.found))
      BY <1>1, <2>3 DEF SyncImports, OwnerInv, FeedInv, TypeOK
    <3>2. worker.found \in Event
      BY <1>1 DEF OwnerInv, FeedInv, TypeOK, Worker
    <3>3. Removal(b)
      BY <1>1, <2>1, <2>2, <2>3, <3>1, <3>2 DEF Removal, SyncImports, On
    <3> QED BY <2>1, <3>3 DEF Removed
  <2>4. CASE RefreshApplies
    <3>1. refresh.at = "apply" /\ refresh.saw[b] \in Event
      BY <1>1, <2>4 DEF RefreshApplies, OwnerInv, FeedInv, TypeOK, Refresh
    <3>2. row'[b] = IF b \in refresh.listed THEN ImportEvent(row[b], refresh.saw[b])
                    ELSE IF Missing(b) THEN ImportEvent(row[b], Tombstone(NoEvent))
                    ELSE row[b]
      BY <2>4 DEF RefreshApplies
    <3>3. CASE b \in refresh.listed
      BY <2>1, <2>2, <3>1, <3>2, <3>3 DEF Removal, Removed
    <3>4. CASE b \notin refresh.listed
      <4>1. Missing(b)
        BY <1>1, <2>1, <3>2, <3>4 DEF On
      <4>2. Removal(b)
        BY <2>1, <3>1, <3>4, <4>1 DEF Removal, Missing, Claimed, On
      <4> QED BY <2>1, <4>2 DEF Removed
    <3> QED BY <3>3, <3>4
  <2>5. CASE ~SyncImports /\ ~RefreshApplies
    <3>1. ~(row'[b].status = "cancelled" /\ row'[b].cal = "synced")
      <4>1. CASE WorkerMarks
        <5>1. row'[b].status = row[b].status
          <6>1. worker.job \in Bookings /\ worker.gen \in Nat
            BY <1>1, <4>1 DEF WorkerMarks, OwnerInv, FeedInv, SyncInv, WorkerBehind, TypeOK, Worker
          <6>2. CASE b # worker.job
            BY <4>1, <6>1, <6>2 DEF WorkerMarks, OwnerInv, FeedInv, TypeOK
          <6>3. CASE b = worker.job
            <7>1. row'[b] = IF worker.at = "ok" THEN WorkerSynced(row[b], worker.gen)
                                                ELSE WorkerFailed(row[b], worker.gen)
              BY <1>1, <4>1, <6>3 DEF WorkerMarks, OwnerInv, FeedInv, TypeOK
            <7> QED BY <2>1, <7>1 DEF WorkerSynced, WorkerFailed, Row
          <6> QED BY <6>2, <6>3
        <5> QED BY <2>1, <5>1 DEF On
      <4>2. CASE RefreshRecovers
        BY <2>1, <4>2 DEF RefreshRecovers, ResetForNewCalendar, Columns, On
      <4>3. CASE Connect /\ calendarLost
        <5> DEFINE q == ResetForNewCalendar(row[b])
        <5>1. row'[b] = [q EXCEPT !.waiting = q.waiting /\ q.cal = "synced"]
          BY <4>3 DEF Connect
        <5>2. q \in Row /\ q.status = row[b].status
          BY <2>1, ResetType DEF ResetForNewCalendar, Columns, On
        <5> HIDE DEF q
        <5> QED BY <2>1, <5>1, <5>2 DEF Row, On
      <4>4. CASE ~Claims
        <5>1. Mild(row[b], row'[b])
          BY <1>1, <4>4, RowsMove DEF OwnerInv, FeedInv
        <5> QED BY <1>1, <2>1, <5>1 DEF Mild, Same, On, Exists
      <4> QED BY <2>5, <4>1, <4>2, <4>3, <4>4 DEF Claims
    <3> QED BY <1>1, <3>1
  <2> QED BY <2>3, <2>4, <2>5
<1>2. OwnerInv /\ TypeOK' /\ [Next]_vars
        => [\A b \in Bookings :
              Active(row[b]) /\ row'[b].status = "cancelled" /\ row'[b].cal = "synced"
                => b \in removed]_vars
  BY <1>1
<1> QED BY <1>2, OwnerInvHolds, PTL DEF Spec, OnlyOwnersCancel

-----------------------------------------------------------------------------
(* A new booking and what Google shows *)

\* A booking handler at work, after its own refresh.
Past == create.at \in {"external", "local", "insert"}

\* What Google shows of b stands at the time its row holds.
Placed(b) ==
  Shown(event[b]) => row[b].span = event[b].span /\ (Claimed(b) => row[b].status # "cancelled")

\* Google or a refresh has passed b since the handler's own refresh.
SeenSince(b) == b \in create.changed \/ b \in overtaken

LostInv == calendarLost => \A b \in Bookings : event[b].kind = "none"

PlaceInv ==
  /\ \A b \in Bookings : Placed(b) \/ Seen(b)
  /\ refresh.at = "apply" =>
       \A b \in Bookings : b \in refresh.listed \/ Placed(b) \/ SeenNext(b)

SinceInv ==
  Past =>
    /\ \A b \in Bookings : Placed(b) \/ SeenSince(b)
    /\ worker.at = "import" => worker.found = event[worker.job] \/ SeenSince(worker.job)
                                \/ event[worker.job].kind = "none"
    /\ refresh.at = "apply" => refresh.since \subseteq create.changed

LEMMA PlacedHeld ==
  ASSUME NEW b \in Bookings, Placed(b), Shown(event[b]), Exists(row[b])
  PROVE  Held(row[b]) /\ row[b].span = event[b].span
BY DEF Placed, Held, Claimed

\* Nothing is in a lost calendar.
LEMMA LostKept ==
  ASSUME TypeOK, LostInv, [Next]_vars
  PROVE  LostInv'
<1> SUFFICES ASSUME calendarLost', NEW b \in Bookings PROVE event'[b].kind = "none"
  BY DEF LostInv
<1>0. calendarLost => event[b].kind = "none" /\ \A c \in Bookings : event[c].kind = "none"
  BY DEF LostInv
<1>1. CASE UNCHANGED <<event, calendarLost>>
  BY <1>0, <1>1
<1>2. CASE WorkerNext
  <2>1. CASE SyncDeletes
    BY <1>0, <1>1, <2>1, JobType DEF SyncDeletes, Shown
  <2>2. CASE SyncPosts
    BY <1>0, <2>2 DEF SyncPosts, CanCall
  <2> QED BY <1>1, <1>2, <2>1, <2>2 DEF WorkerNext, SyncCalls, WorkerPicks, SyncEnters, SyncFails,
        SyncGets, SyncImports, SyncChecksConflict, SyncGetsAfterConflict, WorkerMarks, google
<1>3. CASE RefreshNext
  <2>1. CASE RefreshRecovers
    BY <2>1 DEF RefreshRecovers
  <2> QED BY <1>1, <1>3, <2>1 DEF RefreshNext, RefreshSteps, RefreshBegins, RefreshTokenExpired,
        RefreshReads, RefreshApplies, RefreshFails, google
<1>4. CASE ConnectionNext
  BY <1>1, <1>4 DEF ConnectionNext, Connect, Disconnect, GrantRevoked, Crash, google
<1>5. CASE OwnerNext
  <2>1. ASSUME NEW c \in Bookings, NEW s \in Spans, LateInsert(c, s) PROVE event'[b].kind = "none"
    BY <1>0, <1>1, <2>1 DEF LateInsert
  <2>2. ASSUME NEW c \in Bookings,
               \/ \E s \in Spans : OwnerMoves(c, s)
               \/ OwnerDeletes(c) \/ OwnerRestores(c) \/ OwnerMakesSeries(c)
               \/ OwnerMakesSingle(c)
        PROVE  FALSE
    BY <1>0, <2>2 DEF OwnerMoves, OwnerDeletes, OwnerRestores, OwnerMakesSeries, OwnerMakesSingle,
       OwnerChanges, Shown
  <2>3. ASSUME NEW c \in Bookings, OwnerMovesOut(c) PROVE FALSE
    BY <1>0, <2>3 DEF OwnerMovesOut, OwnerChanges
  <2>4. CASE OwnerDeletesCalendar
    BY <2>4 DEF OwnerDeletesCalendar, NoEvent
  <2>5. CASE TokenExpires \/ \E s \in Spans : OwnerGetsBusy(s)
    BY <1>1, <2>5 DEF TokenExpires, OwnerGetsBusy
  <2> QED BY <1>5, <2>1, <2>2, <2>3, <2>4, <2>5 DEF OwnerNext
<1> QED BY <1>1, <1>2, <1>3, <1>4, <1>5, Bystanders DEF Next, vars, google

\* What the handler has missed since its own refresh only grows, by all that
\* changes in Google.
LEMMA HandlerSteps ==
  ASSUME TypeOK, [Next]_vars, Past'
  PROVE  \/ CreateSkipsRefresh /\ create'.changed = Bookings
         \/ RefreshApplies /\ create'.changed = refresh.since
         \/ /\ Past /\ create.changed \subseteq create'.changed
            /\ \A b \in Bookings : event'[b] = event[b] \/ calendarLost' \/ b \in create'.changed
            /\ refresh'.at = "apply" =>
                 refresh'.since \subseteq refresh.since \cup create'.changed
<1> DEFINE Steady == /\ Past /\ create.changed \subseteq create'.changed
                     /\ \A b \in Bookings : event'[b] = event[b] \/ calendarLost' \/ b \in create'.changed
                     /\ refresh'.at = "apply" =>
                          refresh'.since \subseteq refresh.since \cup create'.changed
<1>0. create \in Create
  BY DEF TypeOK
<1>1. ASSUME UNCHANGED event, refresh' = refresh \/ refresh'.at # "apply" \/ refresh'.since = refresh.since,
             Past, create'.changed = create.changed
      PROVE  Steady
  BY <1>1
<1>2. ASSUME NEW S \in SUBSET Bookings, Changed(S),
             \A b \in Bookings \ S : event'[b] = event[b] \/ calendarLost'
      PROVE  Steady
  <2>1. Past /\ create'.changed = create.changed \cup S
    BY <1>0, <1>2 DEF Changed, Past, Create
  <2>2. refresh'.since = IF refresh.at = "apply" THEN refresh.since \cup S ELSE refresh.since
    BY <1>2, ChangedParts
  <2> QED BY <1>2, <2>1, <2>2
<1> HIDE DEF Steady
<1>3. CASE CreateNext
  <2>1. UNCHANGED <<event, refresh>>
    BY <1>3, Bystanders
  <2>2. CASE CreateSkipsRefresh
    BY <1>0, <2>2 DEF CreateSkipsRefresh, Create
  <2>3. CASE CreateReadsExternal
    <3>1. Past /\ create'.changed = create.changed
      BY <1>0, <2>3 DEF CreateReadsExternal, Past, Create
    <3> QED BY <1>1, <2>1, <3>1 DEF Steady
  <2>5. CASE CreateReadsLocal
    <3>1. create' # IdleCreate
      BY DEF Past, IdleCreate
    <3>2. Past /\ create' = [create EXCEPT !.at = "insert"]
      BY <2>5, <3>1 DEF CreateReadsLocal, Past
    <3>3. create'.changed = create.changed
      BY <1>0, <3>2 DEF Create
    <3> QED BY <1>1, <2>1, <3>2, <3>3 DEF Steady
  <2>4. CASE CreateFails \/ CreateInserts \/ \E s \in Spans : CreateBegin(s)
    BY <2>4 DEF CreateFails, CreateInserts, CreateBegin, Past, IdleCreate
  <2> QED BY <1>3, <2>2, <2>3, <2>4, <2>5 DEF CreateNext
<1>4. CASE PortalNext \/ TimeNext \/ UNCHANGED vars
  <2>1. UNCHANGED <<event, refresh, create>>
    BY <1>4, Bystanders DEF PortalNext, PatchStatus, PatchCancel, Retry, TimeNext, BackoffEnds, vars, google
  <2> QED BY <1>1, <2>1 DEF Past, Steady
<1>5. CASE WorkerNext
  <2>1. CASE UNCHANGED <<event, refresh, create>>
    BY <1>1, <2>1 DEF Past, Steady
  <2>2. CASE Changed({worker.job}) /\ worker.job \in Bookings
             /\ \A c \in Bookings \ {worker.job} : event'[c] = event[c]
    <3>1. {worker.job} \in SUBSET Bookings
      BY <2>2
    <3> QED BY <1>2, <2>2, <3>1 DEF Steady
  <2> QED BY <1>5, <2>1, <2>2, SyncSteps
<1>6. CASE RefreshNext
  <2>1. CASE RefreshApplies
    <3>1. CASE refresh.by = "create"
      <4>1. create'.changed = refresh.since
        BY <1>0, <2>1, <3>1 DEF RefreshApplies, RefreshOver, Create
      <4> QED BY <2>1, <4>1
    <3>2. CASE refresh.by # "create"
      <4>1. UNCHANGED <<event, create>> /\ refresh'.at = "idle"
        BY <2>1, <3>2 DEF RefreshApplies, RefreshOver, IdleRefresh
      <4> QED BY <1>1, <4>1 DEF Past, Steady
    <3> QED BY <3>1, <3>2
  <2>2. CASE RefreshFails
    <3>1. UNCHANGED <<event, create>> /\ refresh'.at = "idle"
      BY <2>2 DEF RefreshFails, RefreshOver, IdleRefresh, IdleCreate, Past, google
    <3> QED BY <1>1, <3>1 DEF Past, Steady
  <2>3. CASE RefreshReads
    <3>1. UNCHANGED <<event, create>> /\ refresh'.since = refresh.since
      BY <2>3 DEF RefreshReads, google, TypeOK, Refresh
    <3> QED BY <1>1, <3>1 DEF Past, Steady
  <2>4. CASE RefreshTokenExpired \/ RefreshRecovers
    <3>1. UNCHANGED <<event, create>> /\ refresh'.at # "apply"
      BY <2>4 DEF RefreshTokenExpired, RefreshRecovers, google, TypeOK, Refresh
    <3> QED BY <1>1, <3>1 DEF Past, Steady
  <2>5. ASSUME NEW by \in {"timer", "create"}, RefreshBegins(by) PROVE Steady
    <3>1. UNCHANGED <<event, create>> /\ refresh'.at # "apply"
      BY <2>5 DEF RefreshBegins, google
    <3> QED BY <1>1, <3>1 DEF Past, Steady
  <2> QED BY <1>6, <2>1, <2>2, <2>3, <2>4, <2>5 DEF RefreshNext, RefreshSteps, Steady
<1>7. CASE ConnectionNext
  <2>1. CASE Crash
    BY <2>1 DEF Crash, IdleCreate, Past
  <2>2. CASE Connect \/ Disconnect \/ GrantRevoked
    <3>1. UNCHANGED <<event, refresh, create>>
      BY <2>2 DEF Connect, Disconnect, GrantRevoked, google
    <3> QED BY <1>1, <3>1 DEF Past, Steady
  <2> QED BY <1>7, <2>1, <2>2 DEF ConnectionNext
<1>8. CASE OwnerNext
  <2>1. CASE UNCHANGED <<event, refresh, create>>
    BY <1>1, <2>1 DEF Past, Steady
  <2>2. ASSUME NEW S \in SUBSET Bookings, Changed(S),
               \A c \in Bookings \ S : event'[c] = event[c] \/ calendarLost'
        PROVE  Steady
    BY <1>2, <2>2
  <2> QED BY <1>8, <2>1, <2>2, OwnerSteps DEF Steady
<1> QED BY <1>3, <1>4, <1>5, <1>6, <1>7, <1>8 DEF Next, Steady

LEMMA OvertakenGrows ==
  ASSUME TypeOK, [Next]_vars
  PROVE  overtaken \subseteq overtaken'
<1>1. CASE RefreshNext
  BY <1>1 DEF RefreshNext, RefreshSteps, RefreshBegins, RefreshTokenExpired, RefreshReads,
     RefreshApplies, RefreshFails, RefreshRecovers
<1>2. CASE ConnectionNext
  BY <1>2 DEF ConnectionNext, Connect, Disconnect, GrantRevoked, Crash
<1> QED BY <1>1, <1>2, Bystanders, OwnerSteps, SyncSteps DEF Next, vars

\* What the worker imports is what Google shows.
ImportTrue(b) == SyncImports /\ b = worker.job => worker.found = event[b]

\* Importing an event leaves its row at its time, and not as a synced cancelled one.
LEMMA ImportPlaces ==
  ASSUME NEW r \in Row, NEW ev \in Event, Exists(r), ev.kind = "live"
  PROVE  /\ ImportEvent(r, ev).span = ev.span
         /\ ImportEvent(r, ev).cal = "synced" => ImportEvent(r, ev).status # "cancelled"
<1>1. CASE r.status = "cancelled"
  BY <1>1 DEF ImportEvent, ImportOfCancelled, Columns
<1>2. CASE r.status # "cancelled"
  BY <1>2 DEF ImportEvent, ImportOfActive, Settled, Columns
<1> QED BY <1>1, <1>2

LEMMA PlacedSteps ==
  ASSUME OwnerInv, LostInv, TypeOK', [Next]_vars, ~RefreshApplies, NEW b \in Bookings,
         Placed(b), event'[b] = event[b], ImportTrue(b)
  PROVE  Placed(b)'
<1> USE DEF OwnerInv, FeedInv
<1> SUFFICES ASSUME Shown(event[b])
             PROVE  row'[b].span = event[b].span /\ (Claimed(b)' => row'[b].status # "cancelled")
  BY DEF Placed
<1>1. /\ Exists(row[b]) /\ row[b] \in Row /\ event[b] \in Event
      /\ event[b].kind \in {"live", "series"} /\ ~calendarLost
      /\ row[b].span = event[b].span /\ (Claimed(b) => row[b].status # "cancelled")
  BY EventExists DEF TypeOK, Shown, Placed, LostInv
<1>2. CASE SyncImports /\ b = worker.job
  <2>1. worker.at = "import" /\ worker.found = event[b] /\ worker.status # "cancelled"
    BY <1>2 DEF ImportTrue, SyncImports, CarriesInv
  <2>2. CASE event[b].kind = "series"
    <3>1. row' = row /\ worker'.at = "err"
      BY <1>2, <2>1, <2>2 DEF SyncImports, TypeOK, Worker
    <3> QED BY <1>1, <3>1 DEF Claimed
  <2>3. CASE event[b].kind = "live"
    <3>1. row'[b] = ImportEvent(row[b], event[b]) /\ worker'.gen = worker.gen
      BY <1>2, <2>1, <2>3 DEF SyncImports, TypeOK, Worker
    <3>2. row'[b].span = event[b].span /\ (row'[b].cal = "synced" => row'[b].status # "cancelled")
      BY <1>1, <2>3, <3>1, ImportPlaces
    <3>3. ASSUME worker'.at = "ok", worker'.gen = row'[b].gen PROVE row'[b].status # "cancelled"
      <4>1. worker.gen <= row[b].gen /\ worker.gen \in Nat /\ row[b].gen \in Nat
        BY <1>1, <1>2, <2>1 DEF SyncInv, WorkerBehind, TypeOK, Worker, Row
      <4>2. row'[b] = row[b]
        BY <1>1, <3>1, <3>3, <4>1, ImportGen DEF GenStep
      <4> QED BY <1>2, <2>1, <3>1, <3>3, <4>2 DEF KnowsInv
    <3> QED BY <3>2, <3>3 DEF Claimed
  <2> QED BY <1>1, <2>2, <2>3
<1>3. CASE ~(SyncImports /\ b = worker.job)
  <2>1. SyncImports => row'[b] = row[b]
    BY <1>3 DEF SyncImports, TypeOK
  <2>2. row'[b].span = row[b].span
    BY <1>1, <2>1, RowSpanStep
  <2>3. ASSUME Claimed(b)' PROVE row'[b].status # "cancelled"
    <3>1. CASE Answers /\ b # worker.job
      <4>1. worker.job \in Bookings
        BY <3>1, JobType DEF Answers, SyncDeletes, SyncGets, SyncImports, SyncPosts, SyncGetsAfterConflict
      <4>2. row'[b] = row[b] /\ worker'.job = worker.job
        BY <3>1, <4>1 DEF Answers, SyncDeletes, SyncGets, SyncImports, SyncPosts, SyncGetsAfterConflict,
           TypeOK, Worker
      <4> QED BY <1>1, <2>3, <3>1, <4>2 DEF Claimed
    <3>2. CASE Answers /\ b = worker.job
      <4>1. (Claimed(b) /\ Same(row[b], row'[b])) \/ Agrees(b)'
        BY <1>3, <2>3, <3>2, AnswersCarry DEF Answers
      <4> QED BY <1>1, <4>1 DEF Same, Agrees
    <3>3. CASE WorkerMarks
      BY <1>1, <2>3, <3>3, MarksCarries DEF Same
    <3>4. CASE ~Claims /\ ~Answers
      BY <1>1, <2>3, <3>4, RowsMove, NoAnswer, MildCarries DEF Same
    <3>5. CASE RefreshRecovers \/ (Connect /\ calendarLost)
      BY <1>1, <3>5 DEF RefreshRecovers
    <3> QED BY <3>1, <3>2, <3>3, <3>4, <3>5 DEF Claims, Answers
  <2> QED BY <1>1, <2>2, <2>3
<1> QED BY <1>2, <1>3

\* What a snapshot says of b, or the time of its row if it passes b over, is true.
SnapshotTrue(b) ==
  \/ b \in refresh.listed /\ Named(refresh.saw[b], event[b])
  \/ b \notin refresh.listed /\ refresh.full /\ event[b].kind = "none"
  \/ b \notin refresh.listed /\ ~refresh.full /\ Placed(b)

LEMMA PlacedApplies ==
  ASSUME OwnerInv, RefreshApplies, NEW b \in Bookings, SnapshotTrue(b)
  PROVE  Placed(b)' \/ b \in overtaken'
<1> USE DEF OwnerInv, FeedInv
<1>1. /\ UNCHANGED <<event, worker>>
      /\ overtaken' = overtaken \cup {c \in Bookings : worker.at = "ok" /\ worker.job = c /\ row'[c] = row[c]}
      /\ row'[b] = IF b \in refresh.listed THEN ImportEvent(row[b], refresh.saw[b])
                   ELSE IF Missing(b) THEN ImportEvent(row[b], Tombstone(NoEvent))
                   ELSE row[b]
  BY DEF RefreshApplies
<1>2. CASE b \in refresh.listed /\ Named(refresh.saw[b], event[b]) /\ Shown(event[b])
  <2>1. /\ row[b] \in Row /\ Exists(row[b]) /\ refresh.saw[b] = event[b] /\ event[b].kind = "live"
        /\ event[b] \in Event
    BY <1>2, EventExists DEF TypeOK, Named, Shown, RefreshApplies, Importable
  <2>2. row'[b] = ImportEvent(row[b], event[b])
    BY <1>1, <1>2, <2>1
  <2>3. row'[b].span = event[b].span /\ (row'[b].cal = "synced" => row'[b].status # "cancelled")
    BY <2>1, <2>2, ImportPlaces
  <2>4. ASSUME worker.at = "ok", worker.job = b, worker.gen = row'[b].gen PROVE b \in overtaken'
    <3>1. worker.gen <= row[b].gen /\ worker.gen \in Nat /\ row[b].gen \in Nat
      BY <2>1, <2>4 DEF SyncInv, WorkerBehind, TypeOK, Worker, Row
    <3>2. row'[b] = row[b]
      BY <2>1, <2>2, <2>4, <3>1, ImportGen DEF GenStep
    <3> QED BY <1>1, <2>4, <3>2
  <2> QED BY <1>1, <2>3, <2>4 DEF Placed, Claimed
<1>3. CASE ~Shown(event[b])
  BY <1>1, <1>3 DEF Placed
<1>4. CASE b \notin refresh.listed /\ ~refresh.full /\ Placed(b)
  <2>1. row'[b] = row[b]
    BY <1>1, <1>4 DEF Missing
  <2> QED BY <1>1, <1>4, <2>1 DEF Placed, Claimed
<1> QED BY <1>2, <1>3, <1>4 DEF SnapshotTrue, Shown

LEMMA PlaceKept ==
  ASSUME OwnerInv, LostInv, PlaceInv, TypeOK', [Next]_vars
  PROVE  PlaceInv'
<1> USE DEF OwnerInv, FeedInv
<1>1. CASE RefreshReads
  <2>1. /\ UNCHANGED <<row, event, calendarLost, cursor, feed, worker, overtaken>>
        /\ ~calendarLost /\ (refresh.full \/ cursor = "valid")
        /\ refresh'.listed = IF refresh.full THEN {b \in Bookings : event[b].kind # "none"} ELSE feed
    BY <1>1 DEF RefreshReads, google, TypeOK, Refresh
  <2>2. \A b \in Bookings : (Placed(b)' <=> Placed(b)) /\ (Seen(b)' <=> Seen(b))
    BY <2>1 DEF Placed, Seen, Claimed
  <2>3. ASSUME NEW b \in Bookings, b \notin refresh'.listed PROVE Placed(b)' \/ SeenNext(b)'
    <3>1. CASE refresh.full
      BY <2>1, <2>2, <2>3, <3>1 DEF Placed, Shown
    <3>2. CASE ~refresh.full
      BY <2>1, <2>2, <2>3, <3>2 DEF PlaceInv, Seen, SeenNext
    <3> QED BY <3>1, <3>2
  <2> QED BY <2>2, <2>3 DEF PlaceInv
<1>2. CASE RefreshApplies
  <2>1. /\ refresh.at = "apply" /\ cursor' = "valid" /\ feed' = refresh.since
        /\ UNCHANGED calendarLost /\ refresh'.at = "idle"
    BY <1>2 DEF RefreshApplies, RefreshOver, IdleRefresh
  <2>2. ASSUME NEW b \in Bookings PROVE Placed(b)' \/ Seen(b)'
    <3>1. CASE SeenNext(b)
      BY <2>1, <3>1, OvertakenGrows DEF SeenNext, Seen
    <3>2. CASE SnapshotTrue(b)
      BY <1>2, <3>2, PlacedApplies DEF Seen
    <3> QED BY <2>1, <3>1, <3>2 DEF SnapshotInv, SnapshotTrue, PlaceInv
  <2> QED BY <2>1, <2>2 DEF PlaceInv
<1>3. CASE ~RefreshReads /\ ~RefreshApplies /\ Calm
  <2>1. ASSUME NEW b \in Bookings PROVE Placed(b)' \/ Seen(b)'
    <3>1. CASE Seen(b)
      BY <1>3, <3>1 DEF Calm, SeenGrows
    <3>2. CASE event'[b] # event[b]
      BY <1>3, <3>2 DEF Calm, EventsNoted, Seen
    <3>3. CASE Placed(b) /\ event'[b] = event[b] /\ ~Seen(b)
      <4>1. ImportTrue(b)
        BY <3>3 DEF ImportTrue, SyncImports, CarriesInv
      <4> QED BY <1>3, <3>3, <4>1, PlacedSteps
    <3> QED BY <3>1, <3>2, <3>3 DEF PlaceInv
  <2>2. ASSUME refresh'.at = "apply", NEW b \in Bookings, b \notin refresh'.listed
        PROVE  Placed(b)' \/ SeenNext(b)'
    <3>1. refresh.at = "apply" /\ refresh'.listed = refresh.listed /\ (SeenNext(b) => SeenNext(b)')
      BY <1>3, <2>2 DEF Calm, SnapshotKept
    <3>2. CASE event'[b] # event[b]
      BY <1>3, <2>2, <3>2 DEF Calm, EventsNoted, SeenNext
    <3>3. CASE Placed(b) /\ event'[b] = event[b]
      <4>1. ImportTrue(b)
        BY <3>1 DEF ImportTrue, SyncImports, OpsInv, SyncHoldsOps, RefreshHoldsOps, CallStates
      <4> QED BY <1>3, <3>3, <4>1, PlacedSteps
    <3> QED BY <2>2, <3>1, <3>2, <3>3 DEF PlaceInv
  <2> QED BY <2>1, <2>2 DEF PlaceInv
<1>4. CASE cursor' # "valid" /\ refresh'.at # "apply"
  BY <1>4 DEF PlaceInv, Seen
<1> QED BY <1>1, <1>2, <1>3, <1>4, StepsAreCalm

LEMMA PlacedLost ==
  ASSUME LostInv, calendarLost, NEW b \in Bookings
  PROVE  Placed(b) /\ event[b].kind = "none"
BY DEF LostInv, Placed, Shown

\* A refresh leaves every row at the time of its event, but for what changed
\* while it ran.
LEMMA AppliedSince ==
  ASSUME OwnerInv, LostInv, PlaceInv, RefreshApplies, NEW b \in Bookings
  PROVE  Placed(b)' \/ b \in overtaken' \/ b \in refresh.since
<1>1. CASE SnapshotTrue(b)
  BY <1>1, PlacedApplies
<1>2. CASE calendarLost
  <2>1. event'[b].kind = "none"
    BY <1>2, PlacedLost DEF RefreshApplies
  <2> QED BY <2>1 DEF Placed, Shown
<1>3. CASE b \in refresh.since \/ b \in overtaken
  BY <1>3 DEF RefreshApplies
<1> QED BY <1>1, <1>2, <1>3 DEF OwnerInv, FeedInv, SnapshotInv, SeenNext, SnapshotTrue, PlaceInv, RefreshApplies

LEMMA SinceKept ==
  ASSUME OwnerInv, LostInv, LostInv', PlaceInv, SinceInv, TypeOK', [Next]_vars
  PROVE  SinceInv'
<1> SUFFICES ASSUME Past'
             PROVE  /\ \A b \in Bookings : Placed(b)' \/ SeenSince(b)'
                    /\ worker'.at = "import" => \/ worker'.found = event'[worker'.job]
                                                \/ SeenSince(worker.job)'
                                                \/ event'[worker'.job].kind = "none"
                    /\ refresh'.at = "apply" => refresh'.since \subseteq create'.changed
  BY DEF SinceInv
<1>a. TypeOK /\ OpsInv /\ NotedInv
  BY DEF OwnerInv, FeedInv
<1>b. worker'.at # "idle" => worker'.job \in Bookings
  BY NAssumption DEF TypeOK, Worker, Bookings
<1>c. refresh'.since \subseteq Bookings
  BY DEF TypeOK, Refresh
<1>0. /\ TypeOK /\ OpsInv /\ NotedInv
      /\ worker'.at # "idle" => worker'.job \in Bookings
      /\ refresh'.since \subseteq Bookings
      /\ overtaken \subseteq overtaken'
  BY <1>a, <1>b, <1>c, OvertakenGrows
<1>1. CASE CreateSkipsRefresh /\ create'.changed = Bookings
  BY <1>0, <1>1 DEF SeenSince
<1>2. CASE RefreshApplies /\ create'.changed = refresh.since
  <2>1. UNCHANGED <<event, worker>> /\ refresh'.at = "idle" /\ RefreshHoldsOps
    BY <1>2 DEF RefreshApplies, RefreshOver, IdleRefresh, RefreshHoldsOps
  <2>2. worker'.at # "import"
    BY <1>0, <2>1 DEF OpsInv, SyncHoldsOps, CallStates
  <2> QED BY <1>2, <2>1, <2>2, AppliedSince DEF SeenSince
<1>3. CASE /\ Past /\ create.changed \subseteq create'.changed
           /\ \A b \in Bookings : event'[b] = event[b] \/ calendarLost' \/ b \in create'.changed
           /\ refresh'.at = "apply" =>
                refresh'.since \subseteq refresh.since \cup create'.changed
  <2>1. ASSUME NEW b \in Bookings, SeenSince(b) PROVE SeenSince(b)'
    BY <1>0, <1>3, <2>1 DEF SeenSince
  <2>2. ASSUME NEW b \in Bookings, event'[b] # event[b]
        PROVE  SeenSince(b)' \/ (Placed(b)' /\ event'[b].kind = "none")
    BY <1>3, <2>2 DEF SeenSince, LostInv, Placed, Shown
  <2>3. ASSUME NEW b \in Bookings PROVE Placed(b)' \/ SeenSince(b)'
    <3>1. CASE RefreshApplies
      <4>1. refresh.since \subseteq create'.changed
        BY <1>3, <3>1 DEF SinceInv, RefreshApplies
      <4> QED BY <3>1, <4>1, AppliedSince DEF SeenSince
    <3>2. CASE Placed(b) /\ event'[b] = event[b] /\ ~RefreshApplies /\ ~SeenSince(b)
      <4>1. CASE ImportTrue(b)
        BY <3>2, <4>1, PlacedSteps
      <4>2. CASE event[b].kind = "none"
        BY <3>2, <4>2 DEF Placed, Shown
      <4> QED BY <1>3, <3>2, <4>1, <4>2 DEF SinceInv, ImportTrue, SyncImports
    <3> QED BY <1>3, <2>1, <2>2, <3>1, <3>2 DEF SinceInv
  <2>4. ASSUME worker'.at = "import"
        PROVE  \/ worker'.found = event'[worker'.job]
               \/ SeenSince(worker.job)'
               \/ event'[worker'.job].kind = "none"
    <3>1. CASE worker' = worker
      <4>1. worker.job \in Bookings
        BY <1>0, <2>4, <3>1
      <4> QED BY <1>3, <2>1, <2>2, <2>4, <3>1, <4>1 DEF SinceInv, SeenSince
    <3>2. CASE SyncGets
      BY <1>0, <2>4, <3>2 DEF SyncGets, google, TypeOK, Worker
    <3> QED BY <1>0, <2>4, <3>1, <3>2, WorkerGoes
  <2>5. ASSUME refresh'.at = "apply" PROVE refresh'.since \subseteq create'.changed
    <3>1. refresh.since \subseteq create.changed
      BY <1>0, <1>3 DEF SinceInv, NotedInv
    <3> QED BY <1>3, <2>5, <3>1
  <2> QED BY <2>3, <2>4, <2>5
<1> QED BY <1>0, <1>1, <1>2, <1>3, HandlerSteps

\* At the insert, a booking is free of every event that Google shows and that
\* has not changed since the handler's refresh.
LEMMA InsertAvoids ==
  ASSUME OwnerInv, SinceInv, TypeOK', [Next]_vars,
         NEW b \in Bookings, NEW c \in Bookings,
         ~Exists(row[b]), Exists(row'[b]), Shown(event[c]), ~SeenSince(c)
  PROVE  ~Overlaps(row'[b].span, event[c].span)
<1> USE DEF OwnerInv, FeedInv
<1>1. CreateInserts
  BY Accepted
<1>2. Placed(c)
  BY <1>1 DEF SinceInv, Past, CreateInserts
<1>3. Exists(row[c])
  BY EventExists DEF Shown
<1>4. Held(row[c]) /\ row[c].span = event[c].span
  BY <1>2, <1>3, PlacedHeld
<1>5. row'[b] = NewRow(create.span) /\ InsertAllowed(create.span)
  BY <1>1 DEF CreateInserts, TypeOK
<1>6. row'[b].span = create.span
  BY <1>5, NewRowType DEF TypeOK, Create
<1> QED BY <1>4, <1>5, <1>6 DEF InsertAllowed, FreeLocally

\* No booking is accepted over an appointment that Google shows: what the
\* handler's own refresh read, every row still holds, and the insert looks at
\* the rows.  Only an event that changed after that refresh, or that a refresh
\* overtook, can be overlooked (bookings.go, createBooking).
THEOREM NewBookingsAvoidGoogle == Spec => NewBookingAvoidsCalendar
<1>1. Init => LostInv /\ PlaceInv /\ SinceInv
  BY DEF Init, LostInv, PlaceInv, SinceInv, Placed, Shown, NoEvent, IdleRefresh, IdleCreate, Past
<1>2. OwnerInv /\ TypeOK' /\ LostInv /\ PlaceInv /\ SinceInv /\ [Next]_vars
        => LostInv' /\ PlaceInv' /\ SinceInv'
  BY LostKept, PlaceKept, SinceKept DEF OwnerInv, FeedInv
<1>3. OwnerInv /\ TypeOK' /\ SinceInv /\ [Next]_vars
        => [\A b, c \in Bookings :
              ~Exists(row[b]) /\ Exists(row'[b]) /\ c # b /\ Shown(event[c])
                 /\ Overlaps(row'[b].span, event[c].span)
                => c \in create.changed \cup overtaken]_vars
  BY InsertAvoids DEF SeenSince
<1> QED BY <1>1, <1>2, <1>3, OwnerInvHolds, PTL DEF Spec, NewBookingAvoidsCalendar

-----------------------------------------------------------------------------
(* What a cancelled booking gives back *)

\* Google shows no event of b, or shows one that came back by itself.
Gone(b) == ~Shown(event[b]) \/ b \in returned

\* Whatever is about to release the time of a booking, the answer to a delete,
\* an import or a snapshot, is about an event that Google no longer shows.
GoneInv ==
  \A b \in Bookings :
    \/ Gone(b)
    \/ /\ ~(worker.job = b /\ worker.at = "ok" /\ worker.status = "cancelled")
       /\ ~(worker.job = b /\ worker.at = "import" /\ worker.found.kind = "deleted")
       /\ ~(refresh.at = "apply" /\ IF b \in refresh.listed THEN refresh.saw[b].kind = "deleted"
                                                            ELSE refresh.full)

LEMMA ReturnedGrows ==
  ASSUME [Next]_vars
  PROVE  returned \subseteq returned'
<1>1. CASE CreateNext
  BY <1>1 DEF CreateNext, CreateBegin, CreateSkipsRefresh, CreateReadsExternal, CreateFails,
     CreateReadsLocal, CreateInserts, google
<1>2. CASE PortalNext \/ TimeNext
  BY <1>2 DEF PortalNext, PatchStatus, PatchCancel, Retry, TimeNext, BackoffEnds, google
<1>3. CASE WorkerNext
  BY <1>3 DEF WorkerNext, SyncCalls, WorkerPicks, SyncEnters, SyncFails, SyncDeletes, SyncGets,
     SyncImports, SyncChecksConflict, SyncPosts, SyncGetsAfterConflict, WorkerMarks, google
<1>4. CASE RefreshNext
  BY <1>4 DEF RefreshNext, RefreshSteps, RefreshBegins, RefreshTokenExpired, RefreshReads,
     RefreshApplies, RefreshFails, RefreshRecovers, google
<1>5. CASE ConnectionNext
  BY <1>5 DEF ConnectionNext, Connect, Disconnect, GrantRevoked, Crash, google
<1>6. CASE OwnerNext
  BY <1>6 DEF OwnerNext, LateInsert, OwnerMoves, OwnerDeletes, OwnerRestores,
     OwnerMakesSeries, OwnerMakesSingle, OwnerMovesOut, OwnerDeletesCalendar, OwnerGetsBusy,
     OwnerChanges, TokenExpires
<1> QED BY <1>1, <1>2, <1>3, <1>4, <1>5, <1>6 DEF Next, vars, google

\* Only the worker's insert brings an event back that is not returned.
LEMMA GoneStays ==
  ASSUME TypeOK, [Next]_vars, NEW b \in Bookings, Gone(b), ~SyncPosts
  PROVE  Gone(b)'
<1> SUFFICES ASSUME ~Shown(event[b]), b \notin returned' PROVE ~Shown(event'[b])
  BY ReturnedGrows DEF Gone
<1>0. event \in [Bookings -> Event]
  BY DEF TypeOK
<1>1. CASE UNCHANGED event
  BY <1>1
<1>2. CASE WorkerNext
  <2>1. CASE SyncDeletes
    BY <1>0, <2>1 DEF SyncDeletes, Tombstone, Shown, Event
  <2> QED BY <1>1, <1>2, <2>1 DEF WorkerNext, SyncCalls, WorkerPicks, SyncEnters, SyncFails,
        SyncGets, SyncImports, SyncChecksConflict, SyncGetsAfterConflict, WorkerMarks, google
<1>3. CASE RefreshNext
  BY <1>1, <1>3 DEF RefreshNext, RefreshSteps, RefreshBegins, RefreshTokenExpired,
     RefreshReads, RefreshApplies, RefreshFails, RefreshRecovers, google
<1>4. CASE ConnectionNext
  BY <1>1, <1>4 DEF ConnectionNext, Connect, Disconnect, GrantRevoked, Crash, google
<1>5. CASE OwnerNext
  <2>1. ASSUME NEW c \in Bookings, NEW s \in Spans, LateInsert(c, s) PROVE ~Shown(event'[b])
    BY <1>0, <1>1, <2>1 DEF LateInsert
  <2>2. ASSUME NEW c \in Bookings, NEW s \in Spans, OwnerMoves(c, s) PROVE ~Shown(event'[b])
    BY <1>0, <2>2 DEF OwnerMoves, OwnerChanges, Shown
  <2>3. ASSUME NEW c \in Bookings, OwnerDeletes(c) \/ OwnerMovesOut(c) PROVE ~Shown(event'[b])
    BY <1>0, <2>3 DEF OwnerDeletes, OwnerMovesOut, OwnerChanges, Tombstone, NoEvent, Shown, Event
  <2>4. ASSUME NEW c \in Bookings, OwnerRestores(c) PROVE ~Shown(event'[b])
    BY <1>0, <2>4 DEF OwnerRestores, OwnerChanges
  <2>5. ASSUME NEW c \in Bookings, OwnerMakesSeries(c) \/ OwnerMakesSingle(c)
        PROVE  ~Shown(event'[b])
    BY <1>0, <2>5 DEF OwnerMakesSeries, OwnerMakesSingle, OwnerChanges, Shown
  <2>6. CASE OwnerDeletesCalendar
    BY <2>6 DEF OwnerDeletesCalendar, NoEvent, Shown
  <2>7. CASE TokenExpires \/ \E s \in Spans : OwnerGetsBusy(s)
    BY <1>1, <2>7 DEF TokenExpires, OwnerGetsBusy
  <2> QED BY <1>5, <2>1, <2>2, <2>3, <2>4, <2>5, <2>6, <2>7 DEF OwnerNext
<1> QED BY <1>1, <1>2, <1>3, <1>4, <1>5, Bystanders DEF Next, vars, google

LEMMA GoneAnswers ==
  ASSUME TypeOK, CarriesInv, GoneInv, [Next]_vars, NEW b \in Bookings, worker'.job = b,
         \/ worker'.at = "ok" /\ worker'.status = "cancelled"
         \/ worker'.at = "import" /\ worker'.found.kind = "deleted"
  PROVE  Gone(b)'
<1>0. worker \in Worker /\ event \in [Bookings -> Event]
  BY DEF TypeOK
<1>1. CASE UNCHANGED worker
  <2>1. Gone(b) /\ ~SyncPosts
    BY <1>1 DEF GoneInv, SyncPosts
  <2> QED BY <2>1, GoneStays
<1>2. CASE SyncDeletes
  <2>1. b = worker.job
    BY <1>0, <1>2 DEF SyncDeletes, Worker
  <2> QED BY <1>0, <1>2, <2>1 DEF SyncDeletes, Tombstone, Shown, Event, Gone
<1>3. CASE SyncGets
  <2>1. worker.status # "cancelled" /\ event' = event
    BY <1>0, <1>3 DEF SyncGets, google
  <2>2. worker'.status = worker.status /\ worker'.job = worker.job
    BY <1>0, <1>3 DEF SyncGets, Worker
  <2>3. worker'.at = "import" => worker'.found = event[worker.job]
    BY <1>0, <1>3 DEF SyncGets, Worker
  <2> QED BY <2>1, <2>2, <2>3 DEF Gone, Shown
<1>4. CASE SyncImports \/ SyncPosts \/ SyncGetsAfterConflict \/ SyncChecksConflict
  <2>1. worker.status # "cancelled"
    BY <1>4 DEF CarriesInv, SyncImports, SyncPosts, SyncGetsAfterConflict, SyncChecksConflict
  <2>2. worker'.status = worker.status /\ worker'.at # "import"
    BY <1>0, <1>4 DEF SyncImports, SyncPosts, SyncGetsAfterConflict, SyncChecksConflict, Worker
  <2> QED BY <2>1, <2>2
<1>5. CASE SyncEnters \/ SyncFails \/ WorkerMarks \/ \E c \in Bookings : WorkerPicks(c)
  BY <1>0, <1>5 DEF SyncEnters, SyncFails, WorkerMarks, WorkerPicks, IdleWorker, Worker
<1>6. CASE RefreshNext
  BY <1>1, <1>6 DEF RefreshNext, RefreshSteps, RefreshBegins, RefreshTokenExpired, RefreshReads,
     RefreshApplies, RefreshFails, RefreshRecovers
<1>7. CASE ConnectionNext
  BY <1>1, <1>7 DEF ConnectionNext, Connect, Disconnect, GrantRevoked, Crash, IdleWorker
<1> QED BY <1>1, <1>2, <1>3, <1>4, <1>5, <1>6, <1>7, Bystanders, OwnerSteps
        DEF Next, WorkerNext, SyncCalls, vars

LEMMA GoneSnapshot ==
  ASSUME TypeOK, OpsInv, GoneInv, [Next]_vars, refresh'.at = "apply", NEW b \in Bookings,
         IF b \in refresh'.listed THEN refresh'.saw[b].kind = "deleted" ELSE refresh'.full
  PROVE  Gone(b)'
<1>1. CASE RefreshReads
  <2>1. /\ refresh'.listed = IF refresh.full THEN {c \in Bookings : event[c].kind # "none"} ELSE feed
        /\ refresh'.saw[b] = IF event[b].kind = "none" /\ ~refresh.full /\ b \in feed
                               THEN Tombstone(event[b]) ELSE event[b]
        /\ refresh'.full = refresh.full /\ event' = event
    BY <1>1 DEF RefreshReads, google, TypeOK, Refresh
  <2> QED BY <2>1 DEF Gone, Shown
<1>2. CASE RefreshApplies
  BY <1>2 DEF RefreshApplies, RefreshOver, IdleRefresh
<1>3. CASE ~RefreshReads /\ ~RefreshApplies
  <2>1. /\ refresh.at = "apply" /\ refresh'.full = refresh.full
        /\ refresh'.listed = refresh.listed /\ refresh'.saw = refresh.saw
    BY <1>3, StepsAreCalm DEF Calm, SnapshotKept
  <2>2. ~SyncPosts
    BY <2>1 DEF OpsInv, RefreshHoldsOps, SyncHoldsOps, CallStates, SyncPosts
  <2> QED BY <2>1, <2>2, GoneStays DEF GoneInv
<1> QED BY <1>1, <1>2, <1>3

\* A row gives its time back only to a deletion.
LEMMA ImportReleases ==
  ASSUME NEW r \in Row, NEW ev \in Event, Held(r), ~Held(ImportEvent(r, ev))
  PROVE  ev.kind = "deleted"
BY FollowupsAssumption DEF ImportEvent, ImportOfCancelled, ImportOfActive, Settled, Columns, Held,
   Exists, Row, Statuses

LEMMA ReleaseGone ==
  ASSUME TypeOK, SyncInv, KnowsInv, GoneInv, LostInv, [Next]_vars, NEW b \in Bookings,
         Held(row[b]), ~Held(row'[b])
  PROVE  Gone(b)
<1>0. row[b] \in Row /\ Exists(row[b])
  BY DEF TypeOK, Held
<1>1. CASE WorkerMarks
  <2>1. worker.job \in Bookings
    BY <1>1, JobType DEF WorkerMarks
  <2>2. b = worker.job /\ row'[b] = IF worker.at = "ok" THEN WorkerSynced(row[b], worker.gen)
                                                        ELSE WorkerFailed(row[b], worker.gen)
    BY <1>1, <2>1 DEF WorkerMarks, TypeOK
  <2>3. worker.at = "ok" /\ row[b].gen = worker.gen /\ row[b].status = "cancelled"
    BY <1>0, <1>1, <2>2 DEF WorkerMarks, WorkerSynced, WorkerFailed, Held, Exists, Row
  <2> QED BY <2>2, <2>3 DEF KnowsInv, GoneInv
<1>2. CASE SyncImports
  <2>1. worker.found \in Event /\ worker.job \in Bookings
    BY <1>2, JobType DEF SyncImports, TypeOK, Worker
  <2>2. b = worker.job /\ row'[b] = ImportEvent(row[b], worker.found)
    BY <1>2, <2>1 DEF SyncImports, TypeOK
  <2>3. worker.found.kind = "deleted"
    BY <1>0, <2>1, <2>2, ImportReleases
  <2> QED BY <1>2, <2>2, <2>3 DEF SyncImports, GoneInv
<1>3. CASE RefreshApplies
  <2>1. refresh.at = "apply" /\ refresh.saw[b] \in Event
    BY <1>3 DEF RefreshApplies, TypeOK, Refresh
  <2>2. row'[b] = IF b \in refresh.listed THEN ImportEvent(row[b], refresh.saw[b])
                  ELSE IF Missing(b) THEN ImportEvent(row[b], Tombstone(NoEvent))
                  ELSE row[b]
    BY <1>3 DEF RefreshApplies
  <2>3. IF b \in refresh.listed THEN refresh.saw[b].kind = "deleted" ELSE refresh.full
    BY <1>0, <2>1, <2>2, ImportReleases DEF Missing
  <2> QED BY <2>1, <2>3 DEF GoneInv
<1>4. CASE RefreshRecovers \/ (Connect /\ calendarLost)
  BY <1>4 DEF RefreshRecovers, LostInv, Gone, Shown
<1>5. CASE ~Claims
  <2>1. Mild(row[b], row'[b])
    BY <1>5, RowsMove
  <2>2. Exists(row'[b])
    BY <1>0, StatusKept
  <2> QED BY <1>0, <2>1, <2>2 DEF Mild, Same, Held
<1> QED BY <1>1, <1>2, <1>3, <1>4, <1>5 DEF Claims

\* A cancelled booking releases its time only when Google shows no event of it,
\* unless the owner restored the event or an insert given up arrived: the worker
\* never takes an answer about an earlier generation for one about the
\* cancellation, and no snapshot that releases a time is older than an insert.
THEOREM TimeReleasedWhenGone == Spec => ReleasedOnlyWhenGone
<1>1. Init => LostInv /\ GoneInv
  BY DEF Init, LostInv, GoneInv, NoEvent, IdleWorker, IdleRefresh
<1>2. OwnerInv /\ TypeOK' /\ LostInv /\ GoneInv /\ [Next]_vars => LostInv' /\ GoneInv'
  BY LostKept, GoneAnswers, GoneSnapshot DEF OwnerInv, FeedInv, GoneInv
<1>3. OwnerInv /\ LostInv /\ GoneInv /\ [Next]_vars
        => [\A b \in Bookings :
              Held(row[b]) /\ ~Held(row'[b]) => ~Shown(event[b]) \/ b \in returned]_vars
  BY ReleaseGone DEF OwnerInv, FeedInv, Gone
<1> QED BY <1>1, <1>2, <1>3, OwnerInvHolds, PTL DEF Spec, ReleasedOnlyWhenGone
=============================================================================
