---------------------------- MODULE BookingStore ----------------------------
(***************************************************************************)
(* The row of the bookings table and the updates the service makes to it.  *)
(* Every update is one SQL statement in one transaction, so each is one    *)
(* operator from the row before to the row after.  Nothing here is a       *)
(* state machine: CalendarSync decides when an update runs.                *)
(*                                                                         *)
(* A span is <<start, end>>, in units of the smallest distance the         *)
(* schedule tells apart.  blocked_end is always end + Buffer: it is stored *)
(* at insertion and every import keeps blocked_end - end.                  *)
(* attempts and next_attempt are abstracted to one flag: waiting, which    *)
(* says that next_attempt is still in the future.                          *)
(***************************************************************************)
EXTENDS Naturals

CONSTANTS
  Spans,           \* the appointment times the model tells apart
  Buffer,          \* settings.BufferMinutes
  ExternalBuffer,  \* settings.externalBufferMinutes
  Followups        \* the follow-up statuses in use, without "cancelled"

ASSUME SpansAssumption ==
  /\ Spans \subseteq Nat \X Nat
  /\ Spans # {}

ASSUME BuffersAssumption == Buffer \in Nat /\ ExternalBuffer \in Nat

ASSUME FollowupsAssumption ==
  /\ Followups \subseteq {"needs_followup", "contacted", "confirmed"}
  /\ "needs_followup" \in Followups

-----------------------------------------------------------------------------
AnySpan == CHOOSE s \in Spans : TRUE

Statuses == Followups \cup {"cancelled"}

CalendarStatuses == {"pending", "synced", "failed"}

Row == [status  : Statuses \cup {"absent"},
        cal     : CalendarStatuses,
        span    : Spans,
        gen     : Nat,
        syncGen : Nat,
        waiting : BOOLEAN]

\* The columns of a row after an update; waiting is over in every update that
\* sets attempts=0,next_attempt=0.
Columns(st, c, s, g, sg) ==
  [status |-> st, cal |-> c, span |-> s, gen |-> g, syncGen |-> sg, waiting |-> FALSE]

NoRow == Columns("absent", "pending", AnySpan, 1, 0)

\* What INSERT INTO bookings stores: the rest are the column defaults.
NewRow(s) == Columns("needs_followup", "pending", s, 1, 0)

Exists(r) == r.status # "absent"
Active(r) == r.status \in Followups

\* status!='cancelled' OR calendar_status!='synced': the time is still taken.
Held(r) == Exists(r) /\ (r.status # "cancelled" \/ r.cal # "synced")

\* Mutant: only the first attempt is made, a failed row is left to the owner.
DueIfPending(r) == Exists(r) /\ r.cal = "pending" /\ ~r.waiting

Due(r) == Exists(r) /\ r.cal # "synced" /\ ~r.waiting

\* [s, s.end + Buffer) and [t, t.end + Buffer) intersect.
Overlaps(s, t) == s[1] < t[2] + Buffer /\ s[2] + Buffer > t[1]

\* s touches the external event t, protected by ExternalBuffer on both sides.
Touches(s, t) == s[1] < t[2] + ExternalBuffer /\ s[2] + ExternalBuffer > t[1]

-----------------------------------------------------------------------------
(* Updates made for the owner's portal.                                    *)

PortalCancel(r) == Columns("cancelled", "pending", r.span, r.gen + 1, r.syncGen)

PortalRetry(r) == [r EXCEPT !.cal = "pending", !.waiting = FALSE]

(* Updates made by the calendar worker, both WHERE generation=seen.        *)

\* Mutant: the UPDATE without AND generation=?.
WorkerSyncedAnyway(r, seen) == [r EXCEPT !.cal = "synced", !.syncGen = r.gen]

WorkerSynced(r, seen) ==
  IF r.gen = seen THEN [r EXCEPT !.cal = "synced", !.syncGen = r.gen] ELSE r

WorkerFailed(r, seen) ==
  IF r.gen = seen THEN [r EXCEPT !.cal = "failed", !.waiting = TRUE] ELSE r

(* Updates made when Google's side of an appointment is imported.          *)

Settled(r, s, st) == Columns(st, "synced", s, r.gen + 1, r.gen + 1)

ImportRemoval(r) ==
  IF r.status = "cancelled" /\ r.cal = "synced" THEN r ELSE Settled(r, r.span, "cancelled")

\* Mutant: only a new time sends the row back to the worker.
ImportOfCancelledIfMoved(r, s) ==
  IF s # r.span THEN Columns("cancelled", "pending", s, r.gen + 1, r.syncGen) ELSE r

\* Mutant: the import settles a cancelled booking like an active one.
ImportSettlesCancelled(r, s) ==
  IF s # r.span \/ r.cal = "synced" THEN Settled(r, s, "cancelled") ELSE r

\* The portal's cancellation wins over an event that is still there: the row
\* keeps the true time and waits for the delete.
ImportOfCancelled(r, s) ==
  IF s # r.span \/ r.cal = "synced"
    THEN Columns("cancelled", "pending", s, r.gen + 1, r.syncGen) ELSE r

ImportOfActive(r, s) ==
  IF s = r.span /\ r.cal = "synced" THEN r ELSE Settled(r, s, r.status)

ImportEvent(r, ev) ==
  IF ~Exists(r) THEN r
  ELSE IF ev.kind = "deleted" THEN ImportRemoval(r)
  ELSE IF r.status = "cancelled" THEN ImportOfCancelled(r, ev.span)
  ELSE ImportOfActive(r, ev.span)

(* The booking calendar was replaced by an empty one.                      *)

ResetForNewCalendar(r) ==
  IF ~Held(r) THEN r
  ELSE IF r.status = "cancelled" THEN Settled(r, r.span, "cancelled")
  ELSE Columns(r.status, "pending", r.span, r.gen + 1, 0)
=============================================================================
