----------------------- MODULE CalendarSyncRefinement -----------------------
(***************************************************************************)
(* CalendarSync implements AppointmentBook: the phase of an appointment is *)
(* read off the two status columns of its row.                             *)
(***************************************************************************)
EXTENDS CalendarSync

PhaseOf(r) ==
  CASE ~Exists(r)                                  -> "none"
    [] Active(r)                                   -> "open"
    [] r.status = "cancelled" /\ r.cal # "synced"  -> "cancelling"
    [] OTHER                                       -> "closed"

bookOf == [b \in Bookings |-> [phase |-> PhaseOf(row[b]), span |-> row[b].span]]

Book == INSTANCE AppointmentBook WITH book <- bookOf

\* The rows behave like the promised book of appointments: accepted once and
\* only into free time, cancelled for good, released only by cancellation.
ImplementsBook == Book!Spec
=============================================================================
