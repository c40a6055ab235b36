--------------------------- MODULE AppointmentBook ---------------------------
(***************************************************************************)
(* What the service promises about the book of appointments, without       *)
(* Google, the worker or the network.                                      *)
(*                                                                         *)
(* An appointment is none, then open; once cancelled it is cancelling      *)
(* until Google is known to be rid of it, and closed after that.  Open and *)
(* cancelling appointments hold their time.  A new appointment is accepted *)
(* only at a time nobody holds.  The owner moves held appointments freely  *)
(* in Google, and an event that shows up again there makes a closed one    *)
(* hold its time again; no appointment opens a second time.                *)
(***************************************************************************)
EXTENDS Naturals

CONSTANTS Bookings, Spans, Buffer

VARIABLE book

Phases == {"none", "open", "cancelling", "closed"}

Entry == [phase : Phases, span : Spans]

Holds(x) == x.phase \in {"open", "cancelling"}

Clash(s, t) == s[1] < t[2] + Buffer /\ s[2] + Buffer > t[1]

Init == book \in [Bookings -> [phase : {"none"}, span : Spans]]

\* A visitor's request is accepted.
Accept(b, s) ==
  /\ book[b].phase = "none"
  /\ \A c \in Bookings : Holds(book[c]) => ~Clash(s, book[c].span)
  /\ book' = [book EXCEPT ![b] = [phase |-> "open", span |-> s]]

\* What one step may do to one appointment.
Reschedule(x, y) == Holds(x) /\ y.phase = x.phase
Cancel(x, y)     == x.phase = "open" /\ y.phase = "cancelling" /\ y.span = x.span
Close(x, y)      == Holds(x) /\ y.phase = "closed" /\ y.span = x.span
Reappear(x, y)   == x.phase = "closed" /\ y.phase = "cancelling"

\* One transaction may settle several appointments: a snapshot of the
\* calendar, or its replacement.
Settle ==
  /\ book' \in [Bookings -> Entry]
  /\ \A b \in Bookings :
       \/ book'[b] = book[b]
       \/ Reschedule(book[b], book'[b])
       \/ Cancel(book[b], book'[b])
       \/ Close(book[b], book'[b])
       \/ Reappear(book[b], book'[b])

Next == (\E b \in Bookings, s \in Spans : Accept(b, s)) \/ Settle

Spec == Init /\ [][Next]_book
=============================================================================
