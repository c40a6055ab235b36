---------------------------- MODULE OwnerPortalMC ----------------------------
(* Small instances of OwnerPortal: the parts of the portal that the runs follow. *)
EXTENDS PortalHours

Operator == [role |-> "operator", connects |-> TRUE]
Owner == [role |-> "owner", connects |-> FALSE]
Part(does, grants, panels, tokens) ==
  [does |-> does \cup {"start"}, grants |-> grants, panels |-> panels, tokens |-> tokens]

\* Sessions that start, end and change on a page that is left, hidden and refreshed.
Lifecycle == Part({"session", "bookings", "logout", "poll", "hide", "leave", "retry", "regrant"}, {Owner}, {"bookings"}, {"none", "invite"})
\* The list and the dialog, while other owners and Google Calendar change bookings.
Dialog == Part({"bookings", "mutate", "change"}, {Owner}, {"bookings"}, {"none", "setup"})
\* Invitations, their private links and their ends.
Invitations == Part({"invitations", "invite", "revoke", "change"}, {Operator}, {"bookings", "access"}, {"none"})
\* People with access, for an operator who may lose the role.
Membership == Part({"session", "members", "remove", "change", "regrant"}, {Operator, Owner}, {"bookings", "access"}, {"none"})
\* Email preferences, for a session that may end.
Drafts == Part({"emails", "emailSettings", "change", "regrant"}, {Owner}, {"bookings", "emails"}, {"none"})
\* The shared sender and the history.
Sender == Part({"emails", "emailConnect", "emailCommand", "change"}, {Operator}, {"bookings", "emails"}, {"none"})
\* The Google connection, from the first set-up on.
Connection == Part({"session", "google", "configure", "disconnect", "logout", "change"}, {Operator, Setup}, {"bookings", "calendar"}, {"none", "setup"})
\* The availability.
Schedule == Part({"settings", "saveSettings", "change"}, {Owner}, {"bookings", "availability"}, {"none"})

EveryPart == {Lifecycle, Dialog, Invitations, Membership, Drafts, Sender, Connection, Schedule}
\* The list with the timer, on a page that may be hidden.
Polled == {Part({"session", "bookings", "mutate", "poll", "hide", "change"}, {Owner}, {"bookings"}, {"none"})}

-----------------------------------------------------------------------------
(* Settings, and forms with one thing changed; times are hours.            *)
Weekly(weekday, start, end) == [weekday |-> weekday, start |-> start, end |-> end]
Exception(date, closed, start, end) == [date |-> date, closed |-> closed, start |-> start, end |-> end]
TimeOff(weekday, date, allDay, start, end) == [weekday |-> weekday, date |-> date, allDay |-> allDay, start |-> start, end |-> end]
Settings(zone, weekly, exceptions, blockedWeekly, blockedDates) ==
  [zone |-> zone, weekly |-> weekly, exceptions |-> exceptions, blockedWeekly |-> blockedWeekly, blockedDates |-> blockedDates]

SplitDay == Settings("both", <<Weekly(1, 9, 12), Weekly(1, 13, 17), Weekly(5, 13, 23)>>, <<Exception(1, TRUE, None, None)>>, <<>>, <<TimeOff(None, 6, TRUE, None, None)>>)
LunchOff == Settings("both", <<Weekly(1, 9, 17)>>, <<Exception(1, FALSE, 10, 11), Exception(2, TRUE, None, None)>>, <<TimeOff(2, None, FALSE, 12, 13)>>, <<>>)
\* Hours in a time zone that another owner's browser knew.
Afar == Settings("service", <<Weekly(2, 22, 23)>>, <<>>, <<>>, <<>>)
MCFirstSettings == {SplitDay, LunchOff, Afar}

Base == F!Rendered(LunchOff)
Wednesday(enabled, windows) == [Base EXCEPT !.days = [@ EXCEPT ![3] = [enabled |-> enabled, windows |-> windows]]]
Closing(date, closed, start) == [Base EXCEPT !.exceptions = Append(@, F!ExceptionRow(date, closed, start, 12))]
Block(kind, date, allDay, start) == [Base EXCEPT !.timeOff = Append(@, F!TimeOffRow(kind, 1, date, allDay, start, 12))]
Zoned(zone) == [Base EXCEPT !.zone = zone]
Windows == {F!Window(9, 12), F!Window(12, 17), F!Window(11, 13)}
Wrong == {F!Window(12, 12), F!Window(None, 17)}
MCForms ==
  {Wednesday(TRUE, <<v, w>>) : v \in Windows, w \in Windows} \cup {Wednesday(enabled, <<w>>) : enabled \in BOOLEAN, w \in Wrong}
    \cup {Closing(date, TRUE, 9) : date \in {None, 1, 3, 10}} \cup {Closing(3, FALSE, start) : start \in {None, 9, 12}}
    \cup {Block("weekly", None, allDay, 9) : allDay \in BOOLEAN} \cup {Block("date", date, TRUE, None) : date \in {None, 8, 10}}
    \cup {Block("date", 8, FALSE, start) : start \in {None, 9, 12}} \cup {Zoned(zone) : zone \in {"page", "service", "neither"}}

-----------------------------------------------------------------------------
(* The days on which the saved hours are served: hours of one minute, in   *)
(* halves; a Monday without and one with exceptions, a Wednesday and a     *)
(* Friday that ends near midnight.  Date 0 is a Sunday.                    *)
At(date, hour) == Minutes(24 * date + hour)

\* A zone five hours behind, with its clock turned by an hour at midnight, at noon or later in the day, or on another day.
Zone(change, by) == [change |-> change + Minutes(5), before |-> Minutes(-5), after |-> Minutes(by - 5)]
MCZones(date) == {Zone(At(20, 0), 0)} \cup {Zone(At(date, hour), by) : hour \in {0, 12, 16}, by \in {-1, 1}}
SlotRule(slot, buffer, external) == [slot |-> slot, buffer |-> buffer, external |-> external, notice |-> 1, horizon |-> 2]
MCRules == {SlotRule(2, 1, 0), SlotRule(1, 2, 1)}
\* Nothing in the calendars; an event off the minute before a booking; two events around a booking that touches one.
Span(date, from, to, off) == <<At(date, from) + off, At(date, to) + off>>
MCCalendars(date) ==
  {[external |-> {}, business |-> {}],
   [external |-> {Span(date, 16, 17, 1)}, business |-> {Span(date, 18, 20, 0)}],
   [external |-> {Span(date, 15, 16, 0), Span(date, 19, 20, 1)}, business |-> {Span(date, 16, 18, 0)}]}
\* Requests early on the day, in the middle of it, two days before it and too early.
MCNows(date) == {At(date, 6), At(date, 16) + 1, At(date - 2, 8), At(date - 3, 8)}
=============================================================================
