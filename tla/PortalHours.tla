----------------------------- MODULE PortalHours -----------------------------
(***************************************************************************)
(* The portal beside what the website offers: the settings that the owners *)
(* save are the hours by which the service finds the times of a day        *)
(* (OwnerPortal and Availability).  The portal's form has the rules of a   *)
(* slot too, but only copies them, so they are given here.                 *)
(***************************************************************************)
EXTENDS OwnerPortal, Availability

CONSTANTS
  Days,          \* dates that are asked for
  Rules,         \* the minutes of a slot, of both buffers and of the notice, and the days of the horizon
  Zones(_),      \* time zones, for a date
  Calendars(_),  \* what both calendars answer for it
  Nows(_)        \* and the times of requests

Rule == [slot : Nat \ {0}, buffer : Nat, external : Nat, notice : Nat, horizon : Nat]

ASSUME HoursAssumption ==
  /\ DayMinutes = Midnight /\ Days \subseteq Int /\ Rules \subseteq Rule
  /\ \A date \in Days :
       /\ \A zone \in Zones(date) : RealZone(zone)
       /\ \A calendar \in Calendars(date) : Intervals(calendar.external) /\ Intervals(calendar.business)
       /\ Nows(date) \subseteq Int

\* The settings that the service reads, with the hours of a plan of the portal.
With(rule, plan) ==
  [slot |-> rule.slot, buffer |-> rule.buffer, external |-> rule.external, notice |-> rule.notice, horizon |-> rule.horizon,
   weekly |-> plan.weekly, exceptions |-> plan.exceptions, blockedWeekly |-> plan.blockedWeekly, blockedDates |-> plan.blockedDates]

Served(plan) ==
  \A date \in Days, rule \in Rules : \A zone \in Zones(date), calendar \in Calendars(date), now \in Nows(date) :
    Right(With(rule, plan), zone, date, now, calendar.external, calendar.business)

\* The plans that come up, so that a run looks at each of them once.
KnownPlans == FirstSettings \cup {F!Read(sheet) : sheet \in {sheet \in Forms : ~F!Problem(sheet)}}
WellServed == {plan \in KnownPlans : Served(plan)}

\* Whatever hours the owners save in the portal, the times that are offered on a day are right by them: inside the
\* hours on a clock that may be turned that day, clear of blocked time with the buffer that follows, and of the
\* calendars' events with both buffers, and none of the times that fit is kept back.
SavedHoursAreServed == saved.value \in WellServed \/ Served(saved.value)
=============================================================================
