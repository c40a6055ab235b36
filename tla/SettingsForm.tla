----------------------------- MODULE SettingsForm -----------------------------
(***************************************************************************)
(* The availability form: what renderSettings puts into its rows, what     *)
(* readSettings takes out of them, and what validateSettings at the server *)
(* accepts.  Times and dates are numbers, compared like their texts; None  *)
(* is an empty input.  The name and the numbers are not modelled: they are *)
(* copied, and their inputs have the ranges that the server has            *)
(* (index.html:28, availability.go:76 and 85).                             *)
(***************************************************************************)
EXTENDS Naturals, Sequences, FiniteSets

CONSTANTS
  None, Nine, Noon, One, Five, Midnight,  \* no time, the hours of new rows, and the end of the clock
  TimeZones,     \* what the field of the time zone can hold,
  PageZones,     \* what the browser's Intl takes of it, as it does offsets and names in another case,
  ServiceZones,  \* and what Go loads, as it does names of its own database
  LastDate       \* the last date that is written with four digits for its year

Weekdays == 0..6
Has(f) == f # None

\* How many rows of a kind the server keeps (92); timeOffSettings counts those of the time off (342).
Most == [weekly |-> 35, exceptions |-> 365, blockedWeekly |-> 70, blockedDates |-> 365]

\* The members of a finite set in the order of a relation, and the elements of a sequence at some positions.
InOrder(S, before) == [n \in 1..Cardinality(S) |-> CHOOSE x \in S : Cardinality({y \in S : <<y, x>> \in before}) = n - 1]
Less(S) == {p \in S \X S : p[1] < p[2]}
At(s, positions) == LET order == InOrder(positions, Less(positions)) IN [n \in DOMAIN order |-> s[order[n]]]

\* Dates YYYY-MM-DD; a date input holds years of more digits too.
PlainDates == {date \in Nat : date <= LastDate}

\* Rows of the form.  A day that is not enabled and rows that do not show their hours keep them disabled.
Window(start, end) == [start |-> start, end |-> end]
ExceptionRow(date, closed, start, end) == [date |-> date, closed |-> closed, start |-> start, end |-> end]
TimeOffRow(kind, weekday, date, allDay, start, end) ==
  [kind |-> kind, weekday |-> weekday, date |-> date, allDay |-> allDay, start |-> start, end |-> end]

-----------------------------------------------------------------------------
(* renderSettings                                                          *)
\* Mutant: the hours that were stored are not put into the rows.
AlwaysDefault(x, otherwise) == otherwise
Default(x, otherwise) == IF Has(x) THEN x ELSE otherwise

\* renderWeekly: a day is enabled when it has windows.
WeeklyRows(weekly) ==
  [day \in Weekdays |->
     LET entries == At(weekly, {k \in DOMAIN weekly : weekly[k].weekday = day})
     IN [enabled |-> entries # <<>>, windows |-> [k \in DOMAIN entries |-> Window(entries[k].start, entries[k].end)]]]

\* appendException and appendTimeOff, with the hours they show when there are none.
ExceptionRows(exceptions) ==
  [k \in DOMAIN exceptions |->
     ExceptionRow(exceptions[k].date, exceptions[k].closed, Default(exceptions[k].start, Nine), Default(exceptions[k].end, Five))]
TimeOffRows(weekly, dates) ==
  [k \in DOMAIN weekly |-> TimeOffRow("weekly", weekly[k].weekday, None, weekly[k].allDay, Default(weekly[k].start, Noon), Default(weekly[k].end, One))]
    \o [k \in DOMAIN dates |-> TimeOffRow("date", 1, dates[k].date, dates[k].allDay, Default(dates[k].start, Noon), Default(dates[k].end, One))]

Rendered(plan) ==
  [zone |-> plan.zone, days |-> WeeklyRows(plan.weekly), exceptions |-> ExceptionRows(plan.exceptions),
   timeOff |-> TimeOffRows(plan.blockedWeekly, plan.blockedDates)]

-----------------------------------------------------------------------------
(* readSettings: the first problem stops it.                               *)
Ordered(start, end) == Has(start) /\ Has(end) /\ start < end

\* The sort is stable.
StartsFirst(windows) ==
  {p \in (DOMAIN windows) \X (DOMAIN windows) :
     windows[p[1]].start < windows[p[2]].start \/ (windows[p[1]].start = windows[p[2]].start /\ p[1] < p[2])}
ByStart(windows) ==
  LET order == InOrder(DOMAIN windows, StartsFirst(windows)) IN [n \in DOMAIN order |-> windows[order[n]]]

\* Mutant: windows that overlap are not looked for.
WeeklyOrderOnly(days) ==
  \E d \in Weekdays : days[d].enabled /\ \E k \in DOMAIN days[d].windows : ~Ordered(days[d].windows[k].start, days[d].windows[k].end)
WeeklyProblem(days) ==
  \E d \in Weekdays : days[d].enabled /\
    \/ \E k \in DOMAIN days[d].windows : ~Ordered(days[d].windows[k].start, days[d].windows[k].end)
    \/ LET windows == ByStart(days[d].windows)
       IN \E k \in DOMAIN windows : k > 1 /\ windows[k - 1].end > windows[k].start

ExceptionProblem(lines) ==
  \E k \in DOMAIN lines :
    \/ ~Has(lines[k].date)
    \/ \E j \in DOMAIN lines : j < k /\ lines[j].date = lines[k].date
    \/ ~lines[k].closed /\ ~Ordered(lines[k].start, lines[k].end)

\* timeOffSettings
OfKind(lines, kind) == {k \in DOMAIN lines : lines[k].kind = kind}
TimeOffProblem(lines) ==
  \/ \E k \in DOMAIN lines :
       \/ lines[k].kind = "date" /\ lines[k].date \notin PlainDates
       \/ ~lines[k].allDay /\ ~Ordered(lines[k].start, lines[k].end)
  \/ Cardinality(OfKind(lines, "weekly")) > Most.blockedWeekly \/ Cardinality(OfKind(lines, "date")) > Most.blockedDates

Problem(sheet) ==
  sheet.zone \notin PageZones \/ WeeklyProblem(sheet.days) \/ ExceptionProblem(sheet.exceptions) \/ TimeOffProblem(sheet.timeOff)

ReadDay(days, d) ==
  IF ~days[d].enabled THEN <<>>
  ELSE LET windows == ByStart(days[d].windows)
       IN [k \in DOMAIN windows |-> [weekday |-> d, start |-> windows[k].start, end |-> windows[k].end]]
ReadWeekly(days) ==
  ReadDay(days, 0) \o ReadDay(days, 1) \o ReadDay(days, 2) \o ReadDay(days, 3) \o ReadDay(days, 4) \o ReadDay(days, 5) \o ReadDay(days, 6)

Hours(row, off) == IF off THEN Window(None, None) ELSE Window(row.start, row.end)
ReadExceptions(lines) ==
  [k \in DOMAIN lines |-> LET hours == Hours(lines[k], lines[k].closed)
                         IN [date |-> lines[k].date, closed |-> lines[k].closed, start |-> hours.start, end |-> hours.end]]
ReadTimeOff(lines, kind) ==
  LET of == At(lines, OfKind(lines, kind))
  IN [k \in DOMAIN of |-> LET hours == Hours(of[k], of[k].allDay)
                          IN [weekday |-> IF kind = "weekly" THEN of[k].weekday ELSE None, date |-> IF kind = "date" THEN of[k].date ELSE None,
                              allDay |-> of[k].allDay, start |-> hours.start, end |-> hours.end]]

Read(sheet) ==
  [zone |-> sheet.zone, weekly |-> ReadWeekly(sheet.days), exceptions |-> ReadExceptions(sheet.exceptions),
   blockedWeekly |-> ReadTimeOff(sheet.timeOff, "weekly"), blockedDates |-> ReadTimeOff(sheet.timeOff, "date")]

-----------------------------------------------------------------------------
(* validateSettings and canonicalSettings at the server.                   *)
Kept(plan) == Len(plan.weekly) <= Most.weekly /\ Len(plan.exceptions) <= Most.exceptions
Overlap(a, b) == a.weekday = b.weekday /\ a.start < b.end /\ b.start < a.end
Accepts(plan) ==
  /\ plan.zone \in ServiceZones
  /\ Kept(plan) /\ Len(plan.blockedWeekly) <= Most.blockedWeekly /\ Len(plan.blockedDates) <= Most.blockedDates
  /\ \A k \in DOMAIN plan.weekly : Ordered(plan.weekly[k].start, plan.weekly[k].end)
  /\ \A j, k \in DOMAIN plan.weekly : j # k => ~Overlap(plan.weekly[j], plan.weekly[k])
  /\ \A j, k \in DOMAIN plan.exceptions : plan.exceptions[j].date = plan.exceptions[k].date => j = k
  /\ \A k \in DOMAIN plan.exceptions :
       plan.exceptions[k].date \in PlainDates /\ (~plan.exceptions[k].closed => Ordered(plan.exceptions[k].start, plan.exceptions[k].end))
  /\ \A k \in DOMAIN plan.blockedWeekly : plan.blockedWeekly[k].weekday \in Weekdays
  /\ \A k \in DOMAIN plan.blockedDates : plan.blockedDates[k].date \in PlainDates
  /\ \A blocks \in {plan.blockedWeekly, plan.blockedDates} : \A k \in DOMAIN blocks :
       blocks[k].allDay \/ Ordered(blocks[k].start, blocks[k].end)

\* What readSettings does not look for, or asks of the browser where the server asks of Go: more periods or exceptions
\* than are kept, a time zone that Go does not know, and an exception on a date that is not YYYY-MM-DD.
Unseen(plan) ==
  ~Kept(plan) \/ plan.zone \notin ServiceZones \/ \E k \in DOMAIN plan.exceptions : plan.exceptions[k].date > LastDate

-----------------------------------------------------------------------------
(* The form, and what is stored of it.                                     *)
\* A time input holds a time of the clock, 00:00 to 23:59, or none.
Clock == {t \in Nat : t < Midnight}
Times == Clock \cup {None}
Dates == Nat \cup {None}
Windows == [start : Times, end : Times]
ExceptionLines == [date : Dates, closed : BOOLEAN, start : Times, end : Times]
TimeOffLines == [kind : {"weekly", "date"}, weekday : Weekdays, date : Dates, allDay : BOOLEAN, start : Times, end : Times]
Sheets ==
  [zone : TimeZones, days : [Weekdays -> [enabled : BOOLEAN, windows : Seq(Windows)]],
   exceptions : Seq(ExceptionLines), timeOff : Seq(TimeOffLines)]

Entries == [weekday : Weekdays, start : Clock, end : Clock]
Before(a, b) == a.weekday < b.weekday \/ (a.weekday = b.weekday /\ a.start < b.start)
Blocks(weekdays, dates) == [weekday : weekdays, date : dates, allDay : BOOLEAN, start : Times, end : Times]
NoHours(row, off) == off => row.start = None /\ row.end = None

\* As readSettings writes them: the days in their order and their windows in theirs, no hours where none are meant.
Plans ==
  [zone : TimeZones, weekly : Seq(Entries), exceptions : Seq(ExceptionLines),
   blockedWeekly : Seq(Blocks(Weekdays, {None})), blockedDates : Seq(Blocks({None}, PlainDates))]
Written(plan) ==
  /\ plan \in Plans
  /\ \A j, k \in DOMAIN plan.weekly : j < k => Before(plan.weekly[j], plan.weekly[k])
  /\ \A k \in DOMAIN plan.exceptions : NoHours(plan.exceptions[k], plan.exceptions[k].closed)
  /\ \A blocks \in {plan.blockedWeekly, plan.blockedDates} : \A k \in DOMAIN blocks : NoHours(blocks[k], blocks[k].allDay)
=============================================================================
