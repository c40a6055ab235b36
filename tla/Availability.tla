----------------------------- MODULE Availability -----------------------------
(***************************************************************************)
(* The appointment times of a day: scheduledSlotsWithBusy and the walks,   *)
(* merges and subtractions it is made of, beside a definition of the times *)
(* that may be offered (Fits).  Instants are numbers, Minute of them to a  *)
(* minute; a date is a number of days, a minute of the wall clock one of   *)
(* 0..DayMinutes-1; Reach is three hours.  A zone has one change of its    *)
(* offset.  A span is <<start, end>>; a list of spans in the order of      *)
(* their starts is a set.  Settings have the minutes of a slot and of both *)
(* buffers, the notice and the horizon beside their periods.               *)
(***************************************************************************)
EXTENDS Integers, FiniteSets, SequencesExt

CONSTANTS Minute,      \* instants to a minute
          DayMinutes,  \* minutes of a day on the wall clock
          Reach        \* three hours, in minutes

ASSUME ScaleAssumption == Minute \in Nat \ {0} /\ DayMinutes \in Nat \ {0} /\ Reach \in Nat

Minutes(n) == n * Minute
Later(a, b) == IF a < b THEN b ELSE a

-----------------------------------------------------------------------------
(* The zone: time.In, Weekday, time.Date and AddDate of Go.                *)
\* A zone has offsets of whole minutes, and its clock is not turned by more than Reach.
RealZone(zone) ==
  /\ zone.change \in Int /\ zone.before \in Int /\ zone.after \in Int
  /\ zone.before % Minute = 0 /\ zone.after % Minute = 0
  /\ zone.before - zone.after <= Minutes(Reach) /\ zone.after - zone.before <= Minutes(Reach)
Offset(zone, at) == IF at < zone.change THEN zone.before ELSE zone.after
Wall(zone, at) == at + Offset(zone, at)
DateOf(zone, at) == Wall(zone, at) \div Minutes(DayMinutes)
MinuteOf(zone, at) == (Wall(zone, at) % Minutes(DayMinutes)) \div Minute
Weekday(date) == date % 7
FromWall(zone, wall) ==
  LET guess == wall - Offset(zone, wall)
  IN wall - Offset(zone, guess)
InZone(zone, date, minute) == FromWall(zone, Minutes(date * DayMinutes + minute))
AddDate(zone, at, days) == FromWall(zone, Wall(zone, at) + Minutes(days * DayMinutes))

-----------------------------------------------------------------------------
(* Wall times and whole minutes.                                           *)
\* wallInstant, as the set of the one instant, or of none.
WallInstant(zone, date, minute) ==
  LET guess == InZone(zone, date, minute)
      matches == {at \in {guess + Minutes(k) : k \in -Reach..Reach} : DateOf(zone, at) = date /\ MinuteOf(zone, at) = minute}
  IN IF Cardinality(matches) = 1 THEN matches ELSE {}

\* ceilMinute
CeilMinute(at) == IF at % Minute = 0 THEN at ELSE (at - (at % Minute)) + Minute

\* The walks: over minutes, of which every one from one instant to before another is visited in its order, and over
\* spans in the order of their starts.
Grid(from, to) == {at \in {from + Minutes(k) : k \in 0..((to - from) \div Minute)} : at < to}
OverMinutes(step(_, _), base, minutes) == MapThenFoldSet(LAMBDA at, acc : step(acc, at), base, LAMBDA at : at, LAMBDA s : Max(s), minutes)
Latest(spans) == CHOOSE s \in spans : \A t \in spans : t[1] < s[1] \/ (t[1] = s[1] /\ t[2] <= s[2])
OverSpans(step(_, _), base, spans) == MapThenFoldSet(LAMBDA span, acc : step(acc, span), base, LAMBDA span : span, LAMBDA s : Latest(s), spans)

\* The interval that is open in a walk over minutes, if any; a minute that is not taken closes it.
Opens(open, from, to) == IF open = {} THEN {<<from, to>>} ELSE {<<span[1], to>> : span \in open}

-----------------------------------------------------------------------------
(* The working hours of a date: an exception replaces the weekday's.       *)
PeriodsOn(v, date) ==
  LET exceptions == {k \in DOMAIN v.exceptions : v.exceptions[k].date = date}
      first == v.exceptions[CHOOSE k \in exceptions : \A j \in exceptions : k <= j]
      span(p) == <<p.start, p.end>>
  IN IF exceptions = {} THEN {span(w) : w \in {w \in ToSet(v.weekly) : w.weekday = Weekday(date)}}
     ELSE IF first.closed THEN {} ELSE {span(first)}

\* workingWindows: the walk over the minutes of the date, once for each period.
DayWalk(zone, date) ==
  LET day == InZone(zone, date, 0)
  IN {at \in Grid(day - Minutes(Reach), day + Minutes(DayMinutes + 2 * Reach)) : DateOf(zone, at) = date}

\* Mutant: a repeated hour is open twice.
Twice(zone, walk, at) == TRUE
Once(zone, walk, at) == Cardinality({b \in walk : MinuteOf(zone, b) = MinuteOf(zone, at)}) = 1

WindowStep(zone, walk, period, acc, at) ==
  LET minute == MinuteOf(zone, at)
      valid == Once(zone, walk, at) /\ period[1] <= minute /\ minute < period[2]
      goesOn == valid /\ minute = acc.previous + 1
  IN [done |-> IF goesOn THEN acc.done ELSE acc.done \cup acc.open,
      open |-> IF valid THEN Opens(IF goesOn THEN acc.open ELSE {}, at, at + Minute) ELSE {},
      previous |-> minute]
WindowWalk(zone, walk, period, from) == OverMinutes(LAMBDA acc, at : WindowStep(zone, walk, period, acc, at), from, walk)
WindowsOf(zone, walk, period) ==
  LET end == WindowWalk(zone, walk, period, [done |-> {}, open |-> {}, previous |-> -2])
  IN end.done \cup end.open
WorkingWindows(v, zone, date) ==
  LET walk == DayWalk(zone, date) IN UNION {WindowsOf(zone, walk, p) : p \in PeriodsOn(v, date)}

-----------------------------------------------------------------------------
(* Blocked time: compileBlocks and blockedMinutes, and the walk over it.   *)
Blocked(v, zone, at) ==
  LET covers(b) == b.allDay \/ (b.start <= MinuteOf(zone, at) /\ MinuteOf(zone, at) < b.end)
  IN \/ \E b \in ToSet(v.blockedWeekly) : b.weekday = Weekday(DateOf(zone, at)) /\ covers(b)
     \/ \E b \in ToSet(v.blockedDates) : b.date = DateOf(zone, at) /\ covers(b)

\* blockedIntervals: each interval starts a buffer early, for the end of the slot before it.
BlockStep(v, zone, acc, at) ==
  IF Blocked(v, zone, at) THEN [acc EXCEPT !.open = Opens(@, at - Minutes(v.buffer), at + Minute)]
  ELSE [done |-> acc.done \cup acc.open, open |-> {}]
BlockWalk(v, zone, from, minutes) == OverMinutes(LAMBDA acc, at : BlockStep(v, zone, acc, at), from, minutes)
BlockedIntervals(v, zone, from, to) ==
  LET end == BlockWalk(v, zone, [done |-> {}, open |-> {}], Grid(from - (from % Minute), to))
  IN end.done \cup end.open

-----------------------------------------------------------------------------
(* mergeBusy, subtractBusy, calendarProtection and conflicts.              *)
Absorb(out, span) ==
  LET last == Latest(out)
  IN IF span[2] <= span[1] THEN out
     ELSE IF out = {} \/ span[1] > last[2] THEN out \cup {span}
     ELSE (out \ {last}) \cup {<<last[1], Later(last[2], span[2])>>}
MergeBusy(spans) == OverSpans(Absorb, {}, spans)

Cut(window, acc, span) ==
  IF span[2] <= acc.cursor \/ span[1] >= window[2] THEN acc
  ELSE [free |-> IF span[1] > acc.cursor THEN acc.free \cup {<<acc.cursor, span[1]>>} ELSE acc.free, cursor |-> span[2]]
CutAll(window, from, blocked) == OverSpans(LAMBDA acc, span : Cut(window, acc, span), from, blocked)
SubtractBusy(window, blocked) ==
  LET end == CutAll(window, [free |-> {}, cursor |-> window[1]], blocked)
  IN IF end.cursor < window[2] THEN end.free \cup {<<end.cursor, window[2]>>} ELSE end.free

\* What a calendar answers: busyCalendars refuses an interval that does not end after its start.
Intervals(busy) == busy \subseteq Int \X Int /\ IsFiniteSet(busy) /\ \A b \in busy : b[1] < b[2]
CalendarProtection(v, external, business) ==
  MergeBusy({<<b[1] - Minutes(v.external), b[2] + Minutes(v.external)>> : b \in external}
              \cup {<<b[1] - Minutes(v.buffer), b[2]>> : b \in business})

Conflicts(slot, busy) == \E b \in busy : slot[1] < b[2] /\ slot[2] > b[1]

-----------------------------------------------------------------------------
(* scheduledSlotsWithBusy                                                  *)
InHorizon(v, zone, date, now) == DateOf(zone, now) <= date /\ date <= DateOf(zone, AddDate(zone, now, v.horizon))

\* The starts tried in a free interval, and those whose wall times are what they seem.
Starts(v, free, notBefore) ==
  {start \in {Later(CeilMinute(free[1]), notBefore) + k * Minutes(v.slot + v.buffer) : k \in 0..DayMinutes} : start + Minutes(v.slot) <= free[2]}
Certain(v, zone, date, start) ==
  LET end == start + Minutes(v.slot)
  IN /\ WallInstant(zone, date, MinuteOf(zone, start)) = {start}
     /\ WallInstant(zone, date, MinuteOf(zone, end)) = {end}
     /\ MinuteOf(zone, end) - MinuteOf(zone, start) = v.slot

ScheduledSlots(v, zone, date, now, protection) ==
  LET windows == WorkingWindows(v, zone, date)
      first == CHOOSE w \in windows : \A x \in windows : w[1] <= x[1]
      last == CHOOSE w \in windows : \A x \in windows : x[1] <= w[1]
      margin == Minutes(Later(v.buffer, v.external))
      protected == MergeBusy(protection \cup BlockedIntervals(v, zone, first[1] - margin, last[2] + margin))
      notBefore == CeilMinute(now + Minutes(v.notice))
      starts == UNION {Starts(v, free, notBefore) : free \in UNION {SubtractBusy(w, protected) : w \in windows}}
  IN IF ~InHorizon(v, zone, date, now) \/ windows = {} THEN {}
     ELSE {<<s, s + Minutes(v.slot)>> : s \in {s \in starts : Certain(v, zone, date, s)}}

-----------------------------------------------------------------------------
(* What may be offered, said without an algorithm.                         *)
\* The owner works in one of the day's periods for every minute from s to e, and no clock shows such a minute twice.
Working(v, zone, date, s, e) ==
  \E p \in PeriodsOn(v, date) : \A k \in 0..((e - s) \div Minute - 1) :
    /\ DateOf(zone, s + Minutes(k)) = date
    /\ p[1] <= MinuteOf(zone, s + Minutes(k)) /\ MinuteOf(zone, s + Minutes(k)) < p[2]
    /\ \A j \in -Reach..Reach : j # 0 => Wall(zone, s + Minutes(k)) # Wall(zone, s + Minutes(k + j))

\* The wall clock runs from s to e without a jump, and shows the time of e once.
Unbroken(zone, s, e) ==
  /\ Offset(zone, s) = Offset(zone, e)
  /\ \A j \in -Reach..Reach : j # 0 => Wall(zone, e) # Wall(zone, e + Minutes(j))

\* blockedSchedule.overlaps: no minute of the slot and of the buffer after it is blocked.
Clear(v, zone, s, e) == \A k \in 0..((e - s) \div Minute + v.buffer - 1) : ~Blocked(v, zone, s + Minutes(k))

Apart(s, e, busy, before, after) == \A b \in busy : e + Minutes(before) <= b[1] \/ b[2] + Minutes(after) <= s

Fits(v, zone, date, now, external, business, s) ==
  LET e == s + Minutes(v.slot)
  IN /\ InHorizon(v, zone, date, now) /\ now + Minutes(v.notice) <= s
     /\ Working(v, zone, date, s, e) /\ Unbroken(zone, s, e) /\ Clear(v, zone, s, e)
     /\ Apart(s, e, external, v.external, v.external)
     /\ Apart(s, e, business, v.buffer, 0)

\* The slots of a day are right: each fits and passes the check made before its event is
\* created, no two overlap, and there is one for every time that fits: at it, or so shortly
\* before it that the two and their buffer would overlap.
Right(v, zone, date, now, external, business) ==
  LET protection == CalendarProtection(v, external, business)
      slots == ScheduledSlots(v, zone, date, now, protection)
      day == InZone(zone, date, 0)
      fits(s) == Fits(v, zone, date, now, external, business, s)
  IN /\ \A slot \in slots : fits(slot[1]) /\ ~Conflicts(slot, protection)
     /\ \A a, b \in slots : a = b \/ a[2] <= b[1] \/ b[2] <= a[1]
     /\ \A s \in {day + Minutes(k) : k \in -Reach..(DayMinutes + Reach)} :
          fits(s) => \E slot \in slots : slot[1] <= s /\ s < slot[2] + Minutes(v.buffer)
=============================================================================
