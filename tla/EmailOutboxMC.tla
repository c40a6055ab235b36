---------------------------- MODULE EmailOutboxMC ----------------------------
(* Preferences and bounds for TLC.                                           *)
EXTENDS EmailOutbox

CONSTANTS s1, s2  \* the appointment times of email_delivery

Wishes(on, rem, lead) == [enabled |-> on, reminders |-> rem, lead |-> lead]

Off  == Wishes(FALSE, TRUE, 1)
On   == Wishes(TRUE, TRUE, 1)
Late == Wishes(TRUE, TRUE, 2)

OnOff == {Off, On}
OnOnly == {On}
Hours == {Off, On, Late}

\* Bound: the second time comes after the first one, by more than a reminder's
\* longest window.
FarApart == clock[s2] > 0 => clock[s1] = 3

\* Bound: a crash, a manual retry or later hours, one at a time.
OneTrouble == faults + retries + (IF settings.lead > 1 THEN 1 ELSE 0) <= 1

\* Bound: the hours are changed while a reminder is queued.
HoursMatter ==
  asked' # asked /\ asked'.lead # settings.lead =>
    \E k \in Keys : k[3] = "reminder" /\ mail[k].status = "queued"
=============================================================================
