----------------------------- MODULE EmailOutbox -----------------------------
(***************************************************************************)
(* Appointment emails: the outbox that booking changes write to in their   *)
(* own transaction (queueBookingEmailTx), the worker that hands its rows   *)
(* to Gmail (sendEmailDue, GoogleMail.Send), the owner's preferences, the  *)
(* manual retry, and the mail grant, against a Gmail that may decline,     *)
(* refuse, lose its answer or accept without one, and a process that dies. *)
(*                                                                         *)
(* A row is named by its dedupe_key: booking, version and kind.  Time is   *)
(* one clock per appointment time: 0 long before it, 1 and 2 inside the    *)
(* longer and the shorter reminder window, 3 started.                      *)
(***************************************************************************)
EXTENDS Naturals

CONSTANTS
  Bookings,     \* appointments
  Slots,        \* appointment times
  Kinds,        \* the kinds of message the model follows
  Preferences,  \* the notification settings owners choose from
  MaxVersion,   \* bound: customer-facing changes of one appointment
  MaxAttempts,  \* attempts after which a decline is final; 5 in the code
  MaxRetries,   \* bound: manual retries
  MaxFaults     \* bound: crashes

BookingKinds == {"receipt", "confirmation", "reschedule", "cancellation", "reminder"}

Settings == [enabled : BOOLEAN, reminders : BOOLEAN, lead : {1, 2}]

ASSUME OutboxAssumption ==
  /\ Slots # {}
  /\ Kinds \subseteq BookingKinds \cup {"test"}
  /\ Preferences \subseteq Settings
  /\ MaxVersion \in Nat /\ MaxAttempts \in Nat /\ MaxRetries \in Nat /\ MaxFaults \in Nat

VARIABLES
  booking,   \* the columns of bookings, and email_booking_state.version
  clock,     \* how far each appointment time is
  settings,  \* email_settings
  asked,     \* the settings of a request that has found Gmail connected
  grant,     \* google_mail_tokens are stored and are the calendar owner's
  mail,      \* the email_outbox table
  sender,    \* sendEmailDue, at most one under emailMu
  accepted,  \* history: how often Gmail took this message
  confirmed, \* history: uncertain messages the owner chose to send again
  told,      \* history: the version Gmail last took a message about
  caught,    \* history: something changed while this message was at Gmail
  retries,   \* manual retries so far
  faults     \* crashes so far

vars == <<booking, clock, settings, asked, grant, mail, sender, accepted, confirmed, told, caught, retries, faults>>

-----------------------------------------------------------------------------
\* The one test message stands for a booking and a version of its own.
TestKey == <<"test", 0, "test">>

NoJob == <<"none", 0, "none">>

Keys == (Bookings \X (1..MaxVersion) \X (Kinds \ {"test"}))
          \cup IF "test" \in Kinds THEN {TestKey} ELSE {}

AnySlot == CHOOSE s \in Slots : TRUE

Booking == [status : {"absent", "needs_followup", "confirmed", "cancelled"},
            slot : Slots, synced : BOOLEAN, version : 0..MaxVersion]

MailStatuses == {"none", "queued", "sending", "sent", "failed", "uncertain", "skipped"}

\* at: the clock value of its slot from which the message may be sent;
\* waiting: next_attempt is in the future.
Mail == [status : MailStatuses, slot : Slots, at : 0..2, waiting : BOOLEAN,
         attempts : 0..(MaxAttempts + MaxRetries + 1)]

NoMail == [status |-> "none", slot |-> AnySlot, at |-> 0, waiting |-> FALSE, attempts |-> 0]

QueuedMail(slot, at) == [NoMail EXCEPT !.status = "queued", !.slot = slot, !.at = at]

SenderStates == {"idle", "picked", "send", "sent", "uncertain", "failed", "declined"}

Started(slot) == clock[slot] = 3

\* defaultEmailSettings.
NoSettings == [enabled |-> FALSE, reminders |-> TRUE, lead |-> 1]

\* Gmail.Connected needs the mail grant; its loss of the calendar side is the
\* loss of grant here.
Connected == grant

Init ==
  /\ booking = [b \in Bookings |->
                  [status |-> "absent", slot |-> AnySlot, synced |-> FALSE, version |-> 0]]
  /\ clock = [s \in Slots |-> 0]
  /\ settings = NoSettings
  /\ asked = NoSettings
  /\ grant = TRUE
  /\ mail = [k \in Keys |-> NoMail]
  /\ sender = [at |-> "idle", job |-> NoJob]
  /\ accepted = [k \in Keys |-> 0]
  /\ confirmed = [k \in Keys |-> 0]
  /\ told = [b \in Bookings |-> 0]
  /\ caught = FALSE
  /\ retries = 0
  /\ faults = 0

Catches == caught' = (caught \/ sender.at = "send")

-----------------------------------------------------------------------------
(* queueBookingEmailTx, in the transaction of every booking mutation.      *)

\* The other columns of a row that was skipped or sent are not read again.
Skipped == [NoMail EXCEPT !.status = "skipped"]

Pending(k) == mail[k].status \in {"queued", "failed"}

MessageFor(before, after) ==
  CASE before.status = "absent"                                         -> "receipt"
    [] before.status # "cancelled" /\ after.status = "cancelled"        -> "cancellation"
    [] before.slot # after.slot                                         -> "reschedule"
    [] before.status # "confirmed" /\ after.status = "confirmed"        -> "confirmation"
    [] OTHER                                                            -> "none"

\* Emails enabled, a future appointment, and, for a change that came from the
\* calendar, an appointment that already takes part.
TakesPart(before, after, enroll) ==
  /\ settings.enabled
  /\ ~Started(after.slot)
  /\ enroll \/ before.version > 0

\* The reminder is queued with the confirmation, unless its time has come.
Reminds(after) ==
  after.status = "confirmed" /\ settings.reminders /\ clock[after.slot] < settings.lead

Changes(b, after, enroll) ==
  LET before == booking[b]
      version == before.version + 1
      kind   == MessageFor(before, after)
      joins  == TakesPart(before, after, enroll)
      isNew(k) == /\ joins /\ kind # "none"
                  /\ k[1] = b /\ k[2] = version
                  /\ k[3] = kind \/ (k[3] = "reminder" /\ Reminds(after))
  IN  /\ before.version < MaxVersion
      /\ booking' = [booking EXCEPT ![b] = [after EXCEPT !.version = IF joins THEN version ELSE @]]
      /\ mail' = [k \in Keys |->
           IF isNew(k) THEN QueuedMail(after.slot, IF k[3] = "reminder" THEN settings.lead ELSE 0)
           ELSE IF k[1] = b /\ Pending(k) THEN Skipped
           ELSE mail[k]]
      /\ Catches
      /\ UNCHANGED <<clock, settings, asked, grant, sender, accepted, confirmed, told, retries, faults>>

\* createBooking; patchBooking to another status; an import from Google.
Create(b, s) ==
  /\ booking[b].status = "absent"
  /\ ~Started(s)
  /\ Changes(b, [booking[b] EXCEPT !.status = "needs_followup", !.slot = s], TRUE)

Patch(b, st) ==
  /\ booking[b].status \notin {"absent", "cancelled", st}
  /\ st = "confirmed" => booking[b].synced
  /\ Changes(b, [booking[b] EXCEPT !.status = st, !.synced = @ /\ st # "cancelled"], TRUE)

ImportMove(b, s) ==
  /\ booking[b].status \notin {"absent", "cancelled"} /\ booking[b].slot # s
  /\ Changes(b, [booking[b] EXCEPT !.slot = s, !.synced = TRUE], FALSE)

ImportRemoval(b) ==
  /\ booking[b].status \notin {"absent", "cancelled"}
  /\ Changes(b, [booking[b] EXCEPT !.status = "cancelled", !.synced = TRUE], FALSE)

\* The event of an appointment cancelled here has moved: its time is kept until
\* the event is gone; no email is queued.
ImportMovesCancelled(b, s) ==
  /\ booking[b].status = "cancelled" /\ booking[b].slot # s
  /\ booking' = [booking EXCEPT ![b].slot = s, ![b].synced = FALSE]
  /\ Catches
  /\ UNCHANGED <<clock, settings, asked, grant, mail, sender, accepted, confirmed, told, retries, faults>>

\* The calendar worker, a replaced calendar, and an import that changes nothing
\* else: no email is queued.
CalendarTurns(b) ==
  /\ booking[b].status # "absent"
  /\ booking' = [booking EXCEPT ![b].synced = ~@]
  /\ UNCHANGED <<clock, settings, asked, grant, mail, sender, accepted, confirmed, told, caught, retries, faults>>

TimePasses(s) ==
  /\ clock[s] < 3
  /\ clock' = [clock EXCEPT ![s] = @ + 1]
  /\ Catches
  /\ UNCHANGED <<booking, settings, asked, grant, mail, sender, accepted, confirmed, told, retries, faults>>

-----------------------------------------------------------------------------
(* The owner's requests.                                                   *)

\* Mutant: a queued reminder keeps the time it was queued with.
SettingsMailUntimed(v, k) ==
  IF ~v.enabled \/ (k[3] = "reminder" /\ ~v.reminders)
    THEN IF k # TestKey /\ Pending(k) THEN Skipped ELSE mail[k]
  ELSE mail[k]

\* saveEmailSettings: pending messages are skipped with their preference, a
\* queued reminder is timed again, or skipped if its new time has come.
SettingsMail(v, k) ==
  LET isReminder == k[3] = "reminder" IN
  IF ~v.enabled
    THEN IF k # TestKey /\ Pending(k) THEN Skipped ELSE mail[k]
  ELSE IF ~isReminder THEN mail[k]
  ELSE IF ~v.reminders THEN IF Pending(k) THEN Skipped ELSE mail[k]
  ELSE IF mail[k].status # "queued" THEN mail[k]
  ELSE IF clock[mail[k].slot] >= v.lead THEN Skipped
  ELSE [mail[k] EXCEPT !.at = v.lead, !.waiting = FALSE]

\* handleEmailSettings looks for Gmail before it saves, without a lock: the
\* connection can go in between.  One such request at a time.
AsksFor(v) ==
  /\ v.enabled /\ asked = NoSettings
  /\ Connected
  /\ asked' = v
  /\ UNCHANGED <<booking, clock, settings, grant, mail, sender, accepted, confirmed, told, caught, retries, faults>>

SaveSettings(v) ==
  /\ v # settings
  /\ v.enabled => v = asked
  /\ settings' = v
  /\ asked' = IF v.enabled THEN NoSettings ELSE asked
  /\ mail' = [k \in Keys |-> SettingsMail(v, k)]
  /\ Catches
  /\ UNCHANGED <<booking, clock, grant, sender, accepted, confirmed, told, retries, faults>>

\* handleEmailTest, once.
SendTest ==
  /\ Connected
  /\ TestKey \in Keys /\ mail[TestKey].status = "none"
  /\ mail' = [mail EXCEPT ![TestKey] = QueuedMail(AnySlot, 0)]
  /\ UNCHANGED <<booking, clock, settings, asked, grant, sender, accepted, confirmed, told, caught, retries, faults>>

\* connectMail and handleMailDisconnect take ops.Lock, which Send holds shared:
\* each comes before Send has begun, or after it has returned.
MailConnect ==
  /\ ~grant
  /\ grant' = TRUE
  /\ UNCHANGED <<booking, clock, settings, asked, mail, sender, accepted, confirmed, told, caught, retries, faults>>

MailDisconnect ==
  /\ grant
  /\ grant' = FALSE
  /\ LET off == [settings EXCEPT !.enabled = FALSE] IN
       settings' = off /\ mail' = [k \in Keys |-> SettingsMail(off, k)]
  /\ Catches
  /\ UNCHANGED <<booking, clock, asked, sender, accepted, confirmed, told, retries, faults>>

\* emailStillRelevantTx.
StillTrue(k) ==
  CASE k[3] = "cancellation"                 -> booking[k[1]].status = "cancelled"
    [] k[3] \in {"confirmation", "reminder"} -> booking[k[1]].status = "confirmed"
    [] OTHER                                 -> booking[k[1]].status # "cancelled"

\* Mutant: the version of the message is not compared.
RelevantToAnyVersion(k) ==
  IF k = TestKey THEN TRUE
  ELSE /\ settings.enabled
       /\ k[3] = "reminder" => settings.reminders
       /\ booking[k[1]].slot = mail[k].slot
       /\ ~Started(mail[k].slot)
       /\ StillTrue(k)

Relevant(k) ==
  IF k = TestKey THEN TRUE
  ELSE /\ settings.enabled
       /\ k[3] = "reminder" => settings.reminders
       /\ booking[k[1]].version = k[2]
       /\ booking[k[1]].slot = mail[k].slot
       /\ ~Started(mail[k].slot)
       /\ StillTrue(k)

\* handleEmailRetry; an uncertain message needs the owner's confirmation.
Retry(k) ==
  /\ retries < MaxRetries /\ retries' = retries + 1
  /\ Connected
  /\ mail[k].status \in {"failed", "uncertain"}
  /\ Relevant(k)
  /\ mail' = [mail EXCEPT ![k].status = "queued", ![k].waiting = FALSE]
  /\ confirmed' = IF mail[k].status = "uncertain" THEN [confirmed EXCEPT ![k] = @ + 1]
                                                  ELSE confirmed
  /\ UNCHANGED <<booking, clock, settings, asked, grant, sender, accepted, told, caught, faults>>

-----------------------------------------------------------------------------
(* sendEmailDue.                                                           *)

Goes(at) == sender' = IF at = "idle" THEN [at |-> "idle", job |-> NoJob] ELSE [sender EXCEPT !.at = at]

Due(k) == /\ mail[k].status = "queued" /\ ~mail[k].waiting
          /\ clock[mail[k].slot] >= mail[k].at

\* Mutant: an interrupted attempt is simply made again.
LeaseRequeues(k) ==
  /\ sender.at = "idle"
  /\ mail[k].status = "sending"
  /\ mail' = [mail EXCEPT ![k].status = "queued"]
  /\ UNCHANGED <<booking, clock, settings, asked, grant, sender, accepted, confirmed, told, caught, retries, faults>>

\* Mutant: leases are looked at after the check of the connection.
LeaseEndsIfConnected(k) ==
  /\ sender.at = "idle"
  /\ Connected
  /\ mail[k].status = "sending"
  /\ mail' = [mail EXCEPT ![k].status = "uncertain"]
  /\ UNCHANGED <<booking, clock, settings, asked, grant, sender, accepted, confirmed, told, caught, retries, faults>>

\* The lease of an interrupted attempt has run out.
LeaseEnds(k) ==
  /\ sender.at = "idle"
  /\ mail[k].status = "sending"
  /\ mail' = [mail EXCEPT ![k].status = "uncertain"]
  /\ UNCHANGED <<booking, clock, settings, asked, grant, sender, accepted, confirmed, told, caught, retries, faults>>

\* Any due message may be the first of its pass.
Picks(k) ==
  /\ sender.at = "idle"
  /\ Connected
  /\ Due(k)
  /\ sender' = [at |-> "picked", job |-> k]
  /\ UNCHANGED <<booking, clock, settings, asked, grant, mail, accepted, confirmed, told, caught, retries, faults>>

Waits(k) == [mail EXCEPT ![k].waiting = TRUE]

\* A reminder needs a current calendar; the forced refresh failed.
Postpones ==
  /\ sender.at = "picked" /\ sender.job[3] = "reminder"
  /\ mail' = IF mail[sender.job].status = "queued" THEN Waits(sender.job) ELSE mail
  /\ Goes("idle")
  /\ UNCHANGED <<booking, clock, settings, asked, grant, accepted, confirmed, told, caught, retries, faults>>

\* Mutant: the message is marked as it was picked, without another look.
MarksUnchecked ==
  /\ sender.at = "picked"
  /\ LET k == sender.job IN
       \/ ~Due(k) /\ Goes("idle") /\ UNCHANGED mail
       \/ /\ Due(k)
          /\ Goes("send")
          /\ mail' = [mail EXCEPT ![k].status = "sending", ![k].attempts = @ + 1]
  /\ UNCHANGED <<booking, clock, settings, asked, grant, accepted, confirmed, told, caught, retries, faults>>

\* One transaction: the row is read again, dropped, put off or marked.
Marks ==
  /\ sender.at = "picked"
  /\ LET k == sender.job IN
       \/ ~Due(k) /\ Goes("idle") /\ UNCHANGED mail
       \/ Due(k) /\ ~Relevant(k) /\ Goes("idle") /\ mail' = [mail EXCEPT ![k] = Skipped]
       \/ /\ Due(k) /\ Relevant(k)
          /\ k[3] \in {"confirmation", "reminder"} /\ ~booking[k[1]].synced
          /\ Goes("idle") /\ mail' = Waits(k)
       \/ /\ Due(k) /\ Relevant(k)
          /\ k[3] \in {"confirmation", "reminder"} => booking[k[1]].synced
          /\ Goes("send")
          /\ mail' = [mail EXCEPT ![k].status = "sending", ![k].attempts = @ + 1]
  /\ UNCHANGED <<booking, clock, settings, asked, grant, accepted, confirmed, told, caught, retries, faults>>

\* Gmail takes the message; the answer comes back, or is lost, late or unusable.
Accepts ==
  /\ sender.at = "send" /\ Connected
  /\ accepted' = [accepted EXCEPT ![sender.job] = @ + 1]
  /\ told' = IF sender.job = TestKey THEN told ELSE [told EXCEPT ![sender.job[1]] = sender.job[2]]
  /\ Goes("sent") \/ Goes("uncertain")
  /\ caught' = FALSE
  /\ UNCHANGED <<booking, clock, settings, asked, grant, mail, confirmed, retries, faults>>

\* Gmail does not take it: no answer, a temporary decline, a refusal, or a
\* revoked grant, which is dropped.
Declines ==
  /\ sender.at = "send"
  /\ \/ Connected /\ (Goes("uncertain") \/ Goes("declined") \/ Goes("failed")) /\ UNCHANGED grant
     \/ Goes("failed") /\ grant' = FALSE
  /\ caught' = FALSE
  /\ UNCHANGED <<booking, clock, settings, asked, mail, accepted, confirmed, told, retries, faults>>

\* Mutant: a declined message is tried without limit.
RecordsWithoutLimit ==
  /\ sender.at \in {"sent", "uncertain", "failed", "declined"}
  /\ LET k == sender.job
         again == sender.at = "declined"
         result == IF again THEN "queued"
                   ELSE IF sender.at = "declined" THEN "failed" ELSE sender.at
     IN  mail' = CASE mail[k].status # "sending" -> mail
                   [] result = "sent" -> [mail EXCEPT ![k] = [NoMail EXCEPT !.status = "sent"]]
                   [] OTHER -> [mail EXCEPT ![k].status = result, ![k].waiting = again]
  /\ Goes("idle")
  /\ UNCHANGED <<booking, clock, settings, asked, grant, accepted, confirmed, told, caught, retries, faults>>

\* The result, WHERE status='sending'.  attempts was read before this attempt.
Records ==
  /\ sender.at \in {"sent", "uncertain", "failed", "declined"}
  /\ LET k == sender.job
         again == sender.at = "declined" /\ mail[k].attempts - 1 < MaxAttempts
         result == IF again THEN "queued"
                   ELSE IF sender.at = "declined" THEN "failed" ELSE sender.at
     IN  mail' = CASE mail[k].status # "sending" -> mail
                   [] result = "sent" -> [mail EXCEPT ![k] = [NoMail EXCEPT !.status = "sent"]]
                   [] OTHER -> [mail EXCEPT ![k].status = result, ![k].waiting = again]
  /\ Goes("idle")
  /\ UNCHANGED <<booking, clock, settings, asked, grant, accepted, confirmed, told, caught, retries, faults>>

\* next_attempt passes.
WaitEnds(k) ==
  /\ mail[k].waiting
  /\ mail' = [mail EXCEPT ![k].waiting = FALSE]
  /\ UNCHANGED <<booking, clock, settings, asked, grant, sender, accepted, confirmed, told, caught, retries, faults>>

Crash ==
  /\ faults < MaxFaults /\ faults' = faults + 1
  /\ sender.at # "idle"
  /\ Goes("idle")
  /\ caught' = FALSE
  /\ UNCHANGED <<booking, clock, settings, asked, grant, mail, accepted, confirmed, told, retries>>

-----------------------------------------------------------------------------
BookingNext ==
  \E b \in Bookings :
    \/ \E s \in Slots : Create(b, s) \/ ImportMove(b, s) \/ ImportMovesCancelled(b, s)
    \/ \E st \in {"needs_followup", "confirmed", "cancelled"} : Patch(b, st)
    \/ ImportRemoval(b)
    \/ CalendarTurns(b)

OwnerNext ==
  \/ \E v \in Preferences : AsksFor(v) \/ SaveSettings(v)
  \/ SendTest
  \/ MailConnect
  \/ MailDisconnect
  \/ \E k \in Keys : Retry(k)

SendSteps == Postpones \/ Marks \/ Accepts \/ Declines \/ Records

SenderNext == (\E k \in Keys : LeaseEnds(k) \/ Picks(k)) \/ SendSteps \/ Crash

TimeNext == (\E s \in Slots : TimePasses(s)) \/ (\E k \in Keys : WaitEnds(k))

Next == BookingNext \/ OwnerNext \/ SenderNext \/ TimeNext

Spec == Init /\ [][Next]_vars

\* The worker's loop has a ticker, its calls have time-outs, and time passes.
\* Each pass starts with the leases and takes due messages in order, so each
\* has its turn; the calendar is not out of reach at every attempt.
Fairness ==
  /\ \A k \in Keys : SF_vars(LeaseEnds(k)) /\ SF_vars(Picks(k)) /\ WF_vars(WaitEnds(k))
  /\ SF_vars(Marks)
  /\ WF_vars(SendSteps)
  /\ \A s \in Slots : WF_vars(TimePasses(s))

FairSpec == Spec /\ Fairness

-----------------------------------------------------------------------------
TypeOK ==
  /\ booking \in [Bookings -> Booking]
  /\ clock \in [Slots -> 0..3]
  /\ settings \in Settings
  /\ asked \in Settings
  /\ grant \in BOOLEAN
  /\ mail \in [Keys -> Mail]
  /\ sender \in [at : SenderStates, job : Keys \cup {NoJob}]
  /\ accepted \in [Keys -> Nat]
  /\ confirmed \in [Keys -> 0..MaxRetries]
  /\ told \in [Bookings -> 0..MaxVersion]
  /\ caught \in BOOLEAN
  /\ retries \in 0..MaxRetries
  /\ faults \in 0..MaxFaults

\* No message is sent twice unless the owner, told that Gmail may already have
\* it, asks for that: not after a lost answer, not after a crash between
\* Gmail's acceptance and the UPDATE, not through a retry of a refusal.
NoAutomaticResend == \A k \in Keys : accepted[k] <= 1 + confirmed[k]

\* The customer is never told of an older state of the appointment after a
\* newer one: not by a declined message that waits for its next attempt, nor by
\* a retry of an uncertain one.
ToldInOrder == [][\A b \in Bookings : told'[b] >= told[b]]_vars

\* A reminder's first attempt waits for the hours chosen last.  Later attempts
\* keep their time: only a queued reminder is timed again, not one at Gmail, nor
\* one that failed.
InItsWindow(k) ==
  k[3] = "reminder" /\ mail[k].attempts = 1 => clock[mail[k].slot] >= settings.lead

\* What Gmail takes is what the appointment, its time and the preferences call
\* for at that moment, and a reminder is within the hours chosen last, however
\* often they were changed while it was queued; unless something changed while
\* the message was at Gmail ("a mutation after sending starts cannot retract",
\* notifications.go:241).
TrueWhenTaken ==
  [][\A k \in Keys :
       accepted'[k] > accepted[k] => caught \/ (Relevant(k) /\ InItsWindow(k))]_vars

\* "Turning automatic emails off skips pending automatic messages"
\* (docs/EMAIL_NOTIFICATIONS.md): nothing automatic is pending while they are
\* off.
OffLeavesNothing ==
  settings.enabled \/ \A k \in Keys \ {TestKey} : mail[k].status # "queued"

\* A message does not stay queued, nor on its way, for ever while Gmail is
\* connected: it is sent, or given up for a reason the owner can see.
Settles ==
  \A k \in Keys :
    /\ mail[k].status = "queued" ~> (mail[k].status # "queued" \/ ~Connected)
    /\ mail[k].status = "sending" ~> mail[k].status # "sending"
=============================================================================
