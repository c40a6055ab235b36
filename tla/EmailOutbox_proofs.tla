------------------------- MODULE EmailOutbox_proofs -------------------------
(***************************************************************************)
(* Theorems about EmailOutbox, for any appointments, times, kinds of       *)
(* message, preferences and bounds.                                        *)
(***************************************************************************)
EXTENDS EmailOutbox, TLAPS

-----------------------------------------------------------------------------
(* The invariant *)

AtGmail == {"send", "sent", "uncertain", "failed", "declined"}

\* A row that may be sent, or sent again, without asking the owner: Gmail has not
\* taken it since she last confirmed it.
Unsent == {"none", "queued", "failed"}

RowsInv ==
  \A k \in Keys :
    /\ accepted[k] <= 1 + confirmed[k]
    /\ mail[k].status \in Unsent => accepted[k] <= confirmed[k]

\* A queued row has an attempt less behind it than its bound.
CountsInv ==
  \A k \in Keys :
    /\ confirmed[k] <= retries
    /\ mail[k].status = "none" => mail[k].attempts = 0
    /\ mail[k].status = "queued" => mail[k].attempts <= MaxAttempts + retries
    /\ mail[k].attempts <= MaxAttempts + retries + 1

\* The message in the sender's hands is its own until the result is recorded, and
\* Gmail has not taken it but where the result says so.
JobInv ==
  /\ sender.at # "idle" => sender.job \in Keys
  /\ sender.at \in AtGmail => mail[sender.job].status = "sending"
  /\ sender.at \in {"send", "failed", "declined"} => accepted[sender.job] <= confirmed[sender.job]

\* A message about a version the appointment has not reached does not exist.
FreshInv ==
  \A k \in Keys \ {TestKey} :
    k[2] > booking[k[1]].version => mail[k].status = "none" /\ accepted[k] = 0

ToldInv ==
  /\ \A b \in Bookings : told[b] <= booking[b].version
  /\ sender.at = "send" /\ sender.job # TestKey => told[sender.job[1]] <= sender.job[2]

AtGmailInv == sender.at = "send" => caught \/ Relevant(sender.job)

EmailInv == TypeOK /\ RowsInv /\ CountsInv /\ JobInv /\ FreshInv /\ ToldInv /\ AtGmailInv

-----------------------------------------------------------------------------
(* Rows *)

LEMMA KeyParts ==
  /\ \A k \in Keys \ {TestKey} : k[1] \in Bookings /\ k[2] \in 1..MaxVersion /\ k[2] # 0
  /\ TestKey[1] = "test" /\ TestKey[2] = 0 /\ TestKey[3] = "test"
BY OutboxAssumption DEF Keys, TestKey

LEMMA RowKinds ==
  /\ AnySlot \in Slots
  /\ NoMail \in Mail /\ NoMail.status = "none" /\ NoMail.attempts = 0
  /\ Skipped \in Mail /\ Skipped.status = "skipped" /\ Skipped.attempts = 0
  /\ \A s \in Slots, at \in 0..2 :
       /\ QueuedMail(s, at) \in Mail
       /\ QueuedMail(s, at).status = "queued" /\ QueuedMail(s, at).attempts = 0
<1>1. AnySlot \in Slots
  BY OutboxAssumption DEF AnySlot
<1>2. 0 \in 0..(MaxAttempts + MaxRetries + 1) /\ 0 \in 0..2
  BY OutboxAssumption
<1>3. NoMail \in Mail /\ NoMail.status = "none" /\ NoMail.attempts = 0
  BY <1>1, <1>2 DEF NoMail, Mail, MailStatuses
<1>4. Skipped \in Mail /\ Skipped.status = "skipped" /\ Skipped.attempts = 0
  BY <1>3 DEF Skipped, Mail, MailStatuses
<1>5. \A s \in Slots, at \in 0..2 :
       /\ QueuedMail(s, at) \in Mail
       /\ QueuedMail(s, at).status = "queued" /\ QueuedMail(s, at).attempts = 0
  BY <1>2 DEF QueuedMail, NoMail, Mail, MailStatuses
<1> QED BY <1>1, <1>3, <1>4, <1>5

\* What a step that is not the sender's or a retry does to a row: it keeps its
\* place, is dropped while pending, is new, or is an attempt that lost its sender.
Turns(k) ==
  /\ mail'[k].attempts <= mail[k].attempts
  /\ \/ mail'[k].status = mail[k].status /\ mail'[k].slot = mail[k].slot
     \/ Pending(k) /\ mail'[k].status = "skipped"
     \/ mail[k].status = "none" /\ mail'[k].status = "queued"
     \/ sender.at = "idle" /\ mail[k].status = "sending" /\ mail'[k].status = "uncertain"

Quiet ==
  /\ mail' \in [Keys -> Mail] /\ \A k \in Keys : Turns(k)
  /\ UNCHANGED <<sender, accepted, confirmed, told, retries>>

LEMMA QuietStep ==
  ASSUME EmailInv, Quiet
  PROVE  RowsInv' /\ CountsInv' /\ JobInv'
<1>1. ASSUME NEW k \in Keys
      PROVE  /\ mail[k].attempts \in Nat /\ mail'[k].attempts \in Nat /\ mail[k].status \in MailStatuses
             /\ accepted[k] \in Nat /\ confirmed[k] \in Nat
  BY OutboxAssumption DEF EmailInv, TypeOK, Quiet, Mail
<1>2. retries \in Nat /\ MaxAttempts \in Nat
  BY OutboxAssumption DEF EmailInv, TypeOK
<1>3. RowsInv'
  BY <1>1 DEF EmailInv, RowsInv, Quiet, Turns, Pending, Unsent
<1>4. CountsInv'
  <2> SUFFICES ASSUME NEW k \in Keys
               PROVE  /\ confirmed[k] <= retries
                      /\ mail'[k].status = "none" => mail'[k].attempts = 0
                      /\ mail'[k].status = "queued" => mail'[k].attempts <= MaxAttempts + retries
                      /\ mail'[k].attempts <= MaxAttempts + retries + 1
    BY DEF CountsInv, Quiet
  <2>1. /\ confirmed[k] <= retries
        /\ mail[k].status = "queued" => mail[k].attempts <= MaxAttempts + retries
        /\ mail[k].attempts <= MaxAttempts + retries + 1
    BY DEF EmailInv, CountsInv
  <2>2. mail[k].status = "none" => mail[k].attempts = 0
    BY DEF EmailInv, CountsInv
  <2> QED BY <1>1, <1>2, <2>1, <2>2 DEF Quiet, Turns, Pending
<1>5. JobInv'
  BY <1>1 DEF EmailInv, JobInv, AtGmail, Quiet, Turns, Pending
<1> QED BY <1>3, <1>4, <1>5

-----------------------------------------------------------------------------
(* The steps that are not the sender's *)

LEMMA SettingsRow ==
  ASSUME EmailInv, NEW v \in Settings, NEW k \in Keys
  PROVE  /\ SettingsMail(v, k) \in Mail
         /\ SettingsMail(v, k).attempts <= mail[k].attempts
         /\ \/ SettingsMail(v, k).status = mail[k].status /\ SettingsMail(v, k).slot = mail[k].slot
            \/ Pending(k) /\ SettingsMail(v, k).status = "skipped"
<1>1. /\ mail[k] \in Mail /\ mail[k].attempts \in Nat /\ v.lead \in 0..2
      /\ Skipped \in Mail /\ Skipped.status = "skipped" /\ Skipped.attempts <= mail[k].attempts
  BY RowKinds, OutboxAssumption DEF EmailInv, TypeOK, Mail, Settings
<1>2. CASE SettingsMail(v, k) = mail[k]
  BY <1>1, <1>2
<1>3. CASE SettingsMail(v, k) = Skipped /\ Pending(k)
  BY <1>1, <1>3
<1>4. CASE SettingsMail(v, k) = [mail[k] EXCEPT !.at = v.lead, !.waiting = FALSE]
  <2> DEFINE r == mail[k]
             at == v.lead
  <2>1. SettingsMail(v, k) = [r EXCEPT !.at = at, !.waiting = FALSE]
    BY <1>4
  <2>2. r \in Mail /\ at \in 0..2
    BY <1>1
  <2> HIDE DEF r, at
  <2>3. LET t == SettingsMail(v, k) IN
          t \in Mail /\ t.status = r.status /\ t.slot = r.slot /\ t.attempts = r.attempts
    BY <2>1, <2>2 DEF Mail
  <2> QED BY <1>1, <2>3 DEF r
<1>5. \/ SettingsMail(v, k) = mail[k]
      \/ SettingsMail(v, k) = Skipped /\ Pending(k)
      \/ SettingsMail(v, k) = [mail[k] EXCEPT !.at = v.lead, !.waiting = FALSE]
  BY Zenon DEF SettingsMail, Pending
<1> QED BY <1>2, <1>3, <1>4, <1>5

\* A step that leaves the appointments alone, and sees what is at Gmail caught.
LEMMA QuietInv ==
  ASSUME EmailInv, Quiet, UNCHANGED booking, TypeOK',
         \A k \in Keys \ {TestKey} : mail[k].status = "none" => mail'[k].status = "none",
         \/ Catches
         \/ UNCHANGED <<settings, clock, caught>>
  PROVE  EmailInv'
<1>1. RowsInv' /\ CountsInv' /\ JobInv'
  BY QuietStep
<1>2. FreshInv'
  BY DEF FreshInv, EmailInv, Quiet
<1>3. ToldInv'
  BY DEF ToldInv, EmailInv, Quiet
<1>4. AtGmailInv'
  <2> SUFFICES ASSUME sender.at = "send" PROVE caught' \/ Relevant(sender.job)'
    BY DEF AtGmailInv, Quiet
  <2>1. CASE Catches
    BY <2>1 DEF Catches
  <2>2. CASE UNCHANGED <<settings, clock, caught>>
    <3>1. sender.job \in Keys /\ mail[sender.job].status = "sending" /\ sender.at # "idle"
      BY DEF EmailInv, JobInv, AtGmail
    <3>2. mail'[sender.job].slot = mail[sender.job].slot
      BY <3>1 DEF Quiet, Turns, Pending
    <3>3. caught \/ Relevant(sender.job)
      BY DEF EmailInv, AtGmailInv
    <3>4. Relevant(sender.job) => Relevant(sender.job)'
      BY <2>2, <3>2 DEF Relevant, StillTrue, Started, Quiet
    <3> QED BY <2>2, <3>3, <3>4
  <2> QED BY <2>1, <2>2
<1> QED BY <1>1, <1>2, <1>3, <1>4 DEF EmailInv

LEMMA ChangesRow ==
  ASSUME EmailInv, NEW b \in Bookings, NEW after \in Booking, NEW enroll \in BOOLEAN,
         Changes(b, after, enroll), NEW k \in Keys
  PROVE  \/ mail'[k] = mail[k]
         \/ mail'[k] = Skipped /\ Pending(k)
         \/ /\ k # TestKey /\ k[1] = b /\ k[2] = booking[b].version + 1
            /\ booking'[b].version = booking[b].version + 1
            /\ \E at \in 0..2 : mail'[k] = QueuedMail(after.slot, at)
<1> DEFINE before == booking[b]
           version == before.version + 1
           kind == MessageFor(before, after)
           joins == TakesPart(before, after, enroll)
           isNew == /\ joins /\ kind # "none"
                    /\ k[1] = b /\ k[2] = version
                    /\ k[3] = kind \/ (k[3] = "reminder" /\ Reminds(after))
<1>1. mail'[k] = IF isNew THEN QueuedMail(after.slot, IF k[3] = "reminder" THEN settings.lead ELSE 0)
                 ELSE IF k[1] = b /\ Pending(k) THEN Skipped
                 ELSE mail[k]
  BY Zenon DEF Changes
<1>2. booking' = [booking EXCEPT ![b] = [after EXCEPT !.version = IF joins THEN version ELSE @]]
  BY Zenon DEF Changes
<1>3. CASE isNew
  <2>1. booking'[b].version = version
    BY <1>2, <1>3 DEF EmailInv, TypeOK, Booking
  <2>2. version # 0
    BY DEF EmailInv, TypeOK, Booking
  <2>3. settings.lead \in 0..2 /\ 0 \in 0..2
    BY DEF EmailInv, TypeOK, Settings
  <2>4. \E at \in 0..2 : mail'[k] = QueuedMail(after.slot, at)
    BY <1>1, <1>3, <2>3
  <2> QED BY <1>3, <2>1, <2>2, <2>4, KeyParts
<1>4. CASE ~isNew
  <2> HIDE DEF isNew
  <2> QED BY <1>1, <1>4
<1> QED BY <1>3, <1>4

LEMMA ChangesInv ==
  ASSUME EmailInv, NEW b \in Bookings, NEW after \in Booking, NEW enroll \in BOOLEAN,
         after.version = booking[b].version, Changes(b, after, enroll)
  PROVE  EmailInv'
<1>1. \A k \in Keys : mail[k] \in Mail /\ mail[k].attempts \in Nat
  BY OutboxAssumption DEF EmailInv, TypeOK, Mail
<1>2. /\ booking' \in [Bookings -> Booking]
      /\ booking'[b].version \in {booking[b].version, booking[b].version + 1}
      /\ \A c \in Bookings \ {b} : booking'[c] = booking[c]
      /\ \A c \in Bookings : booking[c].version \in Nat /\ booking'[c].version \in Nat
  <2> DEFINE next == IF TakesPart(booking[b], after, enroll) THEN booking[b].version + 1 ELSE after.version
  <2>1. booking' = [booking EXCEPT ![b] = [after EXCEPT !.version = next]] /\ booking[b].version < MaxVersion
    BY Zenon DEF Changes
  <2>2. next \in {booking[b].version, booking[b].version + 1} /\ booking[b].version \in 0..MaxVersion
    BY DEF EmailInv, TypeOK, Booking
  <2>3. next \in 0..MaxVersion
    BY <2>1, <2>2, OutboxAssumption
  <2> HIDE DEF next
  <2>4. [after EXCEPT !.version = next] \in Booking /\ [after EXCEPT !.version = next].version = next
    BY <2>3 DEF Booking
  <2>5. booking \in [Bookings -> Booking]
    BY DEF EmailInv, TypeOK
  <2>6. booking' \in [Bookings -> Booking] /\ booking'[b].version = next
        /\ \A c \in Bookings \ {b} : booking'[c] = booking[c]
    BY <2>1, <2>4, <2>5
  <2> QED BY <2>2, <2>5, <2>6, OutboxAssumption DEF Booking
<1>3. ASSUME NEW k \in Keys
      PROVE  /\ mail'[k] \in Mail /\ Turns(k)
             /\ mail'[k].status = mail[k].status \/ Pending(k) \/ mail'[k].status = "queued"
  <2>1. CASE mail'[k] = mail[k]
    BY <1>1, <2>1 DEF Turns
  <2>2. CASE mail'[k] = Skipped /\ Pending(k)
    BY <1>1, <2>2, RowKinds DEF Turns
  <2>3. CASE /\ k # TestKey /\ k[1] = b /\ k[2] = booking[b].version + 1
             /\ \E at \in 0..2 : mail'[k] = QueuedMail(after.slot, at)
    <3>1. mail[k].status = "none"
      BY <1>2, <2>3 DEF EmailInv, FreshInv
    <3>2. PICK at \in 0..2 : mail'[k] = QueuedMail(after.slot, at)
      BY <2>3
    <3>3. after.slot \in Slots
      BY DEF Booking
    <3> QED BY <1>1, <3>1, <3>2, <3>3, RowKinds DEF Turns
  <2> QED BY <2>1, <2>2, <2>3, ChangesRow
<1>4. mail' \in [Keys -> Mail]
  <2>1. mail' = [k \in Keys |-> mail'[k]]
    BY Zenon DEF Changes
  <2> QED BY <1>3, <2>1
<1>5. UNCHANGED <<sender, accepted, confirmed, told, retries>> /\ Catches
  BY DEF Changes
<1>6. Quiet
  BY <1>3, <1>4, <1>5 DEF Quiet
<1>7. TypeOK'
  BY <1>2, <1>4 DEF Changes, Catches, EmailInv, TypeOK
<1>8. FreshInv'
  <2> SUFFICES ASSUME NEW k \in Keys \ {TestKey}, k[2] > booking'[k[1]].version
               PROVE  mail'[k].status = "none" /\ accepted'[k] = 0
    BY DEF FreshInv
  <2>1. k[1] \in Bookings /\ k[2] \in Nat
    BY KeyParts
  <2>2. k[2] > booking[k[1]].version
    BY <1>2, <2>1
  <2>3. mail[k].status = "none" /\ accepted[k] = 0
    BY <2>2 DEF EmailInv, FreshInv
  <2>4. mail'[k] = mail[k]
    <3>1. ~(k[1] = b /\ k[2] = booking[b].version + 1 /\ booking'[b].version = booking[b].version + 1)
      BY <1>2
    <3> QED BY <2>3, <3>1, ChangesRow DEF Pending
  <2> QED BY <1>5, <2>3, <2>4
<1>9. ToldInv'
  <2>1. \A c \in Bookings : told[c] \in Nat /\ booking[c].version <= booking'[c].version
    BY <1>2, OutboxAssumption DEF EmailInv, TypeOK
  <2> QED BY <1>2, <1>5, <2>1 DEF EmailInv, ToldInv
<1>10. AtGmailInv'
  BY <1>5 DEF AtGmailInv, Catches
<1> QED BY <1>6, <1>7, <1>8, <1>9, <1>10, QuietStep DEF EmailInv

LEMMA BookingInv == EmailInv /\ BookingNext => EmailInv'
<1> SUFFICES ASSUME EmailInv, NEW b \in Bookings,
                    \/ \E s \in Slots : Create(b, s) \/ ImportMove(b, s) \/ ImportMovesCancelled(b, s)
                    \/ \E st \in {"needs_followup", "confirmed", "cancelled"} : Patch(b, st)
                    \/ ImportRemoval(b)
                    \/ CalendarTurns(b)
             PROVE  EmailInv'
  BY DEF BookingNext
<1>0. booking[b] \in Booking
  BY DEF EmailInv, TypeOK
<1>1. ASSUME NEW s \in Slots, Create(b, s) PROVE EmailInv'
  <2> DEFINE after == [booking[b] EXCEPT !.status = "needs_followup", !.slot = s]
  <2>1. after \in Booking /\ after.version = booking[b].version
    BY <1>0 DEF Booking
  <2>2. Changes(b, after, TRUE)
    BY <1>1 DEF Create
  <2> QED BY <2>1, <2>2, ChangesInv
<1>2. ASSUME NEW s \in Slots, ImportMove(b, s) PROVE EmailInv'
  <2> DEFINE after == [booking[b] EXCEPT !.slot = s, !.synced = TRUE]
  <2>1. after \in Booking /\ after.version = booking[b].version
    BY <1>0 DEF Booking
  <2>2. Changes(b, after, FALSE)
    BY <1>2 DEF ImportMove
  <2> QED BY <2>1, <2>2, ChangesInv
<1>3. ASSUME NEW st \in {"needs_followup", "confirmed", "cancelled"}, Patch(b, st) PROVE EmailInv'
  <2> DEFINE after == [booking[b] EXCEPT !.status = st, !.synced = @ /\ st # "cancelled"]
  <2>1. after \in Booking /\ after.version = booking[b].version
    BY <1>0 DEF Booking
  <2>2. Changes(b, after, TRUE)
    BY <1>3 DEF Patch
  <2> QED BY <2>1, <2>2, ChangesInv
<1>4. CASE ImportRemoval(b)
  <2> DEFINE after == [booking[b] EXCEPT !.status = "cancelled", !.synced = TRUE]
  <2>1. after \in Booking /\ after.version = booking[b].version
    BY <1>0 DEF Booking
  <2>2. Changes(b, after, FALSE)
    BY <1>4 DEF ImportRemoval
  <2> QED BY <2>1, <2>2, ChangesInv
<1>5. CASE CalendarTurns(b)
  <2>1. \E y \in BOOLEAN : booking' = [booking EXCEPT ![b] = [booking[b] EXCEPT !.synced = y]]
    BY <1>0, <1>5 DEF CalendarTurns, Booking
  <2>2. /\ booking' \in [Bookings -> Booking]
        /\ \A c \in Bookings : /\ booking'[c].version = booking[c].version
                               /\ booking'[c].slot = booking[c].slot
                               /\ booking'[c].status = booking[c].status
    BY <2>1 DEF EmailInv, TypeOK, Booking
  <2>3. UNCHANGED <<clock, settings, asked, grant, mail, sender, accepted, confirmed, told, caught, retries, faults>>
    BY <1>5 DEF CalendarTurns
  <2>4. TypeOK' /\ RowsInv' /\ CountsInv' /\ JobInv'
    BY <2>2, <2>3 DEF EmailInv, TypeOK, RowsInv, CountsInv, JobInv
  <2>5. FreshInv' /\ ToldInv'
    BY <2>2, <2>3, KeyParts DEF EmailInv, FreshInv, ToldInv
  <2>6. AtGmailInv'
    <3> SUFFICES ASSUME sender.at = "send" PROVE caught \/ Relevant(sender.job)'
      BY <2>3 DEF AtGmailInv
    <3>1. caught \/ Relevant(sender.job)
      BY DEF EmailInv, AtGmailInv
    <3>2. sender.job \in Keys
      BY DEF EmailInv, JobInv
    <3>3. CASE sender.job = TestKey
      BY <3>3, <2>3 DEF Relevant
    <3>4. CASE sender.job # TestKey
      <4>1. sender.job[1] \in Bookings
        BY <3>2, <3>4, KeyParts
      <4> QED BY <2>2, <2>3, <3>1, <4>1 DEF Relevant, StillTrue, Started
    <3> QED BY <3>3, <3>4
  <2> QED BY <2>4, <2>5, <2>6 DEF EmailInv
<1>6. ASSUME NEW s \in Slots, ImportMovesCancelled(b, s) PROVE EmailInv'
  <2>1. [booking[b] EXCEPT !.slot = s, !.synced = FALSE] \in Booking
        /\ [booking[b] EXCEPT !.slot = s, !.synced = FALSE].version = booking[b].version
    BY <1>0 DEF Booking
  <2>2. booking' = [booking EXCEPT ![b] = [booking[b] EXCEPT !.slot = s, !.synced = FALSE]]
    BY <1>0, <1>6 DEF ImportMovesCancelled, Booking
  <2>3. /\ booking' \in [Bookings -> Booking]
        /\ \A c \in Bookings : booking'[c].version = booking[c].version
    BY <2>1, <2>2 DEF EmailInv, TypeOK
  <2>4. UNCHANGED <<clock, settings, asked, grant, mail, sender, accepted, confirmed, told, retries, faults>> /\ Catches
    BY <1>6 DEF ImportMovesCancelled
  <2>5. TypeOK' /\ RowsInv' /\ CountsInv' /\ JobInv'
    BY <2>3, <2>4 DEF EmailInv, TypeOK, RowsInv, CountsInv, JobInv, Catches
  <2>6. FreshInv' /\ ToldInv'
    BY <2>3, <2>4, KeyParts DEF EmailInv, FreshInv, ToldInv
  <2>7. AtGmailInv'
    BY <2>4 DEF AtGmailInv, Catches
  <2> QED BY <2>5, <2>6, <2>7 DEF EmailInv
<1> QED BY <1>1, <1>2, <1>3, <1>4, <1>5, <1>6

LEMMA Unmoved ==
  ASSUME EmailInv, NEW k \in Keys, mail'[k] = mail[k]
  PROVE  Turns(k)
<1>1. mail[k].attempts \in Nat
  BY OutboxAssumption DEF EmailInv, TypeOK, Mail
<1> QED BY <1>1 DEF Turns

LEMMA SettingsInv ==
  ASSUME EmailInv, NEW v \in Settings,
         settings' = v, mail' = [k \in Keys |-> SettingsMail(v, k)], Catches,
         asked' \in Settings, grant' \in BOOLEAN,
         UNCHANGED <<booking, clock, sender, accepted, confirmed, told, retries, faults>>
  PROVE  EmailInv'
<1>1. mail' \in [Keys -> Mail] /\ \A k \in Keys : Turns(k)
  BY SettingsRow DEF Turns
<1>2. \A k \in Keys : mail[k].status = "none" => mail'[k].status = "none"
  BY SettingsRow DEF Pending
<1>3. TypeOK' /\ Quiet
  BY <1>1 DEF EmailInv, TypeOK, Quiet, Catches
<1> QED BY <1>2, <1>3, QuietInv

LEMMA OwnerInv ==
  ASSUME EmailInv,
         (\E v \in Preferences : AsksFor(v) \/ SaveSettings(v)) \/ SendTest \/ MailConnect \/ MailDisconnect
  PROVE  EmailInv'
<1>1. ASSUME UNCHANGED <<booking, clock, settings, mail, sender, accepted, confirmed, told, caught, retries, faults>>,
             asked' \in Settings, grant' \in BOOLEAN
      PROVE  EmailInv'
  <2>1. Quiet /\ TypeOK'
    BY <1>1, Unmoved DEF Quiet, EmailInv, TypeOK
  <2> QED BY <1>1, <2>1, QuietInv
<1>2. ASSUME NEW v \in Preferences, AsksFor(v) PROVE EmailInv'
  BY <1>1, <1>2, OutboxAssumption DEF AsksFor, EmailInv, TypeOK
<1>3. CASE MailConnect
  BY <1>1, <1>3 DEF MailConnect, EmailInv, TypeOK
<1>4. ASSUME NEW v \in Preferences, SaveSettings(v) PROVE EmailInv'
  <2>1. asked' \in Settings /\ grant' \in BOOLEAN
    BY <1>4 DEF SaveSettings, EmailInv, TypeOK, NoSettings, Settings
  <2> QED BY <1>4, <2>1, SettingsInv, OutboxAssumption DEF SaveSettings
<1>5. CASE MailDisconnect
  <2> DEFINE off == [settings EXCEPT !.enabled = FALSE]
  <2>1. off \in Settings /\ asked' \in Settings /\ grant' \in BOOLEAN
    BY <1>5 DEF MailDisconnect, EmailInv, TypeOK, Settings
  <2>2. settings' = off /\ mail' = [k \in Keys |-> SettingsMail(off, k)]
    BY <1>5 DEF MailDisconnect
  <2> HIDE DEF off
  <2> QED BY <1>5, <2>1, <2>2, SettingsInv DEF MailDisconnect
<1>6. CASE SendTest
  <2>1. 0 \in 0..2 /\ AnySlot \in Slots
    BY RowKinds
  <2>2. /\ TestKey \in Keys /\ mail[TestKey].status = "none"
        /\ mail' = [mail EXCEPT ![TestKey] = QueuedMail(AnySlot, 0)]
        /\ UNCHANGED <<booking, clock, settings, asked, grant, sender, accepted, confirmed, told, caught, retries, faults>>
    BY <1>6 DEF SendTest
  <2>3. mail \in [Keys -> Mail] /\ QueuedMail(AnySlot, 0) \in Mail
    BY <2>1, RowKinds DEF EmailInv, TypeOK
  <2>4. mail' \in [Keys -> Mail] /\ \A k \in Keys \ {TestKey} : mail'[k] = mail[k]
    BY <2>2, <2>3
  <2>5. Turns(TestKey)
    <3>1. mail'[TestKey].status = "queued" /\ mail'[TestKey].attempts = 0
      BY <2>1, <2>2, <2>3, RowKinds
    <3>2. mail[TestKey].attempts \in Nat
      BY <2>2, <2>3, OutboxAssumption DEF Mail
    <3> QED BY <2>2, <3>1, <3>2 DEF Turns
  <2>6. Quiet /\ TypeOK'
    BY <2>2, <2>4, <2>5, Unmoved DEF Quiet, EmailInv, TypeOK
  <2> QED BY <2>2, <2>4, <2>6, QuietInv
<1> QED BY <1>2, <1>3, <1>4, <1>5, <1>6

LEMMA TimeInv == EmailInv /\ TimeNext => EmailInv'
<1> SUFFICES ASSUME EmailInv, TimeNext PROVE EmailInv'
  OBVIOUS
<1>1. ASSUME NEW s \in Slots, TimePasses(s) PROVE EmailInv'
  <2>1. clock' \in [Slots -> 0..3]
    BY <1>1 DEF TimePasses, EmailInv, TypeOK
  <2>2. TypeOK' /\ Quiet
    BY <1>1, <2>1, Unmoved DEF TimePasses, Catches, EmailInv, TypeOK, Quiet
  <2> QED BY <1>1, <2>2, QuietInv DEF TimePasses
<1>2. ASSUME NEW k \in Keys, WaitEnds(k) PROVE EmailInv'
  <2>1. [mail[k] EXCEPT !.waiting = FALSE] \in Mail
    BY DEF EmailInv, TypeOK, Mail
  <2>2. mail' \in [Keys -> Mail] /\ \A j \in Keys \ {k} : mail'[j] = mail[j]
    BY <1>2, <2>1 DEF WaitEnds, EmailInv, TypeOK
  <2>3. mail'[k].status = mail[k].status /\ Turns(k)
    BY <1>2, <2>1, OutboxAssumption DEF WaitEnds, EmailInv, TypeOK, Turns, Mail
  <2>4. TypeOK' /\ Quiet
    BY <1>2, <2>2, <2>3, Unmoved DEF WaitEnds, EmailInv, TypeOK, Quiet
  <2> QED BY <1>2, <2>2, <2>3, <2>4, QuietInv DEF WaitEnds
<1> QED BY <1>1, <1>2 DEF TimeNext

LEMMA LeaseInv == ASSUME EmailInv, NEW k \in Keys, LeaseEnds(k) PROVE EmailInv'
<1>1. [mail[k] EXCEPT !.status = "uncertain"] \in Mail
  BY DEF EmailInv, TypeOK, Mail, MailStatuses
<1>2. mail' \in [Keys -> Mail] /\ \A j \in Keys \ {k} : mail'[j] = mail[j]
  BY <1>1 DEF LeaseEnds, EmailInv, TypeOK
<1>3. Turns(k)
  BY <1>1, OutboxAssumption DEF LeaseEnds, EmailInv, TypeOK, Turns, Mail
<1>4. TypeOK' /\ Quiet
  BY <1>2, <1>3, Unmoved DEF LeaseEnds, EmailInv, TypeOK, Quiet
<1>5. \A j \in Keys : mail[j].status = "none" => mail'[j].status = "none"
  BY <1>2 DEF LeaseEnds
<1> QED BY <1>4, <1>5, QuietInv DEF LeaseEnds

\* Gmail has taken a failed message no oftener than she confirmed, and an
\* uncertain one once more at most: the confirmation makes up for it.
LEMMA RetryInv == ASSUME EmailInv, NEW k \in Keys, Retry(k) PROVE EmailInv'
<1>1. /\ mail \in [Keys -> Mail] /\ mail[k].status \in {"failed", "uncertain"}
      /\ retries \in 0..MaxRetries /\ retries < MaxRetries /\ retries' = retries + 1
      /\ confirmed \in [Keys -> 0..MaxRetries] /\ accepted \in [Keys -> Nat]
      /\ UNCHANGED <<booking, clock, settings, asked, grant, sender, accepted, told, caught, faults>>
  BY DEF Retry, EmailInv, TypeOK
<1>2. /\ mail' \in [Keys -> Mail] /\ \A j \in Keys \ {k} : mail'[j] = mail[j]
      /\ mail'[k].status = "queued" /\ mail'[k].slot = mail[k].slot /\ mail'[k].attempts = mail[k].attempts
  <2> DEFINE row == [mail[k] EXCEPT !.status = "queued", !.waiting = FALSE]
  <2>1. /\ row \in Mail /\ row.status = "queued"
        /\ row.slot = mail[k].slot /\ row.attempts = mail[k].attempts
    BY <1>1 DEF Mail, MailStatuses
  <2>2. mail' = [mail EXCEPT ![k] = row]
    BY <1>1 DEF Retry, Mail
  <2> HIDE DEF row
  <2> QED BY <1>1, <2>1, <2>2
<1>3. /\ \A j \in Keys \ {k} : confirmed'[j] = confirmed[j]
      /\ confirmed'[k] = IF mail[k].status = "uncertain" THEN confirmed[k] + 1 ELSE confirmed[k]
      /\ confirmed' \in [Keys -> Nat]
  BY <1>1, OutboxAssumption DEF Retry
<1>4. MaxAttempts \in Nat /\ MaxRetries \in Nat /\ \A j \in Keys : mail[j].attempts \in Nat
  BY <1>1, OutboxAssumption DEF Mail
<1>5. CountsInv'
  <2>1. \A j \in Keys \ {k} : mail'[j] = mail[j] /\ confirmed'[j] = confirmed[j] /\ confirmed[j] \in Nat
    BY <1>1, <1>2, <1>3, OutboxAssumption
  <2>2. confirmed[k] \in Nat /\ confirmed[k] <= retries /\ mail[k].attempts <= MaxAttempts + retries + 1
    BY <1>1, <1>4 DEF EmailInv, CountsInv
  <2>3. confirmed'[k] <= retries' /\ mail'[k].status = "queued" /\ mail'[k].attempts <= MaxAttempts + retries'
    BY <1>1, <1>2, <1>3, <1>4, <2>2
  <2>4. mail'[k].attempts <= MaxAttempts + retries' + 1
    BY <1>1, <1>2, <1>4, <2>3
  <2>5. ASSUME NEW j \in Keys \ {k}
        PROVE  /\ confirmed'[j] <= retries'
               /\ mail'[j].status = "none" => mail'[j].attempts = 0
               /\ mail'[j].status = "queued" => mail'[j].attempts <= MaxAttempts + retries'
               /\ mail'[j].attempts <= MaxAttempts + retries' + 1
    BY <1>1, <1>4, <2>1 DEF EmailInv, CountsInv
  <2> QED BY <2>3, <2>4, <2>5 DEF CountsInv
<1>6. TypeOK'
  <2>1. confirmed' \in [Keys -> 0..MaxRetries]
    <3>1. \A j \in Keys : confirmed'[j] \in Nat /\ confirmed'[j] <= retries'
      BY <1>3, <1>5 DEF CountsInv
    <3>2. \A j \in Keys : confirmed'[j] \in 0..MaxRetries
      BY <1>1, <1>4, <3>1
    <3> QED BY <1>3, <3>2
  <2>2. retries' \in 0..MaxRetries
    BY <1>1, <1>4
  <2> QED BY <1>1, <1>2, <2>1, <2>2 DEF EmailInv, TypeOK
<1>7. RowsInv'
  <2>1. /\ accepted[k] \in Nat /\ confirmed[k] \in Nat
        /\ accepted[k] <= 1 + confirmed[k]
        /\ mail[k].status = "failed" => accepted[k] <= confirmed[k]
    BY <1>1, OutboxAssumption DEF EmailInv, RowsInv, Unsent
  <2>2. accepted'[k] <= confirmed'[k] /\ accepted'[k] <= 1 + confirmed'[k]
    BY <1>1, <1>3, <2>1
  <2> QED BY <1>1, <1>2, <1>3, <2>2 DEF EmailInv, RowsInv
<1>8. sender.at \in AtGmail => sender.job # k
  BY <1>1 DEF EmailInv, JobInv
<1>9. JobInv'
  <2>1. sender.at \in {"send", "failed", "declined"} => sender.at \in AtGmail /\ sender.at # "idle"
    BY DEF AtGmail
  <2>2. sender.at \in AtGmail => sender.at # "idle"
    BY DEF AtGmail
  <2> QED BY <1>1, <1>2, <1>3, <1>8, <2>1, <2>2 DEF EmailInv, JobInv
<1>10. FreshInv'
  BY <1>1, <1>2 DEF EmailInv, FreshInv
<1>11. ToldInv'
  BY <1>1 DEF EmailInv, ToldInv
<1>12. AtGmailInv'
  <2> SUFFICES ASSUME sender.at = "send" PROVE caught \/ Relevant(sender.job)'
    BY <1>1 DEF AtGmailInv
  <2>1. mail'[sender.job] = mail[sender.job]
    BY <1>2, <1>8 DEF EmailInv, JobInv, AtGmail
  <2>2. caught \/ Relevant(sender.job)
    BY DEF EmailInv, AtGmailInv
  <2> QED BY <1>1, <2>1, <2>2 DEF Relevant, StillTrue, Started
<1> QED BY <1>5, <1>6, <1>7, <1>9, <1>10, <1>11, <1>12 DEF EmailInv

-----------------------------------------------------------------------------
(* The sender's steps *)

\* Its rows and histories are of their types, and what it holds is a key.
LEMMA SenderParts ==
  ASSUME EmailInv
  PROVE  /\ mail \in [Keys -> Mail] /\ accepted \in [Keys -> Nat] /\ confirmed \in [Keys -> Nat]
         /\ \A k \in Keys : mail[k].attempts \in Nat
         /\ sender \in [at : SenderStates, job : Keys \cup {NoJob}]
         /\ sender.at # "idle" => sender.job \in Keys
         /\ \A at \in SenderStates \ {"idle"} : Goes(at) => sender'.at = at /\ sender'.job = sender.job
         /\ Goes("idle") => sender'.at = "idle" /\ sender'.job = NoJob
         /\ \A at \in SenderStates : Goes(at) => sender' \in [at : SenderStates, job : Keys \cup {NoJob}]
BY OutboxAssumption DEF EmailInv, TypeOK, JobInv, Goes, SenderStates, Mail

\* The sender lets go of a row, which is as it was, dropped or put off.
LEMMA LetsGo ==
  ASSUME EmailInv, Goes("idle"), NEW k \in Keys, NEW row \in Mail,
         mail' = [mail EXCEPT ![k] = row], row.attempts <= mail[k].attempts,
         mail[k].status # "none",
         \/ row.status = mail[k].status \/ row.status = "skipped",
         UNCHANGED <<booking, clock, settings, asked, grant, accepted, confirmed, told, retries, faults>>,
         caught' \in BOOLEAN
  PROVE  EmailInv'
<1>1. /\ mail' \in [Keys -> Mail] /\ mail'[k] = row /\ \A j \in Keys \ {k} : mail'[j] = mail[j]
      /\ sender'.at = "idle" /\ sender' \in [at : SenderStates, job : Keys \cup {NoJob}]
  BY SenderParts DEF SenderStates
<1>2. TypeOK'
  BY <1>1 DEF EmailInv, TypeOK
<1>3. RowsInv'
  BY <1>1 DEF EmailInv, RowsInv, Unsent
<1>4. CountsInv'
  <2>1. row.attempts \in Nat /\ mail[k].attempts \in Nat /\ retries \in Nat /\ MaxAttempts \in Nat
    BY OutboxAssumption DEF EmailInv, TypeOK, Mail
  <2>2. /\ row.attempts <= MaxAttempts + retries + 1
        /\ row.status = "queued" => row.attempts <= MaxAttempts + retries
        /\ row.status # "none"
    BY <2>1 DEF EmailInv, CountsInv
  <2> QED BY <1>1, <2>2 DEF EmailInv, CountsInv
<1>5. JobInv' /\ AtGmailInv' /\ ToldInv'
  BY <1>1 DEF EmailInv, JobInv, AtGmail, AtGmailInv, ToldInv
<1>6. FreshInv'
  BY <1>1 DEF EmailInv, FreshInv
<1> QED BY <1>2, <1>3, <1>4, <1>5, <1>6 DEF EmailInv

LEMMA PutOff ==
  ASSUME EmailInv, NEW k \in Keys
  PROVE  /\ Waits(k) = [mail EXCEPT ![k] = [mail[k] EXCEPT !.waiting = TRUE]]
         /\ [mail[k] EXCEPT !.waiting = TRUE] \in Mail
         /\ [mail[k] EXCEPT !.waiting = TRUE].status = mail[k].status
         /\ [mail[k] EXCEPT !.waiting = TRUE].attempts = mail[k].attempts
BY SenderParts DEF Waits, Mail

\* The sender moves, and leaves the rows alone.
LEMMA HandsInv ==
  ASSUME EmailInv, sender' \in [at : SenderStates, job : Keys \cup {NoJob}],
         sender'.at # "idle" => sender'.job \in Keys,
         sender'.at # "send",
         \/ sender'.at \in {"idle", "picked"}
         \/ /\ sender'.job = sender.job /\ sender.at = "send",
         UNCHANGED <<booking, clock, settings, asked, mail, accepted, confirmed, told, retries>>,
         grant' \in BOOLEAN, caught' \in BOOLEAN, faults' \in 0..MaxFaults
  PROVE  EmailInv'
<1>1. TypeOK'
  BY DEF EmailInv, TypeOK
<1>2. RowsInv' /\ CountsInv' /\ FreshInv'
  BY DEF EmailInv, RowsInv, CountsInv, FreshInv
<1>3. JobInv' /\ AtGmailInv' /\ ToldInv'
  BY DEF EmailInv, JobInv, AtGmail, AtGmailInv, ToldInv
<1> QED BY <1>1, <1>2, <1>3 DEF EmailInv

LEMMA PicksInv ==
  ASSUME EmailInv
  PROVE  /\ (\E k \in Keys : Picks(k)) => EmailInv'
         /\ Crash => EmailInv'
         /\ Declines => EmailInv'
<1>1. ASSUME NEW k \in Keys, Picks(k) PROVE EmailInv'
  BY <1>1, HandsInv DEF Picks, EmailInv, TypeOK, SenderStates
<1>2. CASE Crash
  <2>1. faults' \in 0..MaxFaults
    BY <1>2, OutboxAssumption DEF Crash, EmailInv, TypeOK
  <2> QED BY <1>2, <2>1, SenderParts, HandsInv DEF Crash, EmailInv, TypeOK, SenderStates
<1>3. CASE Declines
  <2>1. /\ sender.at = "send" /\ sender.job \in Keys
        /\ \E at \in {"uncertain", "declined", "failed"} : Goes(at)
        /\ grant' \in BOOLEAN
    BY <1>3, SenderParts DEF Declines, EmailInv, TypeOK
  <2> QED BY <1>3, <2>1, SenderParts, HandsInv DEF Declines, SenderStates, EmailInv, TypeOK
<1> QED BY <1>1, <1>2, <1>3

\* A pass that ends without calling Gmail.
LEMMA Untouched ==
  ASSUME EmailInv, Goes("idle"),
         UNCHANGED <<booking, clock, settings, asked, grant, mail, accepted, confirmed, told, caught, retries, faults>>
  PROVE  EmailInv'
<1>1. sender' \in [at : SenderStates, job : Keys \cup {NoJob}] /\ sender'.at = "idle"
  BY SenderParts DEF SenderStates
<1> QED BY <1>1, HandsInv DEF EmailInv, TypeOK

LEMMA PostponesInv == ASSUME EmailInv, Postpones PROVE EmailInv'
<1>1. sender.job \in Keys
  BY SenderParts DEF Postpones
<1>2. CASE mail[sender.job].status = "queued"
  <2>1. mail' = [mail EXCEPT ![sender.job] = [mail[sender.job] EXCEPT !.waiting = TRUE]]
    BY <1>1, <1>2, PutOff DEF Postpones
  <2>2. mail[sender.job].attempts <= mail[sender.job].attempts
    BY <1>1, SenderParts
  <2>3. caught' \in BOOLEAN
    BY DEF Postpones, EmailInv, TypeOK
  <2> QED BY <1>1, <1>2, <2>1, <2>2, <2>3, PutOff, LetsGo DEF Postpones
<1>3. CASE mail[sender.job].status # "queued"
  BY <1>3, Untouched DEF Postpones
<1> QED BY <1>2, <1>3

\* A message goes to Gmail: it is queued and so not taken beyond what she
\* confirmed, it is about the version of this moment, and it is relevant.
LEMMA GoesToGmail ==
  ASSUME EmailInv, sender.at = "picked", Due(sender.job), Relevant(sender.job), Goes("send"),
         mail' = [mail EXCEPT ![sender.job].status = "sending", ![sender.job].attempts = @ + 1],
         UNCHANGED <<booking, clock, settings, asked, grant, accepted, confirmed, told, caught, retries, faults>>
  PROVE  EmailInv'
<1> DEFINE k == sender.job
           row == [mail[k] EXCEPT !.status = "sending", !.attempts = @ + 1]
<1>1. k \in Keys /\ mail[k].status = "queued"
  BY SenderParts DEF Due
<1>2. /\ mail[k].attempts \in Nat /\ retries \in 0..MaxRetries /\ MaxAttempts \in Nat /\ MaxRetries \in Nat
      /\ mail[k].attempts <= MaxAttempts + retries
  BY <1>1, SenderParts, OutboxAssumption DEF EmailInv, TypeOK, CountsInv
<1>3. mail[k].attempts + 1 \in 0..(MaxAttempts + MaxRetries + 1)
  BY <1>2
<1>4. /\ row \in Mail /\ row.status = "sending" /\ row.slot = mail[k].slot
      /\ row.attempts = mail[k].attempts + 1
  BY <1>1, <1>3, SenderParts DEF Mail, MailStatuses
<1>5. mail' = [mail EXCEPT ![k] = row]
  BY <1>1, SenderParts DEF Mail
<1> HIDE DEF row
<1>6. /\ mail' \in [Keys -> Mail] /\ mail'[k] = row /\ \A j \in Keys \ {k} : mail'[j] = mail[j]
      /\ sender'.at = "send" /\ sender'.job = k /\ sender' \in [at : SenderStates, job : Keys \cup {NoJob}]
  BY <1>1, <1>4, <1>5, SenderParts DEF SenderStates
<1>7. TypeOK'
  BY <1>6 DEF EmailInv, TypeOK
<1>8. RowsInv'
  BY <1>4, <1>6 DEF EmailInv, RowsInv, Unsent
<1>9. CountsInv'
  BY <1>1, <1>2, <1>4, <1>6 DEF EmailInv, CountsInv
<1>10. JobInv'
  BY <1>1, <1>4, <1>6 DEF EmailInv, RowsInv, Unsent, JobInv
<1>11. k # TestKey => k[1] \in Bookings /\ k[2] = booking[k[1]].version /\ booking[k[1]].version \in Nat
  BY <1>1, KeyParts, OutboxAssumption DEF Relevant, EmailInv, TypeOK, Booking
<1>12. FreshInv'
  BY <1>1, <1>6, <1>11 DEF EmailInv, FreshInv
<1>13. ToldInv'
  BY <1>6, <1>11 DEF EmailInv, ToldInv
<1>14. AtGmailInv'
  BY <1>1, <1>4, <1>6 DEF AtGmailInv, Relevant, StillTrue, Started
<1> QED BY <1>7, <1>8, <1>9, <1>10, <1>12, <1>13, <1>14 DEF EmailInv

LEMMA MarksInv == ASSUME EmailInv, Marks PROVE EmailInv'
<1> DEFINE k == sender.job
<1>1. k \in Keys /\ mail[k] \in Mail /\ mail[k].attempts \in Nat
  BY SenderParts DEF Marks
<1>2. CASE ~Due(k) /\ Goes("idle") /\ UNCHANGED mail
  BY <1>2, Untouched DEF Marks
<1>3. CASE Due(k) /\ Goes("idle") /\ mail' = [mail EXCEPT ![k] = Skipped]
  <2>1. /\ Skipped \in Mail /\ Skipped.status = "skipped" /\ Skipped.attempts <= mail[k].attempts
        /\ mail[k].status # "none" /\ caught' \in BOOLEAN
    BY <1>1, <1>3, RowKinds DEF Marks, Due, EmailInv, TypeOK
  <2> QED BY <1>1, <1>3, <2>1, LetsGo DEF Marks
<1>4. CASE Due(k) /\ Goes("idle") /\ mail' = Waits(k)
  <2>1. mail' = [mail EXCEPT ![k] = [mail[k] EXCEPT !.waiting = TRUE]]
    BY <1>1, <1>4, PutOff
  <2>2. mail[k].attempts <= mail[k].attempts /\ mail[k].status # "none" /\ caught' \in BOOLEAN
    BY <1>1, <1>4 DEF Marks, Due, EmailInv, TypeOK
  <2> QED BY <1>1, <1>4, <2>1, <2>2, PutOff, LetsGo DEF Marks
<1>5. CASE /\ Due(k) /\ Relevant(k) /\ Goes("send")
           /\ mail' = [mail EXCEPT ![k].status = "sending", ![k].attempts = @ + 1]
  BY <1>5, GoesToGmail DEF Marks
<1> QED BY <1>2, <1>3, <1>4, <1>5 DEF Marks

LEMMA AcceptsInv == ASSUME EmailInv, Accepts PROVE EmailInv'
<1> DEFINE k == sender.job
<1>1. /\ k \in Keys /\ mail[k].status = "sending" /\ accepted[k] <= confirmed[k]
      /\ sender.at = "send" /\ sender'.job = k /\ sender'.at \in {"sent", "uncertain"}
      /\ sender' \in [at : SenderStates, job : Keys \cup {NoJob}]
  BY SenderParts DEF Accepts, EmailInv, JobInv, AtGmail, SenderStates
<1>2. /\ accepted \in [Keys -> Nat] /\ confirmed \in [Keys -> Nat]
      /\ accepted' = [accepted EXCEPT ![k] = @ + 1] /\ caught' = FALSE
      /\ UNCHANGED <<booking, clock, settings, asked, grant, mail, confirmed, retries, faults>>
  BY SenderParts DEF Accepts
<1>3. k # TestKey => k[1] \in Bookings /\ k[2] \in 1..MaxVersion /\ k[2] <= booking[k[1]].version
  <2> SUFFICES ASSUME k # TestKey PROVE k[1] \in Bookings /\ k[2] \in 1..MaxVersion /\ k[2] <= booking[k[1]].version
    OBVIOUS
  <2>1. k[1] \in Bookings /\ k[2] \in 1..MaxVersion
    BY <1>1, KeyParts
  <2>2. booking[k[1]].version \in 0..MaxVersion
    BY <2>1 DEF EmailInv, TypeOK, Booking
  <2>3. ~(k[2] > booking[k[1]].version)
    BY <1>1 DEF EmailInv, FreshInv
  <2> QED BY <2>1, <2>2, <2>3, OutboxAssumption
<1>4. /\ told' \in [Bookings -> 0..MaxVersion]
      /\ \A b \in Bookings : told'[b] = told[b] \/ (k # TestKey /\ b = k[1] /\ told'[b] = k[2])
  <2>1. told \in [Bookings -> 0..MaxVersion]
    BY DEF EmailInv, TypeOK
  <2>2. CASE k = TestKey
    BY <2>1, <2>2 DEF Accepts
  <2>3. CASE k # TestKey
    <3>1. told' = [told EXCEPT ![k[1]] = k[2]]
      BY <2>3 DEF Accepts
    <3>2. k[2] \in 0..MaxVersion
      BY <1>3, <2>3, OutboxAssumption
    <3> QED BY <1>3, <2>1, <2>3, <3>1, <3>2
  <2> QED BY <2>2, <2>3
<1>5. TypeOK'
  <2>1. accepted[k] + 1 \in Nat
    BY <1>1, <1>2
  <2>2. accepted' \in [Keys -> Nat]
    BY <1>1, <1>2, <2>1
  <2>3. caught' \in BOOLEAN
    BY Zenon DEF Accepts
  <2> QED BY <1>1, <1>2, <1>4, <2>2, <2>3 DEF EmailInv, TypeOK
<1>6. RowsInv'
  <2>1. accepted'[k] <= 1 + confirmed[k] /\ mail[k].status \notin Unsent
    BY <1>1, <1>2 DEF Unsent
  <2> QED BY <1>1, <1>2, <2>1 DEF EmailInv, RowsInv
<1>7. CountsInv'
  BY <1>2 DEF EmailInv, CountsInv
<1>8. JobInv' /\ AtGmailInv'
  BY <1>1, <1>2 DEF JobInv, AtGmailInv
<1>9. FreshInv'
  BY <1>1, <1>2 DEF EmailInv, FreshInv
<1>10. ToldInv'
  BY <1>1, <1>2, <1>3, <1>4 DEF EmailInv, ToldInv
<1> QED BY <1>5, <1>6, <1>7, <1>8, <1>9, <1>10 DEF EmailInv

\* The result reaches the row: what is not sent and not in doubt was not taken,
\* and is queued again only below the limit of attempts.
LEMMA RecordsInv == ASSUME EmailInv, Records PROVE EmailInv'
<1> DEFINE k == sender.job
           again == sender.at = "declined" /\ mail[k].attempts - 1 < MaxAttempts
           result == IF again THEN "queued" ELSE IF sender.at = "declined" THEN "failed" ELSE sender.at
           put == [mail[k] EXCEPT !.status = result, !.waiting = again]
           done == [NoMail EXCEPT !.status = "sent"]
<1>1. /\ k \in Keys /\ mail[k] \in Mail /\ mail[k].status = "sending"
      /\ sender.at \in {"sent", "uncertain", "failed", "declined"}
      /\ sender.at \in {"failed", "declined"} => accepted[k] <= confirmed[k]
  BY SenderParts DEF Records, EmailInv, JobInv, AtGmail
<1>2. /\ Goes("idle")
      /\ UNCHANGED <<booking, clock, settings, asked, grant, accepted, confirmed, told, caught, retries, faults>>
  BY DEF Records
<1>3. mail' = CASE mail[k].status # "sending" -> mail
                [] result = "sent" -> [mail EXCEPT ![k] = done]
                [] OTHER -> [mail EXCEPT ![k].status = result, ![k].waiting = again]
  BY Zenon DEF Records
<1>4. result \in {"queued", "failed", "uncertain", "sent"}
  BY <1>1
<1>5. again \in BOOLEAN
  OBVIOUS
<1>6. /\ result \in {"queued", "failed"} => accepted[k] <= confirmed[k]
      /\ result = "queued" => mail[k].attempts - 1 < MaxAttempts
  BY <1>1
<1> HIDE DEF again, result
<1>7. done \in Mail /\ done.status = "sent" /\ done.attempts = 0
  BY RowKinds DEF Mail, MailStatuses
<1>8. put \in Mail /\ put.status = result /\ put.attempts = mail[k].attempts
  BY <1>1, <1>4, <1>5 DEF Mail, MailStatuses
<1>9. \/ mail' = [mail EXCEPT ![k] = done]
      \/ mail' = [mail EXCEPT ![k] = put] /\ result # "sent"
  <2>1. [mail EXCEPT ![k].status = result, ![k].waiting = again] = [mail EXCEPT ![k] = put]
    BY <1>1, SenderParts DEF Mail
  <2> HIDE DEF put, done
  <2>2. CASE result = "sent"
    BY <1>1, <1>3, <2>2
  <2>3. CASE result # "sent"
    BY <1>1, <1>3, <2>1, <2>3
  <2> QED BY <2>2, <2>3
<1> HIDE DEF put, done
<1> DEFINE Fits(row) == /\ row.status \in {"queued", "failed", "uncertain", "sent"}
                        /\ row.status \in {"queued", "failed"} => accepted[k] <= confirmed[k]
                        /\ row.status = "queued" => mail[k].attempts - 1 < MaxAttempts
                        /\ row.attempts <= mail[k].attempts
<1>10. PICK row \in Mail : mail' = [mail EXCEPT ![k] = row] /\ Fits(row)
  <2>1. mail[k].attempts \in Nat
    BY <1>1, SenderParts
  <2>2. Fits(done) /\ (result # "sent" => Fits(put))
    BY <1>4, <1>6, <1>7, <1>8, <2>1
  <2> HIDE DEF Fits
  <2> QED BY <1>7, <1>8, <1>9, <2>2, Zenon
<1>11. /\ mail' \in [Keys -> Mail] /\ mail'[k] = row /\ \A j \in Keys \ {k} : mail'[j] = mail[j]
       /\ sender'.at = "idle" /\ sender' \in [at : SenderStates, job : Keys \cup {NoJob}]
  BY <1>1, <1>2, <1>10, SenderParts DEF SenderStates
<1>12. TypeOK'
  BY <1>2, <1>11 DEF EmailInv, TypeOK
<1>13. RowsInv'
  BY <1>1, <1>2, <1>10, <1>11 DEF EmailInv, RowsInv, Unsent
<1>14. CountsInv'
  <2>1. /\ mail[k].attempts \in Nat /\ row.attempts \in Nat /\ MaxAttempts \in Nat /\ retries \in Nat
    BY <1>1, SenderParts, OutboxAssumption DEF Mail, EmailInv, TypeOK
  <2>2. mail[k].attempts <= MaxAttempts + retries + 1 /\ row.status # "none"
    BY <1>1, <1>10 DEF EmailInv, CountsInv
  <2>3. row.status = "queued" => row.attempts <= MaxAttempts + retries
    BY <1>10, <2>1
  <2>4. row.attempts <= MaxAttempts + retries + 1
    BY <1>10, <2>1, <2>2
  <2> QED BY <1>2, <1>11, <2>2, <2>3, <2>4 DEF EmailInv, CountsInv
<1>15. JobInv' /\ AtGmailInv' /\ ToldInv'
  BY <1>2, <1>11 DEF EmailInv, JobInv, AtGmail, AtGmailInv, ToldInv
<1>16. FreshInv'
  BY <1>1, <1>2, <1>11 DEF EmailInv, FreshInv
<1> QED BY <1>12, <1>13, <1>14, <1>15, <1>16 DEF EmailInv

-----------------------------------------------------------------------------
(* The theorems *)

LEMMA InitInv == Init => EmailInv
<1> SUFFICES ASSUME Init PROVE EmailInv
  OBVIOUS
<1>1. AnySlot \in Slots /\ NoMail \in Mail /\ NoMail.status = "none" /\ NoMail.attempts = 0
  BY RowKinds
<1>2. /\ 0 \in 0..MaxVersion /\ 0 \in 0..MaxRetries /\ 0 \in 0..MaxFaults /\ 0 \in 0..3
      /\ MaxAttempts \in Nat
  BY OutboxAssumption
<1>3. TypeOK
  <2>1. NoSettings \in Settings
    BY DEF NoSettings, Settings
  <2>2. booking \in [Bookings -> Booking]
    BY <1>1, <1>2 DEF Init, Booking
  <2>3. sender \in [at : SenderStates, job : Keys \cup {NoJob}]
    BY DEF Init, SenderStates
  <2> QED BY <1>1, <1>2, <2>1, <2>2, <2>3 DEF Init, TypeOK
<1>4. RowsInv /\ CountsInv
  BY <1>1, <1>2 DEF Init, RowsInv, CountsInv, Unsent
<1>5. JobInv /\ AtGmailInv /\ FreshInv
  BY <1>1 DEF Init, JobInv, AtGmail, AtGmailInv, FreshInv
<1>6. ToldInv
  BY DEF Init, ToldInv
<1> QED BY <1>3, <1>4, <1>5, <1>6 DEF EmailInv

LEMMA StepInv == EmailInv /\ [Next]_vars => EmailInv'
<1> SUFFICES ASSUME EmailInv, [Next]_vars PROVE EmailInv'
  OBVIOUS
<1>1. CASE BookingNext
  BY <1>1, BookingInv
<1>2. CASE OwnerNext
  BY <1>2, OwnerInv, RetryInv DEF OwnerNext
<1>3. CASE SenderNext
  BY <1>3, LeaseInv, PicksInv, PostponesInv, MarksInv, AcceptsInv, RecordsInv DEF SenderNext, SendSteps
<1>4. CASE TimeNext
  BY <1>4, TimeInv
<1>5. CASE UNCHANGED vars
  BY <1>5 DEF vars, EmailInv, TypeOK, RowsInv, CountsInv, JobInv, FreshInv, ToldInv, AtGmailInv,
    Relevant, StillTrue, Started
<1> QED BY <1>1, <1>2, <1>3, <1>4, <1>5 DEF Next

\* Every variable keeps its type; an attempt is never counted beyond the limit and
\* the retries the owner asked for.
THEOREM TypeCorrect == Spec => []TypeOK
<1>1. EmailInv => TypeOK
  BY DEF EmailInv
<1> QED BY <1>1, InitInv, StepInv, PTL DEF Spec

\* No message reaches the customer twice unless the owner confirmed an uncertain
\* one: whatever is lost, declined, retried, and wherever the process dies.
THEOREM NeverResentUnasked == Spec => []NoAutomaticResend
<1>1. EmailInv => NoAutomaticResend
  BY DEF EmailInv, RowsInv, NoAutomaticResend
<1> QED BY <1>1, InitInv, StepInv, PTL DEF Spec

\* Only the sender's step at Gmail tells anyone anything.
LEMMA TellingStep ==
  ASSUME EmailInv, [Next]_vars
  PROVE  \/ UNCHANGED <<accepted, told>>
         \/ Accepts
<1>1. CASE BookingNext
  <2>1. \A b, after, enroll : Changes(b, after, enroll) => UNCHANGED accepted /\ UNCHANGED told
    BY DEF Changes
  <2>2. \A b \in Bookings : CalendarTurns(b) => UNCHANGED accepted /\ UNCHANGED told
    BY DEF CalendarTurns
  <2>3. UNCHANGED accepted /\ UNCHANGED told
    <3>1. \A b \in Bookings, s \in Slots : ImportMovesCancelled(b, s) => UNCHANGED accepted /\ UNCHANGED told
      BY DEF ImportMovesCancelled
    <3> QED BY <1>1, <2>1, <2>2, <3>1, Zenon DEF BookingNext, Create, Patch, ImportMove, ImportRemoval
  <2> QED BY <2>3
<1>2. CASE OwnerNext
  BY <1>2 DEF OwnerNext, AsksFor, SaveSettings, SendTest, MailConnect, MailDisconnect, Retry
<1>3. CASE SenderNext
  BY <1>3 DEF SenderNext, LeaseEnds, Picks, SendSteps, Postpones, Marks, Declines, Records, Crash
<1>4. CASE TimeNext
  BY <1>4 DEF TimeNext, TimePasses, WaitEnds
<1>5. CASE UNCHANGED vars
  BY <1>5 DEF vars
<1> QED BY <1>1, <1>2, <1>3, <1>4, <1>5 DEF Next

\* The customer is never told of an older state of the appointment after a newer
\* one.
THEOREM CustomersAreToldInOrder == Spec => ToldInOrder
<1>1. EmailInv /\ [Next]_vars => [\A b \in Bookings : told'[b] >= told[b]]_vars
  <2> SUFFICES ASSUME EmailInv, [Next]_vars PROVE \A b \in Bookings : told'[b] >= told[b]
    OBVIOUS
  <2>1. told \in [Bookings -> 0..MaxVersion] /\ \A b \in Bookings : told[b] \in Nat
    BY OutboxAssumption DEF EmailInv, TypeOK
  <2>2. CASE UNCHANGED told
    BY <2>1, <2>2
  <2>3. CASE Accepts
    <3>1. CASE sender.job = TestKey
      BY <2>1, <2>3, <3>1 DEF Accepts
    <3>2. CASE sender.job # TestKey
      <4>1. told[sender.job[1]] <= sender.job[2] /\ told' = [told EXCEPT ![sender.job[1]] = sender.job[2]]
        BY <2>3, <3>2 DEF Accepts, EmailInv, ToldInv
      <4>2. sender.job[1] \in Bookings /\ sender.job[2] \in Nat
        BY <2>3, <3>2, SenderParts, KeyParts DEF Accepts
      <4> QED BY <2>1, <4>1, <4>2
    <3> QED BY <3>1, <3>2
  <2> QED BY <2>2, <2>3, TellingStep
<1> QED BY <1>1, InitInv, StepInv, PTL DEF Spec, ToldInOrder

-----------------------------------------------------------------------------
(* Reminders and the owner's hours *)

\* A queued reminder that was never tried has the time of the hours chosen last:
\* every change of them times it again, or drops it.  A row that was tried has an
\* attempt behind it, which is why the other rows need not.
HoursInv ==
  \A k \in Keys :
    /\ mail[k].status \in {"sending", "failed", "uncertain"} => mail[k].attempts # 0
    /\ k[3] = "reminder" /\ mail[k].status = "queued" /\ mail[k].attempts = 0
         => mail[k].at = settings.lead

WindowInv == sender.at = "send" => caught \/ InItsWindow(sender.job)

TimedInv == HoursInv /\ WindowInv

\* The row keeps what the invariant reads of it.
Kept(k) ==
  /\ mail'[k].status = mail[k].status /\ mail'[k].at = mail[k].at
  /\ mail'[k].slot = mail[k].slot /\ mail'[k].attempts = mail[k].attempts

\* The row is in no state the invariant speaks of, or is a tried one, or a test.
Past(k) == \/ k = TestKey /\ mail'[k].status = "queued"
           \/ mail'[k].status \in {"skipped", "sent", "none"}
           \/ /\ mail'[k].attempts = mail[k].attempts
              /\ mail'[k].status \in {"sending", "failed", "uncertain", "queued"}
              /\ mail[k].status \in {"sending", "failed", "uncertain"}

\* A step that leaves the hours alone, and what is at Gmail unless it is caught.
LEMMA HoursStand ==
  ASSUME TimedInv, UNCHANGED settings, \A k \in Keys : Kept(k) \/ Past(k),
         \/ sender'.at # "send"
         \/ caught'
         \/ /\ UNCHANGED <<sender, clock, caught>>
            /\ sender.at = "send" => Kept(sender.job)
  PROVE  TimedInv'
<1>1. HoursInv'
  BY KeyParts DEF TimedInv, HoursInv, Kept, Past
<1>2. WindowInv'
  BY DEF TimedInv, WindowInv, InItsWindow, Kept
<1> QED BY <1>1, <1>2 DEF TimedInv

LEMMA HoursAndChanges ==
  ASSUME EmailInv, TimedInv, NEW b, NEW after, NEW enroll, Changes(b, after, enroll)
  PROVE  TimedInv'
<1>1. UNCHANGED <<settings, sender>> /\ Catches
  BY Zenon DEF Changes
<1>2. WindowInv'
  BY <1>1 DEF WindowInv, Catches
<1>3. ASSUME NEW k \in Keys
      PROVE  /\ mail'[k].status \in {"sending", "failed", "uncertain"} => mail'[k].attempts # 0
             /\ k[3] = "reminder" /\ mail'[k].status = "queued" /\ mail'[k].attempts = 0
                  => mail'[k].at = settings.lead
  <2>1. \/ mail'[k] = QueuedMail(after.slot, IF k[3] = "reminder" THEN settings.lead ELSE 0)
        \/ mail'[k] = Skipped
        \/ mail'[k] = mail[k]
    BY Zenon DEF Changes
  <2>2. CASE mail'[k] = QueuedMail(after.slot, IF k[3] = "reminder" THEN settings.lead ELSE 0)
    BY <2>2 DEF QueuedMail, NoMail
  <2>3. CASE mail'[k] = Skipped
    BY <2>3, RowKinds
  <2>4. CASE mail'[k] = mail[k]
    BY <2>4 DEF TimedInv, HoursInv
  <2> QED BY <2>1, <2>2, <2>3, <2>4
<1> QED BY <1>1, <1>2, <1>3 DEF TimedInv, HoursInv

LEMMA HoursSaved ==
  ASSUME EmailInv, TimedInv, NEW v \in Settings,
         settings' = v, mail' = [k \in Keys |-> SettingsMail(v, k)], Catches, UNCHANGED sender
  PROVE  TimedInv'
<1>1. WindowInv'
  BY DEF WindowInv, Catches
<1>2. ASSUME NEW k \in Keys
      PROVE  /\ mail'[k].status \in {"sending", "failed", "uncertain"} => mail'[k].attempts # 0
             /\ k[3] = "reminder" /\ mail'[k].status = "queued" /\ mail'[k].attempts = 0
                  => mail'[k].at = v.lead
  <2>1. mail'[k] = SettingsMail(v, k) /\ mail[k] \in Mail
    BY DEF EmailInv, TypeOK
  <2>2. k[3] = "reminder" => k # TestKey
    BY KeyParts
  <2>3. \/ mail'[k] = mail[k] /\ ~(k[3] = "reminder" /\ mail[k].status = "queued")
        \/ mail'[k] = Skipped
        \/ /\ mail'[k] = [mail[k] EXCEPT !.at = v.lead, !.waiting = FALSE]
           /\ mail[k].status = "queued"
    BY <2>1, <2>2, Zenon DEF SettingsMail, Pending
  <2>4. CASE mail'[k] = mail[k] /\ ~(k[3] = "reminder" /\ mail[k].status = "queued")
    BY <2>4 DEF TimedInv, HoursInv
  <2>5. CASE mail'[k] = Skipped
    BY <2>5, RowKinds
  <2>6. CASE mail'[k] = [mail[k] EXCEPT !.at = v.lead, !.waiting = FALSE] /\ mail[k].status = "queued"
    BY <2>1, <2>6 DEF Mail
  <2> QED BY <2>3, <2>4, <2>5, <2>6
<1> QED BY <1>1, <1>2 DEF TimedInv, HoursInv

LEMMA BookingTimed == ASSUME EmailInv, TimedInv, BookingNext PROVE TimedInv'
<1>1. PICK b \in Bookings :
        \/ \E s \in Slots : Create(b, s) \/ ImportMove(b, s) \/ ImportMovesCancelled(b, s)
        \/ \E st \in {"needs_followup", "confirmed", "cancelled"} : Patch(b, st)
        \/ ImportRemoval(b)
        \/ CalendarTurns(b)
  BY DEF BookingNext
<1>2. CASE \/ \E s \in Slots : Create(b, s) \/ ImportMove(b, s)
           \/ \E st \in {"needs_followup", "confirmed", "cancelled"} : Patch(b, st)
           \/ ImportRemoval(b)
  <2>1. \E after, enroll : Changes(b, after, enroll)
    BY <1>2, Zenon DEF Create, ImportMove, Patch, ImportRemoval
  <2> QED BY <2>1, HoursAndChanges
<1>3. CASE (\E s \in Slots : ImportMovesCancelled(b, s)) \/ CalendarTurns(b)
  <2>1. UNCHANGED <<mail, settings, sender, clock>> /\ (UNCHANGED caught \/ Catches)
    BY <1>3 DEF ImportMovesCancelled, CalendarTurns
  <2>2. \A k \in Keys : Kept(k)
    BY <2>1 DEF Kept
  <2>3. sender.at = "send" => sender.job \in Keys
    BY DEF EmailInv, JobInv
  <2> QED BY <2>1, <2>2, <2>3, HoursStand DEF Catches
<1> QED BY <1>1, <1>2, <1>3

LEMMA OwnerTimed == ASSUME EmailInv, TimedInv, OwnerNext PROVE TimedInv'
<1>0. sender.at = "send" => sender.job \in Keys /\ mail[sender.job].status = "sending"
  BY DEF EmailInv, JobInv, AtGmail
<1>1. CASE MailConnect \/ \E v \in Preferences : AsksFor(v)
  <2>1. UNCHANGED <<mail, settings, sender, clock, caught>>
    BY <1>1 DEF MailConnect, AsksFor
  <2>2. \A k \in Keys : Kept(k)
    BY <2>1 DEF Kept
  <2> QED BY <1>0, <2>1, <2>2, HoursStand
<1>2. ASSUME NEW v \in Preferences, SaveSettings(v) PROVE TimedInv'
  BY <1>2, HoursSaved, OutboxAssumption DEF SaveSettings
<1>3. CASE MailDisconnect
  <2> DEFINE off == [settings EXCEPT !.enabled = FALSE]
  <2>1. off \in Settings
    BY DEF EmailInv, TypeOK, Settings
  <2>2. settings' = off /\ mail' = [k \in Keys |-> SettingsMail(off, k)] /\ Catches /\ UNCHANGED sender
    BY <1>3 DEF MailDisconnect
  <2> HIDE DEF off
  <2> QED BY <2>1, <2>2, HoursSaved
<1>4. CASE SendTest
  <2>1. /\ TestKey \in Keys /\ mail[TestKey].status = "none"
        /\ mail' = [mail EXCEPT ![TestKey] = QueuedMail(AnySlot, 0)]
        /\ UNCHANGED <<settings, sender, clock, caught>>
    BY <1>4 DEF SendTest
  <2>2. mail \in [Keys -> Mail] /\ QueuedMail(AnySlot, 0).status = "queued"
    BY DEF EmailInv, TypeOK, QueuedMail, NoMail
  <2>3. mail'[TestKey].status = "queued" /\ \A k \in Keys \ {TestKey} : mail'[k] = mail[k]
    BY <2>1, <2>2
  <2>4. \A k \in Keys : Kept(k) \/ Past(k)
    BY <2>3 DEF Kept, Past
  <2>5. sender.at = "send" => Kept(sender.job)
    BY <1>0, <2>1, <2>3 DEF Kept
  <2> QED BY <2>1, <2>4, <2>5, HoursStand
<1>5. ASSUME NEW k \in Keys, Retry(k) PROVE TimedInv'
  <2>1. /\ mail[k].status \in {"failed", "uncertain"}
        /\ mail' = [mail EXCEPT ![k].status = "queued", ![k].waiting = FALSE]
        /\ UNCHANGED <<settings, sender, clock, caught>>
    BY <1>5 DEF Retry
  <2>2. mail \in [Keys -> Mail]
    BY DEF EmailInv, TypeOK
  <2>3. /\ mail'[k].status = "queued" /\ mail'[k].attempts = mail[k].attempts
        /\ \A j \in Keys \ {k} : mail'[j] = mail[j]
    BY <2>1, <2>2 DEF Mail
  <2>4. \A j \in Keys : Kept(j) \/ Past(j)
    BY <2>1, <2>3 DEF Kept, Past
  <2>5. sender.at = "send" => Kept(sender.job)
    BY <1>0, <2>1, <2>3 DEF Kept
  <2> QED BY <2>1, <2>4, <2>5, HoursStand
<1> QED BY <1>1, <1>2, <1>3, <1>4, <1>5 DEF OwnerNext

\* The message that goes to Gmail was due; at its first attempt, by the hours
\* chosen last.
LEMMA GoesInWindow ==
  ASSUME EmailInv, TimedInv, sender.at = "picked", Due(sender.job), Goes("send"),
         mail' = [mail EXCEPT ![sender.job].status = "sending", ![sender.job].attempts = @ + 1],
         UNCHANGED <<clock, settings>>
  PROVE  TimedInv'
<1> DEFINE k == sender.job
<1>1. /\ k \in Keys /\ mail \in [Keys -> Mail] /\ mail[k].attempts \in Nat
      /\ sender'.at = "send" /\ sender'.job = k
      /\ mail[k].status = "queued" /\ clock[mail[k].slot] >= mail[k].at
  BY SenderParts DEF Due, SenderStates
<1>2. /\ mail'[k].status = "sending" /\ mail'[k].attempts = mail[k].attempts + 1
      /\ mail'[k].slot = mail[k].slot /\ mail'[k].attempts # 0
      /\ \A j \in Keys \ {k} : mail'[j] = mail[j]
  BY <1>1 DEF Mail
<1>3. HoursInv'
  BY <1>2 DEF TimedInv, HoursInv
<1>4. InItsWindow(k)'
  <2> SUFFICES ASSUME k[3] = "reminder", mail'[k].attempts = 1
               PROVE  clock[mail[k].slot] >= settings.lead
    BY <1>1, <1>2 DEF InItsWindow
  <2>1. mail[k].attempts = 0
    BY <1>1, <1>2
  <2>2. mail[k].at = settings.lead
    BY <1>1, <2>1 DEF TimedInv, HoursInv
  <2> QED BY <1>1, <2>2
<1> QED BY <1>1, <1>3, <1>4 DEF TimedInv, WindowInv, InItsWindow

LEMMA SenderTimed == ASSUME EmailInv, TimedInv, SenderNext PROVE TimedInv'
<1>0. mail \in [Keys -> Mail]
  BY DEF EmailInv, TypeOK
<1>1. ASSUME UNCHANGED <<mail, settings>>, sender'.at # "send" PROVE TimedInv'
  <2>1. \A k \in Keys : Kept(k)
    BY <1>1 DEF Kept
  <2> QED BY <1>1, <2>1, HoursStand
\* One row changes, and nothing is at Gmail afterwards.
<1>2. ASSUME NEW k \in Keys, \A j \in Keys \ {k} : mail'[j] = mail[j], Kept(k) \/ Past(k),
             UNCHANGED settings, sender'.at # "send"
      PROVE  TimedInv'
  <2>1. \A j \in Keys : Kept(j) \/ Past(j)
    BY <1>2 DEF Kept
  <2> QED BY <1>2, <2>1, HoursStand
<1>3. ASSUME NEW k \in Keys, LeaseEnds(k) PROVE TimedInv'
  <2>1. mail' = [mail EXCEPT ![k].status = "uncertain"] /\ mail[k].status = "sending"
        /\ sender'.at # "send" /\ UNCHANGED settings
    BY <1>3 DEF LeaseEnds
  <2>2. /\ mail'[k].status = "uncertain" /\ mail'[k].attempts = mail[k].attempts
        /\ \A j \in Keys \ {k} : mail'[j] = mail[j]
    BY <1>0, <2>1 DEF Mail
  <2> QED BY <1>2, <2>1, <2>2 DEF Past
<1>4. ASSUME NEW k \in Keys, Picks(k) PROVE TimedInv'
  BY <1>1, <1>4 DEF Picks
<1>5. ASSUME NEW k \in Keys, mail' = Waits(k) \/ mail' = [mail EXCEPT ![k] = Skipped],
             Goes("idle"), UNCHANGED settings
      PROVE  TimedInv'
  <2>1. sender'.at # "send"
    BY <1>5, SenderParts
  <2>2. CASE mail' = Waits(k)
    <3>1. Kept(k) /\ \A j \in Keys \ {k} : mail'[j] = mail[j]
      BY <1>0, <2>2 DEF Waits, Kept, Mail
    <3> QED BY <1>2, <1>5, <2>1, <3>1
  <2>3. CASE mail' = [mail EXCEPT ![k] = Skipped]
    <3>1. Past(k) /\ \A j \in Keys \ {k} : mail'[j] = mail[j]
      BY <1>0, <2>3, RowKinds DEF Past
    <3> QED BY <1>2, <1>5, <2>1, <3>1
  <2> QED BY <1>5, <2>2, <2>3
<1>6. CASE Postpones
  <2>1. sender.job \in Keys
    BY <1>6, SenderParts DEF Postpones
  <2>2. CASE UNCHANGED mail
    BY <1>1, <1>6, <2>2, SenderParts DEF Postpones
  <2>3. CASE mail' = Waits(sender.job)
    BY <1>5, <1>6, <2>1, <2>3 DEF Postpones
  <2> QED BY <1>6, <2>2, <2>3 DEF Postpones
<1>7. CASE Marks
  <2> DEFINE k == sender.job
  <2>1. k \in Keys /\ sender.at = "picked" /\ UNCHANGED <<clock, settings>>
    BY <1>7, SenderParts DEF Marks
  <2>2. CASE Goes("idle") /\ UNCHANGED mail
    BY <1>1, <2>1, <2>2, SenderParts
  <2>3. CASE Goes("idle") /\ (mail' = [mail EXCEPT ![k] = Skipped] \/ mail' = Waits(k))
    BY <1>5, <2>1, <2>3
  <2>4. CASE /\ Due(k) /\ Goes("send")
             /\ mail' = [mail EXCEPT ![k].status = "sending", ![k].attempts = @ + 1]
    BY <2>1, <2>4, GoesInWindow
  <2> QED BY <1>7, <2>2, <2>3, <2>4 DEF Marks
<1>8. CASE Accepts \/ Declines \/ Crash
  <2>1. UNCHANGED <<mail, settings>>
    BY <1>8 DEF Accepts, Declines, Crash
  <2>2. \E at \in {"sent", "uncertain", "declined", "failed", "idle"} : Goes(at)
    BY <1>8 DEF Accepts, Declines, Crash
  <2>3. sender'.at # "send"
    BY <2>2, SenderParts DEF SenderStates
  <2> QED BY <1>1, <2>1, <2>3
<1>9. CASE Records
  <2> DEFINE k == sender.job
  <2>1. /\ k \in Keys /\ mail[k].status = "sending" /\ mail[k] \in Mail
        /\ sender'.at # "send" /\ UNCHANGED settings
    BY <1>9, SenderParts DEF Records, EmailInv, JobInv, AtGmail
  <2>2. \E result \in {"queued", "failed", "uncertain"}, again \in BOOLEAN :
          \/ mail' = [mail EXCEPT ![k] = [NoMail EXCEPT !.status = "sent"]]
          \/ mail' = [mail EXCEPT ![k].status = result, ![k].waiting = again]
    <3> DEFINE again == sender.at = "declined" /\ mail[k].attempts - 1 < MaxAttempts
               result == IF again THEN "queued" ELSE IF sender.at = "declined" THEN "failed" ELSE sender.at
    <3>1. mail' = CASE mail[k].status # "sending" -> mail
                    [] result = "sent" -> [mail EXCEPT ![k] = [NoMail EXCEPT !.status = "sent"]]
                    [] OTHER -> [mail EXCEPT ![k].status = result, ![k].waiting = again]
      BY <1>9, Zenon DEF Records
    <3>2. sender.at \in {"sent", "uncertain", "failed", "declined"}
      BY <1>9 DEF Records
    <3>3. result \in {"queued", "failed", "uncertain", "sent"} /\ again \in BOOLEAN
      BY <3>2
    <3> HIDE DEF again, result
    <3>4. CASE result = "sent"
      BY <2>1, <3>1, <3>4
    <3>5. CASE result # "sent"
      <4>1. mail' = [mail EXCEPT ![k].status = result, ![k].waiting = again]
        BY <2>1, <3>1, <3>5
      <4> QED BY <3>3, <3>5, <4>1
    <3> QED BY <3>4, <3>5
  <2>3. PICK result \in {"queued", "failed", "uncertain"}, again \in BOOLEAN :
          \/ mail' = [mail EXCEPT ![k] = [NoMail EXCEPT !.status = "sent"]]
          \/ mail' = [mail EXCEPT ![k].status = result, ![k].waiting = again]
    BY <2>2
  <2>4. CASE mail' = [mail EXCEPT ![k] = [NoMail EXCEPT !.status = "sent"]]
    <3>1. mail'[k].status = "sent" /\ \A j \in Keys \ {k} : mail'[j] = mail[j]
      BY <1>0, <2>1, <2>4 DEF NoMail
    <3> QED BY <1>2, <2>1, <3>1 DEF Past
  <2>5. CASE mail' = [mail EXCEPT ![k].status = result, ![k].waiting = again]
    <3>1. /\ mail'[k].status = result /\ mail'[k].attempts = mail[k].attempts
          /\ \A j \in Keys \ {k} : mail'[j] = mail[j]
      BY <1>0, <2>1, <2>5 DEF Mail
    <3> QED BY <1>2, <2>1, <3>1 DEF Past
  <2> QED BY <2>3, <2>4, <2>5
<1> QED BY <1>3, <1>4, <1>6, <1>7, <1>8, <1>9 DEF SenderNext, SendSteps

LEMMA TimeTimed == ASSUME EmailInv, TimedInv, TimeNext PROVE TimedInv'
<1>0. sender.at = "send" => sender.job \in Keys
  BY DEF EmailInv, JobInv
<1>1. ASSUME NEW s \in Slots, TimePasses(s) PROVE TimedInv'
  <2>1. UNCHANGED <<mail, settings, sender>> /\ Catches
    BY <1>1 DEF TimePasses
  <2>2. \A k \in Keys : Kept(k)
    BY <2>1 DEF Kept
  <2> QED BY <2>1, <2>2, HoursStand DEF Catches
<1>2. ASSUME NEW k \in Keys, WaitEnds(k) PROVE TimedInv'
  <2>1. mail' = [mail EXCEPT ![k].waiting = FALSE] /\ mail \in [Keys -> Mail]
        /\ UNCHANGED <<settings, sender, clock, caught>>
    BY <1>2 DEF WaitEnds, EmailInv, TypeOK
  <2>2. \A j \in Keys : Kept(j)
    BY <2>1 DEF Kept, Mail
  <2> QED BY <1>0, <2>1, <2>2, HoursStand
<1> QED BY <1>1, <1>2 DEF TimeNext

LEMMA InitTimed == Init => TimedInv
BY DEF Init, TimedInv, HoursInv, WindowInv, NoMail

LEMMA StepTimed == EmailInv /\ TimedInv /\ [Next]_vars => TimedInv'
<1> SUFFICES ASSUME EmailInv, TimedInv, [Next]_vars PROVE TimedInv'
  OBVIOUS
<1>1. CASE UNCHANGED vars
  BY <1>1 DEF vars, TimedInv, HoursInv, WindowInv, InItsWindow
<1> QED BY <1>1, BookingTimed, OwnerTimed, SenderTimed, TimeTimed DEF Next

\* What Gmail takes is what the appointment, its time and the preferences call for
\* at that moment, and a reminder's first attempt is within the hours chosen last;
\* unless something changed while the message was at Gmail.
THEOREM MessagesAreTrueWhenTaken == Spec => TrueWhenTaken
<1>1. EmailInv /\ TimedInv /\ [Next]_vars
        => [\A k \in Keys :
              accepted'[k] > accepted[k] => caught \/ (Relevant(k) /\ InItsWindow(k))]_vars
  <2> SUFFICES ASSUME EmailInv, TimedInv, [Next]_vars, NEW k \in Keys, accepted'[k] > accepted[k]
               PROVE  caught \/ (Relevant(k) /\ InItsWindow(k))
    OBVIOUS
  <2>1. accepted \in [Keys -> Nat]
    BY DEF EmailInv, TypeOK
  <2>2. Accepts
    BY <2>1, TellingStep
  <2>3. k = sender.job
    BY <2>1, <2>2 DEF Accepts
  <2> QED BY <2>2, <2>3 DEF Accepts, EmailInv, AtGmailInv, TimedInv, WindowInv
<1> QED BY <1>1, InitInv, StepInv, InitTimed, StepTimed, PTL DEF Spec, TrueWhenTaken

=============================================================================
