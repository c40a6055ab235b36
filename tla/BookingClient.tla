--------------------------- MODULE BookingClient ---------------------------
(***************************************************************************)
(* The public booking page (dist/booking.js) and the service it talks to   *)
(* (createBooking): a visitor who chooses a kind of request, a date and a  *)
(* time, and submits; a network that loses answers and delivers requests   *)
(* the page has given up; other customers and the owner.                   *)
(*                                                                         *)
(* A date has one time, so that a slot is a date and a kind; services,     *)
(* texts and the details of the customer are left out, but for details the *)
(* service refuses.  CalendarSync has the inside of createBooking, one     *)
(* request at a time under bookingMu.                                      *)
(***************************************************************************)
EXTENDS Naturals, FiniteSets

CONSTANTS
  Kinds,     \* what can be asked for: a service, an estimate
  Offers,    \* which of them a configuration may have a duration for
  Dates,     \* the dates a visitor may choose
  NoDate,    \* the date input is empty or out of range
  MaxKeys,   \* bound: requests of one page
  MaxLoads,  \* bound: loads of times under way when the visitor asks for another
  MaxFaults  \* bound: unanswered, refused or unreadable calls

ASSUME ClientAssumption ==
  /\ Kinds # {} /\ Dates # {} /\ NoDate \notin Dates /\ Offers \subseteq SUBSET Kinds
  /\ MaxKeys \in Nat /\ MaxLoads \in Nat /\ MaxFaults \in Nat

VARIABLES
  kind,       \* the kind of request the page is for
  config,     \* the configuration and the state of its load
  date,       \* the date input
  loads,      \* requests for the times of a date
  slots,      \* the times shown
  selected,   \* the time chosen: none or one
  attempt,    \* the request to be made or checked, key 0 when there is none
  submitting, \* a submission is under way
  receipt,    \* the saved request that is shown
  call,       \* the booking request the page waits for
  keys,       \* idempotency keys made so far
  wire,       \* booking requests the service has not seen yet
  saved,      \* the rows of this page's keys
  taken,      \* times held by others
  refused,    \* history: keys the service has found no time for
  overdue,    \* history: keys saved after that, by another copy of the request
  faults      \* faults so far

form    == <<kind, config, date, loads, slots, selected>>
request == <<attempt, submitting, receipt, call, keys>>
service == <<saved, taken, refused, overdue>>
vars    == <<form, request, wire, service, faults>>

Keys == 1..MaxKeys

Slot    == [date : Dates, kind : Kinds]
Attempt == [key : 0..MaxKeys, kind : Kinds, date : Dates, good : BOOLEAN]

Statuses         == {"needs_followup", "cancelled"}
CalendarStatuses == {"pending", "synced", "failed"}
Booking == [key : 0..MaxKeys, kind : Kinds, date : Dates, status : Statuses, cal : CalendarStatuses]

AnyKind == CHOOSE k \in Kinds : TRUE
AnyDate == CHOOSE d \in Dates : TRUE

NoAttempt == [key |-> 0, kind |-> AnyKind, date |-> AnyDate, good |-> TRUE]
NoBooking == [key |-> 0, kind |-> AnyKind, date |-> AnyDate, status |-> "needs_followup",
              cal |-> "pending"]
NoReceipt == [attempt |-> NoAttempt, shown |-> NoBooking, checks |-> 0, timer |-> FALSE]
NoCall    == [n |-> 0, for |-> "submit", reply |-> "none", booking |-> NoBooking]

Trying   == attempt.key # 0
Received == receipt.attempt.key # 0
Calling  == call.n # 0

Fault == faults < MaxFaults /\ faults' = faults + 1

-----------------------------------------------------------------------------
Init ==
  /\ kind \in Kinds
  /\ config = [enabled |-> FALSE, kinds |-> {}, known |-> FALSE, load |-> "asked", open |-> FALSE]
  /\ date = NoDate
  /\ loads = {}
  /\ slots = {}
  /\ selected = {}
  /\ attempt = NoAttempt
  /\ submitting = FALSE
  /\ receipt = NoReceipt
  /\ call = NoCall
  /\ keys = 0
  /\ wire = {}
  /\ saved = [k \in Keys |-> NoBooking]
  /\ taken \in SUBSET Dates
  /\ refused = {}
  /\ overdue = {}
  /\ faults = 0

-----------------------------------------------------------------------------
(* Loading the times of a date.  A new load aborts the one before, whose   *)
(* answer may nevertheless be on its way up.                               *)

Load == [date : Dates, kind : Kinds, after : {"config", "refusal", "choice"}, current : BOOLEAN]

Superseded(l) == [l EXCEPT !.current = FALSE]

\* loadSlots, once it has found that it may.
LoadSlots(k, d, after) ==
  /\ selected' = {}
  /\ slots' = {}
  /\ loads' = {Superseded(l) : l \in loads} \cup
       (IF d = NoDate THEN {} ELSE {[date |-> d, kind |-> k, after |-> after, current |-> TRUE]})

Loading == \E l \in loads : l.current

\* Mutant: the request number is not compared.
HeedsAny(l) == TRUE

Heeds(l) == l.current

\* Mutant: the flag is lowered only where the times were shown.
ContinuesAfterTimes(l, shown) ==
  /\ config' = IF l.after = "config" THEN [config EXCEPT !.load = "idle"] ELSE config
  /\ submitting' = (submitting /\ ~(l.after = "refusal" /\ shown))

\* What awaited the load goes on: loadConfig, or the submission that was refused.
Continues(l, shown) ==
  /\ config' = IF l.after = "config" THEN [config EXCEPT !.load = "idle"] ELSE config
  /\ submitting' = (submitting /\ l.after # "refusal")

SlotsArrive(l) ==
  /\ l \in loads
  /\ loads' = loads \ {l}
  /\ IF Heeds(l) THEN slots' \in SUBSET {[date |-> l.date, kind |-> l.kind]} ELSE UNCHANGED slots
  /\ Continues(l, TRUE)
  /\ UNCHANGED <<kind, date, selected, attempt, receipt, call, keys, wire, service, faults>>

\* Aborted loads fail by themselves.
SlotsFail(l) ==
  /\ l \in loads
  /\ loads' = loads \ {l}
  /\ IF l.current THEN Fault ELSE UNCHANGED faults
  /\ Continues(l, FALSE)
  /\ UNCHANGED <<kind, date, slots, selected, attempt, receipt, call, keys, wire, service>>

-----------------------------------------------------------------------------
(* The configuration.  open: the form is shown.                            *)

ConfigArrives(enabled, kinds) ==
  /\ config.load = "asked"
  /\ IF kind \notin kinds
       THEN config' = [config EXCEPT !.load = "idle"] /\ UNCHANGED <<date, loads, slots, selected>>
     ELSE IF ~enabled
       THEN /\ config' = [config EXCEPT !.load = "idle", !.known = TRUE, !.enabled = FALSE, !.kinds = kinds]
            /\ UNCHANGED <<date, loads, slots, selected>>
     ELSE /\ config' = [enabled |-> TRUE, kinds |-> kinds, known |-> TRUE, load |-> "slots", open |-> TRUE]
          /\ \E d \in Dates : date' = d /\ LoadSlots(kind, d, "config")
  /\ UNCHANGED <<kind, request, wire, service, faults>>

ConfigFails ==
  /\ config.load = "asked"
  /\ Fault
  /\ config' = [config EXCEPT !.load = "idle"]
  /\ UNCHANGED <<kind, date, loads, slots, selected, request, wire, service>>

\* The button of the notice that replaces the form.
ReloadConfig ==
  /\ config.load = "idle" /\ ~config.open /\ ~Received
  /\ config' = [config EXCEPT !.load = "asked"]
  /\ UNCHANGED <<kind, date, loads, slots, selected, request, wire, service, faults>>

-----------------------------------------------------------------------------
(* The visitor.  The fields are locked while a request is being made or is *)
(* to be checked.                                                          *)

MayAsk == Cardinality(loads) <= MaxLoads

Editable == config.open /\ ~submitting /\ ~Trying

ChooseDate(d) ==
  /\ Editable /\ MayAsk /\ d # date
  /\ date' = d
  /\ LoadSlots(kind, d, "choice")
  /\ UNCHANGED <<kind, config, request, wire, service, faults>>

\* "Try loading times again", after a failure (an empty list is not told from one).
RetrySlots ==
  /\ Editable /\ date # NoDate /\ ~Loading /\ slots = {}
  /\ LoadSlots(kind, date, "choice")
  /\ UNCHANGED <<kind, config, date, request, wire, service, faults>>

ChooseTime(s) ==
  /\ Editable /\ s \in slots
  /\ selected' = {s}
  /\ UNCHANGED <<kind, config, date, loads, slots, request, wire, service, faults>>

ModeLocked == submitting \/ Trying \/ Received

\* Mutant: only a submission under way locks the kind.
LockedWhileSubmitting == submitting \/ Received

\* switchKind, by a link or by the browser's history.
SwitchKind(next) ==
  /\ next # kind /\ ~ModeLocked /\ MayAsk
  /\ config.known => next \in config.kinds
  /\ kind' = next
  /\ IF config.known /\ config.enabled
       THEN LoadSlots(next, date, "choice") /\ UNCHANGED config
       ELSE /\ config' = IF ~config.known /\ config.load = "idle" THEN [config EXCEPT !.load = "asked"] ELSE config
            /\ UNCHANGED <<loads, slots, selected>>
  /\ UNCHANGED <<date, request, wire, service, faults>>

-----------------------------------------------------------------------------
(* Submitting, and checking again, the same request.                       *)

\* A number tells the requests apart that are on their way, at most one more than faults.
Numbers == 1..(MaxFaults + 1)

Post(a, for) ==
  \E n \in Numbers :
    /\ \A m \in 1..n : (m = n) <=> ~\E p \in wire : p.n = m
    /\ wire' = wire \cup {[n |-> n, attempt |-> a]}
    /\ call' = [n |-> n, for |-> for, reply |-> "none", booking |-> NoBooking]

\* good: the details pass the rules of the service, not only those of the page.
NewAttempt(s, good) == [key |-> keys + 1, kind |-> kind, date |-> s.date, good |-> good]

Submit ==
  /\ config.open /\ ~submitting
  /\ \/ Trying /\ UNCHANGED <<attempt, keys>>
     \/ /\ ~Trying /\ ~Loading /\ keys < MaxKeys
        /\ \E s \in selected, good \in BOOLEAN : attempt' = NewAttempt(s, good)
        /\ keys' = keys + 1
  /\ submitting' = TRUE
  /\ Post(attempt', "submit")
  /\ UNCHANGED <<form, receipt, service, faults>>

\* Another customer's booking, or one of this page's that is not cancelled and
\* out of the calendar, holds its date.
Holds(b) == b.key # 0 /\ (b.status # "cancelled" \/ b.cal # "synced")
Free(d) == d \notin taken /\ \A k \in Keys : ~(Holds(saved[k]) /\ saved[k].date = d)

Same(a, b) == a.kind = b.kind /\ a.date = b.date

Row(a) == [key |-> a.key, kind |-> a.kind, date |-> a.date, status |-> "needs_followup", cal |-> "pending"]

\* createBooking: the details, the key, the times, the insert.
ReplyTo(a) ==
  IF ~a.good THEN "refused"
  ELSE IF saved[a.key].key # 0 THEN IF Same(a, saved[a.key]) THEN "saved" ELSE "mismatch"
  ELSE IF Free(a.date) THEN "saved" ELSE "taken"

Awaited(p) == call.n = p.n

Serve(p) ==
  LET a     == p.attempt
      r     == ReplyTo(a)
      fresh == r = "saved" /\ saved[a.key].key = 0
      b     == IF fresh THEN Row(a) ELSE saved[a.key]
  IN /\ p \in wire
     /\ wire' = wire \ {p}
     /\ saved' = [saved EXCEPT ![a.key] = b]
     /\ call' = IF Awaited(p) THEN [call EXCEPT !.reply = r, !.booking = b] ELSE call
     /\ refused' = refused \cup {k \in {a.key} : r = "taken"}
     /\ overdue' = overdue \cup {k \in {a.key} : fresh /\ k \in refused}
     /\ UNCHANGED <<form, attempt, submitting, receipt, keys, taken, faults>>

ValidReceipt(b) == b.key # 0 /\ b.kind = kind

\* Another check of the saved request is planned while its event is pending.
Planned(r) == [r EXCEPT !.timer = r.checks < 2 /\ r.shown.cal = "pending"]

\* Mutant: whatever went wrong, the next submission is a new request.
ForgetsAlways(reply) == reply # "saved"

\* Answers after which the service has surely not saved the request.
Forgets(reply) == reply \in {"refused", "taken"}

\* The answer to a submission: shown when it is a receipt; the attempt is kept
\* unless it was surely refused.  loadSlots goes first where the time was gone.
Settles(reply, b) ==
  \/ /\ reply = "saved" /\ ValidReceipt(b)
     /\ config' = [config EXCEPT !.open = FALSE]
     /\ receipt' = Planned([attempt |-> attempt, shown |-> b, checks |-> 0, timer |-> FALSE])
     /\ attempt' = NoAttempt
     /\ submitting' = FALSE
     /\ UNCHANGED <<loads, slots, selected>>
  \/ /\ reply = "taken" /\ Forgets(reply)
     /\ attempt' = NoAttempt
     /\ LoadSlots(kind, date, "refusal")
     /\ UNCHANGED <<config, receipt, submitting>>
  \/ /\ ~(reply = "saved" /\ ValidReceipt(b)) /\ ~(reply = "taken" /\ Forgets(reply))
     /\ attempt' = IF Forgets(reply) THEN NoAttempt ELSE attempt
     /\ submitting' = FALSE
     /\ UNCHANGED <<config, receipt, loads, slots, selected>>

\* The answer to a check: shown when it is of the same saved request.
Checks(reply, b) ==
  receipt' = Planned(IF reply = "saved" /\ ValidReceipt(b) /\ b.key = receipt.shown.key
                       THEN [receipt EXCEPT !.shown = b] ELSE receipt)

Concludes(reply, b) ==
  /\ call' = NoCall
  /\ IF call.for = "submit"
       THEN Settles(reply, b)
       ELSE Checks(reply, b) /\ UNCHANGED <<config, loads, slots, selected, attempt, submitting>>
  /\ UNCHANGED <<kind, date, keys, service>>

AnswerArrives ==
  /\ Calling /\ call.reply # "none"
  /\ Concludes(call.reply, call.booking)
  /\ UNCHANGED <<wire, faults>>

\* No answer within 25 seconds, one of another kind (429, 503 and the like) or one
\* that is not a receipt.  The request may be lost, or still arrive.
GivesUp ==
  /\ Calling
  /\ Fault
  /\ wire' \in {wire, {p \in wire : ~Awaited(p)}}
  /\ Concludes("unsure", NoBooking)

-----------------------------------------------------------------------------
(* The receipt                                                             *)

\* A timer that finds the page hidden ends the checks, as leaving the page does.
TimerFires ==
  /\ receipt.timer
  /\ \/ /\ ~Calling
        /\ receipt' = [receipt EXCEPT !.timer = FALSE, !.checks = @ + 1]
        /\ Post(receipt.attempt, "check")
     \/ receipt' = [receipt EXCEPT !.timer = FALSE] /\ UNCHANGED <<wire, call>>
  /\ UNCHANGED <<form, attempt, submitting, keys, service, faults>>

-----------------------------------------------------------------------------
(* The owner, the calendar and other customers                             *)

CalendarMoves(k, cal) ==
  /\ saved[k].key # 0 /\ saved[k].cal # "synced" /\ cal # saved[k].cal
  /\ saved' = [saved EXCEPT ![k] = [@ EXCEPT !.cal = cal]]
  /\ UNCHANGED <<form, request, wire, taken, refused, overdue, faults>>

OwnerCancels(k) ==
  /\ saved[k].key # 0 /\ saved[k].status # "cancelled"
  /\ saved' = [saved EXCEPT ![k] = [@ EXCEPT !.status = "cancelled", !.cal = "pending"]]
  /\ UNCHANGED <<form, request, wire, taken, refused, overdue, faults>>

OthersTake(d) ==
  /\ Free(d)
  /\ taken' = taken \cup {d}
  /\ UNCHANGED <<form, request, wire, saved, refused, overdue, faults>>

OthersLeave(d) ==
  /\ d \in taken
  /\ taken' = taken \ {d}
  /\ UNCHANGED <<form, request, wire, saved, refused, overdue, faults>>

-----------------------------------------------------------------------------
PageNext ==
  \/ \E enabled \in BOOLEAN, kinds \in Offers : ConfigArrives(enabled, kinds)
  \/ ConfigFails
  \/ \E l \in loads : SlotsArrive(l) \/ SlotsFail(l)
  \/ AnswerArrives
  \/ GivesUp
  \/ TimerFires

VisitorNext ==
  \/ ReloadConfig
  \/ \E d \in Dates \cup {NoDate} : ChooseDate(d)
  \/ RetrySlots
  \/ \E s \in slots : ChooseTime(s)
  \/ \E next \in Kinds : SwitchKind(next)
  \/ Submit

ServiceNext ==
  \/ \E p \in wire : Serve(p)
  \/ \E k \in Keys, cal \in {"synced", "failed"} : CalendarMoves(k, cal)
  \/ \E k \in Keys : OwnerCancels(k)
  \/ \E d \in Dates : OthersTake(d) \/ OthersLeave(d)

Next == PageNext \/ VisitorNext \/ ServiceNext

Spec == Init /\ [][Next]_vars

\* The service works off what it is sent and every call ends: fetch has a limit of
\* 25 seconds, and promises settle.  Nothing is assumed of the visitor or the faults.
Fairness ==
  /\ WF_vars(\E p \in wire : Serve(p))
  /\ WF_vars(AnswerArrives)
  /\ WF_vars(\E l \in loads : SlotsArrive(l) \/ SlotsFail(l))

FairSpec == Spec /\ Fairness

-----------------------------------------------------------------------------
(* Properties                                                              *)

\* Every variable keeps its type.
TypeOK ==
  /\ kind \in Kinds
  /\ config \in [enabled : BOOLEAN, kinds : SUBSET Kinds, known : BOOLEAN,
                 load : {"idle", "asked", "slots"}, open : BOOLEAN]
  /\ date \in Dates \cup {NoDate}
  /\ loads \subseteq Load
  /\ slots \subseteq Slot
  /\ selected \subseteq Slot
  /\ attempt \in Attempt
  /\ submitting \in BOOLEAN
  /\ receipt \in [attempt : Attempt, shown : Booking, checks : Nat, timer : BOOLEAN]
  /\ call \in [n : 0..(MaxFaults + 1), for : {"submit", "check"},
               reply : {"none", "saved", "refused", "taken", "mismatch"},
               booking : Booking]
  /\ keys \in 0..MaxKeys
  /\ wire \subseteq [n : Numbers, attempt : {a \in Attempt : a.key # 0}]
  /\ saved \in [Keys -> Booking]
  /\ taken \subseteq Dates
  /\ refused \subseteq Keys
  /\ overdue \subseteq Keys
  /\ faults \in 0..MaxFaults

\* A request the service has saved is the one the page shows or still checks: whatever
\* was lost on the way, the visitor is not led to make a second one (booking.js, "without
\* creating a duplicate").  The exception: another copy of a request the service had found
\* no time for arrives late, and finds the time free again.
SavedIsKnown ==
  \A k \in Keys : saved[k].key # 0 /\ k \notin overdue => k \in {attempt.key, receipt.attempt.key}

\* What is chosen, submitted and shown is of the kind and the date that the page shows,
\* whichever loads of other kinds and dates are still under way.
OfferIsCurrent ==
  /\ \A s \in selected : s.kind = kind /\ s.date = date
  /\ Trying => attempt.kind = kind /\ attempt.date = date
  /\ Received => /\ receipt.attempt.kind = kind /\ receipt.attempt.date = date
                 /\ receipt.shown.kind = kind /\ receipt.shown.key = receipt.attempt.key

\* A visitor who keeps checking a request comes to know what has become of it, and the page
\* does not stay busy with a submission.
OutcomeKnown ==
  []<>(submitting \/ ~Trying) => []<>(~submitting /\ ~Trying)
=============================================================================
