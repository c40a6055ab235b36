------------------------ MODULE BookingClient_proofs ------------------------
(***************************************************************************)
(* Theorems about BookingClient, for any kinds, dates, configurations and  *)
(* bounds.                                                                 *)
(***************************************************************************)
EXTENDS BookingClient, TLAPS

-----------------------------------------------------------------------------
(* The invariant *)

\* The form is open from the first usable configuration to the receipt.
PageInv ==
  /\ config.open => ~Received /\ config.known /\ config.enabled
  /\ config.enabled => config.open \/ Received
  /\ config.load = "asked" => ~config.open /\ ~Received
  /\ receipt.timer => Received
  /\ ~config.open => ~Trying /\ ~submitting
  /\ ~config.open /\ ~Received => loads = {} /\ slots = {} /\ selected = {}
  /\ Calling => IF call.for = "submit" THEN Trying /\ submitting ELSE Received

\* A submission that was refused waits for one load of times.
RefusalInv ==
  \A l \in loads : l.after = "refusal" =>
    submitting /\ ~Trying /\ \A m \in loads : m.after = "refusal" => m = l

OfferInv ==
  /\ OfferIsCurrent
  /\ \A s \in slots : s.kind = kind /\ s.date = date
  /\ \A l \in loads : l.current => l.kind = kind /\ l.date = date

Wanted == IF call.for = "submit" THEN attempt ELSE receipt.attempt

\* Requests on their way are the one that is tried, the one that is shown, or have been
\* refused for good.
WireInv ==
  /\ attempt.key <= keys /\ receipt.attempt.key <= keys
  /\ \A p \in wire :
       /\ p.attempt.key <= keys
       /\ p.attempt.key = attempt.key => p.attempt = attempt
       /\ p.attempt.key = receipt.attempt.key => p.attempt = receipt.attempt
       /\ p.attempt.good => p.attempt.key \in {attempt.key, receipt.attempt.key} \cup refused
       /\ Awaited(p) => p.attempt = Wanted

ReplyInv ==
  /\ call.reply = "refused" => ~Wanted.good
  /\ call.reply = "taken" => Wanted.key \in refused
  /\ call.reply = "saved" => call.booking.key = Wanted.key

SavedInv ==
  \A k \in Keys : saved[k].key # 0 =>
    /\ saved[k].key = k /\ k <= keys
    /\ k \in refused => k \in overdue
    /\ k = attempt.key => attempt.good

ClientInv == TypeOK /\ PageInv /\ RefusalInv /\ OfferInv /\ WireInv /\ ReplyInv /\ SavedInv /\ SavedIsKnown

-----------------------------------------------------------------------------
(* Types                                                                   *)

LEMMA Defaults ==
  /\ AnyKind \in Kinds /\ AnyDate \in Dates
  /\ NoAttempt \in Attempt /\ NoAttempt.key = 0
  /\ NoBooking \in Booking /\ NoBooking.key = 0
<1>1. AnyKind \in Kinds /\ AnyDate \in Dates
  BY ClientAssumption DEF AnyKind, AnyDate
<1>2. 0 \in 0..MaxKeys
  BY ClientAssumption
<1> QED BY <1>1, <1>2 DEF NoAttempt, NoBooking, Attempt, Booking, Statuses, CalendarStatuses

LEMMA SupersededType == ASSUME NEW l \in Load PROVE Superseded(l) \in Load /\ ~Superseded(l).current /\ Superseded(l).after = l.after
BY DEF Load, Superseded

LEMMA CancelledType ==
  ASSUME NEW b \in Booking
  PROVE  LET c == [b EXCEPT !.status = "cancelled", !.cal = "pending"] IN c \in Booking /\ c.key = b.key
BY DEF Booking, CalendarStatuses, Statuses

LEMMA LoadsType ==
  ASSUME TypeOK, NEW k \in Kinds, NEW d \in Dates \cup {NoDate}, NEW after \in {"config", "refusal", "choice"},
         LoadSlots(k, d, after)
  PROVE  loads' \subseteq Load /\ slots' \subseteq Slot /\ selected' \subseteq Slot
<1>1. \A l \in loads : Superseded(l) \in Load
  BY SupersededType DEF TypeOK
<1>2. d # NoDate => [date |-> d, kind |-> k, after |-> after, current |-> TRUE] \in Load
  BY DEF Load
<1>3. \A l \in loads' : l \in {Superseded(m) : m \in loads} \/ (d # NoDate /\ l = [date |-> d, kind |-> k, after |-> after, current |-> TRUE])
  BY DEF LoadSlots
<1>4. loads' \subseteq Load
  BY <1>1, <1>2, <1>3
<1> QED BY <1>4 DEF LoadSlots

LEMMA PostType ==
  ASSUME TypeOK, NEW a \in Attempt, a.key # 0, NEW for \in {"submit", "check"}, Post(a, for)
  PROVE  /\ wire' \subseteq [n : Numbers, attempt : {b \in Attempt : b.key # 0}]
         /\ call' \in [n : 0..(MaxFaults + 1), for : {"submit", "check"},
                       reply : {"none", "saved", "refused", "taken", "mismatch"}, booking : Booking]
<1>1. PICK n \in Numbers : /\ wire' = wire \cup {[n |-> n, attempt |-> a]}
                           /\ call' = [n |-> n, for |-> for, reply |-> "none", booking |-> NoBooking]
  BY DEF Post
<1>2. n \in 0..(MaxFaults + 1)
  BY ClientAssumption DEF Numbers
<1> QED BY <1>1, <1>2, Defaults DEF TypeOK

LEMMA InitType == Init => TypeOK
<1> SUFFICES ASSUME Init PROVE TypeOK
  OBVIOUS
<1>1. 0 \in 0..MaxKeys /\ 0 \in 0..MaxFaults /\ 0 \in 0..(MaxFaults + 1)
  BY ClientAssumption
<1>2. NoReceipt \in [attempt : Attempt, shown : Booking, checks : Nat, timer : BOOLEAN]
  BY Defaults DEF NoReceipt
<1>3. NoCall \in [n : 0..(MaxFaults + 1), for : {"submit", "check"},
                  reply : {"none", "saved", "refused", "taken", "mismatch"}, booking : Booking]
  BY <1>1, Defaults DEF NoCall
<1>4. [k \in Keys |-> NoBooking] \in [Keys -> Booking]
  BY Defaults
<1> QED BY <1>1, <1>2, <1>3, <1>4, Defaults DEF Init, TypeOK

LEMMA PageType ==
  ASSUME TypeOK, \/ \E enabled \in BOOLEAN, kinds \in Offers : ConfigArrives(enabled, kinds)
                 \/ ConfigFails \/ ReloadConfig
                 \/ \E l \in loads : SlotsArrive(l) \/ SlotsFail(l)
  PROVE  TypeOK'
<1> USE DEF TypeOK, request, service, form
<1>1. ASSUME NEW enabled \in BOOLEAN, NEW kinds \in Offers, ConfigArrives(enabled, kinds) PROVE TypeOK'
  <2>0. kinds \in SUBSET Kinds
    BY ClientAssumption
  <2>1. CASE kind \notin kinds \/ ~enabled
    BY <1>1, <2>0, <2>1 DEF ConfigArrives
  <2>2. CASE kind \in kinds /\ enabled
    <3>1. PICK d \in Dates : date' = d /\ LoadSlots(kind, d, "config")
      BY <1>1, <2>2 DEF ConfigArrives
    <3>2. loads' \subseteq Load /\ slots' \subseteq Slot /\ selected' \subseteq Slot
      BY <3>1, LoadsType
    <3>3. config' \in [enabled : BOOLEAN, kinds : SUBSET Kinds, known : BOOLEAN,
                       load : {"idle", "asked", "slots"}, open : BOOLEAN]
      <4>1. config' = [enabled |-> TRUE, kinds |-> kinds, known |-> TRUE, load |-> "slots", open |-> TRUE]
        BY <1>1, <2>2, Zenon DEF ConfigArrives
      <4> QED BY <4>1, <2>0
    <3>4. UNCHANGED <<kind, request, wire, service, faults>>
      BY <1>1 DEF ConfigArrives
    <3> QED BY <3>1, <3>2, <3>3, <3>4
  <2> QED BY <2>1, <2>2
<1>2. CASE ConfigFails \/ ReloadConfig
  BY <1>2, ClientAssumption DEF ConfigFails, ReloadConfig, Fault
<1>3. ASSUME NEW l \in loads, SlotsArrive(l) \/ SlotsFail(l) PROVE TypeOK'
  <2>1. [date |-> l.date, kind |-> l.kind] \in Slot
    BY DEF Load, Slot
  <2>2. loads' \subseteq Load /\ slots' \subseteq Slot
    BY <1>3, <2>1 DEF SlotsArrive, SlotsFail
  <2>3. faults' \in 0..MaxFaults
    <3>1. faults' = faults \/ Fault
      BY <1>3, Zenon DEF SlotsArrive, SlotsFail
    <3> QED BY <3>1, ClientAssumption DEF Fault
  <2>4. submitting' \in BOOLEAN
    BY <1>3, Zenon DEF SlotsArrive, SlotsFail, Continues
  <2>5. config' \in [enabled : BOOLEAN, kinds : SUBSET Kinds, known : BOOLEAN,
                     load : {"idle", "asked", "slots"}, open : BOOLEAN]
    BY <1>3 DEF SlotsArrive, SlotsFail, Continues
  <2>6. UNCHANGED <<kind, date, selected, attempt, receipt, call, keys, wire, saved, taken, refused, overdue>>
    BY <1>3 DEF SlotsArrive, SlotsFail
  <2> QED BY <2>2, <2>3, <2>4, <2>5, <2>6
<1> QED BY <1>1, <1>2, <1>3

LEMMA VisitorType ==
  ASSUME TypeOK, VisitorNext
  PROVE  TypeOK'
<1> USE DEF TypeOK, request, service, form
<1>1. ASSUME NEW d \in Dates \cup {NoDate}, ChooseDate(d) PROVE TypeOK'
  BY <1>1, LoadsType DEF ChooseDate
<1>2. CASE RetrySlots
  BY <1>2, LoadsType DEF RetrySlots
<1>3. ASSUME NEW s \in slots, ChooseTime(s) PROVE TypeOK'
  BY <1>3 DEF ChooseTime
<1>4. ASSUME NEW next \in Kinds, SwitchKind(next) PROVE TypeOK'
  <2>1. CASE config.known /\ config.enabled
    BY <1>4, <2>1, LoadsType DEF SwitchKind
  <2>2. CASE ~(config.known /\ config.enabled)
    BY <1>4, <2>2 DEF SwitchKind
  <2> QED BY <2>1, <2>2
<1>5. CASE Submit
  <2>1. CASE Trying /\ UNCHANGED <<attempt, keys>>
    BY <1>5, <2>1, PostType DEF Submit, Trying
  <2>2. CASE ~(Trying /\ UNCHANGED <<attempt, keys>>)
    <3>1. PICK s \in selected, good \in BOOLEAN : attempt' = NewAttempt(s, good) /\ keys' = keys + 1 /\ keys < MaxKeys
      BY <1>5, <2>2 DEF Submit
    <3>2. keys + 1 \in 0..MaxKeys /\ keys + 1 # 0
      BY <3>1, ClientAssumption
    <3>3. attempt' \in Attempt /\ attempt'.key # 0
      BY <3>1, <3>2 DEF NewAttempt, Attempt, Slot
    <3> QED BY <1>5, <3>1, <3>2, <3>3, PostType DEF Submit
  <2> QED BY <2>1, <2>2
<1> QED BY <1>1, <1>2, <1>3, <1>4, <1>5, PageType DEF VisitorNext

LEMMA ConcludesType ==
  ASSUME TypeOK, Calling, NEW reply, NEW b \in Booking, Concludes(reply, b)
  PROVE  /\ receipt' \in [attempt : Attempt, shown : Booking, checks : Nat, timer : BOOLEAN]
         /\ attempt' \in Attempt /\ submitting' \in BOOLEAN
         /\ loads' \subseteq Load /\ slots' \subseteq Slot /\ selected' \subseteq Slot
         /\ config' \in [enabled : BOOLEAN, kinds : SUBSET Kinds, known : BOOLEAN,
                         load : {"idle", "asked", "slots"}, open : BOOLEAN]
         /\ call' \in [n : 0..(MaxFaults + 1), for : {"submit", "check"},
                       reply : {"none", "saved", "refused", "taken", "mismatch"}, booking : Booking]
<1> USE DEF TypeOK
<1>1. call' \in [n : 0..(MaxFaults + 1), for : {"submit", "check"},
                 reply : {"none", "saved", "refused", "taken", "mismatch"}, booking : Booking]
  BY ClientAssumption, Defaults DEF Concludes, NoCall
<1>2. CASE call.for = "submit"
  <2>1. CASE reply = "saved" /\ ValidReceipt(b)
    <3> DEFINE r == [attempt |-> attempt, shown |-> b, checks |-> 0, timer |-> FALSE]
    <3>1. /\ config' = [config EXCEPT !.open = FALSE] /\ receipt' = Planned(r) /\ attempt' = NoAttempt
          /\ submitting' = FALSE /\ UNCHANGED <<loads, slots, selected>>
      BY <1>2, <2>1 DEF Concludes, Settles
    <3>2. receipt' \in [attempt : Attempt, shown : Booking, checks : Nat, timer : BOOLEAN]
      BY <3>1 DEF Planned
    <3> QED BY <1>1, <3>1, <3>2, Defaults
  <2>2. CASE reply = "taken" /\ Forgets(reply)
    <3>1. LoadSlots(kind, date, "refusal") /\ attempt' = NoAttempt /\ UNCHANGED <<config, receipt, submitting>>
      BY <1>2, <2>2 DEF Concludes, Settles
    <3> QED BY <1>1, <3>1, LoadsType, Defaults
  <2>3. CASE ~(reply = "saved" /\ ValidReceipt(b)) /\ ~(reply = "taken" /\ Forgets(reply))
    <3>1. /\ attempt' = IF Forgets(reply) THEN NoAttempt ELSE attempt
          /\ submitting' = FALSE /\ UNCHANGED <<config, receipt, loads, slots, selected>>
      BY <1>2, <2>3 DEF Concludes, Settles
    <3> QED BY <1>1, <3>1, Defaults
  <2> QED BY <2>1, <2>2, <2>3
<1>3. CASE call.for # "submit"
  <2> DEFINE r == IF reply = "saved" /\ ValidReceipt(b) /\ b.key = receipt.shown.key
                    THEN [receipt EXCEPT !.shown = b] ELSE receipt
  <2>1. receipt' = Planned(r) /\ UNCHANGED <<config, loads, slots, selected, attempt, submitting>>
    BY <1>3 DEF Concludes, Checks
  <2>2. r \in [attempt : Attempt, shown : Booking, checks : Nat, timer : BOOLEAN]
    OBVIOUS
  <2> HIDE DEF r
  <2>3. receipt' \in [attempt : Attempt, shown : Booking, checks : Nat, timer : BOOLEAN]
    BY <2>1, <2>2 DEF Planned
  <2> QED BY <1>1, <2>1, <2>3
<1> QED BY <1>2, <1>3

LEMMA AnswersType ==
  ASSUME TypeOK, AnswerArrives \/ GivesUp
  PROVE  TypeOK'
<1>1. CASE AnswerArrives
  <2>1. call.booking \in Booking
    BY DEF TypeOK
  <2>2. Calling /\ Concludes(call.reply, call.booking)
    BY <1>1 DEF AnswerArrives
  <2>3. UNCHANGED <<wire, faults, kind, date, keys, saved, taken, refused, overdue>>
    BY <1>1 DEF AnswerArrives, Concludes, service
  <2> QED BY <2>1, <2>2, <2>3, ConcludesType DEF TypeOK
<1>2. CASE GivesUp
  <2>1. Calling /\ Concludes("unsure", NoBooking)
    BY <1>2 DEF GivesUp
  <2>2. UNCHANGED <<kind, date, keys, saved, taken, refused, overdue>>
    BY <1>2 DEF GivesUp, Concludes, service
  <2>3. wire' \subseteq wire /\ faults' \in 0..MaxFaults
    BY <1>2, ClientAssumption DEF GivesUp, Fault, TypeOK
  <2> QED BY <2>1, <2>2, <2>3, ConcludesType, Defaults DEF TypeOK
<1> QED BY <1>1, <1>2

\* What the service does with a request.
LEMMA Served ==
  ASSUME TypeOK, NEW p \in wire, Serve(p)
  PROVE  LET a == p.attempt IN
         /\ a \in Attempt /\ a.key \in Keys
         /\ wire' = wire \ {p} /\ UNCHANGED <<form, attempt, submitting, receipt, keys, taken, faults>>
         /\ \E r \in {"saved", "refused", "taken", "mismatch"}, b \in Booking :
              /\ saved' = [saved EXCEPT ![a.key] = b]
              /\ call' = IF Awaited(p) THEN [call EXCEPT !.reply = r, !.booking = b] ELSE call
              /\ r = "refused" => ~a.good
              /\ \/ /\ b = saved[a.key] /\ refused' = refused /\ overdue' = overdue
                    /\ r # "taken" /\ (r = "saved" => b.key # 0)
                 \/ /\ b = saved[a.key] /\ b.key = 0 /\ r = "taken"
                    /\ refused' = refused \cup {a.key} /\ overdue' = overdue
                 \/ /\ saved[a.key].key = 0 /\ b.key = a.key /\ r = "saved" /\ a.good
                    /\ refused' = refused
                    /\ overdue' = IF a.key \in refused THEN overdue \cup {a.key} ELSE overdue
<1> DEFINE a == p.attempt
           r == ReplyTo(a)
           fresh == r = "saved" /\ saved[a.key].key = 0
           b == IF fresh THEN Row(a) ELSE saved[a.key]
<1>1. a \in Attempt /\ a.key # 0
  BY DEF TypeOK
<1>2. a.key \in Keys
  BY <1>1, ClientAssumption DEF Keys, Attempt
<1>3. Row(a) \in Booking /\ Row(a).key = a.key
  BY <1>1 DEF Row, Booking, Attempt, Statuses, CalendarStatuses
<1>4. r \in {"saved", "refused", "taken", "mismatch"}
  BY DEF ReplyTo
<1>5. saved[a.key] \in Booking
  BY <1>2 DEF TypeOK
<1>6. b \in Booking
  BY <1>3, <1>5
<1>7. /\ wire' = wire \ {p} /\ UNCHANGED <<form, attempt, submitting, receipt, keys, taken, faults>>
      /\ saved' = [saved EXCEPT ![a.key] = b]
      /\ call' = IF Awaited(p) THEN [call EXCEPT !.reply = r, !.booking = b] ELSE call
      /\ refused' = refused \cup {k \in {a.key} : r = "taken"}
      /\ overdue' = overdue \cup {k \in {a.key} : fresh /\ k \in refused}
  BY DEF Serve
<1>8. (r = "refused" => ~a.good) /\ (r = "saved" => a.good) /\ (r = "taken" => saved[a.key].key = 0)
  BY DEF ReplyTo
<1> HIDE DEF r
<1>9. CASE fresh
  <2>1. b = Row(a) /\ r = "saved" /\ saved[a.key].key = 0
    BY <1>9
  <2>2. refused' = refused /\ overdue' = IF a.key \in refused THEN overdue \cup {a.key} ELSE overdue
    BY <1>7, <1>9
  <2> QED BY <1>1, <1>2, <1>3, <1>4, <1>6, <1>7, <1>8, <2>1, <2>2
<1>10. CASE ~fresh /\ r = "taken"
  <2>1. b = saved[a.key] /\ refused' = refused \cup {a.key} /\ overdue' = overdue
    BY <1>7, <1>10
  <2> QED BY <1>1, <1>2, <1>4, <1>6, <1>7, <1>8, <1>10, <2>1
<1>11. CASE ~fresh /\ r # "taken"
  <2>1. b = saved[a.key] /\ refused' = refused /\ overdue' = overdue /\ (r = "saved" => saved[a.key].key # 0)
    BY <1>7, <1>11
  <2> QED BY <1>1, <1>2, <1>4, <1>6, <1>7, <1>8, <1>11, <2>1
<1> QED BY <1>9, <1>10, <1>11

LEMMA ServiceType ==
  ASSUME TypeOK, ServiceNext
  PROVE  TypeOK'
<1> USE DEF TypeOK, request, service, form
<1>1. ASSUME NEW p \in wire, Serve(p) PROVE TypeOK'
  <2>1. PICK r \in {"saved", "refused", "taken", "mismatch"}, b \in Booking :
          /\ saved' = [saved EXCEPT ![p.attempt.key] = b]
          /\ call' = IF Awaited(p) THEN [call EXCEPT !.reply = r, !.booking = b] ELSE call
    BY <1>1, Served
  <2>2. p.attempt.key \in Keys /\ wire' = wire \ {p} /\ UNCHANGED <<form, attempt, submitting, receipt, keys, taken, faults>>
    BY <1>1, Served
  <2>3. refused' \subseteq Keys /\ overdue' \subseteq Keys
    BY <1>1, <2>2 DEF Serve
  <2>4. saved' \in [Keys -> Booking]
    BY <2>1, <2>2
  <2>5. call' \in [n : 0..(MaxFaults + 1), for : {"submit", "check"},
                   reply : {"none", "saved", "refused", "taken", "mismatch"}, booking : Booking]
    BY <2>1
  <2> QED BY <2>2, <2>3, <2>4, <2>5
<1>2. ASSUME NEW k \in Keys, NEW cal \in {"synced", "failed"}, CalendarMoves(k, cal) PROVE TypeOK'
  <2>1. [saved[k] EXCEPT !.cal = cal] \in Booking
    BY DEF Booking, CalendarStatuses
  <2> QED BY <1>2, <2>1 DEF CalendarMoves
<1>3. ASSUME NEW k \in Keys, OwnerCancels(k) PROVE TypeOK'
  <2>1. [saved[k] EXCEPT !.status = "cancelled", !.cal = "pending"] \in Booking
    BY CancelledType
  <2> QED BY <1>3, <2>1 DEF OwnerCancels
<1>4. ASSUME NEW d \in Dates, OthersTake(d) \/ OthersLeave(d) PROVE TypeOK'
  BY <1>4 DEF OthersTake, OthersLeave
<1> QED BY <1>1, <1>2, <1>3, <1>4 DEF ServiceNext

LEMMA TimerType ==
  ASSUME TypeOK, Received, TimerFires
  PROVE  TypeOK'
<1> USE DEF TypeOK, service, form
<1>1. receipt.attempt \in Attempt /\ receipt.attempt.key # 0 /\ receipt.checks + 1 \in Nat
  BY DEF Received
<1>2. CASE Post(receipt.attempt, "check") /\ receipt' = [receipt EXCEPT !.timer = FALSE, !.checks = @ + 1]
  BY <1>1, <1>2, PostType DEF TimerFires
<1>3. CASE receipt' = [receipt EXCEPT !.timer = FALSE] /\ UNCHANGED <<wire, call>>
  BY <1>3 DEF TimerFires
<1> QED BY <1>2, <1>3 DEF TimerFires

-----------------------------------------------------------------------------
(* The invariant, step by step                                             *)

LEMMA SameRequests ==
  ASSUME ClientInv, UNCHANGED <<attempt, receipt, call, keys, wire, service>>
  PROVE  WireInv' /\ ReplyInv' /\ SavedInv' /\ SavedIsKnown'
BY DEF ClientInv, WireInv, ReplyInv, SavedInv, SavedIsKnown, Awaited, Wanted, service

\* A new load leaves nothing of the kind and the date before.
LEMMA LoadsOffer ==
  ASSUME TypeOK, NEW after, LoadSlots(kind', date', after), \A l \in loads : l.after # "refusal"
  PROVE  /\ slots' = {} /\ selected' = {}
         /\ \A l \in loads' : l.current => l.kind = kind' /\ l.date = date'
         /\ \A l \in loads' : l.after = "refusal" => after = "refusal" /\ \A m \in loads' : m.after = "refusal" => m = l
<1> DEFINE new == [date |-> date', kind |-> kind', after |-> after, current |-> TRUE]
<1>1. \A l \in loads' : l = new \/ \E m \in loads : l = Superseded(m)
  BY DEF LoadSlots
<1>2. \A m \in loads : ~Superseded(m).current /\ Superseded(m).after = m.after
  BY SupersededType DEF TypeOK
<1>3. new.kind = kind' /\ new.date = date' /\ new.after = after
  OBVIOUS
<1> HIDE DEF new
<1>4. \A l \in loads' : l = new \/ (~l.current /\ l.after # "refusal")
  BY <1>1, <1>2
<1>5. slots' = {} /\ selected' = {}
  BY DEF LoadSlots
<1> QED BY <1>3, <1>4, <1>5

LEMMA LoadsInv ==
  ASSUME ClientInv, \/ \E enabled \in BOOLEAN, kinds \in Offers : ConfigArrives(enabled, kinds)
                    \/ ConfigFails \/ ReloadConfig
                    \/ \E l \in loads : SlotsArrive(l) \/ SlotsFail(l)
  PROVE  ClientInv'
<1>1. TypeOK'
  BY PageType DEF ClientInv
<1>2. UNCHANGED <<attempt, receipt, call, keys, wire, service, kind>>
  BY DEF ConfigArrives, ConfigFails, ReloadConfig, SlotsArrive, SlotsFail, request
<1>3. ASSUME NEW enabled \in BOOLEAN, NEW kinds \in Offers, ConfigArrives(enabled, kinds)
      PROVE  PageInv' /\ RefusalInv' /\ OfferInv'
  <2>1. CASE kind \notin kinds \/ ~enabled
    <3>1. /\ UNCHANGED <<date, loads, slots, selected, submitting>>
          /\ ~config'.open /\ ~config.open /\ config'.load = "idle" /\ (config'.enabled => config.enabled)
      BY <1>3, <2>1 DEF ConfigArrives, request, ClientInv, TypeOK, PageInv
    <3>2. PageInv'
      BY <1>2, <3>1 DEF ClientInv, PageInv, Trying, Received, Calling
    <3>3. RefusalInv' /\ OfferInv'
      BY <1>2, <3>1 DEF ClientInv, RefusalInv, OfferInv, OfferIsCurrent, Trying, Received
    <3> QED BY <3>2, <3>3
  <2>2. CASE kind \in kinds /\ enabled
    <3>1. config' = [enabled |-> TRUE, kinds |-> kinds, known |-> TRUE, load |-> "slots", open |-> TRUE]
      BY <1>3, <2>2, Zenon DEF ConfigArrives
    <3>2. PICK d \in Dates : date' = d /\ LoadSlots(kind, d, "config")
      BY <1>3, <2>2, Zenon DEF ConfigArrives
    <3>3. ~Trying /\ ~Received /\ loads = {} /\ submitting' = submitting
      BY <1>3 DEF ConfigArrives, ClientInv, PageInv, request
    <3>4. LoadSlots(kind', date', "config")
      BY <1>2, <3>2
    <3>5. /\ slots' = {} /\ selected' = {}
          /\ \A l \in loads' : l.current => l.kind = kind' /\ l.date = date'
          /\ \A l \in loads' : l.after # "refusal"
      BY <3>3, <3>4, LoadsOffer DEF ClientInv
    <3>6. PageInv'
      BY <1>2, <3>1, <3>3 DEF ClientInv, PageInv, Trying, Received, Calling
    <3>7. RefusalInv' /\ OfferInv'
      BY <1>2, <3>3, <3>5 DEF RefusalInv, OfferInv, OfferIsCurrent, Trying, Received
    <3> QED BY <3>6, <3>7
  <2> QED BY <2>1, <2>2
<1>4. ASSUME ConfigFails \/ ReloadConfig
      PROVE  PageInv' /\ RefusalInv' /\ OfferInv'
  <2>1. /\ UNCHANGED <<date, loads, slots, selected, submitting>>
        /\ config'.open = config.open /\ config'.enabled = config.enabled /\ config'.known = config.known
        /\ config'.load = "asked" => ~config.open /\ ~Received
    BY <1>4 DEF ConfigFails, ReloadConfig, request, ClientInv, TypeOK, PageInv
  <2>2. PageInv'
    BY <1>2, <2>1 DEF ClientInv, PageInv, Trying, Received, Calling
  <2>3. RefusalInv' /\ OfferInv'
    BY <1>2, <2>1 DEF ClientInv, RefusalInv, OfferInv, OfferIsCurrent, Trying, Received
  <2> QED BY <2>2, <2>3
<1>5. ASSUME NEW l \in loads, SlotsArrive(l) \/ SlotsFail(l)
      PROVE  PageInv' /\ RefusalInv' /\ OfferInv'
  <2>1. UNCHANGED <<date, selected>> /\ loads' = loads \ {l}
    BY <1>5 DEF SlotsArrive, SlotsFail
  <2>2. /\ config'.open = config.open /\ config'.enabled = config.enabled /\ config'.known = config.known
        /\ (config'.load = "asked" => config.load = "asked")
    BY <1>5 DEF SlotsArrive, SlotsFail, Continues, ClientInv, TypeOK
  <2>3. config.open \/ Received
    BY DEF ClientInv, PageInv
  <2>4. submitting' = (submitting /\ l.after # "refusal")
    BY <1>5, Zenon DEF SlotsArrive, SlotsFail, Continues
  <2>5. \A s \in slots' : s.kind = kind /\ s.date = date
    <3>1. CASE slots' = slots
      BY <3>1 DEF ClientInv, OfferInv
    <3>2. CASE l.current /\ slots' \in SUBSET {[date |-> l.date, kind |-> l.kind]}
      BY <3>2 DEF ClientInv, OfferInv
    <3> QED BY <1>5, <3>1, <3>2 DEF SlotsArrive, SlotsFail, Heeds
  <2>6. Calling /\ call.for = "submit" => submitting'
    \* A submission waits for its answer before it waits for the times.
    BY <2>4 DEF ClientInv, PageInv, RefusalInv
  <2>7. PageInv'
    BY <1>2, <2>2, <2>3, <2>4, <2>6 DEF ClientInv, PageInv, Trying, Received, Calling
  <2>8. RefusalInv'
    BY <1>2, <2>1, <2>4 DEF ClientInv, RefusalInv, Trying
  <2>9. OfferInv'
    BY <1>2, <2>1, <2>5 DEF ClientInv, OfferInv, OfferIsCurrent, Trying, Received
  <2> QED BY <2>7, <2>8, <2>9
<1> QED BY <1>1, <1>2, <1>3, <1>4, <1>5, SameRequests DEF ClientInv

\* The visitor chooses while nothing is submitted.
LEMMA ChoiceInv ==
  ASSUME ClientInv, LoadSlots(kind', date', "choice"), UNCHANGED <<config, request>>,
         config.open, ~submitting, ~Trying
  PROVE  PageInv' /\ RefusalInv' /\ OfferInv'
<1>1. UNCHANGED <<attempt, submitting, receipt, call, keys>>
  BY DEF request
<1>2. \A l \in loads : l.after # "refusal"
  BY DEF ClientInv, RefusalInv
<1>3. /\ slots' = {} /\ selected' = {}
      /\ \A l \in loads' : l.current => l.kind = kind' /\ l.date = date'
      /\ \A l \in loads' : l.after # "refusal"
  BY <1>2, LoadsOffer DEF ClientInv
<1>4. ~Received
  BY DEF ClientInv, PageInv
<1>5. PageInv'
  BY <1>1 DEF ClientInv, PageInv, Trying, Received, Calling
<1>6. RefusalInv' /\ OfferInv'
  BY <1>1, <1>3, <1>4 DEF RefusalInv, OfferInv, OfferIsCurrent, Trying, Received
<1> QED BY <1>5, <1>6

\* What a request leaves on its way.
LEMMA Posted ==
  ASSUME NEW a, NEW for, Post(a, for)
  PROVE  \E n \in Numbers : /\ \A p \in wire : p.n # n
                            /\ wire' = wire \cup {[n |-> n, attempt |-> a]}
                            /\ call' = [n |-> n, for |-> for, reply |-> "none", booking |-> NoBooking]
<1>1. PICK n \in Numbers : /\ \A m \in 1..n : (m = n) <=> ~\E p \in wire : p.n = m
                           /\ wire' = wire \cup {[n |-> n, attempt |-> a]}
                           /\ call' = [n |-> n, for |-> for, reply |-> "none", booking |-> NoBooking]
  BY DEF Post
<1>2. n \in 1..n
  BY ClientAssumption DEF Numbers
<1> QED BY <1>1, <1>2

LEMMA SubmitInv ==
  ASSUME ClientInv, Submit
  PROVE  ClientInv'
<1>1. TypeOK'
  BY VisitorType DEF VisitorNext, ClientInv
<1>2. /\ config.open /\ ~submitting /\ submitting' = TRUE /\ Post(attempt', "submit")
      /\ UNCHANGED <<kind, config, date, loads, slots, selected, receipt, saved, taken, refused, overdue>>
  BY DEF Submit, form, service
<1>3. PICK n \in Numbers : /\ \A p \in wire : p.n # n
                           /\ wire' = wire \cup {[n |-> n, attempt |-> attempt']}
                           /\ call' = [n |-> n, for |-> "submit", reply |-> "none", booking |-> NoBooking]
  BY <1>2, Posted
<1>4. /\ receipt.attempt.key = 0 /\ \A l \in loads : l.after # "refusal"
  BY <1>2 DEF ClientInv, PageInv, RefusalInv, Received
<1>5. /\ attempt'.key # 0 /\ attempt'.key <= keys' /\ keys <= keys'
      /\ attempt'.kind = kind /\ attempt'.date = date
      /\ \A p \in wire : p.attempt.key = attempt'.key => p.attempt = attempt'
      /\ \A p \in wire : p.attempt.good => p.attempt.key \in {attempt'.key} \cup refused
      /\ \A k \in Keys : saved[k].key # 0 /\ k = attempt'.key => attempt'.good
      /\ \A k \in Keys : saved[k].key # 0 /\ k \notin overdue => k = attempt'.key
  <2>0. \A k \in Keys : k # 0
    BY ClientAssumption DEF Keys
  <2>1. CASE Trying /\ UNCHANGED <<attempt, keys>>
    <3>1. attempt.kind = kind /\ attempt.date = date /\ attempt.key # 0
      BY <2>1 DEF ClientInv, OfferInv, OfferIsCurrent, Trying
    <3>2. attempt.key <= keys /\ keys <= keys'
      BY <2>1 DEF ClientInv, WireInv, TypeOK
    <3>3. /\ \A p \in wire : p.attempt.key = attempt.key => p.attempt = attempt
          /\ \A p \in wire : p.attempt.good => p.attempt.key \in {attempt.key} \cup refused
      BY <1>4 DEF ClientInv, WireInv, TypeOK
    <3>4. /\ \A k \in Keys : saved[k].key # 0 /\ k = attempt.key => attempt.good
          /\ \A k \in Keys : saved[k].key # 0 /\ k \notin overdue => k = attempt.key
      BY <1>4, <2>0 DEF ClientInv, SavedInv, SavedIsKnown
    <3>5. attempt' = attempt /\ keys' = keys
      BY <2>1
    <3> QED BY <3>1, <3>2, <3>3, <3>4, <3>5
  <2>2. CASE ~(Trying /\ UNCHANGED <<attempt, keys>>)
    <3>1. PICK s \in selected, good \in BOOLEAN : attempt' = NewAttempt(s, good)
      BY <2>2 DEF Submit
    <3>2. keys' = keys + 1 /\ attempt.key = 0 /\ keys \in Nat
      BY <2>2, ClientAssumption DEF Submit, Trying, ClientInv, TypeOK
    <3>3. attempt'.key = keys + 1 /\ attempt'.kind = kind /\ attempt'.date = date
      BY <3>1 DEF NewAttempt, ClientInv, OfferInv, OfferIsCurrent
    <3>4. \A p \in wire : p.attempt.key <= keys /\ p.attempt.key \in Nat /\ p.attempt.key # 0
      BY DEF ClientInv, WireInv, TypeOK, Attempt
    <3>5. \A p \in wire : p.attempt.good => p.attempt.key \in refused
      BY <1>4, <3>2, <3>4 DEF ClientInv, WireInv
    <3>6. \A k \in Keys : saved[k].key # 0 => k <= keys /\ k \in overdue
      BY <1>4, <2>0, <3>2 DEF ClientInv, SavedInv, SavedIsKnown
    <3>7. \A k \in Keys : k \in Nat
      BY DEF Keys
    <3> QED BY <3>2, <3>3, <3>4, <3>5, <3>6, <3>7
  <2> QED BY <2>1, <2>2
<1>6. PageInv' /\ RefusalInv'
  BY <1>2, <1>3, <1>4, <1>5 DEF ClientInv, PageInv, RefusalInv, Trying, Received, Calling
<1>7. OfferInv'
  BY <1>2, <1>4, <1>5 DEF ClientInv, OfferInv, OfferIsCurrent, Received
<1>8. WireInv'
  <2>1. attempt'.key <= keys' /\ receipt'.attempt.key <= keys'
    BY <1>2, <1>5, <1>1, <1>4 DEF ClientInv, WireInv, TypeOK
  <2>2. Wanted' = attempt'
    BY <1>3 DEF Wanted
  <2>3. ASSUME NEW p \in wire
        PROVE  /\ p.attempt.key <= keys'
               /\ p.attempt.key = attempt'.key => p.attempt = attempt'
               /\ p.attempt.key # receipt.attempt.key
               /\ p.attempt.good => p.attempt.key \in {attempt'.key} \cup refused
               /\ call'.n # p.n
    <3>1. p.attempt.key <= keys /\ p.attempt.key \in Nat /\ p.attempt.key # 0 /\ keys \in Nat /\ keys' \in Nat
      BY <1>1, ClientAssumption DEF ClientInv, WireInv, TypeOK, Attempt
    <3>2. call'.n = n
      BY <1>3
    <3> QED BY <1>3, <1>4, <1>5, <3>1, <3>2
  <2> QED BY <1>2, <1>3, <1>4, <1>5, <2>1, <2>2, <2>3 DEF WireInv, Awaited
<1>9. ReplyInv' /\ SavedInv' /\ SavedIsKnown'
  <2>1. ReplyInv'
    BY <1>3 DEF ReplyInv
  <2>2. \A k \in Keys : saved[k].key # 0 => saved[k].key = k /\ k <= keys' /\ (k \in refused => k \in overdue)
    <3>1. keys \in Nat /\ keys' \in Nat /\ \A k \in Keys : k \in Nat
      BY <1>1, ClientAssumption DEF ClientInv, TypeOK, Keys
    <3> QED BY <1>5, <3>1 DEF ClientInv, SavedInv
  <2> QED BY <1>2, <1>5, <2>1, <2>2 DEF SavedInv, SavedIsKnown
<1> QED BY <1>1, <1>6, <1>7, <1>8, <1>9 DEF ClientInv

LEMMA VisitorInv ==
  ASSUME ClientInv, VisitorNext
  PROVE  ClientInv'
<1>1. TypeOK'
  BY VisitorType DEF ClientInv
<1>2. ASSUME NEW d \in Dates \cup {NoDate}, ChooseDate(d) PROVE ClientInv'
  <2>1. LoadSlots(kind', date', "choice") /\ UNCHANGED <<config, request, wire, service>>
    BY <1>2 DEF ChooseDate
  <2>2. config.open /\ ~submitting /\ ~Trying
    BY <1>2 DEF ChooseDate, Editable
  <2> QED BY <1>1, <2>1, <2>2, ChoiceInv, SameRequests DEF ClientInv, request
<1>3. CASE RetrySlots
  <2>1. LoadSlots(kind', date', "choice") /\ UNCHANGED <<config, request, wire, service>>
    BY <1>3 DEF RetrySlots
  <2>2. config.open /\ ~submitting /\ ~Trying
    BY <1>3 DEF RetrySlots, Editable
  <2> QED BY <1>1, <2>1, <2>2, ChoiceInv, SameRequests DEF ClientInv, request
<1>4. ASSUME NEW s \in slots, ChooseTime(s) PROVE ClientInv'
  <2>1. UNCHANGED <<kind, config, date, loads, slots, attempt, submitting, receipt, call, keys, wire, service>>
    BY <1>4 DEF ChooseTime, request
  <2>2. selected' = {s} /\ config.open
    BY <1>4 DEF ChooseTime, Editable
  <2>3. PageInv' /\ RefusalInv'
    BY <2>1, <2>2 DEF ClientInv, PageInv, RefusalInv, Trying, Received, Calling
  <2>4. OfferInv'
    BY <2>1, <2>2 DEF ClientInv, OfferInv, OfferIsCurrent, Trying, Received
  <2> QED BY <1>1, <2>1, <2>3, <2>4, SameRequests DEF ClientInv
<1>5. ASSUME NEW next \in Kinds, SwitchKind(next) PROVE ClientInv'
  <2>1. ~submitting /\ ~Trying /\ ~Received /\ UNCHANGED <<request, wire, service>>
    BY <1>5 DEF SwitchKind, ModeLocked
  <2>2. CASE config.known /\ config.enabled
    <3>1. LoadSlots(kind', date', "choice") /\ UNCHANGED config
      BY <1>5, <2>2 DEF SwitchKind
    <3>2. config.open
      BY <2>1, <2>2 DEF ClientInv, PageInv
    <3> QED BY <1>1, <2>1, <3>1, <3>2, ChoiceInv, SameRequests DEF ClientInv, request
  <2>3. CASE ~(config.known /\ config.enabled)
    <3>1. /\ config' = IF ~config.known /\ config.load = "idle" THEN [config EXCEPT !.load = "asked"] ELSE config
          /\ UNCHANGED <<date, loads, slots, selected>>
      BY <1>5, <2>3 DEF SwitchKind
    <3>2. ~config.open /\ loads = {} /\ slots = {} /\ selected = {}
      BY <2>1, <2>3 DEF ClientInv, PageInv
    <3>3. UNCHANGED <<attempt, submitting, receipt, call, keys>>
      BY <2>1 DEF request
    <3>4. ~config'.open /\ config'.enabled = config.enabled
      BY <3>1, <3>2 DEF ClientInv, TypeOK
    <3>5. PageInv'
      BY <2>1, <3>1, <3>2, <3>3, <3>4 DEF ClientInv, PageInv, Trying, Received, Calling
    <3>6. RefusalInv' /\ OfferInv'
      BY <2>1, <3>1, <3>2, <3>3 DEF RefusalInv, OfferInv, OfferIsCurrent, Trying, Received
    <3> QED BY <1>1, <2>1, <3>3, <3>5, <3>6, SameRequests DEF ClientInv
  <2> QED BY <2>2, <2>3
<1> QED BY <1>1, <1>2, <1>3, <1>4, <1>5, SubmitInv, LoadsInv DEF VisitorNext

\* The answer to a submission.  Only what was surely refused is forgotten.
LEMMA SettlesInv ==
  ASSUME ClientInv, Calling, call.for = "submit", NEW reply, NEW b \in Booking, Settles(reply, b),
         call' = NoCall, wire' \subseteq wire, UNCHANGED <<kind, date, keys, service>>,
         reply = "refused" => ~attempt.good,
         reply = "taken" => attempt.key \in refused,
         reply = "saved" => b.key = attempt.key
  PROVE  PageInv' /\ RefusalInv' /\ OfferInv' /\ WireInv' /\ ReplyInv' /\ SavedInv' /\ SavedIsKnown'
<1>1. /\ attempt.key # 0 /\ submitting /\ receipt.attempt.key = 0 /\ config.open /\ config.load # "asked"
      /\ \A l \in loads : l.after # "refusal"
  BY DEF ClientInv, PageInv, RefusalInv, Trying, Received
<1>2. UNCHANGED <<saved, taken, refused, overdue>>
  BY DEF service
<1>3. /\ ~Calling' /\ call'.reply = "none"
      /\ \A p \in wire' : p \in wire /\ ~Awaited(p)' /\ p.attempt.key # 0
  BY ClientAssumption DEF NoCall, Calling, Awaited, ClientInv, TypeOK, Numbers
<1>4. \A k \in Keys : k # 0
  BY ClientAssumption DEF Keys
<1>5. attempt.kind = kind /\ attempt.date = date /\ attempt.key <= keys /\ 0 <= keys
  BY <1>1, ClientAssumption DEF ClientInv, OfferInv, OfferIsCurrent, Trying, WireInv, TypeOK
<1>6. /\ \A p \in wire : p.attempt.key <= keys
      /\ \A p \in wire : p.attempt.key = attempt.key => p.attempt = attempt
      /\ \A p \in wire : p.attempt.good => p.attempt.key = attempt.key \/ p.attempt.key \in refused
  BY <1>1, <1>3 DEF ClientInv, WireInv, TypeOK
<1>7. /\ \A k \in Keys : saved[k].key # 0 => saved[k].key = k /\ k <= keys
      /\ \A k \in Keys : saved[k].key # 0 /\ k \in refused => k \in overdue
      /\ \A k \in Keys : saved[k].key # 0 /\ k = attempt.key => attempt.good
      /\ \A k \in Keys : saved[k].key # 0 /\ k \notin overdue => k = attempt.key
  BY <1>1, <1>4 DEF ClientInv, SavedInv, SavedIsKnown
<1>8. ReplyInv'
  BY <1>3 DEF ReplyInv
<1>9. CASE reply = "saved" /\ ValidReceipt(b)
  <2> DEFINE r == [attempt |-> attempt, shown |-> b, checks |-> 0, timer |-> FALSE]
  <2>1. /\ config' = [config EXCEPT !.open = FALSE] /\ receipt' = Planned(r) /\ attempt' = NoAttempt
        /\ submitting' = FALSE /\ UNCHANGED <<loads, slots, selected>>
    BY <1>9 DEF Settles
  <2>2. receipt'.attempt = attempt /\ receipt'.shown = b
    BY <2>1 DEF Planned
  <2>3. attempt'.key = 0 /\ ~config'.open /\ config'.load = config.load
    BY <2>1, Defaults DEF ClientInv, TypeOK
  <2>4. b.kind = kind /\ b.key = attempt.key
    BY <1>9 DEF ValidReceipt
  <2>5. PageInv' /\ RefusalInv'
    BY <1>1, <1>3, <2>1, <2>2, <2>3 DEF PageInv, RefusalInv, Trying, Received
  <2>6. OfferInv'
    BY <1>1, <1>5, <2>1, <2>2, <2>3, <2>4 DEF ClientInv, OfferInv, OfferIsCurrent, Trying
  <2>7. WireInv'
    BY <1>2, <1>3, <1>5, <1>6, <2>2, <2>3 DEF WireInv
  <2>8. SavedInv' /\ SavedIsKnown'
    BY <1>2, <1>4, <1>7, <2>2, <2>3 DEF SavedInv, SavedIsKnown
  <2> QED BY <1>8, <2>5, <2>6, <2>7, <2>8
<1>10. CASE reply = "taken" /\ Forgets(reply)
  <2>1. LoadSlots(kind', date', "refusal") /\ attempt' = NoAttempt /\ UNCHANGED <<config, receipt, submitting>>
    BY <1>10 DEF Settles
  <2>2. attempt'.key = 0 /\ attempt.key \in refused
    BY <1>10, <2>1, Defaults
  <2>3. /\ slots' = {} /\ selected' = {}
        /\ \A l \in loads' : l.current => l.kind = kind' /\ l.date = date'
        /\ \A l \in loads' : l.after = "refusal" => \A m \in loads' : m.after = "refusal" => m = l
    BY <1>1, <2>1, LoadsOffer DEF ClientInv
  <2>4. PageInv'
    BY <1>1, <1>3, <2>1, <2>2 DEF ClientInv, PageInv, Trying, Received
  <2>5. RefusalInv'
    BY <1>1, <2>1, <2>2, <2>3 DEF RefusalInv, Trying
  <2>6. OfferInv'
    BY <1>1, <2>1, <2>2, <2>3 DEF OfferInv, OfferIsCurrent, Trying, Received
  <2>7. WireInv'
    BY <1>1, <1>2, <1>3, <1>5, <1>6, <2>1, <2>2 DEF WireInv
  <2>8. SavedInv' /\ SavedIsKnown'
    BY <1>2, <1>4, <1>7, <2>2 DEF SavedInv, SavedIsKnown
  <2> QED BY <1>8, <2>4, <2>5, <2>6, <2>7, <2>8
<1>11. CASE ~(reply = "saved" /\ ValidReceipt(b)) /\ ~(reply = "taken" /\ Forgets(reply))
  <2>1. /\ attempt' = IF Forgets(reply) THEN NoAttempt ELSE attempt
        /\ submitting' = FALSE /\ UNCHANGED <<config, receipt, loads, slots, selected>>
    BY <1>11 DEF Settles
  <2>2. \/ attempt' = attempt
        \/ attempt' = NoAttempt /\ attempt'.key = 0 /\ ~attempt.good
    BY <1>11, <2>1, Defaults DEF Forgets
  <2>3. PageInv' /\ RefusalInv'
    BY <1>1, <1>3, <2>1 DEF ClientInv, PageInv, RefusalInv, Trying, Received
  <2>4. OfferInv'
    BY <1>1, <2>1, <2>2 DEF ClientInv, OfferInv, OfferIsCurrent, Trying, Received
  <2>5. WireInv'
    BY <1>1, <1>2, <1>3, <1>5, <1>6, <2>1, <2>2 DEF WireInv
  <2>6. SavedInv' /\ SavedIsKnown'
    BY <1>2, <1>4, <1>7, <2>2 DEF SavedInv, SavedIsKnown
  <2> QED BY <1>8, <2>3, <2>4, <2>5, <2>6
<1> QED BY <1>9, <1>10, <1>11

\* The answer to a check changes what is shown of the saved request, and nothing else.
LEMMA ChecksInv ==
  ASSUME ClientInv, Calling, call.for # "submit", NEW reply, NEW b \in Booking, Checks(reply, b),
         call' = NoCall, wire' \subseteq wire,
         UNCHANGED <<config, loads, slots, selected, attempt, submitting, kind, date, keys, service>>
  PROVE  PageInv' /\ RefusalInv' /\ OfferInv' /\ WireInv' /\ ReplyInv' /\ SavedInv' /\ SavedIsKnown'
<1> DEFINE r == IF reply = "saved" /\ ValidReceipt(b) /\ b.key = receipt.shown.key
                  THEN [receipt EXCEPT !.shown = b] ELSE receipt
<1>1. Received /\ UNCHANGED <<saved, taken, refused, overdue>>
  BY DEF ClientInv, PageInv, service
<1>2. /\ ~Calling' /\ call'.reply = "none" /\ \A p \in wire' : p \in wire /\ ~Awaited(p)'
  BY ClientAssumption DEF NoCall, Calling, Awaited, ClientInv, TypeOK, Numbers
<1>3. r.attempt = receipt.attempt /\ r.shown \in {receipt.shown, b}
      /\ (r.shown # receipt.shown => b.kind = kind /\ b.key = receipt.shown.key)
  BY DEF ClientInv, TypeOK, ValidReceipt
<1>4. receipt' = Planned(r)
  BY DEF Checks
<1>5. r \in [attempt : Attempt, shown : Booking, checks : Nat, timer : BOOLEAN]
  BY DEF ClientInv, TypeOK
<1> HIDE DEF r
<1>6. receipt'.attempt = receipt.attempt /\ receipt'.shown = r.shown
  BY <1>3, <1>4, <1>5 DEF Planned
<1>7. PageInv' /\ RefusalInv'
  BY <1>1, <1>2, <1>6 DEF ClientInv, PageInv, RefusalInv, Trying, Received
<1>8. OfferInv'
  BY <1>1, <1>3, <1>6 DEF ClientInv, OfferInv, OfferIsCurrent, Trying, Received
<1>9. WireInv' /\ ReplyInv'
  BY <1>1, <1>2, <1>6 DEF ClientInv, WireInv, ReplyInv
<1>10. SavedInv' /\ SavedIsKnown'
  BY <1>1, <1>6 DEF ClientInv, SavedInv, SavedIsKnown
<1> QED BY <1>7, <1>8, <1>9, <1>10

LEMMA AnswersInv ==
  ASSUME ClientInv, AnswerArrives \/ GivesUp
  PROVE  ClientInv'
<1>1. TypeOK'
  BY AnswersType DEF ClientInv
<1>2. PICK reply \in {"none", "saved", "refused", "taken", "mismatch", "unsure"}, b \in Booking :
        /\ Calling /\ wire' \subseteq wire /\ Concludes(reply, b)
        /\ reply = "refused" => ~Wanted.good
        /\ reply = "taken" => Wanted.key \in refused
        /\ reply = "saved" => b.key = Wanted.key
  <2>1. CASE AnswerArrives
    <3>1. call.booking \in Booking /\ call.reply \in {"none", "saved", "refused", "taken", "mismatch", "unsure"}
      BY DEF ClientInv, TypeOK
    <3>2. Calling /\ wire' \subseteq wire /\ Concludes(call.reply, call.booking)
      BY <2>1 DEF AnswerArrives
    <3>3. /\ call.reply = "refused" => ~Wanted.good
          /\ call.reply = "taken" => Wanted.key \in refused
          /\ call.reply = "saved" => call.booking.key = Wanted.key
      BY DEF ClientInv, ReplyInv
    <3> QED BY <3>1, <3>2, <3>3
  <2>2. CASE GivesUp
    <3>1. Calling /\ wire' \subseteq wire /\ Concludes("unsure", NoBooking)
      BY <2>2 DEF GivesUp
    <3> QED BY <3>1, Defaults
  <2> QED BY <2>1, <2>2
<1>3. call' = NoCall /\ UNCHANGED <<kind, date, keys, service>>
  BY <1>2 DEF Concludes
<1>4. CASE call.for = "submit"
  <2>1. Settles(reply, b) /\ Wanted = attempt
    BY <1>2, <1>4 DEF Concludes, Wanted
  <2> QED BY <1>1, <1>2, <1>3, <1>4, <2>1, SettlesInv DEF ClientInv
<1>5. CASE call.for # "submit"
  <2>1. Checks(reply, b) /\ UNCHANGED <<config, loads, slots, selected, attempt, submitting>>
    BY <1>2, <1>5 DEF Concludes
  <2> QED BY <1>1, <1>2, <1>3, <1>5, <2>1, ChecksInv DEF ClientInv
<1> QED BY <1>4, <1>5

LEMMA TimerInv ==
  ASSUME ClientInv, TimerFires
  PROVE  ClientInv'
<1>1. Received /\ TypeOK'
  BY TimerType DEF TimerFires, ClientInv, PageInv
<1>2. UNCHANGED <<kind, config, date, loads, slots, selected, attempt, submitting, keys, saved, taken, refused, overdue>>
  BY DEF TimerFires, form, service
<1>3. receipt'.attempt = receipt.attempt /\ receipt'.shown = receipt.shown
  BY DEF TimerFires, ClientInv, TypeOK
<1>4. \A p \in wire : p.attempt.key # 0
  BY DEF ClientInv, TypeOK
<1>5. PageInv' /\ WireInv' /\ ReplyInv'
  <2>1. CASE Post(receipt.attempt, "check")
    <3>1. PICK n \in Numbers : /\ \A p \in wire : p.n # n
                               /\ wire' = wire \cup {[n |-> n, attempt |-> receipt.attempt]}
                               /\ call' = [n |-> n, for |-> "check", reply |-> "none", booking |-> NoBooking]
      BY <2>1, Posted
    <3>3. PageInv'
      BY <1>1, <1>2, <1>3, <3>1 DEF ClientInv, PageInv, Trying, Received, Calling
    <3>4. attempt.key = 0
      BY <1>1 DEF ClientInv, PageInv, Trying
    <3>5. WireInv'
      BY <1>1, <1>2, <1>3, <1>4, <3>1, <3>4 DEF ClientInv, WireInv, Wanted, Awaited, Received
    <3> QED BY <3>1, <3>3, <3>5 DEF ReplyInv
  <2>2. CASE UNCHANGED <<wire, call>>
    BY <1>1, <1>2, <1>3, <2>2
      DEF ClientInv, PageInv, WireInv, ReplyInv, Wanted, Awaited, Trying, Received, Calling
  <2> QED BY <2>1, <2>2 DEF TimerFires
<1>6. RefusalInv' /\ OfferInv' /\ SavedInv' /\ SavedIsKnown'
  BY <1>2, <1>3 DEF ClientInv, RefusalInv, OfferInv, OfferIsCurrent, SavedInv, SavedIsKnown, Trying, Received
<1> QED BY <1>1, <1>5, <1>6 DEF ClientInv

\* The service answers the request that is awaited with what it has saved of it.
LEMMA ServeInv ==
  ASSUME ClientInv, NEW p \in wire, Serve(p)
  PROVE  ClientInv'
<1> DEFINE a == p.attempt
<1>1. TypeOK'
  BY ServiceType DEF ServiceNext, ClientInv
<1>2. PICK r \in {"saved", "refused", "taken", "mismatch"}, b \in Booking :
        /\ saved' = [saved EXCEPT ![a.key] = b]
        /\ call' = IF Awaited(p) THEN [call EXCEPT !.reply = r, !.booking = b] ELSE call
        /\ r = "refused" => ~a.good
        /\ \/ /\ b = saved[a.key] /\ refused' = refused /\ overdue' = overdue
              /\ r # "taken" /\ (r = "saved" => b.key # 0)
           \/ /\ b = saved[a.key] /\ b.key = 0 /\ r = "taken"
              /\ refused' = refused \cup {a.key} /\ overdue' = overdue
           \/ /\ saved[a.key].key = 0 /\ b.key = a.key /\ r = "saved" /\ a.good
              /\ refused' = refused
              /\ overdue' = IF a.key \in refused THEN overdue \cup {a.key} ELSE overdue
  BY Served DEF ClientInv
<1>3. /\ a \in Attempt /\ a.key \in Keys /\ wire' = wire \ {p}
      /\ UNCHANGED <<kind, config, date, loads, slots, selected, attempt, submitting, receipt, keys, taken>>
  BY Served DEF ClientInv, form
<1> HIDE DEF a
<1>4. refused \subseteq refused' /\ overdue \subseteq overdue'
  BY <1>2
<1>5. /\ call'.n = call.n /\ call'.for = call.for
      /\ IF Awaited(p) THEN call'.reply = r /\ call'.booking = b ELSE call' = call
  BY <1>2 DEF ClientInv, TypeOK
<1>6. PageInv' /\ RefusalInv' /\ OfferInv'
  BY <1>3, <1>5 DEF ClientInv, PageInv, RefusalInv, OfferInv, OfferIsCurrent, Trying, Received, Calling
<1>7. /\ a.key <= keys /\ (a.key = attempt.key => a = attempt)
      /\ (a.good => a.key \in {attempt.key, receipt.attempt.key} \cup refused)
      /\ (Awaited(p) => a = Wanted)
  BY DEF a, ClientInv, WireInv
<1>8. Wanted' = Wanted
  BY <1>3, <1>5 DEF Wanted
<1>9. WireInv'
  BY <1>3, <1>4, <1>5, <1>8 DEF ClientInv, WireInv, Awaited
<1>10. saved'[a.key] = b /\ \A k \in Keys : k # a.key => saved'[k] = saved[k]
  BY <1>2, <1>3 DEF ClientInv, TypeOK
<1>11. /\ saved[a.key].key # 0 => saved[a.key].key = a.key
       /\ saved[a.key].key # 0 /\ a.key \in refused => a.key \in overdue
  BY <1>3 DEF ClientInv, SavedInv
<1>12. ReplyInv'
  <2>1. CASE Awaited(p)
    <3>1. a = Wanted /\ call'.reply = r /\ call'.booking = b
      BY <1>5, <1>7, <2>1
    <3> QED BY <1>2, <1>8, <1>11, <3>1 DEF ReplyInv
  <2>2. CASE ~Awaited(p)
    BY <1>4, <1>5, <1>8, <2>2 DEF ClientInv, ReplyInv
  <2> QED BY <2>1, <2>2
<1>13. SavedInv'
  <2> SUFFICES ASSUME NEW k \in Keys, saved'[k].key # 0
               PROVE  /\ saved'[k].key = k /\ k <= keys
                      /\ k \in refused' => k \in overdue'
                      /\ k = attempt.key => attempt.good
    BY <1>3 DEF SavedInv
  <2>1. CASE k # a.key
    BY <1>2, <1>4, <1>10, <2>1 DEF ClientInv, SavedInv
  <2>2. CASE k = a.key /\ saved[k].key # 0
    BY <1>2, <1>7, <1>10, <1>11, <2>2 DEF ClientInv, SavedInv
  <2>3. CASE k = a.key /\ saved[k].key = 0
    <3>1. /\ b.key = a.key /\ a.good /\ refused' = refused
          /\ overdue' = IF a.key \in refused THEN overdue \cup {a.key} ELSE overdue
      BY <1>2, <1>10, <2>3
    <3> QED BY <1>7, <1>10, <2>3, <3>1
  <2> QED BY <2>1, <2>2, <2>3
<1>14. SavedIsKnown'
  <2> SUFFICES ASSUME NEW k \in Keys, saved'[k].key # 0, k \notin overdue'
               PROVE  k \in {attempt.key, receipt.attempt.key}
    BY <1>3 DEF SavedIsKnown
  <2>1. CASE saved[k].key # 0
    BY <1>4, <2>1 DEF ClientInv, SavedIsKnown
  <2>2. CASE saved[k].key = 0
    <3>1. k = a.key /\ b.key # 0 /\ a.good
      BY <1>2, <1>10, <2>2
    <3>2. k \notin refused
      BY <1>2, <2>2, <3>1
    <3> QED BY <1>7, <3>1, <3>2
  <2> QED BY <2>1, <2>2
<1> QED BY <1>1, <1>6, <1>9, <1>12, <1>13, <1>14 DEF ClientInv

LEMMA ServiceInv ==
  ASSUME ClientInv, ServiceNext
  PROVE  ClientInv'
<1>1. TypeOK'
  BY ServiceType DEF ClientInv
<1>2. ASSUME UNCHANGED <<form, request, wire, refused, overdue>>, \A k \in Keys : saved'[k].key = saved[k].key
      PROVE  ClientInv'
  <2>1. UNCHANGED <<kind, config, date, loads, slots, selected, attempt, submitting, receipt, call, keys>>
    BY <1>2 DEF form, request
  <2>2. PageInv' /\ RefusalInv' /\ OfferInv'
    BY <2>1 DEF ClientInv, PageInv, RefusalInv, OfferInv, OfferIsCurrent, Trying, Received, Calling
  <2>3. WireInv' /\ ReplyInv'
    BY <1>2, <2>1 DEF ClientInv, WireInv, ReplyInv, Wanted, Awaited
  <2>4. SavedInv' /\ SavedIsKnown'
    BY <1>2, <2>1 DEF ClientInv, SavedInv, SavedIsKnown
  <2> QED BY <1>1, <2>2, <2>3, <2>4 DEF ClientInv
<1>3. ASSUME NEW k \in Keys, NEW cal \in {"synced", "failed"}, CalendarMoves(k, cal) PROVE ClientInv'
  <2>1. [saved[k] EXCEPT !.cal = cal].key = saved[k].key
    BY DEF ClientInv, TypeOK, Booking
  <2>2. \A m \in Keys : saved'[m].key = saved[m].key
    BY <1>3, <2>1 DEF CalendarMoves, ClientInv, TypeOK
  <2> QED BY <1>2, <1>3, <2>2 DEF CalendarMoves
<1>4. ASSUME NEW k \in Keys, OwnerCancels(k) PROVE ClientInv'
  <2>1. [saved[k] EXCEPT !.status = "cancelled", !.cal = "pending"].key = saved[k].key
    BY CancelledType DEF ClientInv, TypeOK
  <2>2. \A m \in Keys : saved'[m].key = saved[m].key
    BY <1>4, <2>1 DEF OwnerCancels, ClientInv, TypeOK
  <2> QED BY <1>2, <1>4, <2>2 DEF OwnerCancels
<1>5. ASSUME NEW d \in Dates, OthersTake(d) \/ OthersLeave(d) PROVE ClientInv'
  BY <1>2, <1>5 DEF OthersTake, OthersLeave
<1> QED BY <1>3, <1>4, <1>5, ServeInv DEF ServiceNext

LEMMA InitInv == Init => ClientInv
<1> SUFFICES ASSUME Init PROVE ClientInv
  OBVIOUS
<1>1. attempt.key = 0 /\ receipt.attempt.key = 0 /\ ~receipt.timer /\ call.n = 0 /\ call.reply = "none"
  BY Defaults DEF Init, NoReceipt, NoCall
<1>2. \A k \in Keys : saved[k].key = 0
  BY Defaults DEF Init
<1>3. PageInv /\ RefusalInv /\ OfferInv
  BY <1>1 DEF Init, PageInv, RefusalInv, OfferInv, OfferIsCurrent, Trying, Received, Calling
<1>4. WireInv /\ ReplyInv /\ SavedInv /\ SavedIsKnown
  BY <1>1, <1>2 DEF Init, WireInv, ReplyInv, SavedInv, SavedIsKnown
<1> QED BY <1>3, <1>4, InitType DEF ClientInv

LEMMA StepInv == ClientInv /\ [Next]_vars => ClientInv'
<1> SUFFICES ASSUME ClientInv, [Next]_vars PROVE ClientInv'
  OBVIOUS
<1>1. CASE PageNext
  BY <1>1, LoadsInv, AnswersInv, TimerInv DEF PageNext
<1>2. CASE VisitorNext
  BY <1>2, VisitorInv
<1>3. CASE ServiceNext
  BY <1>3, ServiceInv
<1>4. CASE UNCHANGED vars
  <2>1. UNCHANGED <<kind, config, date, loads, slots, selected, attempt, submitting, receipt, call, keys,
                    wire, saved, taken, refused, overdue, faults>>
    BY <1>4 DEF vars, form, request, service
  <2>2. TypeOK'
    BY <2>1 DEF ClientInv, TypeOK
  <2>3. PageInv' /\ RefusalInv' /\ OfferInv'
    BY <2>1 DEF ClientInv, PageInv, RefusalInv, OfferInv, OfferIsCurrent, Trying, Received, Calling
  <2>4. WireInv' /\ ReplyInv' /\ SavedInv' /\ SavedIsKnown'
    BY <2>1, SameRequests DEF service
  <2> QED BY <2>2, <2>3, <2>4 DEF ClientInv
<1> QED BY <1>1, <1>2, <1>3, <1>4 DEF Next

-----------------------------------------------------------------------------
(* Theorems                                                                *)

\* The strengthening of the safety properties, which is inductive.
THEOREM Invariance == Spec => []ClientInv
BY InitInv, StepInv, PTL DEF Spec

\* Every variable keeps its type, the numbers of requests under way included.
THEOREM TypeCorrect == Spec => []TypeOK
<1>1. ClientInv => TypeOK
  BY DEF ClientInv
<1> QED BY <1>1, Invariance, PTL

\* However answers are lost and requests are late, a saved request is the one that the page
\* shows or still checks, but for one the service had found no time for before.
THEOREM NothingSavedIsForgotten == Spec => []SavedIsKnown
<1>1. ClientInv => SavedIsKnown
  BY DEF ClientInv
<1> QED BY <1>1, Invariance, PTL

\* However loads of times overtake each other, what is chosen, submitted and shown is of the
\* kind and the date of the page.
THEOREM OffersAreCurrent == Spec => []OfferIsCurrent
<1>1. ClientInv => OfferIsCurrent
  BY DEF ClientInv, OfferInv
<1> QED BY <1>1, Invariance, PTL
=============================================================================
