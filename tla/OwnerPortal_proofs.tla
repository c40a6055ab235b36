----------------------------- MODULE OwnerPortal_proofs -----------------------------
(***************************************************************************)
(* What holds of the owner portal whatever its parts, bookings, people and *)
(* bounds.  Three invariants: PortalInv, every call and every panel fits   *)
(* the session; OrderInv, flags and the calls that are waited for belong   *)
(* together; OffersInv, what the access panel offers is in its list.       *)
(* A step of the shell is proved to keep the calls in order before the     *)
(* panels follow it, as OwnerPortal composes them.  Then the drafts and    *)
(* the edits that survive the answers: a step brings (Brings) what the     *)
(* calls tell after it and did not tell before; most steps bring nothing,  *)
(* because the nets of which nothing else is known are closed under what   *)
(* the page does with its calls.                                           *)
(***************************************************************************)
EXTENDS OwnerPortal, SequenceTheorems, TLAPS

-----------------------------------------------------------------------------
(* Calls, and what begins and ends them                                    *)

\* What a call and the page's record of calls may hold, with arguments and answers from V.
Thens == {"", "poll", "start"}
Standings == {"live", "superseded", "stale"}
Outcomes == {"sent", "ok", "denied", "refused"}
Records(V) == [op : Ops, arg : V, then : Thens, standing : Standings, status : Outcomes, answer : V]
Nets(S) == [calls : Seq(S), busy : SUBSET Flags]

\* Removing the i-th element of a sequence: its type, its length, and where the others go.
LEMMA RemoveAtIn ==
  ASSUME NEW S, NEW c \in Seq(S), NEW i \in DOMAIN c
  PROVE /\ RemoveAt(c, i) \in Seq(S)
        /\ Len(RemoveAt(c, i)) = Len(c) - 1
        /\ \A k \in DOMAIN RemoveAt(c, i) : RemoveAt(c, i)[k] = IF k < i THEN c[k] ELSE c[k + 1]
<1> DEFINE a == SubSeq(c, 1, i - 1)
           b == SubSeq(c, i + 1, Len(c))
<1>1. i \in 1..Len(c) /\ Len(c) \in Nat /\ \A k \in 1..Len(c) : c[k] \in S
  OBVIOUS
<1>2. a \in Seq(S) /\ Len(a) = i - 1 /\ \A k \in 1..(i - 1) : a[k] = c[k]
  BY <1>1, SubSeqProperties
<1>3. b \in Seq(S) /\ Len(b) = Len(c) - i /\ \A k \in 1..(Len(c) - i) : b[k] = c[k + i]
  BY <1>1, SubSeqProperties
<1>4. RemoveAt(c, i) = a \o b
  BY DEF RemoveAt
<1> HIDE DEF a, b
<1>5. RemoveAt(c, i) \in Seq(S) /\ Len(RemoveAt(c, i)) = Len(c) - 1
  BY <1>1, <1>2, <1>3, <1>4
<1>6. ASSUME NEW k \in DOMAIN RemoveAt(c, i) PROVE RemoveAt(c, i)[k] = IF k < i THEN c[k] ELSE c[k + 1]
  <2>1. k \in 1..(Len(c) - 1)
    BY <1>5
  <2>2. CASE k < i
    BY <1>1, <1>2, <1>3, <1>4, <2>1, <2>2
  <2>3. CASE ~(k < i)
    <3>1. k - (i - 1) \in 1..(Len(c) - i) /\ (a \o b)[k] = b[k - (i - 1)]
      BY <1>1, <1>2, <1>3, <2>1, <2>3
    <3>2. PICK j : j = k - (i - 1)
      OBVIOUS
    <3>3. j + i = k + 1
      BY <1>1, <2>1, <3>2
    <3>4. b[j] = c[j + i]
      BY <1>3, <3>1, <3>2
    <3> QED BY <1>4, <2>3, <3>1, <3>2, <3>3, <3>4
  <2> QED BY <2>2, <2>3
<1> QED BY <1>5, <1>6

\* Superseding or ending calls changes no element but their standing.
LEMMA SupersededIn ==
  ASSUME NEW S, NEW T, NEW calls \in Seq(S), NEW ops,
         \A c \in S : (IF c.op \in ops /\ c.standing = "live" THEN [c EXCEPT !.standing = "superseded"] ELSE c) \in T
  PROVE /\ Superseded(calls, ops) \in Seq(T)
        /\ Len(Superseded(calls, ops)) = Len(calls)
        /\ DOMAIN Superseded(calls, ops) = DOMAIN calls
<1>1. DOMAIN calls = 1..Len(calls) /\ Len(calls) \in Nat /\ \A i \in DOMAIN calls : calls[i] \in S
  OBVIOUS
<1>2. \A i \in DOMAIN calls : Superseded(calls, ops)[i] \in T
  BY <1>1 DEF Superseded
<1>3. DOMAIN Superseded(calls, ops) = DOMAIN calls
  BY DEF Superseded
<1>4. Superseded(calls, ops) = [i \in 1..Len(calls) |-> Superseded(calls, ops)[i]]
  BY <1>1 DEF Superseded
<1> QED BY <1>1, <1>2, <1>3, <1>4

LEMMA StaleIn ==
  ASSUME NEW S, NEW T, NEW calls \in Seq(S),
         \A c \in S : [c EXCEPT !.standing = "stale"] \in T
  PROVE /\ Stale(calls) \in Seq(T)
        /\ Len(Stale(calls)) = Len(calls)
        /\ DOMAIN Stale(calls) = DOMAIN calls
<1>1. DOMAIN calls = 1..Len(calls) /\ Len(calls) \in Nat /\ \A i \in DOMAIN calls : calls[i] \in S
  OBVIOUS
<1>2. \A i \in DOMAIN calls : Stale(calls)[i] \in T
  BY <1>1 DEF Stale
<1>3. DOMAIN Stale(calls) = DOMAIN calls
  BY DEF Stale
<1>4. Stale(calls) = [i \in 1..Len(calls) |-> Stale(calls)[i]]
  BY <1>1 DEF Stale
<1> QED BY <1>1, <1>2, <1>3, <1>4

\* A set of calls in which a live call may be superseded.
Lowers(S) == \A c \in S : c.standing = "live" => [c EXCEPT !.standing = "superseded"] \in S

\* Beginning a request appends its call to the others.
LEMMA BeginIn ==
  ASSUME NEW S, NEW n \in Nets(S), Lowers(S), NEW op \in Ops, NEW arg, NEW then, Call(op, arg, then) \in S
  PROVE Begin(n, op, arg, then) \in Nets(S)
<1>1. n.calls \in Seq(S) /\ n.busy \subseteq Flags
  BY DEF Nets
<1>2. Superseded(n.calls, Supersedes[op]) \in Seq(S)
  BY <1>1, SupersededIn DEF Lowers
<1>3. Append(Superseded(n.calls, Supersedes[op]), Call(op, arg, then)) \in Seq(S)
  BY <1>2
<1> QED BY <1>1, <1>3 DEF Begin, Nets

-----------------------------------------------------------------------------
\* A set of nets that the loads which may begin do not leave.
LoadsWithin(Q, role) ==
  \A n \in Q, op \in Loads, then \in {"", "poll"} : MayBegin(n, role, op) => Begin(n, op, None, then) \in Q

LEMMA LoadIn ==
  ASSUME NEW Q, NEW STATE role, LoadsWithin(Q, role), NEW STATE n, n \in Q, NEW op \in Loads
  PROVE Load(n, role, op) \in Q
BY DEF Load, LoadsWithin

\* Then neither do the sequences of loads of switchPanel and refreshVisibleBookings,
LEMMA LoadAllIn ==
  ASSUME NEW Q, NEW STATE role, LoadsWithin(Q, role), NEW STATE n, n \in Q, NEW STATE ops
  PROVE LoadAll(n, role, ops) \in Q
<1> DEFINE next(m, op) == IF op \in ops THEN Load(m, role, op) ELSE m
<1>1. \A m \in Q, op \in Loads : next(m, op) \in Q
  BY LoadIn
<1>2. LoadAll(n, role, ops) = next(next(next(next(n, "bookings"), "invitations"), "members"), "emails")
  BY DEF LoadAll
<1> HIDE DEF next
<1> QED BY <1>1, <1>2 DEF Loads

LEMMA OpenedIn ==
  ASSUME NEW Q, NEW STATE role, LoadsWithin(Q, role), NEW STATE n, n \in Q, NEW STATE panel
  PROVE Opened(n, role, panel) \in Q
BY LoadIn, LoadAllIn DEF Opened, Loads

LEMMA VisibleIn ==
  ASSUME NEW Q, NEW STATE role, LoadsWithin(Q, role), NEW STATE n, n \in Q, NEW STATE panel, NEW held
  PROVE Visible(n, role, panel, held) \in Q
BY LoadIn, LoadAllIn DEF Visible, Loads

\* A chain of loads has a first one left.
LEMMA FirstOfFive ==
  ASSUME NEW STATE X, X \subseteq 1..5, X # {}
  PROVE \E k \in X : \A l \in X : k <= l
<1> DEFINE m == IF 1 \in X THEN 1 ELSE IF 2 \in X THEN 2 ELSE IF 3 \in X THEN 3 ELSE IF 4 \in X THEN 4 ELSE 5
<1>1. \A l \in X : l = 1 \/ l = 2 \/ l = 3 \/ l = 4 \/ l = 5
  OBVIOUS
<1>2. PICK x \in X : TRUE
  OBVIOUS
<1>3. m \in X
  BY <1>1, <1>2
<1>4. \A l \in X : m <= l
  BY <1>1
<1> HIDE DEF m
<1> QED BY <1>3, <1>4

\* nor the next load of the timer's chain, nor what start leads to.
LEMMA PollGoesOnIn ==
  ASSUME NEW Q, NEW STATE role, LoadsWithin(Q, role), NEW STATE n, n \in Q, NEW STATE panel, NEW STATE op, NEW held
  PROVE /\ PollGoesOn(n, role, panel, op, held).net \in Q
        /\ PollGoesOn(n, role, panel, op, held).panel = panel
        /\ PollGoesOn(n, role, panel, op, held).poll = poll \/ PollGoesOn(n, role, panel, op, held).poll = (role \in Members)
<1> DEFINE next == {k \in DOMAIN Chain : /\ k > PositionIn(Chain, op) /\ Chain[k] \notin held
                                         /\ Chain[k] \in PanelLoads(panel) /\ MayBegin(n, role, Chain[k])}
           first == CHOOSE k \in next : \A l \in next : k <= l
           goes == PollGoesOn(n, role, panel, op, held)
<1>1. goes = IF next = {} THEN [net |-> n, poll |-> role \in Members, panel |-> panel]
                          ELSE [net |-> Begin(n, Chain[first], None, "poll"), poll |-> poll, panel |-> panel]
  BY DEF PollGoesOn
<1>2. CASE next = {}
  BY <1>1, <1>2
<1>3. CASE next # {}
  <2>1. next \subseteq 1..5
    BY DEF Chain
  <2>2. \E k \in next : \A l \in next : k <= l
    BY <1>3, <2>1, FirstOfFive
  <2>3. first \in next
    <3> HIDE DEF next
    <3> QED BY <2>2
  <2>4. Chain[first] \in Loads /\ MayBegin(n, role, Chain[first])
    <3>1. first \in DOMAIN Chain /\ MayBegin(n, role, Chain[first])
      BY <2>3
    <3> QED BY <3>1 DEF Chain, Loads
  <2> HIDE DEF next, first
  <2>5. Begin(n, Chain[first], None, "poll") \in Q
    BY <2>4 DEF LoadsWithin
  <2> QED BY <1>1, <1>3, <2>5
<1> QED BY <1>2, <1>3

LEMMA LandedIn ==
  ASSUME NEW Q, NEW STATE role, LoadsWithin(Q, role), NEW STATE n, n \in Q, NEW STATE panel
  PROVE /\ Landed(n, role, panel).net \in Q
        /\ Landed(n, role, panel).poll = (role \in Members)
        /\ \/ Landed(n, role, panel).panel = panel
           \/ Landed(n, role, panel).panel = entry.landing /\ MayOpen(role, entry.landing)
BY OpenedIn DEF Landed

\* What the end of a call's handler may do: begin a load, set the timer, open the panel of a consent.
LEMMA EndsIn ==
  ASSUME NEW Q, NEW STATE role, LoadsWithin(Q, role), NEW STATE n, n \in Q, NEW STATE panel, NEW STATE call,
         Ends(n, role, panel, call)
  PROVE /\ net' \in Q
        /\ poll' = poll \/ poll' = (role \in Members)
        /\ \/ activePanel' = panel
           \/ call.then = "start" /\ activePanel' = entry.landing /\ MayOpen(role, entry.landing)
<1>1. PICK held \in SUBSET (Lists \cap part.does) :
        /\ net' = GoesOn(n, role, panel, call, held).net
        /\ poll' = GoesOn(n, role, panel, call, held).poll
        /\ activePanel' = GoesOn(n, role, panel, call, held).panel
  BY DEF Ends
<1>2. CASE call.then = "poll"
  BY <1>1, <1>2, PollGoesOnIn DEF GoesOn
<1>3. CASE call.then = "start"
  BY <1>1, <1>3, LandedIn DEF GoesOn
<1>4. CASE call.then \notin {"poll", "start"}
  BY <1>1, <1>4 DEF GoesOn
<1> QED BY <1>2, <1>3, <1>4

-----------------------------------------------------------------------------
(* Calls that fit the session                                              *)

\* What a session, a list, an invitation and an answer about emails are.
Sessions == [role : Authenticated \cup {"out"}, connects : BOOLEAN, google : [version : 0..MaxChanges, needs : BOOLEAN]]
BookingLists == [Bookings -> Booking]
Patches == [id : Bookings, notes : OrNone(Notes), status : OrNone(Statuses)]
Invitation == [address : Addresses, status : {"pending", "revoked", "used", "expired"}]
MailAnswers == [settings : Saved, rest : Rest, canConnect : BOOLEAN]

\* The calls that are answered with a session: configure and disconnect ask for it at their end.
AsksSession(c) == c.op \in {"start", "session"} \/ (c.op \in {"configure", "disconnect"} /\ c.arg = "check")

\* The argument of a call fits its operation,
Asked(c) ==
  /\ c.op = "mutate" => c.arg \in Patches
  /\ c.op = "invite" => c.arg \in Addresses
  /\ c.op = "revoke" => c.arg \in Ids
  /\ c.op = "remove" => c.arg \in People
  /\ c.op = "emailSettings" => c.arg \in Preferences

\* and so does its answer when it succeeded.
Told(c) ==
  c.status = "ok" =>
    /\ AsksSession(c) => c.answer \in Sessions
    /\ c.op = "bookings" => c.answer \in BookingLists
    /\ c.op = "mutate" => c.answer \in Booking
    /\ c.op = "invitations" => DOMAIN c.answer \subseteq Ids /\ \A id \in DOMAIN c.answer : c.answer[id] \in Invitation
    /\ c.op = "invite" => c.answer \in [id : Ids, address : Addresses]
    /\ c.op = "members" => DOMAIN c.answer \subseteq People
    /\ c.op = "emails" => c.answer \in MailAnswers
    /\ c.op = "emailSettings" => c.answer \in Saved

\* A live call is one that the session may make; a page that is signed out waits for its start or Google only.
Rightful(c, role, may) ==
  /\ c.standing = "live" => c.op \in may
  /\ c.standing # "stale" /\ role = "out" => c.op \in {"start", "google"} /\ c.then = ""

CallsFor(V, role, may) == {c \in Records(V) : Asked(c) /\ Told(c) /\ Rightful(c, role, may)}

\* Every call fits, with some set of arguments and answers: a load of the invitations may be answered with any function.
NetOK(n, role, may) == \E V : None \in V /\ n \in Nets(CallsFor(V, role, may))

\* The operations for whose answers the panels are ready, and those of them that a session may make.
AnyMay == {op \in Ops : (op = "mutate" => shown \in BookingLists) /\ (op = "emailSettings" => email \in MailAnswers)}
May(role) == {op \in AnyMay : MayDo(role, op)}

\* Every load that the session may make is among them.
Covers(may, role) == \A op \in Loads : MayDo(role, op) => op \in may

-----------------------------------------------------------------------------
\* More rights and more values do no harm.
LEMMA NetsGrow ==
  ASSUME NEW S, NEW T, S \subseteq T
  PROVE Nets(S) \subseteq Nets(T)
BY DEF Nets

LEMMA CallsGrow ==
  ASSUME NEW V, NEW W, V \subseteq W, NEW STATE role, NEW STATE r, NEW STATE may, NEW STATE m,
         r = "out" => role = "out", may \subseteq m
  PROVE CallsFor(V, role, may) \subseteq CallsFor(W, r, m)
<1> SUFFICES ASSUME NEW c \in CallsFor(V, role, may) PROVE c \in CallsFor(W, r, m)
  OBVIOUS
<1>1. c \in Records(W)
  BY DEF CallsFor, Records
<1>2. Asked(c) /\ Told(c)
  BY DEF CallsFor
<1>3. Rightful(c, r, m)
  BY DEF CallsFor, Rightful
<1> QED BY <1>1, <1>2, <1>3 DEF CallsFor

LEMMA NetGrows ==
  ASSUME NEW STATE n, NEW STATE role, NEW STATE r, NEW STATE may, NEW STATE m,
         NetOK(n, role, may), r = "out" => role = "out", may \subseteq m
  PROVE NetOK(n, r, m)
<1>1. PICK V : None \in V /\ n \in Nets(CallsFor(V, role, may))
  BY DEF NetOK
<1>2. CallsFor(V, role, may) \subseteq CallsFor(V, r, m)
  BY CallsGrow
<1> QED BY <1>1, <1>2, NetsGrow DEF NetOK

\* A call that is superseded still fits.
LEMMA CallsLower ==
  ASSUME NEW V, NEW STATE role, NEW STATE may
  PROVE Lowers(CallsFor(V, role, may))
<1> SUFFICES ASSUME NEW c \in CallsFor(V, role, may), c.standing = "live"
             PROVE [c EXCEPT !.standing = "superseded"] \in CallsFor(V, role, may)
  BY DEF Lowers
<1> DEFINE d == [c EXCEPT !.standing = "superseded"]
<1>1. c \in Records(V) /\ Asked(c) /\ Told(c) /\ Rightful(c, role, may)
  BY DEF CallsFor
<1>2. /\ d \in Records(V) /\ d.op = c.op /\ d.arg = c.arg /\ d.then = c.then /\ d.status = c.status /\ d.answer = c.answer
      /\ d.standing = "superseded"
  BY <1>1 DEF Records, Standings
<1> HIDE DEF d
<1>3. Asked(d)
  BY <1>1, <1>2 DEF Asked
<1>4. Told(d)
  BY <1>1, <1>2 DEF Told, AsksSession
<1>5. Rightful(d, role, may)
  BY <1>1, <1>2 DEF Rightful
<1> QED BY <1>2, <1>3, <1>4, <1>5 DEF CallsFor, d

\* A call that begins fits when its argument does and the session may make it.
LEMMA NewCall ==
  ASSUME NEW V, NEW STATE role, NEW STATE may, NEW op \in Ops, NEW arg \in V, NEW then \in Thens, None \in V,
         op \in may, role = "out" => op \in {"start", "google"} /\ then = "", Asked(Call(op, arg, then))
  PROVE Call(op, arg, then) \in CallsFor(V, role, may)
<1>1. Call(op, arg, then) \in Records(V)
  BY DEF Call, Records, Standings, Outcomes
<1>2. Told(Call(op, arg, then))
  BY DEF Told, Call
<1>3. Rightful(Call(op, arg, then), role, may)
  BY DEF Rightful, Call
<1> QED BY <1>1, <1>2, <1>3 DEF CallsFor

\* What begins and goes on keeps every call fitting: a request, a load, the loads of a panel, of the refresh and of the timer.
LEMMA BeginOK ==
  ASSUME NEW STATE n, NEW STATE role, NEW STATE may, NetOK(n, role, may), NEW op \in Ops, NEW arg, NEW then \in Thens,
         op \in may, role = "out" => op \in {"start", "google"} /\ then = "", Asked(Call(op, arg, then))
  PROVE NetOK(Begin(n, op, arg, then), role, may)
<1>1. PICK V : None \in V /\ n \in Nets(CallsFor(V, role, may))
  BY DEF NetOK
<1> DEFINE W == V \cup {arg}
<1>2. CallsFor(V, role, may) \subseteq CallsFor(W, role, may)
  BY CallsGrow
<1>3. n \in Nets(CallsFor(W, role, may))
  BY <1>1, <1>2, NetsGrow
<1>4. Call(op, arg, then) \in CallsFor(W, role, may)
  BY <1>1, NewCall
<1> HIDE DEF W
<1>5. Begin(n, op, arg, then) \in Nets(CallsFor(W, role, may))
  BY <1>3, <1>4, CallsLower, BeginIn
<1>6. None \in W
  BY <1>1 DEF W
<1> QED BY <1>5, <1>6 DEF NetOK

LEMMA LoadsOK ==
  ASSUME NEW V, None \in V, NEW STATE role, NEW STATE may, Covers(may, role)
  PROVE LoadsWithin(Nets(CallsFor(V, role, may)), role)
<1> SUFFICES ASSUME NEW n \in Nets(CallsFor(V, role, may)), NEW op \in Loads, NEW then \in Thens, MayBegin(n, role, op)
             PROVE Begin(n, op, None, then) \in Nets(CallsFor(V, role, may))
  BY DEF LoadsWithin, Thens
<1>1. MayDo(role, op) /\ op \in may /\ op \in Ops /\ role # "out"
  BY DEF MayBegin, Covers, MayDo, Loads, Ops, AccessOps, EmailOps, EmailCommands, Members, Authenticated
<1>2. Asked(Call(op, None, then))
  BY DEF Asked, Call, Loads
<1>3. Call(op, None, then) \in CallsFor(V, role, may)
  BY <1>1, <1>2, NewCall
<1> QED BY <1>1, <1>3, CallsLower, BeginIn

LEMMA LoadOK ==
  ASSUME NEW STATE n, NEW STATE role, NEW STATE may, NetOK(n, role, may), Covers(may, role), NEW op \in Loads
  PROVE NetOK(Load(n, role, op), role, may)
<1>1. PICK V : None \in V /\ n \in Nets(CallsFor(V, role, may))
  BY DEF NetOK
<1>2. Load(n, role, op) \in Nets(CallsFor(V, role, may))
  BY <1>1, LoadsOK, LoadIn
<1> QED BY <1>1, <1>2 DEF NetOK

LEMMA OpenedOK ==
  ASSUME NEW STATE n, NEW STATE role, NEW STATE may, NetOK(n, role, may), Covers(may, role), NEW panel
  PROVE NetOK(Opened(n, role, panel), role, may)
<1>1. PICK V : None \in V /\ n \in Nets(CallsFor(V, role, may))
  BY DEF NetOK
<1>2. Opened(n, role, panel) \in Nets(CallsFor(V, role, may))
  BY <1>1, LoadsOK, OpenedIn
<1> QED BY <1>1, <1>2 DEF NetOK

LEMMA VisibleOK ==
  ASSUME NEW STATE n, NEW STATE role, NEW STATE may, NetOK(n, role, may), Covers(may, role), NEW STATE panel, NEW held
  PROVE NetOK(Visible(n, role, panel, held), role, may)
<1>1. PICK V : None \in V /\ n \in Nets(CallsFor(V, role, may))
  BY DEF NetOK
<1>2. Visible(n, role, panel, held) \in Nets(CallsFor(V, role, may))
  BY <1>1, LoadsOK, VisibleIn
<1> QED BY <1>1, <1>2 DEF NetOK

LEMMA PollGoesOnOK ==
  ASSUME NEW STATE n, NEW STATE role, NEW STATE may, NetOK(n, role, may), Covers(may, role), NEW STATE panel, NEW STATE op, NEW held
  PROVE NetOK(PollGoesOn(n, role, panel, op, held).net, role, may)
<1>1. PICK V : None \in V /\ n \in Nets(CallsFor(V, role, may))
  BY DEF NetOK
<1>2. PollGoesOn(n, role, panel, op, held).net \in Nets(CallsFor(V, role, may))
  BY <1>1, LoadsOK, PollGoesOnIn
<1> QED BY <1>1, <1>2 DEF NetOK

\* The end of a handler keeps the calls fitting; only start opens another panel, and one that the session may open.
LEMMA EndsOK ==
  ASSUME NEW STATE n, NEW STATE role, NEW STATE may, NetOK(n, role, may), Covers(may, role), NEW STATE panel, NEW STATE call,
         Ends(n, role, panel, call)
  PROVE /\ NetOK(net', role, may)
        /\ poll' = poll \/ poll' = (role \in Members)
        /\ \/ activePanel' = panel
           \/ call.then = "start" /\ activePanel' = entry.landing /\ MayOpen(role, entry.landing)
<1>1. PICK V : None \in V /\ n \in Nets(CallsFor(V, role, may))
  BY DEF NetOK
<1>2. LoadsWithin(Nets(CallsFor(V, role, may)), role)
  BY <1>1, LoadsOK
<1>3. /\ net' \in Nets(CallsFor(V, role, may))
      /\ poll' = poll \/ poll' = (role \in Members)
      /\ \/ activePanel' = panel
         \/ call.then = "start" /\ activePanel' = entry.landing /\ MayOpen(role, entry.landing)
  BY <1>1, <1>2, EndsIn
<1> QED BY <1>1, <1>3 DEF NetOK

\* renderConnection leaves no live call that the session shown may not make.
LEMMA RenderedOK ==
  ASSUME NEW STATE n, NEW STATE role, role \in Authenticated, NetOK(n, role, AnyMay)
  PROVE NetOK(Rendered(n, role), role, May(role))
<1>1. PICK V : None \in V /\ n \in Nets(CallsFor(V, role, AnyMay))
  BY DEF NetOK
<1> DEFINE lost == (IF role = "operator" THEN {} ELSE AccessOps) \cup (IF role \in Members THEN {} ELSE EmailOps)
           S == CallsFor(V, role, AnyMay)
           T == CallsFor(V, role, May(role))
<1>2. ASSUME NEW c \in S PROVE (IF c.op \in lost /\ c.standing = "live" THEN [c EXCEPT !.standing = "superseded"] ELSE c) \in T
  <2> DEFINE d == IF c.op \in lost /\ c.standing = "live" THEN [c EXCEPT !.standing = "superseded"] ELSE c
  <2>1. d \in S
    BY <1>2, CallsLower DEF Lowers
  <2>2. d.standing = "live" => d = c /\ c.op \notin lost
    <3> HIDE DEF lost
    <3>1. c \in Records(V)
      BY <1>2 DEF CallsFor
    <3>2. [c EXCEPT !.standing = "superseded"].standing = "superseded"
      BY <3>1 DEF Records
    <3> QED BY <3>2
  <2> HIDE DEF d
  <2>3. d.standing = "live" => d.op \in May(role)
    <3>1. d.op \in Ops /\ (d.standing = "live" => d.op \in AnyMay)
      BY <2>1 DEF CallsFor, Rightful, Records
    <3>2. d.op \in Ops \ lost => MayDo(role, d.op)
      BY DEF MayDo, Members, Authenticated
    <3> QED BY <2>2, <3>1, <3>2 DEF May
  <2>4. Rightful(d, role, May(role))
    BY <2>1, <2>3 DEF CallsFor, Rightful
  <2>5. d \in T
    BY <2>1, <2>4 DEF CallsFor
  <2> QED BY <2>5 DEF d
<1> HIDE DEF lost, S, T
<1>3. n.calls \in Seq(S) /\ n.busy \subseteq Flags
  BY <1>1 DEF Nets, S
<1>4. Superseded(n.calls, lost) \in Seq(T)
  BY <1>2, <1>3, SupersededIn
<1>5. Rendered(n, role) = [calls |-> Superseded(n.calls, lost), busy |-> n.busy \ lost]
  BY DEF Rendered, lost
<1>6. Rendered(n, role) \in Nets(T)
  BY <1>3, <1>4, <1>5 DEF Nets
<1> QED BY <1>1, <1>6 DEF NetOK, T

\* When the epoch ends, nothing that is under way matters for the session that follows.
LEMMA StaleOK ==
  ASSUME NEW V, None \in V, NEW STATE calls, NEW STATE role, NEW STATE may, NEW STATE r, NEW STATE m,
         calls \in Seq(CallsFor(V, role, may)), NEW busy, busy \subseteq Flags
  PROVE NetOK([calls |-> Stale(calls), busy |-> busy], r, m)
<1> DEFINE S == CallsFor(V, role, may)
           T == CallsFor(V, r, m)
<1>1. ASSUME NEW c \in S PROVE [c EXCEPT !.standing = "stale"] \in T
  <2> DEFINE d == [c EXCEPT !.standing = "stale"]
  <2>1. c \in Records(V) /\ Asked(c) /\ Told(c)
    BY <1>1 DEF CallsFor
  <2>2. /\ d \in Records(V) /\ d.op = c.op /\ d.arg = c.arg /\ d.then = c.then /\ d.status = c.status /\ d.answer = c.answer
        /\ d.standing = "stale"
    BY <2>1 DEF Records, Standings
  <2> HIDE DEF d
  <2>3. Asked(d)
    BY <2>1, <2>2 DEF Asked
  <2>4. Told(d)
    BY <2>1, <2>2 DEF Told, AsksSession
  <2>5. Rightful(d, r, m)
    BY <2>2 DEF Rightful
  <2> QED BY <2>2, <2>3, <2>4, <2>5 DEF CallsFor, d
<1> HIDE DEF S, T
<1>2. Stale(calls) \in Seq(T)
  BY <1>1, StaleIn DEF S
<1>3. [calls |-> Stale(calls), busy |-> busy] \in Nets(T)
  BY <1>2 DEF Nets
<1> QED BY <1>3 DEF NetOK, T

\* A call that is over may be forgotten, and its flag lowered.
LEMMA WithoutOK ==
  ASSUME NEW STATE role, NEW STATE may, NetOK(net, role, may), NEW i \in DOMAIN net.calls
  PROVE NetOK(Without(i), role, may) /\ NetOK(Released(i), role, may)
<1>1. PICK V : None \in V /\ net \in Nets(CallsFor(V, role, may))
  BY DEF NetOK
<1> DEFINE S == CallsFor(V, role, may)
<1> HIDE DEF S
<1>2. net.calls \in Seq(S) /\ net.busy \subseteq Flags
  BY <1>1 DEF Nets, S
<1>3. RemoveAt(net.calls, i) \in Seq(S)
  BY <1>2, RemoveAtIn
<1>4. Without(i) = [calls |-> RemoveAt(net.calls, i), busy |-> net.busy]
  BY <1>1 DEF Without, Nets
<1>5. Without(i) \in Nets(S) /\ Released(i) \in Nets(S)
  BY <1>2, <1>3, <1>4 DEF Released, Nets
<1> QED BY <1>1, <1>5 DEF NetOK, S

-----------------------------------------------------------------------------
(* The core: session, page and calls                                       *)

\* The panel and the timer fit the session.
PageInv ==
  /\ poll \in BOOLEAN /\ activePanel \in Panels
  /\ session.role = "out" => ~poll /\ activePanel = "bookings"
  /\ activePanel = "access" => session.role = "operator"

\* The session, what the page shows, and the calls fit together.
CoreInv ==
  /\ session \in Sessions
  /\ PageInv
  /\ NetOK(net, session.role, May(session.role))

\* The rest of the shell.
SideInv ==
  /\ part \in Parts /\ granted \in Grants \cup {Out} /\ google \in [version : 0..MaxChanges, needs : BOOLEAN]
  /\ view \in {"loading", "entry", "portal"} /\ entry \in [token : {"none", "setup", "invite"}, landing : Panels, again : BOOLEAN]
  /\ hidden \in BOOLEAN /\ leaving \in BOOLEAN /\ orphaned \subseteq Flags /\ faults \in 0..MaxFaults
  /\ view = "portal" => session.role # "out"

\* The core after a step, with the rights of the new session to what the panels showed before.
CoreNext ==
  /\ session' \in Sessions
  /\ PageInv'
  /\ NetOK(net', session'.role, May(session'.role))

LEMMA MayCovers ==
  ASSUME NEW STATE role
  PROVE Covers(May(role), role) /\ Covers(AnyMay, role)
BY DEF Covers, May, AnyMay, Loads, Ops

\* What is known of one call.
LEMMA CallOK ==
  ASSUME NEW STATE role, NEW STATE may, NetOK(net, role, may), NEW i \in DOMAIN net.calls
  PROVE /\ \E V : net.calls[i] \in Records(V)
        /\ Asked(net.calls[i]) /\ Told(net.calls[i]) /\ Rightful(net.calls[i], role, may)
<1>1. PICK V : net \in Nets(CallsFor(V, role, may))
  BY DEF NetOK
<1> DEFINE S == CallsFor(V, role, may)
<1>2. net.calls[i] \in S
  <2> HIDE DEF S
  <2>1. net.calls \in Seq(S)
    BY <1>1 DEF Nets, S
  <2> QED BY <2>1
<1> QED BY <1>2 DEF CallsFor

LEMMA CallFields ==
  ASSUME NEW STATE role, NEW STATE may, NetOK(net, role, may), NEW i \in DOMAIN net.calls
  PROVE /\ net.calls[i].op \in Ops /\ net.calls[i].then \in Thens /\ net.calls[i].standing \in Standings /\ net.calls[i].status \in Outcomes
        /\ net.busy \subseteq Flags
<1>1. PICK V : net.calls[i] \in Records(V)
  BY CallOK
<1>2. net.busy \subseteq Flags
  BY DEF NetOK, Nets
<1> QED BY <1>1, <1>2 DEF Records

\* A call that changes and still fits.
LEMMA SetCall ==
  ASSUME NEW V, None \in V, NEW STATE role, NEW STATE may, NEW i \in DOMAIN net.calls,
         net \in Nets(CallsFor(V, role, may)), NEW busy, busy \subseteq Flags, NEW d, d \in CallsFor(V, role, may)
  PROVE NetOK([calls |-> [net.calls EXCEPT ![i] = d], busy |-> busy], role, may)
<1> DEFINE S == CallsFor(V, role, may)
<1> HIDE DEF S
<1>1. net.calls \in Seq(S) /\ d \in S
  BY DEF Nets, S
<1>2. [net.calls EXCEPT ![i] = d] \in Seq(S)
  BY <1>1
<1>3. [calls |-> [net.calls EXCEPT ![i] = d], busy |-> busy] \in Nets(S)
  BY <1>2 DEF Nets
<1> QED BY <1>3 DEF NetOK, S

\* The server's reply fits when the answer is of the kind that the operation expects.
LEMMA HandledOK ==
  ASSUME NEW STATE role, NEW STATE may, NetOK(net, role, may), NEW i \in DOMAIN net.calls, NEW status \in Outcomes, NEW answer,
         \A d : (/\ d.op = net.calls[i].op /\ d.arg = net.calls[i].arg
                 /\ d.status = status /\ d.answer = answer) => Told(d),
         Handled(i, status, answer)
  PROVE NetOK(net', role, may)
<1>1. PICK V : None \in V /\ net \in Nets(CallsFor(V, role, may))
  BY DEF NetOK
<1> DEFINE W == V \cup {answer}
           c == net.calls[i]
           d == [c EXCEPT !.status = status, !.answer = answer]
<1>2. CallsFor(V, role, may) \subseteq CallsFor(W, role, may)
  BY CallsGrow
<1>3. net \in Nets(CallsFor(W, role, may)) /\ None \in W
  BY <1>1, <1>2, NetsGrow
<1>4. c \in CallsFor(W, role, may)
  <2> DEFINE S == CallsFor(W, role, may)
  <2> HIDE DEF S
  <2>1. net.calls \in Seq(S)
    BY <1>3 DEF Nets, S
  <2> QED BY <2>1 DEF S
<1>5. c \in Records(W) /\ Asked(c) /\ Rightful(c, role, may)
  BY <1>4 DEF CallsFor
<1>6. answer \in W
  OBVIOUS
<1> HIDE DEF W, c
<1>7. /\ d \in Records(W) /\ d.op = c.op /\ d.arg = c.arg /\ d.then = c.then /\ d.standing = c.standing
      /\ d.status = status /\ d.answer = answer
  BY <1>5, <1>6 DEF Records, Outcomes
<1> HIDE DEF d
<1>8. Asked(d)
  BY <1>5, <1>7 DEF Asked
<1>9. Rightful(d, role, may)
  BY <1>5, <1>7 DEF Rightful
<1>10. Told(d)
  BY <1>7 DEF c
<1>11. d \in CallsFor(W, role, may)
  BY <1>7, <1>8, <1>9, <1>10 DEF CallsFor
<1>12. net' = [calls |-> [net.calls EXCEPT ![i] = d], busy |-> net.busy]
  BY <1>3 DEF Handled, Nets, d, c
<1>13. net.busy \subseteq Flags
  BY <1>1 DEF Nets
<1>14. NetOK([calls |-> [net.calls EXCEPT ![i] = d], busy |-> net.busy], role, may)
  BY <1>3, <1>11, <1>13, SetCall
<1> QED BY <1>12, <1>14

\* A request that fails for the page and may yet be handled, which is no longer waited for.
LEMMA AdriftOK ==
  ASSUME NEW STATE role, NEW STATE may, NetOK(net, role, may), NEW i \in DOMAIN net.calls
  PROVE NetOK(Adrift(i), role, may)
<1>1. PICK V : None \in V /\ net \in Nets(CallsFor(V, role, may))
  BY DEF NetOK
<1> DEFINE c == net.calls[i]
           d == [c EXCEPT !.standing = "stale"]
<1>2. c \in CallsFor(V, role, may)
  <2> DEFINE S == CallsFor(V, role, may)
  <2> HIDE DEF S
  <2>1. net.calls \in Seq(S)
    BY <1>1 DEF Nets, S
  <2> QED BY <2>1 DEF S
<1>3. c \in Records(V) /\ Asked(c) /\ Told(c)
  BY <1>2 DEF CallsFor
<1> HIDE DEF c
<1>4. /\ d \in Records(V) /\ d.op = c.op /\ d.arg = c.arg /\ d.then = c.then /\ d.status = c.status /\ d.answer = c.answer
      /\ d.standing = "stale"
  BY <1>3 DEF Records, Standings
<1> HIDE DEF d
<1>5. Asked(d)
  BY <1>3, <1>4 DEF Asked
<1>6. Told(d)
  BY <1>3, <1>4 DEF Told, AsksSession
<1>7. Rightful(d, role, may)
  BY <1>4 DEF Rightful
<1>8. d \in CallsFor(V, role, may)
  BY <1>4, <1>5, <1>6, <1>7 DEF CallsFor
<1>9. net.busy \ {net.calls[i].op} \subseteq Flags
  BY <1>1 DEF Nets
<1>10. Adrift(i) = [calls |-> [net.calls EXCEPT ![i] = d], busy |-> net.busy \ {net.calls[i].op}]
  BY DEF Adrift, d, c
<1>11. NetOK([calls |-> [net.calls EXCEPT ![i] = d], busy |-> net.busy \ {net.calls[i].op}], role, may)
  BY <1>1, <1>8, <1>9, SetCall
<1> QED BY <1>10, <1>11

LEMMA RemainsOK ==
  ASSUME NEW STATE role, NEW STATE may, NetOK(net, role, may), NEW i \in DOMAIN net.calls, NEW n \in Remains(i)
  PROVE NetOK(n, role, may)
BY WithoutOK, AdriftOK DEF Remains

-----------------------------------------------------------------------------
\* The three ways in which a step of the shell leaves the page: a handler ends (GoesOn), a session is shown
\* (showAuthenticated), the page is signed out (showSignedOut).
LEMMA EndsCore ==
  ASSUME CoreInv, SideInv, NEW STATE n, NetOK(n, session.role, May(session.role)), NEW STATE call,
         Ends(n, session.role, activePanel, call), call.then = "start" => session.role # "out", session' = session
  PROVE CoreNext
<1>1. /\ NetOK(net', session.role, May(session.role))
      /\ poll' = poll \/ poll' = (session.role \in Members)
      /\ \/ activePanel' = activePanel
         \/ call.then = "start" /\ activePanel' = entry.landing /\ MayOpen(session.role, entry.landing)
  <2>1. Covers(May(session.role), session.role)
    BY MayCovers
  <2> QED BY <2>1, EndsOK
<1>2. poll' \in BOOLEAN /\ activePanel' \in Panels
  <2>1. poll \in BOOLEAN /\ activePanel \in Panels /\ entry.landing \in Panels
    BY DEF CoreInv, PageInv, SideInv
  <2>2. (session.role \in Members) \in BOOLEAN
    OBVIOUS
  <2>3. poll' \in BOOLEAN
    BY <1>1, <2>1, <2>2, Zenon
  <2>4. activePanel' \in Panels
    BY <1>1, <2>1, Zenon
  <2> QED BY <2>3, <2>4
<1>3. session.role = "out" => ~poll' /\ activePanel' = "bookings"
  BY <1>1 DEF CoreInv, PageInv, Members
<1>4. activePanel' = "access" => session.role = "operator"
  BY <1>1 DEF CoreInv, PageInv, MayOpen
<1>5. PageInv'
  BY <1>2, <1>3, <1>4 DEF PageInv
<1> QED BY <1>1, <1>5 DEF CoreNext, CoreInv

LEMMA ShowsCore ==
  ASSUME CoreInv, SideInv, NEW STATE s, s \in Sessions, s.role \in Authenticated, NEW STATE n, NetOK(n, s.role, AnyMay),
         NEW STATE call, Shows(s, n, call)
  PROVE CoreNext
<1> DEFINE closes == activePanel = "access" /\ s.role # "operator"
           m == Rendered(n, s.role)
           after == IF closes THEN Load(m, s.role, "bookings") ELSE m
           panel == IF closes THEN "bookings" ELSE activePanel
<1>1. NetOK(m, s.role, May(s.role))
  BY RenderedOK
<1>2. NetOK(Load(m, s.role, "bookings"), s.role, May(s.role))
  BY <1>1, LoadOK, MayCovers DEF Loads
<1>3. NetOK(after, s.role, May(s.role))
  BY <1>1, <1>2
<1>4. session' = s /\ Ends(after, s.role, panel, call)
  BY DEF Shows
<1> HIDE DEF m, after
<1>5. /\ NetOK(net', s.role, May(s.role))
      /\ poll' = poll \/ poll' = (s.role \in Members)
      /\ activePanel' # panel => activePanel' = entry.landing /\ MayOpen(s.role, entry.landing)
  <2>1. Covers(May(s.role), s.role)
    BY MayCovers
  <2>2. /\ NetOK(net', s.role, May(s.role))
        /\ poll' = poll \/ poll' = (s.role \in Members)
        /\ \/ activePanel' = panel
           \/ call.then = "start" /\ activePanel' = entry.landing /\ MayOpen(s.role, entry.landing)
    BY <1>3, <1>4, <2>1, EndsOK
  <2> QED BY <2>2
<1>6. poll' \in BOOLEAN /\ activePanel' \in Panels
  <2>1. poll \in BOOLEAN /\ activePanel \in Panels /\ entry.landing \in Panels
    BY DEF CoreInv, PageInv, SideInv
  <2>2. (s.role \in Members) \in BOOLEAN
    OBVIOUS
  <2>3. poll' \in BOOLEAN
    BY <1>5, <2>1, <2>2, Zenon
  <2>4. panel \in Panels
    BY <2>1 DEF Panels
  <2>5. activePanel' \in Panels
    BY <1>5, <2>1, <2>4, Zenon
  <2> QED BY <2>3, <2>5
<1>7. activePanel' = "access" => s.role = "operator"
  BY <1>5 DEF MayOpen
<1>8. s.role # "out"
  BY DEF Authenticated, Members
<1>9. PageInv'
  BY <1>4, <1>6, <1>7, <1>8 DEF PageInv
<1> QED BY <1>4, <1>5, <1>9 DEF CoreNext

LEMMA SignsOutCore ==
  ASSUME NEW STATE s, s \in Sessions, NEW STATE calls, NEW STATE role, NEW STATE may,
         \E V : None \in V /\ calls \in Seq(CallsFor(V, role, may)), SignsOut(s, calls)
  PROVE CoreNext
<1>1. PICK V : None \in V /\ calls \in Seq(CallsFor(V, role, may))
  OBVIOUS
<1>2. \A m : NetOK([calls |-> Stale(calls), busy |-> {}], "out", m)
  BY <1>1, StaleOK
<1>3. session' \in Sessions /\ session'.role = "out"
  BY DEF SignsOut, Ended, Sessions
<1>4. PageInv'
  BY <1>3 DEF SignsOut, PageInv, Panels
<1> QED BY <1>2, <1>3, <1>4 DEF CoreNext, SignsOut

\* Steps that leave session, panel and timer.
LEMMA CoreSame ==
  ASSUME CoreInv, session' = session, poll' = poll, activePanel' = activePanel, NetOK(net', session.role, May(session.role))
  PROVE CoreNext
BY DEF CoreInv, CoreNext, PageInv

LEMMA NetParts ==
  ASSUME NEW STATE n, NEW STATE role, NEW STATE may, NetOK(n, role, may)
  PROVE /\ \E V : None \in V /\ n.calls \in Seq(CallsFor(V, role, may))
        /\ n.busy \subseteq Flags
BY DEF NetOK, Nets

\* The page is loaded, or starts again: only the new start is live.
LEMMA StartedOK ==
  ASSUME NEW STATE calls, NEW busy, busy \subseteq Flags, NEW STATE role, NEW STATE may, NEW STATE r, NEW STATE m, NEW STATE token,
         \E V : None \in V /\ calls \in Seq(CallsFor(V, role, may)), "start" \in m
  PROVE NetOK(Started([calls |-> calls, busy |-> busy], token), r, m)
<1> DEFINE n == [calls |-> Stale(calls), busy |-> busy \ {"session"}]
           arg == IF token = "setup" THEN "bootstrap" ELSE "session"
<1>1. NetOK(n, r, m)
  BY StaleOK
<1>2. Started([calls |-> calls, busy |-> busy], token) = Begin(n, "start", arg, "")
  BY DEF Started
<1>3. Asked(Call("start", arg, ""))
  BY DEF Asked, Call
<1> HIDE DEF n, arg
<1>4. NetOK(Begin(n, "start", arg, ""), r, m)
  BY <1>1, <1>3, BeginOK DEF Ops, Thens
<1> QED BY <1>2, <1>4

LEMMA StartMay ==
  ASSUME NEW STATE role
  PROVE "start" \in May(role)
BY DEF May, AnyMay, MayDo, Ops, AccessOps, EmailOps, EmailCommands

-----------------------------------------------------------------------------
(* The steps of the session                                                *)

\* One lemma for each step of the session.
LEMMA TryAgainCore ==
  ASSUME CoreInv, SideInv, TryAgain
  PROVE CoreNext
<1>1. (\E V : None \in V /\ net.calls \in Seq(CallsFor(V, session.role, May(session.role)))) /\ net.busy \subseteq Flags
  BY NetParts DEF CoreInv
<1>2. Started(net, entry.token) = Started([calls |-> net.calls, busy |-> net.busy], entry.token)
  BY DEF Started
<1>3. NetOK(net', session.role, May(session.role))
  BY <1>1, <1>2, StartedOK, StartMay DEF TryAgain
<1> QED BY <1>3, CoreSame DEF TryAgain

LEMMA LeaveCore ==
  ASSUME CoreInv, SideInv, LeaveAndReturn
  PROVE CoreNext
<1>1. \E V : None \in V /\ net.calls \in Seq(CallsFor(V, session.role, May(session.role)))
  BY NetParts DEF CoreInv
<1>2. PICK e \in Entries : net' = Started([calls |-> net.calls, busy |-> {}], e.token)
  BY DEF LeaveAndReturn
<1>3. session' \in Sessions /\ session'.role = "out"
  BY DEF LeaveAndReturn, Ended, Sessions, CoreInv
<1>4. NetOK(net', "out", May("out"))
  BY <1>1, <1>2, StartedOK, StartMay
<1>5. PageInv'
  BY <1>3 DEF LeaveAndReturn, PageInv, Panels
<1> QED BY <1>3, <1>4, <1>5 DEF CoreNext

\* What a handler knows of the call that it ends.
LEMMA AnsweredIs ==
  ASSUME CoreInv, NEW i, NEW op, Is(i, op)
  PROVE /\ i \in DOMAIN net.calls /\ net.calls[i].op = op
        /\ NetOK(Without(i), session.role, May(session.role))
        /\ NetOK(Released(i), session.role, May(session.role))
        /\ Told(net.calls[i]) /\ Asked(net.calls[i])
        /\ net.calls[i].standing = "live" => op \in AnyMay /\ MayDo(session.role, op)
        /\ net.calls[i].standing # "stale" /\ session.role = "out" => op \in {"start", "google"} /\ net.calls[i].then = ""
<1>1. i \in DOMAIN net.calls /\ net.calls[i].op = op
  BY DEF Is
<1>2. NetOK(Without(i), session.role, May(session.role)) /\ NetOK(Released(i), session.role, May(session.role))
  BY <1>1, WithoutOK DEF CoreInv
<1>3. Told(net.calls[i]) /\ Asked(net.calls[i]) /\ Rightful(net.calls[i], session.role, May(session.role))
  BY <1>1, CallOK DEF CoreInv
<1> QED BY <1>1, <1>2, <1>3 DEF Rightful, May

\* Without the rights of the session before.
LEMMA AnyRole ==
  ASSUME NEW STATE n, NEW STATE role, NetOK(n, role, May(role)), NEW STATE s, s \in Sessions, s.role \in Authenticated
  PROVE NetOK(n, s.role, AnyMay)
<1>1. May(role) \subseteq AnyMay /\ s.role # "out"
  BY DEF May, Authenticated, Members
<1> QED BY <1>1, NetGrows

LEMMA StartAnsweredCore ==
  ASSUME CoreInv, SideInv, NEW i, StartAnswered(i)
  PROVE CoreNext
<1> DEFINE s == net.calls[i].answer
           n == Without(i)
           call == [net.calls[i] EXCEPT !.then = "start"]
<1>1. /\ NetOK(n, session.role, May(session.role)) /\ s \in Sessions
  BY AnsweredIs DEF StartAnswered, Answered, Is, Told, AsksSession
<1>2. CASE SignsOut(s, n.calls)
  BY <1>1, <1>2, NetParts, SignsOutCore
<1>3. CASE s.role = "bootstrap" /\ Shows(s, n, call)
  <2>1. s.role \in Authenticated /\ NetOK(n, s.role, AnyMay)
    BY <1>1, <1>3, AnyRole DEF Authenticated
  <2> QED BY <1>1, <1>3, <2>1, ShowsCore
<1>4. CASE /\ s.role \in Members
           /\ LET starts(m, op) == IF MayBegin(n, s.role, op) THEN Begin(m, op, None, "start") ELSE m
              IN Shows(s, starts(starts(n, "bookings"), "settings"), call)
  <2> DEFINE starts(m, op) == IF MayBegin(n, s.role, op) THEN Begin(m, op, None, "start") ELSE m
  <2>1. s.role \in Authenticated /\ s.role # "out" /\ NetOK(n, s.role, AnyMay)
    BY <1>1, <1>4, AnyRole DEF Authenticated, Members
  <2>2. Asked(Call("bookings", None, "start")) /\ Asked(Call("settings", None, "start"))
    BY DEF Asked, Call
  <2>3. {"bookings", "settings"} \subseteq AnyMay /\ {"bookings", "settings"} \subseteq Ops
    BY DEF AnyMay, Ops, Loads
  <2> HIDE DEF s, n
  <2>4. NetOK(starts(n, "bookings"), s.role, AnyMay)
    BY <2>1, <2>2, <2>3, BeginOK DEF Thens
  <2> DEFINE m == starts(n, "bookings")
  <2>5. NetOK(starts(m, "settings"), s.role, AnyMay)
    <3> HIDE DEF m
    <3> QED BY <2>1, <2>2, <2>3, <2>4, BeginOK DEF Thens, m
  <2>6. Shows(s, starts(m, "settings"), call)
    BY <1>4
  <2> HIDE DEF starts, m, call
  <2> QED BY <1>1, <2>1, <2>5, <2>6, ShowsCore
<1> QED BY <1>2, <1>3, <1>4 DEF StartAnswered

LEMMA RemainsParts ==
  ASSUME CoreInv, NEW i \in DOMAIN net.calls, NEW n \in Remains(i)
  PROVE NetOK(n, session.role, May(session.role)) /\ \E V : None \in V /\ n.calls \in Seq(CallsFor(V, session.role, May(session.role)))
<1>1. NetOK(n, session.role, May(session.role))
  BY RemainsOK DEF CoreInv
<1> QED BY <1>1, NetParts

LEMMA StartFailsCore ==
  ASSUME CoreInv, SideInv, NEW i, StartFails(i)
  PROVE CoreNext
<1>1. PICK n \in Remains(i) : SignsOut(session, n.calls)
  BY DEF StartFails
<1>2. i \in DOMAIN net.calls
  BY DEF StartFails, Failing, Is
<1>3. \E V : None \in V /\ n.calls \in Seq(CallsFor(V, session.role, May(session.role)))
  BY <1>2, RemainsParts
<1> QED BY <1>1, <1>3, SignsOutCore DEF CoreInv

LEMMA SessionAnsweredCore ==
  ASSUME CoreInv, SideInv, NEW i, SessionAnswered(i)
  PROVE CoreNext
<1> DEFINE s == net.calls[i].answer
           n == Released(i)
<1>1. NetOK(n, session.role, May(session.role)) /\ s \in Sessions
  BY AnsweredIs DEF SessionAnswered, Answered, Is, Told, AsksSession
<1> HIDE DEF n, s
<1>2. CASE SignsOut(session, n.calls)
  BY <1>1, <1>2, NetParts, SignsOutCore DEF CoreInv
<1>3. CASE Signed(s) /\ Shows(s, n, net.calls[i])
  <2>1. s.role \in Authenticated /\ NetOK(n, s.role, AnyMay)
    BY <1>1, <1>3, AnyRole DEF Signed
  <2> QED BY <1>1, <1>3, <2>1, ShowsCore
<1> QED BY <1>2, <1>3 DEF SessionAnswered, s, n

LEMMA SessionFailsCore ==
  ASSUME CoreInv, SideInv, NEW i, SessionFails(i)
  PROVE CoreNext
<1>1. /\ NetOK(Released(i), session.role, May(session.role)) /\ session' = session
      /\ Ends(Released(i), session.role, activePanel, net.calls[i])
      /\ net.calls[i].then = "start" => session.role # "out"
  BY AnsweredIs DEF SessionFails, Failing
<1> QED BY <1>1, EndsCore

LEMMA DeniedCore ==
  ASSUME CoreInv, SideInv, NEW i, Denied(i)
  PROVE CoreNext
<1>1. NetOK(Without(i), session.role, May(session.role)) /\ Without(i).calls = RemoveAt(net.calls, i)
  BY WithoutOK DEF Denied, CoreInv, NetOK, Nets, Without
<1>2. \E V : None \in V /\ Without(i).calls \in Seq(CallsFor(V, session.role, May(session.role)))
  BY <1>1, NetParts
<1>3. SignsOut(session, Without(i).calls)
  BY <1>1 DEF Denied
<1> QED BY <1>2, <1>3, SignsOutCore DEF CoreInv

LEMMA DroppedCore ==
  ASSUME CoreInv, SideInv, NEW i, Dropped(i)
  PROVE CoreNext
<1>1. Is(i, net.calls[i].op) /\ session' = session
  BY DEF Dropped, Is
<1>2. /\ NetOK(Without(i), session.role, May(session.role)) /\ NetOK(Released(i), session.role, May(session.role))
      /\ net.calls[i].standing # "stale" /\ net.calls[i].then = "start" => session.role # "out"
  BY <1>1, AnsweredIs
<1>3. CASE net' = Without(i) /\ UNCHANGED <<poll, activePanel>>
  BY <1>1, <1>2, <1>3, CoreSame
<1>4. CASE /\ net.calls[i].standing = "superseded"
           /\ Ends(IF net.calls[i].op = "bookings" THEN Released(i) ELSE Without(i), session.role, activePanel, net.calls[i])
  <2> DEFINE n == IF net.calls[i].op = "bookings" THEN Released(i) ELSE Without(i)
  <2>1. NetOK(n, session.role, May(session.role))
    BY <1>2
  <2>2. Ends(n, session.role, activePanel, net.calls[i])
    BY <1>4
  <2> HIDE DEF n
  <2> QED BY <1>1, <1>2, <1>4, <2>1, <2>2, EndsCore
<1> QED BY <1>3, <1>4 DEF Dropped

\* A request that the session may make begins.
LEMMA BeginCore ==
  ASSUME CoreInv, NEW op \in Ops, NEW arg, NEW then \in Thens, op \in May(session.role),
         session.role = "out" => op \in {"start", "google"} /\ then = "", Asked(Call(op, arg, then)),
         net' = Begin(net, op, arg, then), session' = session, activePanel' = activePanel, poll' = poll
  PROVE CoreNext
<1>1. NetOK(Begin(net, op, arg, then), session.role, May(session.role))
  BY BeginOK DEF CoreInv
<1> QED BY <1>1, CoreSame

\* Only start and the consent are open to a page that is signed out.
LEMMA NotOut ==
  ASSUME NEW STATE role, NEW op \in Ops, op \notin {"start", "google"}, MayDo(role, op)
  PROVE role # "out" /\ role \in Authenticated
BY DEF MayDo, Authenticated, Members

LEMMA OpenGoogleCore ==
  ASSUME CoreInv, OpenGoogle
  PROVE CoreNext
<1>1. PICK purpose \in {"connect", "signin", "accept"} : net' = Begin(net, "google", purpose, "")
  BY DEF OpenGoogle
<1>2. "google" \in May(session.role) /\ "google" \in Ops /\ "" \in Thens
  BY DEF May, AnyMay, MayDo, Ops, AccessOps, EmailOps, EmailCommands, GoogleOps, Thens
<1>3. Asked(Call("google", purpose, ""))
  BY DEF Asked, Call
<1> QED BY <1>1, <1>2, <1>3, BeginCore DEF OpenGoogle

\* Orders without an argument of their own.
LEMMA PlainCore ==
  ASSUME CoreInv, NEW op \in {"configure", "disconnect", "logout"}, NEW arg, MayBegin(net, session.role, op),
         net' = Begin(net, op, arg, ""), session' = session, activePanel' = activePanel, poll' = poll
  PROVE CoreNext
<1>1. op \in May(session.role) /\ op \in Ops /\ "" \in Thens /\ session.role # "out"
  BY NotOut DEF May, AnyMay, MayBegin, Ops, GoogleOps, Thens
<1>2. Asked(Call(op, arg, ""))
  BY DEF Asked, Call
<1> QED BY <1>1, <1>2, BeginCore

LEMMA GoogleGoesOnCore ==
  ASSUME CoreInv, NEW i, NEW op \in {"configure", "disconnect"}, GoogleGoesOn(i, op)
  PROVE CoreNext
<1>1. PICK V0 : None \in V0 /\ net \in Nets(CallsFor(V0, session.role, May(session.role)))
  BY DEF CoreInv, NetOK
<1> DEFINE arg == NextStage[net.calls[i].arg]
           V == V0 \cup {arg}
           d == Call(op, arg, "")
<1>2. CallsFor(V0, session.role, May(session.role)) \subseteq CallsFor(V, session.role, May(session.role))
  BY CallsGrow
<1>3. None \in V /\ net \in Nets(CallsFor(V, session.role, May(session.role))) /\ arg \in V
  BY <1>1, <1>2, NetsGrow
<1>4. i \in DOMAIN net.calls /\ op \in AnyMay /\ MayDo(session.role, op)
  BY AnsweredIs DEF GoogleGoesOn, Answered, Is
<1>5. session.role # "out" /\ op \in May(session.role) /\ op \in Ops
  BY <1>4, NotOut DEF May, Ops, GoogleOps
<1> HIDE DEF V, arg
<1>6. Asked(Call(op, arg, ""))
  BY DEF Asked, Call
<1>7. d \in CallsFor(V, session.role, May(session.role))
  BY <1>3, <1>5, <1>6, NewCall DEF Thens
<1>8. net' = [calls |-> [net.calls EXCEPT ![i] = d], busy |-> net.busy] /\ net.busy \subseteq Flags
  <2>1. net' = [net EXCEPT !.calls[i] = d]
    BY DEF GoogleGoesOn, arg
  <2> HIDE DEF d
  <2> QED BY <1>3, <2>1 DEF Nets
<1> HIDE DEF d
<1>9. NetOK(net', session.role, May(session.role))
  <2>1. NetOK([calls |-> [net.calls EXCEPT ![i] = d], busy |-> net.busy], session.role, May(session.role))
    BY <1>3, <1>4, <1>7, <1>8, SetCall
  <2> QED BY <1>8, <2>1
<1> QED BY <1>9, CoreSame DEF GoogleGoesOn

LEMMA GoogleCheckedCore ==
  ASSUME CoreInv, SideInv, NEW i, NEW op \in {"configure", "disconnect"}, NEW STATE loaded, GoogleChecked(i, op, loaded)
  PROVE CoreNext
<1> DEFINE s == net.calls[i].answer
           n == Released(i)
<1>1. NetOK(n, session.role, May(session.role)) /\ s \in Sessions
  BY AnsweredIs DEF GoogleChecked, Answered, Is, Told, AsksSession
<1>2. CASE SignsOut(session, n.calls)
  BY <1>1, <1>2, NetParts, SignsOutCore DEF CoreInv
<1>3. CASE Signed(s) /\ Shows(s, IF op = "disconnect" /\ loaded THEN Load(n, s.role, "emails") ELSE n, net.calls[i])
  <2>1. s.role \in Authenticated /\ NetOK(n, s.role, AnyMay)
    BY <1>1, <1>3, AnyRole DEF Signed
  <2> DEFINE m == IF op = "disconnect" /\ loaded THEN Load(n, s.role, "emails") ELSE n
  <2> HIDE DEF s, n
  <2>2. Covers(AnyMay, s.role)
    BY MayCovers
  <2>3. NetOK(Load(n, s.role, "emails"), s.role, AnyMay)
    BY <2>1, <2>2, LoadOK DEF Loads
  <2>4. NetOK(m, s.role, AnyMay)
    BY <2>1, <2>3
  <2>5. Shows(s, m, net.calls[i])
    BY <1>3
  <2> HIDE DEF m
  <2> QED BY <1>1, <2>1, <2>4, <2>5, ShowsCore
<1> QED BY <1>2, <1>3 DEF GoogleChecked

LEMMA LogoutAnsweredCore ==
  ASSUME CoreInv, SideInv, NEW i, LogoutAnswered(i)
  PROVE CoreNext
<1>1. NetOK(Released(i), session.role, May(session.role)) /\ SignsOut(session, Released(i).calls)
  BY AnsweredIs DEF LogoutAnswered, Answered
<1> QED BY <1>1, NetParts, SignsOutCore DEF CoreInv

LEMMA ActionFailsCore ==
  ASSUME CoreInv, SideInv, NEW i, NEW op, ActionFails(i, op)
  PROVE CoreNext
<1>1. NetOK(net', session.role, May(session.role))
  BY RemainsParts DEF ActionFails, Failing, Is
<1> QED BY <1>1, CoreSame DEF ActionFails

LEMMA SwitchCore ==
  ASSUME CoreInv, SideInv, Switch
  PROVE CoreNext
<1>1. PICK panel \in part.panels : MayOpen(session.role, panel) /\ activePanel' = panel /\ net' = Opened(net, session.role, panel)
  BY DEF Switch
<1>2. NetOK(net', session.role, May(session.role))
  BY <1>1, OpenedOK, MayCovers DEF CoreInv
<1>3. panel \in Panels
  BY PortalAssumption DEF SideInv
<1>4. PageInv'
  BY <1>1, <1>3 DEF Switch, CoreInv, PageInv, SideInv, MayOpen
<1> QED BY <1>2, <1>4 DEF Switch, CoreNext, CoreInv

LEMMA RefreshCore ==
  ASSUME CoreInv, Refresh
  PROVE CoreNext
<1>1. Covers(May(session.role), session.role) /\ NetOK(net, session.role, May(session.role))
  BY MayCovers DEF CoreInv
<1>2. \A op \in Loads : NetOK(Load(net, session.role, op), session.role, May(session.role))
  BY <1>1, LoadOK
<1>3. NetOK(Load(Load(net, session.role, "bookings"), session.role, "session"), session.role, May(session.role))
  <2> DEFINE n == Load(net, session.role, "bookings")
  <2>1. NetOK(n, session.role, May(session.role))
    BY <1>2 DEF Loads
  <2> HIDE DEF n
  <2>2. NetOK(Load(n, session.role, "session"), session.role, May(session.role))
    BY <1>1, <2>1, LoadOK DEF Loads
  <2> QED BY <2>2 DEF n
<1>4. NetOK(net', session.role, May(session.role))
  BY <1>2, <1>3 DEF Refresh, Loads
<1> QED BY <1>4, CoreSame DEF Refresh

LEMMA RefreshVisibleCore ==
  ASSUME CoreInv, RefreshVisible, session' = session, activePanel' = activePanel
  PROVE CoreNext
<1>1. CASE UNCHANGED <<net, poll>>
  BY <1>1, CoreSame DEF CoreInv
<1>2. CASE session.role \in Members /\ poll' = TRUE /\ \E held : net' = Visible(net, session.role, activePanel, held)
  <2>1. NetOK(net', session.role, May(session.role))
    BY <1>2, VisibleOK, MayCovers DEF CoreInv
  <2>2. PageInv'
    BY <1>2 DEF CoreInv, PageInv, Members
  <2> QED BY <2>1, <2>2 DEF CoreNext, CoreInv
<1> QED BY <1>1, <1>2 DEF RefreshVisible

LEMMA PollFiresCore ==
  ASSUME CoreInv, PollFires
  PROVE CoreNext
<1>1. session' = session
  BY DEF PollFires
<1>2. CASE /\ MayBegin(net, session.role, "session")
           /\ net' = Begin(net, "session", None, "poll") /\ poll' = FALSE /\ UNCHANGED activePanel
  <2>1. "session" \in May(session.role) /\ "session" \in Ops /\ "poll" \in Thens /\ session.role # "out"
    BY <1>2, NotOut DEF May, AnyMay, MayBegin, Ops, Loads, Thens
  <2>2. Asked(Call("session", None, "poll"))
    BY DEF Asked, Call
  <2>3. NetOK(net', session.role, May(session.role))
    BY <1>2, <2>1, <2>2, BeginOK DEF CoreInv
  <2>4. PageInv'
    BY <1>1, <1>2 DEF CoreInv, PageInv
  <2> QED BY <1>1, <2>3, <2>4 DEF CoreNext, CoreInv
<1>3. CASE \E held \in SUBSET (Lists \cap part.does) :
             LET after == PollGoesOn(net, session.role, activePanel, "session", held)
             IN net' = after.net /\ poll' = (after.net = net /\ after.poll) /\ activePanel' = after.panel
  <2>1. PICK held \in SUBSET (Lists \cap part.does) :
               /\ net' = PollGoesOn(net, session.role, activePanel, "session", held).net
               /\ poll' = (/\ PollGoesOn(net, session.role, activePanel, "session", held).net = net
                           /\ PollGoesOn(net, session.role, activePanel, "session", held).poll)
               /\ activePanel' = PollGoesOn(net, session.role, activePanel, "session", held).panel
    BY <1>3
  <2>2. NetOK(net', session.role, May(session.role))
    BY <2>1, PollGoesOnOK, MayCovers DEF CoreInv
  <2>3. activePanel' = activePanel
    BY <2>1 DEF PollGoesOn
  <2>4. poll' \in BOOLEAN
    BY <2>1
  <2>5. session.role # "out"
    BY DEF PollFires, CoreInv, PageInv
  <2>6. PageInv'
    BY <1>1, <2>3, <2>4, <2>5 DEF CoreInv, PageInv
  <2> QED BY <1>1, <2>2, <2>6 DEF CoreNext, CoreInv
<1> QED BY <1>2, <1>3 DEF PollFires

\* The server's replies.
LEMMA HandledCore ==
  ASSUME CoreInv, NEW i \in DOMAIN net.calls, NEW status \in Outcomes, NEW answer,
         \A d : (/\ d.op = net.calls[i].op /\ d.arg = net.calls[i].arg
                 /\ d.status = status /\ d.answer = answer) => Told(d),
         Handled(i, status, answer), session' = session, activePanel' = activePanel, poll' = poll
  PROVE CoreNext
<1>1. NetOK(net', session.role, May(session.role))
  BY HandledOK DEF CoreInv
<1> QED BY <1>1, CoreSame

LEMMA RefusedCore ==
  ASSUME CoreInv, NEW i \in DOMAIN net.calls, Refuses(i) \/ Handled(i, "denied", None),
         session' = session, activePanel' = activePanel, poll' = poll
  PROVE CoreNext
<1>1. \A d : d.status \in {"refused", "denied"} => Told(d)
  BY DEF Told
<1>2. PICK status \in {"refused", "denied"} : Handled(i, status, None)
  BY DEF Refuses
<1>3. \A d : (/\ d.op = net.calls[i].op /\ d.arg = net.calls[i].arg /\ d.status = status /\ d.answer = None) => Told(d)
  BY <1>1
<1> QED BY <1>2, <1>3, HandledCore DEF Outcomes

LEMMA ServedCore ==
  ASSUME CoreInv, NEW i \in DOMAIN net.calls, NEW answer,
         \A d : (/\ d.op = net.calls[i].op /\ d.arg = net.calls[i].arg /\ d.answer = answer) => Told(d),
         Replies(i, answer), session' = session, activePanel' = activePanel, poll' = poll
  PROVE CoreNext
BY HandledCore DEF Replies, Outcomes

LEMMA SessionReply ==
  ASSUME NEW i \in DOMAIN net.calls, NEW answer, answer \in Sessions, NEW d,
         net.calls[i].op \in {"start", "session", "configure", "disconnect"},
         d.op = net.calls[i].op, d.answer = answer
  PROVE Told(d)
BY DEF Told

LEMMA ServeSessionCore ==
  ASSUME CoreInv, SideInv, NEW i, ServeSession(i)
  PROVE CoreNext
<1>1. i \in DOMAIN net.calls /\ net.calls[i].op \in {"start", "session", "configure", "disconnect"} /\ Replies(i, Says)
  BY DEF ServeSession, Arrives, Is
<1>2. Says \in Sessions
  <2>1. granted \in Grants \cup {Out} /\ google \in [version : 0..MaxChanges, needs : BOOLEAN]
    BY DEF SideInv
  <2>2. granted.role \in Authenticated \cup {"out"}
    BY <2>1 DEF Grants, Out
  <2>3. granted.connects \in BOOLEAN
    <3>1. CASE granted \in Grants
      BY <3>1 DEF Grants
    <3>2. CASE granted = Out
      BY <3>2 DEF Out
    <3> QED BY <2>1, <3>1, <3>2
  <2> QED BY <2>1, <2>2, <2>3 DEF Says, Sessions
<1>3. \A d : (/\ d.op = net.calls[i].op /\ d.arg = net.calls[i].arg /\ d.answer = Says) => Told(d)
  BY <1>1, <1>2, SessionReply
<1> QED BY <1>1, <1>3, ServedCore DEF ServeSession

LEMMA ServeBootstrapCore ==
  ASSUME CoreInv, SideInv, NEW i, ServeBootstrap(i)
  PROVE CoreNext
<1> DEFINE answer == [role |-> Setup.role, connects |-> Setup.connects, google |-> google]
<1>1. i \in DOMAIN net.calls /\ net.calls[i].op = "start" /\ (Replies(i, answer) \/ Refuses(i))
  BY DEF ServeBootstrap, Arrives, Is
<1>2. answer \in Sessions
  BY DEF SideInv, Sessions, Setup, Authenticated
<1> HIDE DEF answer
<1>3. \A d : (/\ d.op = net.calls[i].op /\ d.arg = net.calls[i].arg /\ d.answer = answer) => Told(d)
  BY <1>1, <1>2, SessionReply
<1> QED BY <1>1, <1>3, ServedCore, RefusedCore DEF ServeBootstrap

LEMMA ServeGoogleCore ==
  ASSUME CoreInv, SideInv, NEW i, ServeGoogle(i)
  PROVE CoreNext
<1>1. i \in DOMAIN net.calls /\ (Replies(i, None) \/ Refuses(i)) /\ net.calls[i].op \in GoogleOps \cup {"logout"} /\ net.calls[i].arg # "check"
  BY DEF ServeGoogle
<1>2. \A d : (/\ d.op = net.calls[i].op /\ d.arg = net.calls[i].arg /\ d.answer = None) => Told(d)
  BY <1>1 DEF Told, AsksSession, GoogleOps
<1> QED BY <1>1, <1>2, ServedCore, RefusedCore DEF ServeGoogle

\* Every step of the session keeps CoreInv, up to what the panels have still to follow.
LEMMA SessionCore ==
  ASSUME CoreInv, SideInv, SessionNext
  PROVE CoreNext
<1>1. CASE TryAgain \/ LeaveAndReturn \/ OpenGoogle \/ Switch \/ Refresh \/ PollFires
  BY <1>1, TryAgainCore, LeaveCore, OpenGoogleCore, SwitchCore, RefreshCore, PollFiresCore
<1>2. CASE Configure
  BY <1>2, PlainCore DEF Configure
<1>3. CASE Disconnect
  BY <1>3, PlainCore DEF Disconnect
<1>4. CASE Logout
  BY <1>4, PlainCore DEF Logout
<1>5. CASE Focus \/ Show
  BY <1>5, RefreshVisibleCore DEF Focus, Show
<1>6. CASE Hide
  <2>1. PageInv'
    BY <1>6 DEF Hide, CoreInv, PageInv
  <2> QED BY <1>6, <2>1 DEF Hide, CoreInv, CoreNext
<1>7. CASE Regranted \/ ConnectionChanges
  BY <1>7, CoreSame DEF Regranted, ConnectionChanges, CoreInv
<1>8. ASSUME NEW i \in DOMAIN net.calls, StartAnswered(i) \/ StartFails(i) \/ SessionAnswered(i) \/ SessionFails(i) \/ Denied(i) \/ Dropped(i)
      PROVE CoreNext
  BY <1>8, StartAnsweredCore, StartFailsCore, SessionAnsweredCore, SessionFailsCore, DeniedCore, DroppedCore
<1>9. ASSUME NEW i \in DOMAIN net.calls, NEW op, GoogleOpened(i) \/ (op \in {"configure", "disconnect"} /\ GoogleGoesOn(i, op)) \/ LogoutAnswered(i) \/ ActionFails(i, op)
      PROVE CoreNext
  <2>1. CASE GoogleOpened(i)
    <3>1. NetOK(net', session.role, May(session.role))
      BY <2>1, AnsweredIs DEF GoogleOpened, Answered
    <3> QED BY <2>1, <3>1, CoreSame DEF GoogleOpened
  <2> QED BY <1>9, <2>1, GoogleGoesOnCore, LogoutAnsweredCore, ActionFailsCore
<1>10. ASSUME NEW i \in DOMAIN net.calls, ServeDenied(i) \/ ServeForbidden(i) \/ ServeSession(i) \/ ServeBootstrap(i) \/ ServeGoogle(i)
       PROVE CoreNext
  <2>1. CASE ServeDenied(i)
    BY <2>1, RefusedCore DEF ServeDenied
  <2>2. CASE ServeForbidden(i)
    BY <2>2, RefusedCore DEF ServeForbidden
  <2> QED BY <1>10, <2>1, <2>2, ServeSessionCore, ServeBootstrapCore, ServeGoogleCore
<1> QED BY <1>1, <1>2, <1>3, <1>4, <1>5, <1>6, <1>7, <1>8, <1>9, <1>10 DEF SessionNext

-----------------------------------------------------------------------------
(* The panels and the core                                                 *)

\* What the panels hold, and that a session without the right to it holds none of it.
BookingsInv ==
  /\ stored \in BookingLists /\ (shown = None \/ shown \in BookingLists)
  /\ selected \in OrNone(Bookings) /\ (selected # None => shown \in BookingLists)
  /\ fields \in [notes : Notes, status : Statuses]
  /\ session.role = "out" => shown = None /\ selected = None

AccessInv ==
  /\ issued \in Seq(Invitation) /\ Len(issued) <= MaxInvites /\ lapsed \subseteq Ids
  /\ roster \in [People -> [joins : Nat, in : BOOLEAN]]
  /\ DOMAIN invitations \subseteq Ids /\ \A id \in DOMAIN invitations : invitations[id] \in Invitation
  /\ link \in OrNone(Ids) /\ pendingRevoke \in OrNone(Ids) /\ pendingRemove \in OrNone(People)
  /\ DOMAIN members \subseteq People
  /\ session.role # "operator" => invitations = Nothing /\ members = Nothing /\ link = None /\ pendingRevoke = None /\ pendingRemove = None

EmailsInv ==
  /\ mail \in [settings : Saved, rest : Rest] /\ (email = None \/ email \in MailAnswers)
  /\ form \in Preferences /\ emailDirty \in BOOLEAN
  /\ session.role \notin Members => email = None /\ ~emailDirty

SettingsInv ==
  /\ dirty \in BOOLEAN /\ resettable \in BOOLEAN
  /\ session.role = "out" => settings = None /\ rows = None /\ ~dirty

-----------------------------------------------------------------------------
LEMMA OwnMay ==
  ASSUME CoreInv, NEW op \in Ops, MayDo(session.role, op), op \in AnyMay, op \notin {"start", "google"}
  PROVE op \in May(session.role) /\ session.role # "out"
BY NotOut DEF May

LEMMA MutateCore ==
  ASSUME CoreInv, BookingsInv, Mutate
  PROVE CoreNext
<1>1. PICK notes \in Notes \cup {None}, status \in Statuses \cup {None} :
        net' = Begin(net, "mutate", [id |-> selected, notes |-> notes, status |-> status], "")
  BY DEF Mutate
<1> DEFINE arg == [id |-> selected, notes |-> notes, status |-> status]
<1>2. arg \in Patches
  BY DEF Mutate, BookingsInv, Patches, OrNone
<1>3. "mutate" \in AnyMay /\ MayDo(session.role, "mutate") /\ "mutate" \in Ops /\ "" \in Thens
  BY DEF Mutate, BookingsInv, AnyMay, MayBegin, Ops, Thens
<1>4. "mutate" \in May(session.role) /\ session.role # "out"
  BY <1>3, OwnMay
<1> HIDE DEF arg
<1>5. Asked(Call("mutate", arg, ""))
  BY <1>2 DEF Asked, Call
<1>6. net' = Begin(net, "mutate", arg, "")
  BY <1>1 DEF arg
<1> QED BY <1>3, <1>4, <1>5, <1>6, BeginCore DEF Mutate, notShell

\* The steps of the bookings panel.
LEMMA MutationEndsOK ==
  ASSUME NEW STATE n, NEW STATE role, NEW STATE may, NetOK(n, role, may)
  PROVE NetOK(MutationEnds(n), role, may)
<1>1. PICK V : None \in V /\ n \in Nets(CallsFor(V, role, may))
  BY DEF NetOK
<1> DEFINE S == CallsFor(V, role, may)
<1>2. Lowers(S)
  BY CallsLower
<1> HIDE DEF S
<1>3. n.calls \in Seq(S) /\ n.busy \subseteq Flags
  BY <1>1 DEF Nets, S
<1>4. Superseded(n.calls, {"bookings"}) \in Seq(S)
  BY <1>2, <1>3, SupersededIn DEF Lowers
<1>5. MutationEnds(n) = [calls |-> Superseded(n.calls, {"bookings"}), busy |-> n.busy]
  BY <1>1 DEF MutationEnds, Nets
<1> QED BY <1>1, <1>3, <1>4, <1>5 DEF NetOK, Nets, S

LEMMA MutateAnsweredCore ==
  ASSUME CoreInv, NEW i, MutateAnswered(i)
  PROVE CoreNext
<1>1. NetOK(net', session.role, May(session.role))
  BY AnsweredIs, MutationEndsOK DEF MutateAnswered, Answered
<1> QED BY <1>1, CoreSame DEF MutateAnswered, notShell

LEMMA MutateFailsCore ==
  ASSUME CoreInv, NEW i, MutateFails(i)
  PROVE CoreNext
<1>1. NetOK(net', session.role, May(session.role))
  BY RemainsParts, MutationEndsOK DEF MutateFails, Failing, Is
<1> QED BY <1>1, CoreSame DEF MutateFails, notShell

\* A load that is answered or fails.
LEMMA EndedCore ==
  ASSUME CoreInv, SideInv, NEW i, NEW op, Is(i, op), net.calls[i].standing = "live", op \notin {"start", "google"},
         NEW STATE n, NetOK(n, session.role, May(session.role)),
         Ends(n, session.role, activePanel, net.calls[i]), session' = session
  PROVE CoreNext
<1>1. net.calls[i].then = "start" => session.role # "out"
  BY AnsweredIs
<1> QED BY <1>1, EndsCore

LEMMA BookingsAnsweredCore ==
  ASSUME CoreInv, SideInv, NEW i, BookingsAnswered(i)
  PROVE CoreNext
BY EndedCore, AnsweredIs DEF BookingsAnswered, Answered, notShell

LEMMA BookingsFailsCore ==
  ASSUME CoreInv, SideInv, NEW i, BookingsFails(i)
  PROVE CoreNext
BY EndedCore, AnsweredIs DEF BookingsFails, Failing, notShell

LEMMA ServeBookingsCore ==
  ASSUME CoreInv, BookingsInv, NEW i, ServeBookings(i)
  PROVE CoreNext
<1>1. i \in DOMAIN net.calls /\ net.calls[i].op = "bookings" /\ stored \in BookingLists
  BY DEF ServeBookings, Arrives, Is, BookingsInv
<1>2. \A d : (/\ d.op = net.calls[i].op /\ d.arg = net.calls[i].arg /\ d.answer = stored) => Told(d)
  BY <1>1 DEF Told, AsksSession
<1> QED BY <1>1, <1>2, ServedCore DEF ServeBookings, notShell

LEMMA ChangedIs ==
  ASSUME NEW b \in Booking, NEW notes \in OrNone(Notes), NEW status \in OrNone(Statuses), b.rev < MaxChanges
  PROVE Changed(b, notes, status) \in Booking /\ Changed(b, notes, status).rev = b.rev + 1
BY PortalAssumption DEF Changed, Booking, OrNone

LEMMA ServeMutateCore ==
  ASSUME CoreInv, BookingsInv, NEW i, ServeMutate(i)
  PROVE CoreNext
<1> DEFINE patch == net.calls[i].arg
           new == Changed(stored[patch.id], patch.notes, patch.status)
<1>1. i \in DOMAIN net.calls /\ net.calls[i].op = "mutate" /\ patch \in Patches
  BY AnsweredIs DEF ServeMutate, Arrives, Is, Asked
<1>2. stored[patch.id] \in Booking /\ patch.notes \in OrNone(Notes) /\ patch.status \in OrNone(Statuses)
  BY <1>1 DEF BookingsInv, BookingLists, Patches
<1>3. CASE Refuses(i)
  BY <1>1, <1>3, RefusedCore DEF ServeMutate, notShell
<1>4. CASE MayPatch(stored[patch.id], patch.status) /\ Replies(i, new)
  <2>1. new \in Booking
    BY <1>2, <1>4, ChangedIs DEF MayPatch
  <2> HIDE DEF new
  <2>2. \A d : (/\ d.op = net.calls[i].op /\ d.arg = net.calls[i].arg /\ d.answer = new) => Told(d)
    BY <1>1, <2>1 DEF Told, AsksSession
  <2> QED BY <1>1, <1>4, <2>2, ServedCore DEF ServeMutate, notShell
<1> QED BY <1>3, <1>4 DEF ServeMutate

LEMMA BookingsCore ==
  ASSUME CoreInv, SideInv, BookingsInv, BookingsNext
  PROVE CoreNext
<1>1. CASE OpenBooking \/ CloseBooking \/ EditBooking \/ BookingChanges
  BY <1>1, CoreSame DEF OpenBooking, CloseBooking, EditBooking, BookingChanges, shellVars, CoreInv
<1>2. CASE Mutate
  BY <1>2, MutateCore
<1>3. ASSUME NEW i, MutateAnswered(i) \/ MutateFails(i) \/ BookingsAnswered(i) \/ BookingsFails(i) \/ ServeBookings(i) \/ ServeMutate(i)
      PROVE CoreNext
  BY <1>3, MutateAnsweredCore, MutateFailsCore, BookingsAnsweredCore, BookingsFailsCore, ServeBookingsCore, ServeMutateCore
<1> QED BY <1>1, <1>2, <1>3 DEF BookingsNext

-----------------------------------------------------------------------------
\* The steps of the access panel.
LEMMA BeginPanelCore ==
  ASSUME CoreInv, NEW op \in Ops, NEW arg, op \in AnyMay, MayDo(session.role, op), op \notin {"start", "google"},
         Asked(Call(op, arg, "")), net' = Begin(net, op, arg, ""), session' = session, activePanel' = activePanel, poll' = poll
  PROVE CoreNext
<1>1. op \in May(session.role) /\ session.role # "out"
  BY OwnMay
<1> QED BY <1>1, BeginCore DEF Thens

LEMMA CreateInvitationCore ==
  ASSUME CoreInv, CreateInvitation
  PROVE CoreNext
<1>1. PICK address \in Addresses : net' = Begin(net, "invite", address, "")
  BY DEF CreateInvitation
<1>2. "invite" \in AnyMay /\ MayDo(session.role, "invite") /\ "invite" \in Ops
  BY DEF CreateInvitation, MayBegin, AnyMay, Ops, AccessOps
<1>3. Asked(Call("invite", address, ""))
  BY DEF Asked, Call
<1> QED BY <1>1, <1>2, <1>3, BeginPanelCore DEF CreateInvitation, quiet, others

LEMMA RevokeInvitationCore ==
  ASSUME CoreInv, AccessInv, RevokeInvitation
  PROVE CoreNext
<1>1. "revoke" \in AnyMay /\ MayDo(session.role, "revoke") /\ "revoke" \in Ops
  BY DEF RevokeInvitation, MayBegin, AnyMay, Ops, AccessOps
<1>2. Asked(Call("revoke", pendingRevoke, ""))
  BY DEF Asked, Call, RevokeInvitation, AccessInv, OrNone
<1> QED BY <1>1, <1>2, BeginPanelCore DEF RevokeInvitation, quiet, others

LEMMA RemoveMemberCore ==
  ASSUME CoreInv, AccessInv, RemoveMember
  PROVE CoreNext
<1>1. "remove" \in AnyMay /\ MayDo(session.role, "remove") /\ "remove" \in Ops
  BY DEF RemoveMember, MayBegin, AnyMay, Ops, AccessOps
<1>2. Asked(Call("remove", pendingRemove, ""))
  BY DEF Asked, Call, RemoveMember, AccessInv, OrNone
<1> QED BY <1>1, <1>2, BeginPanelCore DEF RemoveMember, quiet, others

LEMMA ReleasedCore ==
  ASSUME CoreInv, NEW i, NEW op, Is(i, op), net' = Released(i), session' = session, activePanel' = activePanel, poll' = poll
  PROVE CoreNext
BY AnsweredIs, CoreSame

LEMMA AccessFailsCore ==
  ASSUME CoreInv, SideInv, NEW i, NEW op \in AccessOps, AccessFails(i, op)
  PROVE CoreNext
<1>1. PICK n \in Remains(i) : Ends(n, session.role, activePanel, net.calls[i])
  BY DEF AccessFails
<1>2. NetOK(n, session.role, May(session.role))
  BY RemainsParts DEF AccessFails, Failing, Is
<1> QED BY <1>1, <1>2, EndedCore DEF AccessFails, Failing, AccessOps, others

LEMMA ReportedIs ==
  ASSUME AccessInv
  PROVE DOMAIN Reported \subseteq Ids /\ \A id \in DOMAIN Reported : Reported[id] \in Invitation
<1>1. DOMAIN Reported = DOMAIN issued /\ DOMAIN issued \subseteq Ids /\ \A id \in DOMAIN issued : issued[id] \in Invitation
  BY AccessAssumption DEF AccessInv, Reported, Ids
<1>2. ASSUME NEW id \in DOMAIN issued PROVE Reported[id] \in Invitation
  <2>1. issued[id] \in Invitation /\ [issued[id] EXCEPT !.status = "expired"] \in Invitation
    BY <1>1 DEF Invitation
  <2> QED BY <1>1, <2>1 DEF Reported
<1> QED BY <1>1, <1>2

\* The server's list of invitations after an invitation or a revocation.
LEMMA RevokePendingIs ==
  ASSUME NEW list \in Seq(Invitation), NEW address
  PROVE RevokePending(list, address) \in Seq(Invitation) /\ Len(RevokePending(list, address)) = Len(list)
<1>1. DOMAIN list = 1..Len(list) /\ Len(list) \in Nat /\ \A id \in DOMAIN list : list[id] \in Invitation
  OBVIOUS
<1>2. \A id \in DOMAIN list : RevokePending(list, address)[id] \in Invitation
  <2> SUFFICES ASSUME NEW id \in DOMAIN list PROVE RevokePending(list, address)[id] \in Invitation
    OBVIOUS
  <2>1. list[id] \in Invitation /\ [list[id] EXCEPT !.status = "revoked"] \in Invitation
    BY <1>1 DEF Invitation
  <2> QED BY <2>1 DEF RevokePending
<1>3. RevokePending(list, address) = [id \in 1..Len(list) |-> RevokePending(list, address)[id]]
  BY <1>1 DEF RevokePending
<1> QED BY <1>1, <1>2, <1>3

LEMMA IssuedGrows ==
  ASSUME AccessInv, NEW address \in Addresses, Len(issued) < MaxInvites,
         issued' = Append(RevokePending(issued, address), [address |-> address, status |-> "pending"])
  PROVE /\ issued' \in Seq(Invitation) /\ Len(issued') = Len(issued) + 1 /\ Len(issued') \in Ids
<1>1. RevokePending(issued, address) \in Seq(Invitation) /\ Len(RevokePending(issued, address)) = Len(issued)
  BY RevokePendingIs DEF AccessInv
<1>2. [address |-> address, status |-> "pending"] \in Invitation
  BY DEF Invitation
<1>3. Len(issued) \in Nat
  BY DEF AccessInv
<1> HIDE DEF Invitation
<1>4. issued' \in Seq(Invitation) /\ Len(issued') = Len(issued) + 1
  BY <1>1, <1>2
<1> QED BY <1>3, <1>4, AccessAssumption DEF Ids

LEMMA ServeInvitationsCore ==
  ASSUME CoreInv, AccessInv, NEW i, ServeInvitations(i)
  PROVE CoreNext
<1>0. /\ i \in DOMAIN net.calls /\ Is(i, net.calls[i].op) /\ Asked(net.calls[i])
      /\ session' = session /\ activePanel' = activePanel /\ poll' = poll
  <2>1. i \in DOMAIN net.calls /\ Is(i, net.calls[i].op)
    BY DEF ServeInvitations, Arrives, Is
  <2> QED BY <2>1, AnsweredIs DEF ServeInvitations, quiet, others
<1>1. CASE Refuses(i)
  BY <1>0, <1>1, RefusedCore
<1>2. CASE Arrives(i, "invitations") /\ Replies(i, Reported)
  <2>1. \A d : (/\ d.op = net.calls[i].op /\ d.arg = net.calls[i].arg /\ d.answer = Reported) => Told(d)
    BY <1>2, ReportedIs DEF Told, AsksSession, Arrives, Is
  <2> QED BY <1>0, <1>2, <2>1, ServedCore
<1>3. CASE /\ Arrives(i, "invite") /\ Len(issued) < MaxInvites
           /\ issued' = Append(RevokePending(issued, net.calls[i].arg), [address |-> net.calls[i].arg, status |-> "pending"])
           /\ Replies(i, [id |-> Len(issued'), address |-> net.calls[i].arg])
  <2> DEFINE answer == [id |-> Len(issued'), address |-> net.calls[i].arg]
  <2>1. net.calls[i].arg \in Addresses
    BY <1>0, <1>3 DEF Asked, Arrives, Is
  <2>2. Len(issued') \in Ids
    BY <1>3, <2>1, IssuedGrows
  <2>3. answer \in [id : Ids, address : Addresses]
    BY <2>1, <2>2
  <2>4. Replies(i, answer)
    BY <1>3
  <2> HIDE DEF answer
  <2>5. \A d : (/\ d.op = net.calls[i].op /\ d.arg = net.calls[i].arg /\ d.answer = answer) => Told(d)
    BY <1>3, <2>3 DEF Told, AsksSession, Arrives, Is
  <2>6. NetOK(net', session.role, May(session.role))
    <3>1. PICK x : x = answer
      OBVIOUS
    <3>2. \A d : (/\ d.op = net.calls[i].op /\ d.arg = net.calls[i].arg /\ d.status = "ok" /\ d.answer = x) => Told(d)
      BY <2>5, <3>1
    <3>3. Handled(i, "ok", x)
      BY <2>4, <3>1 DEF Replies
    <3> QED BY <1>0, <3>2, <3>3, HandledOK DEF CoreInv, Outcomes
  <2> QED BY <1>0, <2>6, CoreSame
<1>4. CASE Arrives(i, "revoke") /\ Replies(i, None)
  <2>1. \A d : (/\ d.op = net.calls[i].op /\ d.arg = net.calls[i].arg /\ d.answer = None) => Told(d)
    BY <1>4 DEF Told, AsksSession, Arrives, Is
  <2> QED BY <1>0, <1>4, <2>1, ServedCore
<1> QED BY <1>1, <1>2, <1>3, <1>4 DEF ServeInvitations

LEMMA ServeMembersCore ==
  ASSUME CoreInv, AccessInv, NEW i, ServeMembers(i)
  PROVE CoreNext
<1> DEFINE list == [p \in Present |-> roster[p].joins]
<1>0. i \in DOMAIN net.calls /\ session' = session /\ activePanel' = activePanel /\ poll' = poll
  BY DEF ServeMembers, Arrives, Is, quiet, others
<1>1. CASE Refuses(i)
  BY <1>0, <1>1, RefusedCore
<1>2. CASE Arrives(i, "members") /\ Replies(i, list)
  <2>1. DOMAIN list \subseteq People
    BY DEF Present
  <2> HIDE DEF list
  <2>2. \A d : (/\ d.op = net.calls[i].op /\ d.arg = net.calls[i].arg /\ d.answer = list) => Told(d)
    BY <1>2, <2>1 DEF Told, AsksSession, Arrives, Is
  <2> QED BY <1>0, <1>2, <2>2, ServedCore
<1>3. CASE Arrives(i, "remove") /\ Replies(i, roster[net.calls[i].arg].joins)
  <2>1. \A d : (/\ d.op = net.calls[i].op /\ d.arg = net.calls[i].arg /\ d.answer = roster[net.calls[i].arg].joins) => Told(d)
    BY <1>3 DEF Told, AsksSession, Arrives, Is
  <2> QED BY <1>0, <1>3, <2>1, ServedCore
<1> QED BY <1>1, <1>2, <1>3 DEF ServeMembers

LEMMA AccessCore ==
  ASSUME CoreInv, SideInv, AccessInv, AccessNext
  PROVE CoreNext
<1>1. CASE AskRevoke \/ HideLink \/ AskRemove \/ DirectoryChanges
  BY <1>1, CoreSame DEF AskRevoke, HideLink, AskRemove, DirectoryChanges, shellVars, CoreInv
<1>2. CASE CreateInvitation \/ RevokeInvitation \/ RemoveMember
  BY <1>2, CreateInvitationCore, RevokeInvitationCore, RemoveMemberCore
<1>3. ASSUME NEW i, InvitationCreated(i) \/ InvitationRevoked(i) \/ MemberRemoved(i)
      PROVE CoreNext
  BY <1>3, ReleasedCore DEF InvitationCreated, InvitationRevoked, MemberRemoved, Answered, quiet, others
<1>4. ASSUME NEW i, InvitationsAnswered(i)
      PROVE CoreNext
  BY <1>4, EndedCore, AnsweredIs DEF InvitationsAnswered, Answered, others
<1>5. ASSUME NEW i, MembersAnswered(i)
      PROVE CoreNext
  BY <1>5, EndedCore, AnsweredIs DEF MembersAnswered, Answered, others
<1>6. ASSUME NEW i, NEW op \in AccessOps, AccessFails(i, op)
      PROVE CoreNext
  BY <1>6, AccessFailsCore
<1>7. ASSUME NEW i, ServeInvitations(i) \/ ServeMembers(i)
      PROVE CoreNext
  BY <1>7, ServeInvitationsCore, ServeMembersCore
<1> QED BY <1>1, <1>2, <1>3, <1>4, <1>5, <1>6, <1>7 DEF AccessNext

\* The steps of the emails and of the availability panel.
LEMMA UnlockedOK ==
  ASSUME NEW STATE n, NEW STATE role, NEW STATE may, NetOK(n, role, may)
  PROVE NetOK(Unlocked(n), role, may)
<1>1. PICK V : None \in V /\ n \in Nets(CallsFor(V, role, may))
  BY DEF NetOK
<1> DEFINE S == CallsFor(V, role, may)
<1> HIDE DEF S
<1>2. n \in Nets(S)
  BY <1>1 DEF S
<1>3. Unlocked(n) \in Nets(S)
  BY <1>2 DEF Unlocked, Nets
<1> QED BY <1>1, <1>3 DEF NetOK, S

LEMMA SaveEmailCore ==
  ASSUME CoreInv, EmailsInv, SaveEmail
  PROVE CoreNext
<1>1. "emailSettings" \in AnyMay /\ MayDo(session.role, "emailSettings") /\ "emailSettings" \in Ops
  BY DEF SaveEmail, Ready, EmailsInv, MayBegin, AnyMay, Ops, EmailOps, EmailCommands
<1>2. Asked(Call("emailSettings", form, ""))
  BY DEF Asked, Call, EmailsInv
<1> QED BY <1>1, <1>2, BeginPanelCore DEF SaveEmail, otherVars

LEMMA ConnectEmailCore ==
  ASSUME CoreInv, ConnectEmail
  PROVE CoreNext
<1>1. "emailConnect" \in AnyMay /\ MayDo(session.role, "emailConnect") /\ "emailConnect" \in Ops
  BY DEF ConnectEmail, MayBegin, AnyMay, Ops, EmailOps, EmailCommands
<1>2. Asked(Call("emailConnect", None, ""))
  BY DEF Asked, Call
<1> QED BY <1>1, <1>2, BeginPanelCore DEF ConnectEmail, otherVars

LEMMA EmailCommandCore ==
  ASSUME CoreInv, EmailCommand
  PROVE CoreNext
<1>1. "emailCommand" \in AnyMay /\ MayDo(session.role, "emailCommand") /\ "emailCommand" \in Ops
  BY DEF EmailCommand, MayBegin, AnyMay, Ops, EmailOps, EmailCommands
<1>2. PICK command : net' = Begin(net, "emailCommand", command, "")
  BY DEF EmailCommand
<1>3. Asked(Call("emailCommand", command, ""))
  BY DEF Asked, Call
<1> QED BY <1>1, <1>2, <1>3, BeginPanelCore DEF EmailCommand, otherVars

LEMMA EmailCommandedCore ==
  ASSUME CoreInv, NEW i, EmailCommanded(i)
  PROVE CoreNext
<1> DEFINE n == Released(i)
<1>1. NetOK(n, session.role, May(session.role))
  BY AnsweredIs DEF EmailCommanded, Answered
<1> HIDE DEF n
<1>2. NetOK(Load(n, session.role, "emails"), session.role, May(session.role))
  BY <1>1, LoadOK, MayCovers DEF Loads
<1> QED BY <1>2, CoreSame DEF EmailCommanded, otherVars, n

LEMMA EmailFailsCore ==
  ASSUME CoreInv, SideInv, NEW i, NEW op \in EmailOps, EmailFails(i, op)
  PROVE CoreNext
<1>1. PICK n \in Remains(i) : Ends(n, session.role, activePanel, net.calls[i])
  BY DEF EmailFails
<1>2. NetOK(n, session.role, May(session.role))
  BY RemainsParts DEF EmailFails, Failing, Is
<1> QED BY <1>1, <1>2, EndedCore DEF EmailFails, Failing, EmailOps, EmailCommands, otherVars

LEMMA SettingsSavedIs ==
  ASSUME EmailsInv, mail.settings.rev < MaxChanges, NEW value \in Preferences,
         mail' = [mail EXCEPT !.settings = [rev |-> mail.settings.rev + 1, value |-> value]]
  PROVE /\ mail' \in [settings : Saved, rest : Rest] /\ mail'.settings \in Saved
        /\ mail'.settings = [rev |-> mail.settings.rev + 1, value |-> value] /\ mail'.rest = mail.rest
<1>1. mail \in [settings : Saved, rest : Rest]
  BY DEF EmailsInv
<1>2. [rev |-> mail.settings.rev + 1, value |-> value] \in Saved
  BY <1>1, PortalAssumption DEF Saved
<1> HIDE DEF Saved, Rest
<1> QED BY <1>1, <1>2

LEMMA ServeEmailsCore ==
  ASSUME CoreInv, SideInv, EmailsInv, NEW i, ServeEmails(i)
  PROVE CoreNext
<1>0. /\ i \in DOMAIN net.calls /\ Is(i, net.calls[i].op) /\ Asked(net.calls[i])
      /\ session' = session /\ activePanel' = activePanel /\ poll' = poll
  <2>1. i \in DOMAIN net.calls /\ Is(i, net.calls[i].op)
    BY DEF ServeEmails, Arrives, Is
  <2> QED BY <2>1, AnsweredIs DEF ServeEmails, otherVars
<1>1. CASE Refuses(i)
  BY <1>0, <1>1, RefusedCore
<1>2. CASE Arrives(i, "emails") /\ Replies(i, [settings |-> mail.settings, rest |-> mail.rest, canConnect |-> granted.connects])
  <2> DEFINE answer == [settings |-> mail.settings, rest |-> mail.rest, canConnect |-> granted.connects]
  <2>0. granted.connects \in BOOLEAN
    <3>1. CASE granted \in Grants
      BY <3>1 DEF Grants
    <3>2. CASE granted = Out
      BY <3>2 DEF Out
    <3> QED BY <3>1, <3>2 DEF SideInv
  <2>1. answer \in MailAnswers
    BY <2>0 DEF MailAnswers, EmailsInv
  <2> HIDE DEF answer
  <2>2. \A d : (/\ d.op = net.calls[i].op /\ d.arg = net.calls[i].arg /\ d.answer = answer) => Told(d)
    BY <1>2, <2>1 DEF Told, AsksSession, Arrives, Is
  <2>3. Replies(i, answer)
    BY <1>2 DEF answer
  <2> QED BY <1>0, <2>2, <2>3, ServedCore
<1>3. CASE /\ Arrives(i, "emailSettings") /\ mail.settings.rev < MaxChanges
           /\ mail' = [mail EXCEPT !.settings = [rev |-> @.rev + 1, value |-> net.calls[i].arg]]
           /\ Replies(i, mail'.settings)
  <2>1. net.calls[i].arg \in Preferences
    BY <1>0, <1>3 DEF Asked, Arrives, Is
  <2>2. mail'.settings \in Saved
    BY <1>3, <2>1, SettingsSavedIs
  <2>3. PICK x \in Saved : x = mail'.settings
    BY <2>2
  <2>4. \A d : (/\ d.op = net.calls[i].op /\ d.arg = net.calls[i].arg /\ d.status = "ok" /\ d.answer = x) => Told(d)
    BY <1>3 DEF Told, AsksSession, Arrives, Is
  <2>5. Handled(i, "ok", x)
    BY <1>3, <2>3 DEF Replies
  <2>6. NetOK(net', session.role, May(session.role))
    BY <1>0, <2>4, <2>5, HandledOK DEF CoreInv, Outcomes
  <2> QED BY <1>0, <2>6, CoreSame
<1>4. CASE (Arrives(i, "emailConnect") \/ Arrives(i, "emailCommand")) /\ Replies(i, None)
  <2>1. \A d : (/\ d.op = net.calls[i].op /\ d.arg = net.calls[i].arg /\ d.answer = None) => Told(d)
    BY <1>4 DEF Told, AsksSession, Arrives, Is
  <2> QED BY <1>0, <1>4, <2>1, ServedCore
<1> QED BY <1>1, <1>2, <1>3, <1>4 DEF ServeEmails

LEMMA EmailsCore ==
  ASSUME CoreInv, SideInv, EmailsInv, EmailsNext
  PROVE CoreNext
<1>1. CASE EditEmail \/ DiscardEmail \/ AskEmail \/ MailChanges
  BY <1>1, CoreSame DEF EditEmail, DiscardEmail, AskEmail, MailChanges, shellVars, CoreInv
<1>2. CASE SaveEmail \/ ConnectEmail \/ EmailCommand
  BY <1>2, SaveEmailCore, ConnectEmailCore, EmailCommandCore
<1>3. ASSUME NEW i, EmailSaved(i)
      PROVE CoreNext
  BY <1>3, ReleasedCore DEF EmailSaved, Answered, otherVars
<1>4. ASSUME NEW i, EmailConsentOpened(i)
      PROVE CoreNext
  BY <1>4, AnsweredIs, CoreSame DEF EmailConsentOpened, Answered, otherVars
<1>5. ASSUME NEW i, EmailsAnswered(i)
      PROVE CoreNext
  BY <1>5, EndedCore, AnsweredIs DEF EmailsAnswered, Answered, otherVars
<1>6. ASSUME NEW i, NEW op \in EmailOps, EmailFails(i, op)
      PROVE CoreNext
  BY <1>6, EmailFailsCore
<1>7. ASSUME NEW i, EmailCommanded(i) \/ ServeEmails(i)
      PROVE CoreNext
  BY <1>7, EmailCommandedCore, ServeEmailsCore
<1> QED BY <1>1, <1>2, <1>3, <1>4, <1>5, <1>6, <1>7 DEF EmailsNext

-----------------------------------------------------------------------------
LEMMA SaveSettingsCore ==
  ASSUME CoreInv, SaveSettings
  PROVE CoreNext
<1>1. "saveSettings" \in AnyMay /\ MayDo(session.role, "saveSettings") /\ "saveSettings" \in Ops
  BY DEF SaveSettings, MayBegin, AnyMay, Ops
<1>2. PICK arg : net' = Begin(net, "saveSettings", arg, "")
  BY DEF SaveSettings
<1>3. Asked(Call("saveSettings", arg, ""))
  BY DEF Asked, Call
<1> QED BY <1>1, <1>2, <1>3, BeginPanelCore DEF SaveSettings, beside

LEMMA ReloadSettingsCore ==
  ASSUME CoreInv, ReloadSettings
  PROVE CoreNext
<1>1. "settings" \in AnyMay /\ MayDo(session.role, "settings") /\ "settings" \in Ops
  BY DEF ReloadSettings, MayBegin, AnyMay, Ops
<1>2. Asked(Call("settings", None, ""))
  BY DEF Asked, Call
<1> QED BY <1>1, <1>2, BeginPanelCore DEF ReloadSettings, beside

LEMMA SettingsFailCore ==
  ASSUME CoreInv, SideInv, NEW i, NEW op \in {"settings", "saveSettings"}, SettingsFail(i, op)
  PROVE CoreNext
<1>1. PICK n \in Remains(i) : Ends(n, session.role, activePanel, net.calls[i])
  BY DEF SettingsFail
<1>2. NetOK(n, session.role, May(session.role))
  BY RemainsParts DEF SettingsFail, Failing, Is
<1> QED BY <1>1, <1>2, EndedCore DEF SettingsFail, Failing, beside

LEMMA SettingsAnsweredCore ==
  ASSUME CoreInv, SideInv, NEW i, SettingsAnswered(i)
  PROVE CoreNext
<1> DEFINE n == Released(i)
<1>1. NetOK(n, session.role, May(session.role))
  BY AnsweredIs DEF SettingsAnswered, Answered
<1> HIDE DEF n
<1>2. NetOK(Unlocked(n), session.role, May(session.role))
  BY <1>1, UnlockedOK
<1>3. Ends(Unlocked(n), session.role, activePanel, net.calls[i]) /\ session' = session
  BY DEF SettingsAnswered, n, beside
<1>4. Is(i, "settings") /\ net.calls[i].standing = "live"
  BY DEF SettingsAnswered, Answered
<1> QED BY <1>2, <1>3, <1>4, EndedCore

LEMMA ServeSettingsCore ==
  ASSUME CoreInv, NEW i, ServeSettings(i)
  PROVE CoreNext
<1>0. i \in DOMAIN net.calls /\ net.calls[i].op \in {"settings", "saveSettings"} /\ session' = session /\ activePanel' = activePanel /\ poll' = poll
  BY DEF ServeSettings, Arrives, Is, beside
<1>1. \A d : d.op = net.calls[i].op => Told(d)
  BY <1>0 DEF Told, AsksSession
<1>2. CASE Refuses(i)
  BY <1>0, <1>2, RefusedCore
<1>3. CASE Replies(i, saved)
  BY <1>0, <1>1, <1>3, ServedCore
<1>4. CASE Replies(i, saved')
  <2>1. PICK x : x = saved'
    OBVIOUS
  <2>2. Handled(i, "ok", x)
    BY <1>4, <2>1 DEF Replies
  <2>3. NetOK(net', session.role, May(session.role))
    BY <1>0, <1>1, <2>2, HandledOK DEF CoreInv, Outcomes
  <2> QED BY <1>0, <2>3, CoreSame
<1> QED BY <1>2, <1>3, <1>4 DEF ServeSettings

LEMMA SettingsCore ==
  ASSUME CoreInv, SideInv, SettingsNext
  PROVE CoreNext
<1>1. CASE EditSettings \/ SettingsChange
  BY <1>1, CoreSame DEF EditSettings, SettingsChange, shellVars, CoreInv
<1>2. CASE DiscardSettings
  <2>1. NetOK(net', session.role, May(session.role))
    BY <1>2, UnlockedOK DEF DiscardSettings, CoreInv
  <2> QED BY <1>2, <2>1, CoreSame DEF DiscardSettings, beside
<1>3. CASE ReloadSettings \/ SaveSettings
  BY <1>3, ReloadSettingsCore, SaveSettingsCore
<1>4. ASSUME NEW i, SettingsSaved(i)
      PROVE CoreNext
  BY <1>4, ReleasedCore DEF SettingsSaved, Answered, beside
<1>5. ASSUME NEW i, NEW op \in {"settings", "saveSettings"}, SettingsFail(i, op)
      PROVE CoreNext
  BY <1>5, SettingsFailCore
<1>6. ASSUME NEW i, SettingsAnswered(i) \/ ServeSettings(i)
      PROVE CoreNext
  BY <1>6, SettingsAnsweredCore, ServeSettingsCore
<1> QED BY <1>1, <1>2, <1>3, <1>4, <1>5, <1>6 DEF SettingsNext

-----------------------------------------------------------------------------
(* The rest of the shell                                                   *)

\* The rest of the shell stays typed.
LEMMA FaultsCounted ==
  ASSUME SideInv, NEW i, NEW op, Failing(i, op)
  PROVE faults' \in 0..MaxFaults
BY PortalAssumption DEF SideInv, Failing

LEMMA SideSame ==
  ASSUME SideInv, session' = session, UNCHANGED <<part, granted, google, view, entry, hidden, orphaned>>,
         leaving' \in BOOLEAN, faults' \in 0..MaxFaults
  PROVE SideInv'
BY DEF SideInv

LEMMA SpentIs ==
  ASSUME NEW STATE e, e \in [token : {"none", "setup", "invite"}, landing : Panels, again : BOOLEAN]
  PROVE Spent(e) \in [token : {"none", "setup", "invite"}, landing : Panels, again : BOOLEAN]
BY DEF Spent

LEMMA EntriesAre ==
  ASSUME SideInv
  PROVE Entries \subseteq [token : {"none", "setup", "invite"}, landing : Panels, again : BOOLEAN]
<1>1. part.tokens \subseteq {"none", "setup", "invite"} /\ part.panels \subseteq Panels
  BY PortalAssumption DEF SideInv
<1> QED BY <1>1 DEF Entries, Panels

LEMMA PartGrants ==
  ASSUME SideInv
  PROVE part.grants \subseteq Grants
BY PortalAssumption DEF SideInv

\* The session is signed out, or another one is shown.
LEMMA SignsOutSide ==
  ASSUME SideInv, NEW STATE s, NEW STATE calls, SignsOut(s, calls), UNCHANGED <<part, granted, google, entry, hidden, leaving>>, faults' \in 0..MaxFaults
  PROVE SideInv'
BY DEF SideInv, SignsOut

LEMMA ShowsSide ==
  ASSUME SideInv, NEW STATE s, s.role # "out", NEW STATE n, NEW STATE call, Shows(s, n, call), UNCHANGED <<part, granted, google, entry, hidden, leaving, orphaned, faults>>,
         view' \in {"loading", "entry", "portal"}
  PROVE SideInv'
<1>1. session' = s
  BY DEF Shows
<1> QED BY <1>1 DEF SideInv

LEMMA SessionAnswersSide ==
  ASSUME SideInv, NEW i, StartAnswered(i) \/ SessionAnswered(i) \/ LogoutAnswered(i) \/ Denied(i) \/ (\E op \in {"configure", "disconnect"}, loaded \in BOOLEAN : GoogleChecked(i, op, loaded))
  PROVE SideInv'
<1>0. faults \in 0..MaxFaults /\ view \in {"loading", "entry", "portal"}
  BY DEF SideInv
<1>1. CASE StartAnswered(i)
  <2> DEFINE s == net.calls[i].answer
  <2>1. faults' \in 0..MaxFaults /\ UNCHANGED <<part, granted, google, entry, hidden, leaving, faults>>
    BY <1>0, <1>1 DEF StartAnswered, server
  <2>2. CASE SignsOut(s, Without(i).calls)
    BY <2>1, <2>2, SignsOutSide
  <2>3. CASE s.role \in Authenticated /\ view' \in {"loading", "entry", "portal"} /\ UNCHANGED orphaned /\ \E n, call : Shows(s, n, call)
    <3>1. session' = s /\ s.role # "out"
      BY <2>3 DEF Shows, Authenticated, Members
    <3> QED BY <2>1, <2>3, <3>1 DEF SideInv
  <2> QED BY <1>1, <2>2, <2>3 DEF StartAnswered, Authenticated
<1>2. CASE SessionAnswered(i)
  <2>1. faults' \in 0..MaxFaults /\ UNCHANGED <<part, granted, google, entry, hidden, leaving, faults>>
    BY <1>0, <1>2 DEF SessionAnswered, server
  <2>2. CASE SignsOut(session, Released(i).calls)
    BY <2>1, <2>2, SignsOutSide
  <2>3. CASE Signed(net.calls[i].answer) /\ Shows(net.calls[i].answer, Released(i), net.calls[i]) /\ UNCHANGED <<view, orphaned>>
    <3>1. net.calls[i].answer.role # "out"
      BY <2>3 DEF Signed, Authenticated, Members
    <3> QED BY <1>0, <2>1, <2>3, <3>1, ShowsSide
  <2> QED BY <1>2, <2>2, <2>3 DEF SessionAnswered
<1>3. CASE LogoutAnswered(i)
  BY <1>0, <1>3, SignsOutSide DEF LogoutAnswered, server
<1>4. CASE Denied(i)
  BY <1>0, <1>4, SignsOutSide DEF Denied, server
<1>5. ASSUME NEW op \in {"configure", "disconnect"}, NEW loaded \in BOOLEAN, GoogleChecked(i, op, loaded)
      PROVE SideInv'
  <2> DEFINE s == net.calls[i].answer
  <2>1. faults' \in 0..MaxFaults /\ UNCHANGED <<part, granted, google, entry, hidden, leaving, faults>>
    BY <1>0, <1>5 DEF GoogleChecked, server
  <2>2. CASE SignsOut(session, Released(i).calls)
    BY <2>1, <2>2, SignsOutSide
  <2>3. CASE Signed(s) /\ UNCHANGED <<view, orphaned>> /\ \E n : Shows(s, n, net.calls[i])
    <3>1. session' = s /\ s.role # "out"
      BY <2>3 DEF Shows, Signed, Authenticated, Members
    <3> QED BY <2>1, <2>3, <3>1 DEF SideInv
  <2> QED BY <1>5, <2>2, <2>3 DEF GoogleChecked
<1> QED BY <1>1, <1>2, <1>3, <1>4, <1>5

LEMMA SessionServedSide ==
  ASSUME SideInv, Regranted \/ ConnectionChanges \/ \E i : ServeBootstrap(i) \/ ServeGoogle(i)
  PROVE SideInv'
<1>1. granted' \in Grants \cup {Out}
  <2>1. CASE Regranted
    BY <2>1, PartGrants DEF Regranted
  <2>2. CASE UNCHANGED granted
    BY <2>2 DEF SideInv
  <2>3. CASE granted' = Setup
    <3>1. Setup \in Grants
      BY DEF Setup, Grants, Authenticated
    <3> QED BY <2>3, <3>1
  <2>4. CASE granted' = Out
    BY <2>4
  <2> QED BY <2>1, <2>2, <2>3, <2>4 DEF ConnectionChanges, ServeBootstrap, ServeGoogle, server
<1>2. google' \in [version : 0..MaxChanges, needs : BOOLEAN]
  <2>0. google \in [version : 0..MaxChanges, needs : BOOLEAN]
    BY DEF SideInv
  <2>1. CASE Regranted \/ \E i : ServeBootstrap(i)
    BY <2>0, <2>1 DEF Regranted, ServeBootstrap
  <2>2. CASE ConnectionChanges
    BY <2>0, <2>2, PortalAssumption DEF ConnectionChanges
  <2>3. ASSUME NEW i, ServeGoogle(i)
        PROVE google' \in [version : 0..MaxChanges, needs : BOOLEAN]
    <3> DEFINE call == net.calls[i]
    <3>1. CASE google' = google
      BY <2>0, <3>1
    <3>2. CASE google.version < MaxChanges /\ google' = [version |-> google.version + 1, needs |-> FALSE]
      BY <2>0, <3>2, PortalAssumption
    <3>3. CASE google.version < MaxChanges /\ google' = [google EXCEPT !.version = @ + 1]
      BY <2>0, <3>3, PortalAssumption
    <3> QED BY <2>3, <3>1, <3>2, <3>3 DEF ServeGoogle, server, Allowed, GoogleOps
  <2> QED BY <2>1, <2>2, <2>3
<1>3. UNCHANGED <<part, session, view, entry, hidden, leaving, orphaned, faults>>
  BY DEF Regranted, ConnectionChanges, ServeBootstrap, ServeGoogle
<1> QED BY <1>1, <1>2, <1>3 DEF SideInv

LEMMA SessionQuietSide ==
  ASSUME SideInv, \/ OpenGoogle \/ Configure \/ Disconnect \/ Logout \/ Switch \/ Refresh \/ Focus \/ Hide \/ Show \/ PollFires
                  \/ \E i : Dropped(i) \/ GoogleOpened(i) \/ ServeDenied(i) \/ ServeForbidden(i) \/ ServeSession(i)
                  \/ \E i, op : GoogleGoesOn(i, op) \/ ActionFails(i, op) \/ SessionFails(i)
  PROVE SideInv'
<1>0. faults \in 0..MaxFaults /\ leaving \in BOOLEAN
  BY DEF SideInv
<1>1. CASE OpenGoogle \/ Configure \/ Disconnect \/ Logout \/ Switch \/ Refresh
  BY <1>0, <1>1, SideSame DEF OpenGoogle, Configure, Disconnect, Logout, Switch, Refresh, server
<1>2. CASE Focus \/ PollFires
  BY <1>0, <1>2, SideSame DEF Focus, PollFires, server
<1>3. CASE Hide \/ Show
  <2>1. hidden' \in BOOLEAN /\ UNCHANGED <<part, granted, google, session, view, entry, leaving, orphaned, faults>>
    BY <1>3 DEF Hide, Show, server
  <2> QED BY <2>1 DEF SideInv
<1>4. CASE \E i : Dropped(i) \/ ServeDenied(i) \/ ServeForbidden(i) \/ ServeSession(i)
  BY <1>0, <1>4, SideSame DEF Dropped, ServeDenied, ServeForbidden, ServeSession, server
<1>5. CASE \E i : GoogleOpened(i)
  BY <1>5 DEF GoogleOpened, SideInv, server
<1>6. CASE \E i, op : GoogleGoesOn(i, op)
  BY <1>0, <1>6, SideSame DEF GoogleGoesOn, server
<1>7. CASE \E i, op : ActionFails(i, op) \/ SessionFails(i)
  <2>1. faults' \in 0..MaxFaults
    BY <1>7, FaultsCounted DEF ActionFails, SessionFails
  <2> QED BY <1>0, <1>7, <2>1, SideSame DEF ActionFails, SessionFails, server
<1> QED BY <1>1, <1>2, <1>3, <1>4, <1>5, <1>6, <1>7

LEMMA StartsSide ==
  ASSUME CoreInv, SideInv, CoreNext, TryAgain \/ LeaveAndReturn \/ \E i : StartFails(i)
  PROVE SideInv'
<1>1. CASE TryAgain
  <2>1. net'.busy \subseteq Flags
    BY DEF CoreNext, NetOK, Nets
  <2>2. entry' \in [token : {"none", "setup", "invite"}, landing : Panels, again : BOOLEAN]
    BY <1>1, SpentIs DEF TryAgain, SideInv, Signed
  <2> QED BY <1>1, <2>1, <2>2 DEF TryAgain, SideInv, server
<1>2. CASE LeaveAndReturn
  <2>1. entry' \in [token : {"none", "setup", "invite"}, landing : Panels, again : BOOLEAN]
    BY <1>2, SpentIs, EntriesAre DEF LeaveAndReturn
  <2> QED BY <1>2, <2>1 DEF LeaveAndReturn, SideInv, server
<1>3. ASSUME NEW i, StartFails(i)
      PROVE SideInv'
  <2>1. faults' \in 0..MaxFaults
    BY <1>3, FaultsCounted DEF StartFails
  <2>2. PICK n \in Remains(i) : SignsOut(session, n.calls)
    BY <1>3 DEF StartFails
  <2> QED BY <1>3, <2>1, <2>2, SignsOutSide DEF StartFails, server
<1> QED BY <1>1, <1>2, <1>3

\* The steps of the session, and those of each panel, which leave session and view alone.
LEMMA SessionSide ==
  ASSUME CoreInv, SideInv, CoreNext, SessionNext
  PROVE SideInv'
<1>1. CASE TryAgain \/ LeaveAndReturn \/ \E i : StartFails(i)
  BY <1>1, StartsSide
<1>2. CASE \/ OpenGoogle \/ Configure \/ Disconnect \/ Logout \/ Switch \/ Refresh \/ Focus \/ Hide \/ Show \/ PollFires
           \/ \E i : Dropped(i) \/ GoogleOpened(i) \/ ServeDenied(i) \/ ServeForbidden(i) \/ ServeSession(i)
           \/ \E i, op : GoogleGoesOn(i, op) \/ ActionFails(i, op) \/ SessionFails(i)
  BY <1>2, SessionQuietSide
<1>3. CASE Regranted \/ ConnectionChanges \/ \E i : ServeBootstrap(i) \/ ServeGoogle(i)
  BY <1>3, SessionServedSide
<1>4. CASE \E i : StartAnswered(i) \/ SessionAnswered(i) \/ LogoutAnswered(i) \/ Denied(i)
  BY <1>4, SessionAnswersSide
<1> QED BY <1>1, <1>2, <1>3, <1>4 DEF SessionNext

-----------------------------------------------------------------------------
LEMMA BookingsSide ==
  ASSUME SideInv, BookingsNext
  PROVE SideInv' /\ session' = session /\ view' = view
<1>0. faults \in 0..MaxFaults /\ leaving \in BOOLEAN
  BY DEF SideInv
<1>1. UNCHANGED <<part, granted, google, session, view, entry, hidden, leaving, orphaned>>
  BY DEF BookingsNext, OpenBooking, CloseBooking, EditBooking, Mutate, BookingChanges, MutateAnswered, MutateFails, BookingsAnswered, BookingsFails,
         ServeBookings, ServeMutate, shellVars, notShell
<1>2. faults' \in 0..MaxFaults
  <2>1. CASE \E i : MutateFails(i) \/ BookingsFails(i)
    BY <2>1, FaultsCounted DEF MutateFails, BookingsFails
  <2>2. CASE UNCHANGED faults
    BY <1>0, <2>2
  <2> QED BY <2>1, <2>2 DEF BookingsNext, OpenBooking, CloseBooking, EditBooking, Mutate, BookingChanges, MutateAnswered, BookingsAnswered,
         ServeBookings, ServeMutate, shellVars
<1> QED BY <1>0, <1>1, <1>2, SideSame

LEMMA AccessSide ==
  ASSUME SideInv, AccessNext
  PROVE SideInv' /\ session' = session /\ view' = view
<1>0. faults \in 0..MaxFaults /\ leaving \in BOOLEAN
  BY DEF SideInv
<1>1. UNCHANGED <<part, granted, google, session, view, entry, hidden, leaving, orphaned>>
  BY DEF AccessNext, CreateInvitation, AskRevoke, HideLink, RevokeInvitation, AskRemove, RemoveMember, DirectoryChanges, InvitationCreated,
         InvitationRevoked, InvitationsAnswered, MemberRemoved, MembersAnswered, AccessFails, ServeInvitations, ServeMembers, shellVars, quiet, others
<1>2. faults' \in 0..MaxFaults
  <2>1. CASE \E i, op : AccessFails(i, op)
    BY <2>1, FaultsCounted DEF AccessFails
  <2>2. CASE UNCHANGED faults
    BY <1>0, <2>2
  <2> QED BY <2>1, <2>2 DEF AccessNext, CreateInvitation, AskRevoke, HideLink, RevokeInvitation, AskRemove, RemoveMember, DirectoryChanges, InvitationCreated,
         InvitationRevoked, InvitationsAnswered, MemberRemoved, MembersAnswered, ServeInvitations, ServeMembers, shellVars, quiet
<1> QED BY <1>0, <1>1, <1>2, SideSame

LEMMA EmailsSide ==
  ASSUME SideInv, EmailsNext
  PROVE SideInv' /\ session' = session /\ view' = view
<1>0. faults \in 0..MaxFaults /\ leaving \in BOOLEAN
  BY DEF SideInv
<1>1. UNCHANGED <<part, granted, google, session, view, entry, hidden, orphaned>>
  BY DEF EmailsNext, EditEmail, DiscardEmail, SaveEmail, ConnectEmail, AskEmail, EmailCommand, MailChanges, EmailSaved, EmailConsentOpened,
         EmailCommanded, EmailsAnswered, EmailFails, ServeEmails, shellVars, otherVars
<1>2. leaving' \in BOOLEAN
  BY <1>0 DEF EmailsNext, EditEmail, DiscardEmail, SaveEmail, ConnectEmail, AskEmail, EmailCommand, MailChanges, EmailSaved, EmailConsentOpened,
         EmailCommanded, EmailsAnswered, EmailFails, ServeEmails, shellVars
<1>3. faults' \in 0..MaxFaults
  <2>1. CASE \E i, op : EmailFails(i, op)
    BY <2>1, FaultsCounted DEF EmailFails
  <2>2. CASE UNCHANGED faults
    BY <1>0, <2>2
  <2> QED BY <2>1, <2>2 DEF EmailsNext, EditEmail, DiscardEmail, SaveEmail, ConnectEmail, AskEmail, EmailCommand, MailChanges, EmailSaved,
         EmailConsentOpened, EmailCommanded, EmailsAnswered, ServeEmails, shellVars
<1> QED BY <1>1, <1>2, <1>3, SideSame

LEMMA SettingsSide ==
  ASSUME SideInv, SettingsNext
  PROVE SideInv' /\ session' = session /\ view' = view
<1>0. faults \in 0..MaxFaults /\ leaving \in BOOLEAN
  BY DEF SideInv
<1>1. UNCHANGED <<part, granted, google, session, view, entry, hidden, leaving, orphaned>>
  BY DEF SettingsNext, EditSettings, DiscardSettings, ReloadSettings, SaveSettings, SettingsChange, SettingsAnswered, SettingsSaved, ServeSettings,
         SettingsFail, shellVars, beside
<1>2. faults' \in 0..MaxFaults
  <2>1. CASE \E i, op : SettingsFail(i, op)
    BY <2>1, FaultsCounted DEF SettingsFail
  <2>2. CASE UNCHANGED faults
    BY <1>0, <2>2
  <2> QED BY <2>1, <2>2 DEF SettingsNext, EditSettings, DiscardSettings, ReloadSettings, SaveSettings, SettingsChange, SettingsAnswered, SettingsSaved,
         ServeSettings, shellVars
<1> QED BY <1>0, <1>1, <1>2, SideSame

-----------------------------------------------------------------------------
(* The panels' own state                                                   *)

\* Each panel keeps its invariant, in the steps of the shell and in its own.
LEMMA NoFieldsIs ==
  NoFields \in [notes : Notes, status : Statuses]
<1>1. (CHOOSE n \in Notes : TRUE) \in Notes
  BY BookingsAssumption
<1> QED BY <1>1, BookingsAssumption DEF NoFields

LEMMA BookingsFollowInv ==
  ASSUME BookingsInv, BookingsFollow, session' \in Sessions
  PROVE BookingsInv'
<1>1. CASE session'.role \in Authenticated
  BY <1>1 DEF BookingsInv, BookingsFollow, Authenticated, Members
<1>2. CASE session'.role \notin Authenticated
  BY <1>2, NoFieldsIs DEF BookingsInv, BookingsFollow, OrNone
<1> QED BY <1>1, <1>2

LEMMA DetailIs ==
  ASSUME fields \in [notes : Notes, status : Statuses], NEW STATE b, b \in Booking, NEW STATE p
  PROVE Detail(b, p) \in [notes : Notes, status : Statuses]
BY DEF Detail, Booking

\* What a panel's handler knows of the call that it ends: the session had the right to make it and still has it.
LEMMA AnsweredFacts ==
  ASSUME CoreInv, NEW i, NEW op, Answered(i, op)
  PROVE /\ i \in DOMAIN net.calls /\ net.calls[i].op = op /\ op \in AnyMay /\ MayDo(session.role, op)
        /\ Asked(net.calls[i]) /\ Told(net.calls[i]) /\ net.calls[i].status = "ok"
        /\ op \in Ops \ {"start", "google"} => session.role # "out"
BY AnsweredIs, NotOut DEF Answered, Is

LEMMA BookingsNextInv ==
  ASSUME CoreInv, BookingsInv, BookingsNext
  PROVE BookingsInv'
<1>0. session' = session
  BY DEF BookingsNext, OpenBooking, CloseBooking, EditBooking, Mutate, BookingChanges, MutateAnswered, MutateFails, BookingsAnswered, BookingsFails,
         ServeBookings, ServeMutate, shellVars, notShell
<1>1. CASE OpenBooking
  <2>1. PICK b \in Listed : selected' = b /\ fields' = Detail(shown[b], None)
    BY <1>1 DEF OpenBooking
  <2>2. shown \in BookingLists /\ shown # None /\ b \in Bookings /\ UNCHANGED <<stored, shown>>
    BY <1>1, <2>1 DEF Listed, BookingsInv, OpenBooking
  <2>3. shown[b] \in Booking
    BY <2>2 DEF BookingLists
  <2>4. fields' \in [notes : Notes, status : Statuses]
    BY <2>1, <2>3, DetailIs DEF BookingsInv
  <2> QED BY <1>0, <2>1, <2>2, <2>4 DEF BookingsInv, OrNone
<1>2. CASE CloseBooking
  BY <1>0, <1>2 DEF CloseBooking, BookingsInv, OrNone
<1>3. CASE EditBooking
  BY <1>0, <1>3 DEF EditBooking, BookingsInv
<1>4. CASE BookingChanges
  <2>1. PICK b \in Bookings, notes \in Notes \cup {None}, status \in Statuses \cup {None} :
          MayPatch(stored[b], status) /\ stored' = [stored EXCEPT ![b] = Changed(stored[b], notes, status)]
    BY <1>4 DEF BookingChanges, BookingsInv, BookingLists
  <2>2. stored[b] \in Booking
    BY DEF BookingsInv, BookingLists
  <2>3. Changed(stored[b], notes, status) \in Booking
    BY <2>1, <2>2, ChangedIs DEF MayPatch, OrNone
  <2>4. stored' \in BookingLists
    BY <2>1, <2>3 DEF BookingsInv, BookingLists
  <2> QED BY <1>0, <1>4, <2>4 DEF BookingChanges, BookingsInv
<1>5. CASE UNCHANGED bookingVars
  BY <1>0, <1>5 DEF bookingVars, BookingsInv
<1>6. ASSUME NEW i, MutateAnswered(i)
      PROVE BookingsInv'
  <2> DEFINE id == net.calls[i].arg.id
             updated == net.calls[i].answer
  <2>1. shown \in BookingLists /\ net.calls[i].arg \in Patches /\ updated \in Booking /\ session.role # "out"
    BY <1>6, AnsweredFacts DEF MutateAnswered, AnyMay, Asked, Told, Ops
  <2>2. id \in Bookings
    BY <2>1 DEF Patches
  <2>3. /\ shown' = [shown EXCEPT ![id] = updated]
        /\ fields' = IF selected = id THEN Detail(updated, None) ELSE fields
        /\ UNCHANGED <<stored, selected>>
    BY <1>6 DEF MutateAnswered
  <2> HIDE DEF id, updated
  <2>4. shown' \in BookingLists
    BY <2>1, <2>2, <2>3 DEF BookingLists
  <2>5. fields' \in [notes : Notes, status : Statuses]
    BY <2>1, <2>3, DetailIs DEF BookingsInv
  <2> QED BY <1>0, <2>1, <2>3, <2>4, <2>5 DEF BookingsInv
<1>7. ASSUME NEW i, BookingsAnswered(i)
      PROVE BookingsInv'
  <2>1. net.calls[i].answer \in BookingLists /\ session.role # "out"
    BY <1>7, AnsweredFacts DEF BookingsAnswered, Told, Ops, Loads
  <2>2. CASE UNCHANGED <<shown, fields>>
    BY <1>0, <1>7, <2>2 DEF BookingsAnswered, BookingsInv
  <2>3. CASE /\ shown' = net.calls[i].answer
             /\ fields' = IF selected = None THEN fields ELSE Detail(shown'[selected], shown[selected])
    <3>1. shown' \in BookingLists
      BY <2>1, <2>3
    <3>2. fields' \in [notes : Notes, status : Statuses]
      <4>1. CASE selected = None
        BY <2>3, <4>1 DEF BookingsInv
      <4>2. CASE selected # None
        <5>1. PICK b : b = shown'[selected]
          OBVIOUS
        <5>2. b \in Booking
          BY <3>1, <4>2, <5>1 DEF BookingsInv, BookingLists, OrNone
        <5>3. fields' = Detail(b, shown[selected])
          BY <2>3, <4>2, <5>1
        <5> QED BY <5>2, <5>3, DetailIs DEF BookingsInv
      <4> QED BY <4>1, <4>2
    <3> QED BY <1>0, <1>7, <2>1, <3>1, <3>2 DEF BookingsAnswered, BookingsInv
  <2> QED BY <1>7, <2>2, <2>3 DEF BookingsAnswered
<1>8. ASSUME NEW i, ServeMutate(i)
      PROVE BookingsInv'
  <2> DEFINE patch == net.calls[i].arg
             new == Changed(stored[patch.id], patch.notes, patch.status)
  <2>1. patch \in Patches
    BY <1>8, AnsweredIs DEF ServeMutate, Arrives, Is, Asked
  <2>2. UNCHANGED <<shown, selected, fields>>
    BY <1>8 DEF ServeMutate
  <2>3. CASE UNCHANGED stored
    BY <1>0, <2>2, <2>3 DEF BookingsInv
  <2>4. CASE MayPatch(stored[patch.id], patch.status) /\ stored' = [stored EXCEPT ![patch.id] = new]
    <3>1. patch.id \in Bookings /\ patch.notes \in OrNone(Notes) /\ patch.status \in OrNone(Statuses)
      BY <2>1 DEF Patches
    <3>2. stored[patch.id] \in Booking
      BY <3>1 DEF BookingsInv, BookingLists
    <3>3. new \in Booking
      BY <2>4, <3>1, <3>2, ChangedIs DEF MayPatch
    <3> HIDE DEF new, patch
    <3>4. stored' \in BookingLists
      BY <2>4, <3>1, <3>3 DEF BookingsInv, BookingLists
    <3> QED BY <1>0, <2>2, <3>4 DEF BookingsInv
  <2> QED BY <1>8, <2>3, <2>4 DEF ServeMutate
<1>9. CASE Mutate \/ \E i : MutateFails(i) \/ BookingsFails(i) \/ ServeBookings(i)
  BY <1>5, <1>9 DEF Mutate, MutateFails, BookingsFails, ServeBookings
<1> QED BY <1>1, <1>2, <1>3, <1>4, <1>6, <1>7, <1>8, <1>9 DEF BookingsNext

-----------------------------------------------------------------------------
LEMMA AccessFollowInv ==
  ASSUME AccessInv, AccessFollow
  PROVE AccessInv'
<1>0. /\ issued' = issued /\ roster' = roster /\ lapsed' = lapsed
      /\ invitations' = IF session'.role = "operator" THEN invitations ELSE Nothing
      /\ members' = IF session'.role = "operator" THEN members ELSE Nothing
      /\ link' \in {link, None} /\ pendingRevoke' \in {pendingRevoke, None} /\ pendingRemove' \in {pendingRemove, None}
      /\ session'.role # "operator" => link' = None /\ pendingRevoke' = None /\ pendingRemove' = None
  BY DEF AccessFollow, directory, Keep
<1>1. DOMAIN Nothing = {}
  BY DEF Nothing
<1>2. DOMAIN invitations' \subseteq Ids /\ \A id \in DOMAIN invitations' : invitations'[id] \in Invitation
  BY <1>0, <1>1 DEF AccessInv
<1>3. DOMAIN members' \subseteq People
  BY <1>0, <1>1 DEF AccessInv
<1>4. link' \in OrNone(Ids) /\ pendingRevoke' \in OrNone(Ids) /\ pendingRemove' \in OrNone(People)
  BY <1>0 DEF AccessInv, OrNone
<1> QED BY <1>0, <1>2, <1>3, <1>4 DEF AccessInv

\* An answer of the access panel is handled for an operator only,
LEMMA OperatorAnswered ==
  ASSUME CoreInv, NEW i, NEW op \in AccessOps, Answered(i, op)
  PROVE session.role = "operator"
<1>1. MayDo(session.role, op)
  BY AnsweredFacts
<1> QED BY <1>1 DEF MayDo, AccessOps, EmailOps, EmailCommands

LEMMA InvitationsNextInv ==
  ASSUME CoreInv, AccessInv, NEW i, InvitationCreated(i) \/ InvitationRevoked(i) \/ InvitationsAnswered(i)
  PROVE AccessInv'
<1>0. UNCHANGED <<issued, roster, lapsed, members, pendingRemove>> \/ InvitationsAnswered(i)
  BY DEF InvitationCreated, InvitationRevoked, InvitationsAnswered, directory, memberVars
<1>1. CASE InvitationCreated(i)
  <2> DEFINE new == net.calls[i].answer
             old == [id \in DOMAIN invitations |->
                   IF invitations[id].status = "pending" /\ invitations[id].address = new.address
                   THEN [invitations[id] EXCEPT !.status = "revoked"] ELSE invitations[id]]
  <2>1. new \in [id : Ids, address : Addresses] /\ session.role = "operator"
    BY <1>1, AnsweredFacts, OperatorAnswered DEF InvitationCreated, Told, AccessOps
  <2>2. /\ session' = session /\ UNCHANGED <<issued, roster, lapsed, members, pendingRemove, pendingRevoke>>
        /\ invitations' = [id \in DOMAIN old \cup {new.id} |->
                             IF id = new.id THEN [address |-> new.address, status |-> "pending"] ELSE old[id]]
        /\ link' = IF activePanel = "access" THEN new.id ELSE link
    BY <1>1 DEF InvitationCreated, directory, memberVars, quiet, others
  <2> HIDE DEF new
  <2>3. ASSUME NEW id \in DOMAIN invitations PROVE old[id] \in Invitation
    <3>1. invitations[id] \in Invitation /\ [invitations[id] EXCEPT !.status = "revoked"] \in Invitation
      BY DEF AccessInv, Invitation
    <3> QED BY <3>1
  <2>4. [address |-> new.address, status |-> "pending"] \in Invitation
    BY <2>1 DEF Invitation
  <2>5. DOMAIN old = DOMAIN invitations
    OBVIOUS
  <2> HIDE DEF old
  <2>6. DOMAIN invitations' \subseteq Ids
    BY <2>1, <2>2, <2>5 DEF AccessInv
  <2>7. \A id \in DOMAIN invitations' : invitations'[id] \in Invitation
    BY <2>2, <2>3, <2>4, <2>5
  <2>8. link' \in OrNone(Ids)
    BY <2>1, <2>2 DEF AccessInv, OrNone
  <2> QED BY <2>1, <2>2, <2>6, <2>7, <2>8 DEF AccessInv
<1>2. CASE InvitationRevoked(i)
  <2> DEFINE id == net.calls[i].arg
  <2>1. session.role = "operator"
    BY <1>2, OperatorAnswered DEF InvitationRevoked, AccessOps
  <2>2. /\ session' = session /\ UNCHANGED <<issued, roster, lapsed, members, pendingRemove>>
        /\ invitations' = [k \in DOMAIN invitations |-> IF k = id THEN [invitations[k] EXCEPT !.status = "revoked"] ELSE invitations[k]]
        /\ link' \in {link, None} /\ pendingRevoke' \in {pendingRevoke, None}
    BY <1>2 DEF InvitationRevoked, directory, memberVars, quiet, others, Keep
  <2> HIDE DEF id
  <2>3. DOMAIN invitations' = DOMAIN invitations
    BY <2>2
  <2>4. ASSUME NEW k \in DOMAIN invitations PROVE invitations'[k] \in Invitation
    <3>1. invitations[k] \in Invitation /\ [invitations[k] EXCEPT !.status = "revoked"] \in Invitation
      BY DEF AccessInv, Invitation
    <3> QED BY <2>2, <3>1
  <2>5. link' \in OrNone(Ids) /\ pendingRevoke' \in OrNone(Ids)
    BY <2>2 DEF AccessInv, OrNone
  <2> QED BY <2>1, <2>2, <2>3, <2>4, <2>5 DEF AccessInv
<1>3. CASE InvitationsAnswered(i)
  <2>1. /\ session.role = "operator" /\ DOMAIN net.calls[i].answer \subseteq Ids
        /\ \A id \in DOMAIN net.calls[i].answer : net.calls[i].answer[id] \in Invitation
    BY <1>3, AnsweredFacts, OperatorAnswered DEF InvitationsAnswered, Told, AccessOps
  <2>2. /\ session' = session /\ UNCHANGED <<issued, roster, lapsed, members, pendingRemove>>
        /\ invitations' = net.calls[i].answer
        /\ link' \in {link, None} /\ pendingRevoke' \in {pendingRevoke, None}
    BY <1>3 DEF InvitationsAnswered, directory, memberVars, others, Keep
  <2>3. link' \in OrNone(Ids) /\ pendingRevoke' \in OrNone(Ids)
    BY <2>2 DEF AccessInv, OrNone
  <2> QED BY <2>1, <2>2, <2>3 DEF AccessInv
<1> QED BY <1>1, <1>2, <1>3

LEMMA MembersNextInv ==
  ASSUME CoreInv, AccessInv, NEW i, MemberRemoved(i) \/ MembersAnswered(i)
  PROVE AccessInv'
<1>1. session.role = "operator" /\ session' = session
  BY OperatorAnswered DEF MemberRemoved, MembersAnswered, AccessOps, quiet, others
<1>2. UNCHANGED <<issued, roster, lapsed, invitations, link, pendingRevoke>>
  BY DEF MemberRemoved, MembersAnswered, directory, invitationVars
<1>3. DOMAIN members' \subseteq People
  <2>1. CASE MemberRemoved(i)
    BY <2>1 DEF MemberRemoved, AccessInv
  <2>2. CASE MembersAnswered(i)
    BY <2>2, AnsweredFacts DEF MembersAnswered, Told
  <2> QED BY <2>1, <2>2
<1>4. pendingRemove' \in OrNone(People)
  BY DEF MemberRemoved, MembersAnswered, Keep, OrNone, AccessInv
<1> QED BY <1>1, <1>2, <1>3, <1>4 DEF AccessInv

\* The server's part of the access panel.
LEMMA DirectoryInv ==
  ASSUME CoreInv, AccessInv, DirectoryChanges \/ (\E i : ServeInvitations(i)) \/ (\E i : ServeMembers(i))
  PROVE AccessInv'
<1>0. UNCHANGED <<session, invitations, link, pendingRevoke, members, pendingRemove>>
  BY DEF DirectoryChanges, ServeInvitations, ServeMembers, shellVars, quiet, others, invitationVars, memberVars
<1>1. issued' \in Seq(Invitation) /\ Len(issued') <= MaxInvites
  <2>0. issued \in Seq(Invitation) /\ Len(issued) <= MaxInvites /\ Len(issued) \in Nat /\ DOMAIN issued = 1..Len(issued)
    BY DEF AccessInv
  <2>1. CASE UNCHANGED issued
    BY <2>0, <2>1
  <2>2. ASSUME NEW id \in DOMAIN issued, NEW status \in {"used", "revoked"}, issued' = [issued EXCEPT ![id] = [issued[id] EXCEPT !.status = status]]
        PROVE issued' \in Seq(Invitation) /\ Len(issued') <= MaxInvites
    <3>0. issued[id] \in Invitation
      BY <2>0
    <3>1. [issued[id] EXCEPT !.status = status] \in Invitation
      BY <3>0 DEF Invitation
    <3> HIDE DEF Invitation
    <3> QED BY <2>0, <2>2, <3>1
  <2>3. ASSUME NEW address \in Addresses, Len(issued) < MaxInvites,
               issued' = Append(RevokePending(issued, address), [address |-> address, status |-> "pending"])
        PROVE issued' \in Seq(Invitation) /\ Len(issued') <= MaxInvites
    BY <2>0, <2>3, IssuedGrows, AccessAssumption
  <2>4. CASE DirectoryChanges
    BY <2>1, <2>2, <2>4 DEF DirectoryChanges
  <2>5. ASSUME NEW i, ServeInvitations(i)
        PROVE issued' \in Seq(Invitation) /\ Len(issued') <= MaxInvites
    <3>1. CASE Arrives(i, "invitations")
      BY <2>1, <2>5, <3>1 DEF ServeInvitations, directory, Arrives, Is
    <3>2. CASE Arrives(i, "invite")
      <4>1. net.calls[i].arg \in Addresses
        BY <3>2, AnsweredIs DEF Arrives, Is, Asked
      <4> QED BY <2>1, <2>3, <2>5, <3>2, <4>1 DEF ServeInvitations, Arrives, Is
    <3>3. CASE Arrives(i, "revoke")
      <4>1. CASE net.calls[i].arg \in DOMAIN issued
        BY <2>1, <2>2, <2>5, <3>3, <4>1 DEF ServeInvitations, Arrives, Is
      <4>2. CASE net.calls[i].arg \notin DOMAIN issued
        <5>1. \A x : [issued EXCEPT ![net.calls[i].arg] = x] = issued
          BY <2>0, <4>2
        <5> QED BY <2>1, <2>5, <3>3, <5>1 DEF ServeInvitations, Arrives, Is
      <4> QED BY <4>1, <4>2
    <3> QED BY <2>5, <3>1, <3>2, <3>3 DEF ServeInvitations
  <2>6. ASSUME NEW i, ServeMembers(i)
        PROVE issued' \in Seq(Invitation) /\ Len(issued') <= MaxInvites
    BY <2>1, <2>6 DEF ServeMembers, directory
  <2> QED BY <2>4, <2>5, <2>6
<1>2. lapsed' \subseteq Ids
  <2>1. DOMAIN issued \subseteq Ids /\ lapsed \subseteq Ids
    BY AccessAssumption DEF AccessInv, Ids
  <2> QED BY <2>1 DEF DirectoryChanges, ServeInvitations, ServeMembers, directory
<1>3. roster' \in [People -> [joins : Nat, in : BOOLEAN]]
  <2>0. roster \in [People -> [joins : Nat, in : BOOLEAN]]
    BY DEF AccessInv
  <2>1. CASE UNCHANGED roster
    BY <2>0, <2>1
  <2>2. ASSUME NEW p \in People, \/ roster' = [roster EXCEPT ![p] = [roster[p] EXCEPT !.in = FALSE]]
                                 \/ roster' = [roster EXCEPT ![p] = [in |-> TRUE, joins |-> roster[p].joins + 1]]
        PROVE roster' \in [People -> [joins : Nat, in : BOOLEAN]]
    <3>0. roster[p] \in [joins : Nat, in : BOOLEAN] /\ roster[p].joins + 1 \in Nat
      BY <2>0
    <3>1. [roster[p] EXCEPT !.in = FALSE] \in [joins : Nat, in : BOOLEAN] /\ [in |-> TRUE, joins |-> roster[p].joins + 1] \in [joins : Nat, in : BOOLEAN]
      BY <3>0
    <3>2. \A r \in [joins : Nat, in : BOOLEAN] : [roster EXCEPT ![p] = r] \in [People -> [joins : Nat, in : BOOLEAN]]
      BY <2>0
    <3> QED BY <2>2, <3>1, <3>2
  <2>3. CASE DirectoryChanges
    <3>1. CASE \E p \in People : roster' = [roster EXCEPT ![p] = IF roster[p].in THEN [roster[p] EXCEPT !.in = FALSE] ELSE [in |-> TRUE, joins |-> roster[p].joins + 1]]
      BY <2>2, <3>1
    <3> QED BY <2>0, <2>1, <2>3, <3>1 DEF DirectoryChanges
  <2>4. CASE \E i : ServeInvitations(i)
    BY <2>1, <2>4 DEF ServeInvitations, directory
  <2>5. ASSUME NEW i, ServeMembers(i)
        PROVE roster' \in [People -> [joins : Nat, in : BOOLEAN]]
    BY <2>1, <2>2, <2>5 DEF ServeMembers, directory, Present
  <2> QED BY <2>3, <2>4, <2>5
<1> QED BY <1>0, <1>1, <1>2, <1>3 DEF AccessInv

LEMMA AccessNextInv ==
  ASSUME CoreInv, AccessInv, AccessNext
  PROVE AccessInv'
<1>1. CASE CreateInvitation
  BY <1>1 DEF CreateInvitation, AccessInv, OrNone, quiet, others, directory, memberVars
<1>2. CASE AskRevoke
  BY <1>2 DEF AskRevoke, InPanel, Pending, AccessInv, OrNone, shellVars, directory, memberVars
<1>3. CASE HideLink
  BY <1>3 DEF HideLink, AccessInv, OrNone, shellVars, directory, memberVars
<1>4. CASE AskRemove
  BY <1>4 DEF AskRemove, InPanel, AccessInv, OrNone, shellVars, directory, invitationVars
<1>5. CASE RevokeInvitation \/ RemoveMember \/ \E i, op : AccessFails(i, op)
  BY <1>5 DEF RevokeInvitation, RemoveMember, AccessFails, AccessInv, accessVars, directory, invitationVars, memberVars, quiet, others
<1> QED BY <1>1, <1>2, <1>3, <1>4, <1>5, InvitationsNextInv, MembersNextInv, DirectoryInv DEF AccessNext

LEMMA DefaultFormIs ==
  DefaultForm \in Preferences
BY EmailsAssumption DEF DefaultForm

LEMMA EmailsFollowInv ==
  ASSUME EmailsInv, EmailsFollow
  PROVE EmailsInv'
<1>1. CASE session'.role \in Members
  BY <1>1 DEF EmailsInv, EmailsFollow
<1>2. CASE session'.role \notin Members
  BY <1>2, DefaultFormIs DEF EmailsInv, EmailsFollow
<1> QED BY <1>1, <1>2

\* and one of the emails panel for a member.
LEMMA MemberAnswered ==
  ASSUME CoreInv, NEW i, NEW op \in EmailOps, Answered(i, op)
  PROVE session.role \in Members
<1>1. MayDo(session.role, op)
  BY AnsweredFacts
<1> QED BY <1>1 DEF MayDo, AccessOps, EmailOps, EmailCommands

LEMMA RestIs ==
  ASSUME EmailsInv, MayChange, NEW c \in Connections, NEW m \in Deliveries
  PROVE [mail EXCEPT !.rest = RestChanges(c, m)] \in [settings : Saved, rest : Rest]
<1>1. RestChanges(c, m) \in Rest /\ mail \in [settings : Saved, rest : Rest]
  BY PortalAssumption DEF RestChanges, MayChange, Rest, EmailsInv
<1> HIDE DEF Saved, Rest
<1> QED BY <1>1

LEMMA ServeEmailsInv ==
  ASSUME CoreInv, EmailsInv, NEW i, ServeEmails(i)
  PROVE mail' \in [settings : Saved, rest : Rest]
<1>0. mail \in [settings : Saved, rest : Rest]
  BY DEF EmailsInv
<1>1. CASE UNCHANGED mail
  BY <1>0, <1>1
<1>2. CASE /\ Arrives(i, "emailSettings") /\ mail.settings.rev < MaxChanges
           /\ mail' = [mail EXCEPT !.settings = [rev |-> @.rev + 1, value |-> net.calls[i].arg]]
  <2>1. net.calls[i].arg \in Preferences
    BY <1>2, AnsweredIs DEF Arrives, Is, Asked
  <2> QED BY <1>2, <2>1, SettingsSavedIs
<1>3. CASE /\ MayChange
           /\ LET command == net.calls[i].arg
              IN mail' = [mail EXCEPT !.rest = CASE command = "disconnect" -> RestChanges("none", @.message)
                                                        [] command = "test" -> RestChanges(@.connection, @.message)
                                                        [] OTHER -> RestChanges(@.connection, "queued")]
  <2>1. mail.rest.connection \in Connections /\ mail.rest.message \in Deliveries /\ "none" \in Connections /\ "queued" \in Deliveries
    BY <1>0 DEF Rest, Connections, Deliveries
  <2> DEFINE command == net.calls[i].arg
             c == IF command = "disconnect" THEN "none" ELSE mail.rest.connection
             m == IF command = "disconnect" \/ command = "test" THEN mail.rest.message ELSE "queued"
  <2>2. c \in Connections /\ m \in Deliveries
    BY <2>1
  <2>3. mail' = [mail EXCEPT !.rest = RestChanges(c, m)]
    BY <1>3
  <2> HIDE DEF c, m
  <2> QED BY <1>3, <2>2, <2>3, RestIs
<1> QED BY <1>1, <1>2, <1>3 DEF ServeEmails, Arrives, Is

LEMMA EmailsNextInv ==
  ASSUME CoreInv, EmailsInv, EmailsNext
  PROVE EmailsInv'
<1>0. session' = session
  BY DEF EmailsNext, EditEmail, DiscardEmail, SaveEmail, ConnectEmail, AskEmail, EmailCommand, MailChanges, EmailSaved, EmailConsentOpened,
         EmailCommanded, EmailsAnswered, EmailFails, ServeEmails, shellVars, otherVars
<1>1. CASE EditEmail
  BY <1>0, <1>1 DEF EditEmail, Ready, EmailsInv
<1>2. CASE DiscardEmail
  <2>1. email \in MailAnswers /\ session.role \in Members
    BY <1>2 DEF DiscardEmail, Ready, EmailsInv
  <2>2. email.settings.value \in Preferences
    BY <2>1 DEF MailAnswers, Saved
  <2> QED BY <1>0, <1>2, <2>1, <2>2 DEF DiscardEmail, EmailsInv
<1>3. CASE UNCHANGED <<mail, email, form, emailDirty>>
  BY <1>0, <1>3 DEF EmailsInv
<1>4. CASE SaveEmail \/ ConnectEmail \/ AskEmail \/ EmailCommand \/ \E i, op : EmailConsentOpened(i) \/ EmailCommanded(i) \/ EmailFails(i, op)
  BY <1>3, <1>4 DEF SaveEmail, ConnectEmail, AskEmail, EmailCommand, EmailConsentOpened, EmailCommanded, EmailFails, emailVars
<1>5. CASE MailChanges
  <2>1. ASSUME MayChange, NEW c \in Connections, NEW m \in Deliveries, mail' = [mail EXCEPT !.rest = RestChanges(c, m)]
        PROVE mail' \in [settings : Saved, rest : Rest]
    BY <2>1, RestIs
  <2>2. ASSUME mail.settings.rev < MaxChanges, NEW v \in Preferences, mail' = [mail EXCEPT !.settings = [rev |-> mail.settings.rev + 1, value |-> v]]
        PROVE mail' \in [settings : Saved, rest : Rest]
    BY <2>2, SettingsSavedIs
  <2>3. mail' \in [settings : Saved, rest : Rest]
    BY <1>5, <2>1, <2>2 DEF MailChanges
  <2> QED BY <1>0, <1>5, <2>3 DEF MailChanges, EmailsInv
<1>6. ASSUME NEW i, EmailSaved(i)
      PROVE EmailsInv'
  <2>1. email \in MailAnswers /\ net.calls[i].answer \in Saved /\ session.role \in Members
    BY <1>6, AnsweredFacts, MemberAnswered DEF EmailSaved, AnyMay, Told, EmailOps, EmailCommands
  <2>2. /\ email' = [email EXCEPT !.settings = net.calls[i].answer] /\ emailDirty' = FALSE /\ mail' = mail
        /\ form' = email'.settings.value
    BY <1>6 DEF EmailSaved, FormShows
  <2>3. email' \in MailAnswers /\ email'.settings = net.calls[i].answer
    BY <2>1, <2>2 DEF MailAnswers
  <2>4. form' \in Preferences
    BY <2>1, <2>2, <2>3 DEF Saved
  <2> QED BY <1>0, <2>1, <2>2, <2>3, <2>4 DEF EmailsInv
<1>7. ASSUME NEW i, EmailsAnswered(i)
      PROVE EmailsInv'
  <2>1. net.calls[i].answer \in MailAnswers /\ session.role \in Members
    BY <1>7, AnsweredFacts, MemberAnswered DEF EmailsAnswered, Told, EmailOps
  <2>2. /\ email' = net.calls[i].answer /\ emailDirty' = emailDirty /\ mail' = mail
        /\ form' = IF emailDirty THEN form ELSE email'.settings.value
    BY <1>7 DEF EmailsAnswered, FormShows
  <2>3. email'.settings.value \in Preferences
    BY <2>1, <2>2 DEF MailAnswers, Saved
  <2> QED BY <1>0, <2>1, <2>2, <2>3 DEF EmailsInv
<1>8. ASSUME NEW i, ServeEmails(i)
      PROVE EmailsInv'
  <2>1. mail' \in [settings : Saved, rest : Rest]
    BY <1>8, ServeEmailsInv
  <2> QED BY <1>0, <1>8, <2>1 DEF ServeEmails, EmailsInv
<1> QED BY <1>1, <1>2, <1>4, <1>5, <1>6, <1>7, <1>8 DEF EmailsNext

-----------------------------------------------------------------------------
LEMMA SettingsFollowInv ==
  ASSUME SettingsInv, SettingsFollow, session' \in Sessions
  PROVE SettingsInv'
<1>1. CASE session'.role \in Authenticated
  BY <1>1 DEF SettingsInv, SettingsFollow, Authenticated, Members
<1>2. CASE session'.role \notin Authenticated
  BY <1>2 DEF SettingsInv, SettingsFollow
<1> QED BY <1>1, <1>2

LEMMA SettingsNextInv ==
  ASSUME CoreInv, SideInv, SettingsInv, SettingsNext
  PROVE SettingsInv'
<1>0. session' = session
  BY DEF SettingsNext, EditSettings, DiscardSettings, ReloadSettings, SaveSettings, SettingsChange, SettingsAnswered, SettingsSaved, ServeSettings,
         SettingsFail, shellVars, beside
<1>1. CASE EditSettings \/ DiscardSettings
  <2>1. session.role # "out"
    BY <1>1 DEF EditSettings, DiscardSettings, Editable, SideInv
  <2> QED BY <1>0, <1>1, <2>1 DEF EditSettings, DiscardSettings, Renders, SettingsInv
<1>2. CASE \E i : SettingsAnswered(i) \/ SettingsSaved(i)
  <2>1. session.role # "out"
    BY <1>2, AnsweredFacts DEF SettingsAnswered, SettingsSaved, Ops
  <2> QED BY <1>0, <1>2, <2>1 DEF SettingsAnswered, SettingsSaved, Renders, SettingsInv
<1>3. CASE SaveSettings \/ ReloadSettings \/ SettingsChange \/ \E i, op : ServeSettings(i) \/ SettingsFail(i, op)
  <2>1. UNCHANGED <<settings, rows, dirty>>
    BY <1>3 DEF SaveSettings, ReloadSettings, SettingsChange, ServeSettings, SettingsFail
  <2>2. resettable' = resettable \/ resettable' = TRUE \/ resettable' = FALSE
    BY <1>3 DEF SaveSettings, ReloadSettings, SettingsChange, ServeSettings, SettingsFail
  <2>3. dirty \in BOOLEAN /\ resettable \in BOOLEAN
    BY DEF SettingsInv
  <2>4. resettable' \in BOOLEAN
    BY <2>2, <2>3, Zenon
  <2> QED BY <1>0, <2>1, <2>3, <2>4 DEF SettingsInv
<1> QED BY <1>1, <1>2, <1>3 DEF SettingsNext

-----------------------------------------------------------------------------
\* Once loaded, the list and the email settings stay loaded, so that a call allowed before a panel's step is allowed after it.
LEMMA ShownStays ==
  ASSUME CoreInv, BookingsNext, shown \in BookingLists
  PROVE shown' \in BookingLists
<1>1. CASE UNCHANGED shown
  BY <1>1
<1>2. ASSUME NEW i, MutateAnswered(i)
      PROVE shown' \in BookingLists
  <2>1. net.calls[i].answer \in Booking
    BY <1>2, AnsweredFacts DEF MutateAnswered, Told
  <2> QED BY <1>2, <2>1 DEF MutateAnswered, BookingLists
<1>3. ASSUME NEW i, BookingsAnswered(i)
      PROVE shown' \in BookingLists
  <2>1. net.calls[i].answer \in BookingLists
    BY <1>3, AnsweredFacts DEF BookingsAnswered, Told
  <2> QED BY <1>1, <1>3, <2>1 DEF BookingsAnswered
<1> QED BY <1>1, <1>2, <1>3 DEF BookingsNext, OpenBooking, CloseBooking, EditBooking, Mutate, BookingChanges, MutateFails, BookingsFails,
         ServeBookings, ServeMutate, bookingVars

LEMMA EmailStays ==
  ASSUME CoreInv, EmailsNext, email \in MailAnswers
  PROVE email' \in MailAnswers
<1>1. CASE UNCHANGED email
  BY <1>1
<1>2. ASSUME NEW i, EmailSaved(i)
      PROVE email' \in MailAnswers
  <2>1. net.calls[i].answer \in Saved
    BY <1>2, AnsweredFacts DEF EmailSaved, Told
  <2> QED BY <1>2, <2>1 DEF EmailSaved, MailAnswers
<1>3. ASSUME NEW i, EmailsAnswered(i)
      PROVE email' \in MailAnswers
  <2>1. net.calls[i].answer \in MailAnswers
    BY <1>3, AnsweredFacts DEF EmailsAnswered, Told
  <2> QED BY <1>3, <2>1 DEF EmailsAnswered
<1> QED BY <1>1, <1>2, <1>3 DEF EmailsNext, EditEmail, DiscardEmail, SaveEmail, ConnectEmail, AskEmail, EmailCommand, MailChanges,
         EmailConsentOpened, EmailCommanded, EmailFails, ServeEmails, emailVars

\* The panels follow: the calls fit what they show now.
LEMMA CoreFollows ==
  ASSUME CoreInv, CoreNext, BookingsFollow \/ BookingsNext, EmailsFollow \/ EmailsNext
  PROVE CoreInv'
<1>1. session'.role \in Authenticated /\ shown \in BookingLists => shown' \in BookingLists
  BY ShownStays DEF BookingsFollow
<1>2. session'.role \in Members /\ email \in MailAnswers => email' \in MailAnswers
  BY EmailStays DEF EmailsFollow
<1>3. May(session'.role) \subseteq May(session.role)'
  <2> SUFFICES ASSUME NEW op \in May(session'.role) PROVE op \in May(session.role)'
    OBVIOUS
  <2>1. op \in Ops /\ op \in AnyMay /\ MayDo(session'.role, op)
    BY DEF May, AnyMay
  <2>2. op = "mutate" => session'.role \in Authenticated
    BY <2>1 DEF MayDo, AccessOps, EmailOps, EmailCommands
  <2>3. op = "emailSettings" => session'.role \in Members
    BY <2>1 DEF MayDo, AccessOps, EmailOps, EmailCommands
  <2>4. op \in AnyMay'
    BY <1>1, <1>2, <2>1, <2>2, <2>3 DEF AnyMay
  <2> QED BY <2>1, <2>4 DEF May
<1>4. PICK V : None \in V /\ net' \in Nets(CallsFor(V, session'.role, May(session'.role)))
  BY DEF CoreNext, NetOK
<1>5. CallsFor(V, session'.role, May(session'.role)) \subseteq CallsFor(V, session'.role, May(session.role)')
  <2> SUFFICES ASSUME NEW c \in CallsFor(V, session'.role, May(session'.role))
               PROVE c \in CallsFor(V, session'.role, May(session.role)')
    OBVIOUS
  <2> QED BY <1>3 DEF CallsFor, Rightful
<1>6. net' \in Nets(CallsFor(V, session'.role, May(session.role)'))
  BY <1>4, <1>5, NetsGrow
<1>7. NetOK(net, session.role, May(session.role))'
  BY <1>4, <1>6 DEF NetOK
<1> QED BY <1>7 DEF CoreInv, CoreNext

-----------------------------------------------------------------------------
(* The first invariant                                                     *)

\* The inductive invariant.
PortalInv == CoreInv /\ SideInv /\ BookingsInv /\ AccessInv /\ EmailsInv /\ SettingsInv /\ Len(net.calls) <= MaxCalls

\* Every step of the page and of the server keeps it,
LEMMA PortalStep ==
  PortalInv /\ [Next]_vars => PortalInv'
<1> SUFFICES ASSUME PortalInv, [Next]_vars PROVE PortalInv'
  OBVIOUS
<1> USE DEF PortalInv
<1>1. CASE ShellStep /\ PanelsFollow /\ Bounded
  <2>1. CoreNext
    <3>1. CASE SessionNext
      BY <3>1, SessionCore
    <3>2. ASSUME NEW i, NEW op \in {"configure", "disconnect"}, GoogleChecked(i, op, email # None)
          PROVE CoreNext
      <4> DEFINE loaded == email # None
      <4>1. GoogleChecked(i, op, loaded)
        BY <3>2
      <4> HIDE DEF loaded
      <4> QED BY <4>1, GoogleCheckedCore
    <3> QED BY <1>1, <3>1, <3>2 DEF ShellStep
  <2>2. SideInv'
    <3>1. CASE SessionNext
      BY <2>1, <3>1, SessionSide
    <3>2. ASSUME NEW i, NEW op \in {"configure", "disconnect"}, GoogleChecked(i, op, email # None)
          PROVE SideInv'
      <4>1. PICK loaded \in BOOLEAN : loaded = (email # None)
        OBVIOUS
      <4>2. GoogleChecked(i, op, loaded)
        BY <3>2, <4>1
      <4> QED BY <4>2, SessionAnswersSide
    <3> QED BY <1>1, <3>1, <3>2 DEF ShellStep
  <2>3. session' \in Sessions
    BY <2>1 DEF CoreNext
  <2>4. CoreInv' /\ BookingsInv' /\ AccessInv' /\ EmailsInv' /\ SettingsInv'
    BY <1>1, <2>1, <2>3, CoreFollows, BookingsFollowInv, AccessFollowInv, EmailsFollowInv, SettingsFollowInv DEF PanelsFollow
  <2> QED BY <1>1, <2>2, <2>4 DEF Bounded
<1>2. CASE BookingsNext /\ OthersFollow /\ Bounded
  <2>1. CoreNext /\ SideInv' /\ BookingsInv'
    BY <1>2, BookingsCore, BookingsSide, BookingsNextInv
  <2>2. session' \in Sessions
    BY <2>1 DEF CoreNext
  <2>3. CoreInv' /\ AccessInv' /\ EmailsInv' /\ SettingsInv'
    BY <1>2, <2>1, <2>2, CoreFollows, AccessFollowInv, EmailsFollowInv, SettingsFollowInv DEF OthersFollow
  <2> QED BY <1>2, <2>1, <2>3 DEF Bounded
<1>3. CASE AccessNext /\ BookingsFollow /\ EmailsFollow /\ SettingsFollow /\ Bounded
  <2>1. CoreNext /\ SideInv' /\ AccessInv'
    BY <1>3, AccessCore, AccessSide, AccessNextInv
  <2>2. session' \in Sessions
    BY <2>1 DEF CoreNext
  <2>3. CoreInv' /\ BookingsInv' /\ EmailsInv' /\ SettingsInv'
    BY <1>3, <2>1, <2>2, CoreFollows, BookingsFollowInv, EmailsFollowInv, SettingsFollowInv
  <2> QED BY <1>3, <2>1, <2>3 DEF Bounded
<1>4. CASE EmailsNext /\ BookingsFollow /\ AccessFollow /\ SettingsFollow /\ Bounded
  <2>1. CoreNext /\ SideInv' /\ EmailsInv'
    BY <1>4, EmailsCore, EmailsSide, EmailsNextInv
  <2>2. session' \in Sessions
    BY <2>1 DEF CoreNext
  <2>3. CoreInv' /\ BookingsInv' /\ AccessInv' /\ SettingsInv'
    BY <1>4, <2>1, <2>2, CoreFollows, BookingsFollowInv, AccessFollowInv, SettingsFollowInv
  <2> QED BY <1>4, <2>1, <2>3 DEF Bounded
<1>5. CASE SettingsNext /\ BookingsFollow /\ AccessFollow /\ EmailsFollow /\ Bounded
  <2>1. CoreNext /\ SideInv' /\ SettingsInv'
    BY <1>5, SettingsCore, SettingsSide, SettingsNextInv
  <2>2. session' \in Sessions
    BY <2>1 DEF CoreNext
  <2>3. CoreInv' /\ BookingsInv' /\ AccessInv' /\ EmailsInv'
    BY <1>5, <2>1, <2>2, CoreFollows, BookingsFollowInv, AccessFollowInv, EmailsFollowInv
  <2> QED BY <1>5, <2>1, <2>3 DEF Bounded
<1>6. CASE UNCHANGED vars
  <2> USE <1>6 DEF vars, shellVars, bookingVars, accessVars, emailVars, settingsVars, directory, invitationVars, memberVars
  <2>1. UNCHANGED <<session, poll, activePanel, net, shown, email>>
    OBVIOUS
  <2>2. CoreInv'
    <3>1. session \in Sessions /\ PageInv /\ NetOK(net, session.role, May(session.role))
      BY DEF CoreInv
    <3>2. PageInv'
      BY <2>1, <3>1 DEF PageInv
    <3>3. May(session.role)' = May(session.role)
      BY <2>1 DEF May, AnyMay
    <3>4. NetOK(net, session.role, May(session.role))'
      BY <2>1, <3>1, <3>3 DEF NetOK
    <3> QED BY <2>1, <3>1, <3>2, <3>4 DEF CoreInv
  <2>3. SideInv'
    BY DEF SideInv
  <2>4. BookingsInv' /\ EmailsInv' /\ SettingsInv'
    BY DEF BookingsInv, EmailsInv, SettingsInv
  <2>5. AccessInv'
    BY DEF AccessInv
  <2> QED BY <2>2, <2>3, <2>4, <2>5
<1> QED BY <1>1, <1>2, <1>3, <1>4, <1>5, <1>6 DEF Next

\* and it holds when the page is opened.
LEMMA PortalStart ==
  Init => PortalInv
<1> SUFFICES ASSUME Init PROVE PortalInv
  OBVIOUS
<1>1. part \in Parts /\ session.role = "out" /\ session \in Sessions /\ poll = FALSE /\ activePanel = "bookings"
  BY PortalAssumption DEF Init, ShellInit, Sessions
<1>2. PageInv
  BY <1>1 DEF PageInv, Panels
<1>3. PICK e \in Entries : entry = Spent(e) /\ net = Started(Empty, e.token)
  BY DEF Init, ShellInit
<1>4. e \in [token : {"none", "setup", "invite"}, landing : Panels, again : BOOLEAN]
  <2>1. part.tokens \subseteq {"none", "setup", "invite"} /\ part.panels \subseteq Panels
    BY <1>1, PortalAssumption
  <2> QED BY <2>1 DEF Entries, Panels
<1>5. SideInv
  <2>1. part.grants \subseteq Grants
    BY <1>1, PortalAssumption
  <2>2. granted \in Grants \cup {Out}
    BY <2>1 DEF Init, ShellInit
  <2>3. google \in [version : 0..MaxChanges, needs : BOOLEAN]
    BY PortalAssumption DEF Init, ShellInit
  <2>4. entry \in [token : {"none", "setup", "invite"}, landing : Panels, again : BOOLEAN]
    BY <1>3, <1>4, SpentIs
  <2>5. faults \in 0..MaxFaults
    BY PortalAssumption DEF Init, ShellInit
  <2>6. view = "loading" /\ hidden = FALSE /\ leaving = FALSE /\ orphaned = {}
    BY DEF Init, ShellInit
  <2>7. hidden \in BOOLEAN /\ leaving \in BOOLEAN
    BY <2>6
  <2>8. view \in {"loading", "entry", "portal"} /\ view # "portal" /\ orphaned \subseteq Flags
    BY <2>6
  <2> QED BY <1>1, <2>2, <2>3, <2>4, <2>5, <2>7, <2>8, Zenon DEF SideInv
<1>6. NetOK(net, session.role, May(session.role))
  <2>1. <<>> \in Seq(CallsFor({None}, session.role, May(session.role)))
    OBVIOUS
  <2>2. "start" \in May(session.role)
    BY StartMay
  <2>3. NetOK(Started([calls |-> <<>>, busy |-> {}], e.token), session.role, May(session.role))
    BY <2>1, <2>2, StartedOK
  <2> QED BY <1>3, <2>3 DEF Empty
<1>7. Len(net.calls) <= MaxCalls
  <2>1. Len(net.calls) = 1
    <3>1. net.calls = Append(Superseded(Stale(<<>>), Supersedes["start"]), Call("start", IF e.token = "setup" THEN "bootstrap" ELSE "session", ""))
      BY <1>3 DEF Started, Begin, Empty
    <3> DEFINE S == Records({None, "bootstrap", "session"})
               first == Call("start", IF e.token = "setup" THEN "bootstrap" ELSE "session", "")
               ops == Supersedes["start"]
    <3>2. /\ \A c \in S : [c EXCEPT !.standing = "stale"] \in S
          /\ \A c \in S : (IF c.op \in ops /\ c.standing = "live" THEN [c EXCEPT !.standing = "superseded"] ELSE c) \in S
      <4> HIDE DEF ops
      <4> QED BY DEF Records, Standings
    <3>6. first \in S
      BY DEF Records, Call, Ops, Thens, Standings, Outcomes
    <3> HIDE DEF S, ops, first
    <3>7. <<>> \in Seq(S) /\ Len(<<>>) = 0
      OBVIOUS
    <3>3. Stale(<<>>) \in Seq(S) /\ Len(Stale(<<>>)) = 0
      BY <3>2, <3>7, StaleIn
    <3>4. Superseded(Stale(<<>>), ops) \in Seq(S) /\ Len(Superseded(Stale(<<>>), ops)) = 0
      BY <3>2, <3>3, SupersededIn
    <3>5. net.calls = Append(Superseded(Stale(<<>>), ops), first)
      BY <3>1 DEF ops, first
    <3> DEFINE before == Superseded(Stale(<<>>), ops)
    <3> HIDE DEF before
    <3>8. before \in Seq(S) /\ Len(before) = 0 /\ net.calls = Append(before, first)
      BY <3>4, <3>5 DEF before
    <3> QED BY <3>6, <3>8
  <2> QED BY <2>1, PortalAssumption
<1>8. BookingsInv
  <2>1. stored \in BookingLists
    BY NoFieldsIs, BookingsAssumption, PortalAssumption DEF Init, BookingsInit, BookingLists, Booking
  <2>2. shown = None /\ selected = None /\ fields = NoFields
    BY DEF Init, BookingsInit
  <2>3. fields \in [notes : Notes, status : Statuses] /\ selected \in OrNone(Bookings)
    BY <2>2, NoFieldsIs DEF OrNone
  <2> QED BY <2>1, <2>2, <2>3, Zenon DEF BookingsInv
<1>9. AccessInv
  <2>1. issued \in Seq(Invitation) /\ Len(issued) <= MaxInvites /\ lapsed \subseteq Ids
    BY AccessAssumption DEF Init, AccessInit
  <2>2. roster \in [People -> [joins : Nat, in : BOOLEAN]]
    <3>1. PICK B \in {BOOLEAN, {FALSE}} : roster \in [People -> [joins : {1}, in : B]]
      BY DEF Init, AccessInit
    <3>2. B \subseteq BOOLEAN
      OBVIOUS
    <3> QED BY <3>1, <3>2
  <2>3. invitations = <<>> /\ members = <<>> /\ link = None /\ pendingRevoke = None /\ pendingRemove = None
    BY DEF Init, AccessInit, Nothing
  <2>4. DOMAIN <<>> = {}
    OBVIOUS
  <2>5. DOMAIN invitations = {} /\ DOMAIN members = {}
    BY <2>3, <2>4
  <2>6. link \in OrNone(Ids) /\ pendingRevoke \in OrNone(Ids) /\ pendingRemove \in OrNone(People)
    BY <2>3 DEF OrNone
  <2> QED BY <2>1, <2>2, <2>3, <2>5, <2>6 DEF AccessInv, Nothing
<1>10. EmailsInv
  <2>1. mail \in [settings : Saved, rest : Rest]
    <3>1. mail \in [settings : [rev : {0}, value : {DefaultForm}], rest : [rev : {0}, connection : Connections, message : Deliveries]]
      BY DEF Init, EmailsInit
    <3>2. 0 \in 0..MaxChanges /\ DefaultForm \in Preferences
      BY PortalAssumption, DefaultFormIs
    <3> QED BY <3>1, <3>2 DEF Saved, Rest
  <2>2. email = None /\ form = DefaultForm /\ emailDirty = FALSE
    BY DEF Init, EmailsInit
  <2>3. form \in Preferences /\ emailDirty \in BOOLEAN
    BY <2>2, DefaultFormIs
  <2> QED BY <2>1, <2>2, <2>3, Zenon DEF EmailsInv
<1>11. SettingsInv
  BY DEF Init, SettingsInit, SettingsInv
<1> QED BY <1>1, <1>2, <1>5, <1>6, <1>7, <1>8, <1>9, <1>10, <1>11 DEF PortalInv, CoreInv

\* The page and the server stay within PortalInv, for every part of the portal and any number of bookings, invitations, members
\* and changes.
THEOREM PortalHolds ==
  Spec => []PortalInv
BY PortalStart, PortalStep, PTL DEF Spec

\* TypeOK: every variable holds what the page or the server may hold.
THEOREM PortalTyped ==
  Spec => []TypeOK
<1>1. PortalInv => TypeOK
  <2> SUFFICES ASSUME PortalInv PROVE TypeOK
    OBVIOUS
  <2> USE DEF PortalInv
  <2>1. /\ part \in Parts /\ granted \in Grants \cup {Out} /\ google \in [version : 0..MaxChanges, needs : BOOLEAN]
        /\ view \in {"loading", "entry", "portal"} /\ entry.token \in {"none", "setup", "invite"} /\ entry.landing \in Panels /\ entry.again \in BOOLEAN
        /\ hidden \in BOOLEAN /\ leaving \in BOOLEAN /\ orphaned \subseteq Flags /\ faults \in 0..MaxFaults
    BY DEF SideInv
  <2>2. session \in [role : Authenticated \cup {"out"}, connects : BOOLEAN, google : [version : 0..MaxChanges, needs : BOOLEAN]]
    BY DEF CoreInv, Sessions
  <2>3. poll \in BOOLEAN /\ activePanel \in Panels
    BY DEF CoreInv, PageInv
  <2>4. NetOK(net, session.role, May(session.role)) /\ net.busy \subseteq Flags /\ Len(net.calls) <= MaxCalls
    BY DEF CoreInv, NetOK, Nets
  <2>5. ASSUME NEW i \in DOMAIN net.calls
        PROVE [f \in {"op", "standing", "status", "then"} |-> net.calls[i][f]] \in CallRecord
    <3>1. /\ net.calls[i].op \in Ops /\ net.calls[i].then \in Thens
          /\ net.calls[i].standing \in Standings /\ net.calls[i].status \in Outcomes
      BY <2>4, CallFields
    <3>2. [f \in {"op", "standing", "status", "then"} |-> net.calls[i][f]] =
            [op |-> net.calls[i].op, standing |-> net.calls[i].standing, status |-> net.calls[i].status, then |-> net.calls[i].then]
      OBVIOUS
    <3> QED BY <3>1, <3>2 DEF CallRecord, Thens, Standings, Outcomes
  <2>6. /\ stored \in [Bookings -> Booking] /\ (shown = None \/ shown \in [Bookings -> Booking])
        /\ selected \in OrNone(Bookings) /\ fields \in [notes : Notes, status : Statuses]
    BY DEF BookingsInv, BookingLists
  <2>7. /\ lapsed \subseteq Ids /\ link \in OrNone(Ids) /\ pendingRevoke \in OrNone(Ids) /\ pendingRemove \in OrNone(People)
        /\ DOMAIN members \subseteq People
    BY DEF AccessInv
  <2>8. mail \in [settings : Saved, rest : Rest] /\ form \in Preferences /\ emailDirty \in BOOLEAN
    BY DEF EmailsInv
  <2>9. dirty \in BOOLEAN /\ resettable \in BOOLEAN
    BY DEF SettingsInv
  <2> HIDE DEF PortalInv
  <2> QED BY <2>1, <2>2, <2>3, <2>4, <2>5, <2>6, <2>7, <2>8, <2>9, Zenon DEF TypeOK
<1> QED BY <1>1, PortalHolds, PTL

\* NothingBeyondRights: whichever call ended the session or its rights, and whatever was under way, the page keeps nothing of
\* what the session may no longer see (showSignedOut, renderConnection).
THEOREM NothingBeyondRightsHolds ==
  Spec => []NothingBeyondRights
<1>1. PortalInv => NothingBeyondRights
  BY DEF PortalInv, CoreInv, PageInv, BookingsInv, AccessInv, EmailsInv, SettingsInv, NothingBeyondRights
<1> QED BY <1>1, PortalHolds, PTL

-----------------------------------------------------------------------------
(* Flags and the calls that are waited for                                 *)

\* Who waits for a call: its own handler, or loadBookings, which lowers its flag even for an answer that has become old.
Waits(c) == c.standing = "live" \/ (c.op = "bookings" /\ c.standing = "superseded")
\* The operations whose calls are waited for in some states of the page only.
Special == {"start", "settings", "saveSettings", "invite"}

\* A raised flag has a call that is waited for, or the browser is on its way to Google (L); O is orphaned.
Caused(n, O, L) ==
  \A f \in n.busy \ O :
    \/ \E i \in DOMAIN n.calls : n.calls[i].op = f /\ Waits(n.calls[i])
    \/ L /\ f \in {"google", "emailConnect"}
\* A call that is waited for has its flag raised, except for the operations in free,
Raised(n, free) == \A i \in DOMAIN n.calls : Waits(n.calls[i]) /\ n.calls[i].op \in Flags \ free => n.calls[i].op \in n.busy
\* is the only one of its operation, with the same exception,
Alone(n, free) ==
  \A i, j \in DOMAIN n.calls :
    i # j /\ n.calls[i].op = n.calls[j].op /\ Waits(n.calls[i]) /\ Waits(n.calls[j]) => n.calls[i].op \in free
\* and, for the operations of Special, is one that may be waited for now: S.
Within(n, S) == \A i \in DOMAIN n.calls : Waits(n.calls[i]) /\ n.calls[i].op \in Special => n.calls[i].op \in S
\* Only the first loads lead on to what follows start.
Onward(n) == \A i \in DOMAIN n.calls : n.calls[i].then = "start" => n.calls[i].op \in {"bookings", "settings"}

\* Together they are kept by all that begins and ends calls.
Orderly(n, O, L, free, S) == Caused(n, O, L) /\ Raised(n, free) /\ Alone(n, free) /\ Within(n, S) /\ Onward(n)
OrderlyNets(V, O, L, free, S) == {n \in Nets(Records(V)) : Orderly(n, O, L, free, S)}

\* What is known of the calls of such a net.
LEMMA CallsOf ==
  ASSUME NEW V, NEW n \in Nets(Records(V)), NEW i \in DOMAIN n.calls
  PROVE n.calls[i] \in Records(V) /\ n.calls \in Seq(Records(V)) /\ n.busy \subseteq Flags /\ n.calls[i].op \in Ops
<1>1. n.calls \in Seq(Records(V)) /\ n.busy \subseteq Flags
  BY DEF Nets
<1>2. n.calls[i] \in Records(V)
  <2> HIDE DEF Records
  <2> QED BY <1>1
<1> QED BY <1>1, <1>2 DEF Records

\* The calls stay in their places, and some are no longer waited for.
LEMMA OrderlyMap ==
  ASSUME NEW n, NEW m, NEW O, NEW L, NEW free, NEW S, NEW T, Orderly(n, O, L, free, S),
         DOMAIN m.calls = DOMAIN n.calls, m.busy \subseteq n.busy,
         \A i \in DOMAIN n.calls : /\ m.calls[i].op = n.calls[i].op
                                   /\ m.calls[i].then = n.calls[i].then \/ m.calls[i].then = ""
                                   /\ Waits(m.calls[i]) => Waits(n.calls[i])
                                   /\ Waits(n.calls[i]) /\ ~Waits(m.calls[i]) => n.calls[i].op \notin m.busy
                                   /\ Waits(m.calls[i]) /\ n.calls[i].op \in n.busy \ m.busy => n.calls[i].op \in free
                                   /\ Waits(m.calls[i]) /\ n.calls[i].op \in Special => n.calls[i].op \in T
  PROVE Orderly(m, O, L, free, T)
<1>1. Caused(m, O, L)
  BY DEF Orderly, Caused
<1>2. Raised(m, free)
  BY DEF Orderly, Raised
<1>3. Alone(m, free)
  BY DEF Orderly, Alone
<1>4. Within(m, T)
  BY DEF Within
<1>5. Onward(m)
  BY DEF Orderly, Onward
<1> QED BY <1>1, <1>2, <1>3, <1>4, <1>5 DEF Orderly

\* A call goes, with the flags D.
LEMMA OrderlyRemove ==
  ASSUME NEW V, NEW n \in Nets(Records(V)), NEW O, NEW L, NEW free, NEW S, NEW T, Orderly(n, O, L, free, S), NEW D,
         NEW i \in DOMAIN n.calls,
         Waits(n.calls[i]) => n.calls[i].op \in D \/ n.calls[i].op \notin n.busy \/ (L /\ n.calls[i].op \in {"google", "emailConnect"}),
         \A k \in DOMAIN n.calls : k # i /\ Waits(n.calls[k]) => /\ n.calls[k].op \in D => n.calls[k].op \in free
                                                                 /\ n.calls[k].op \in Special => n.calls[k].op \in T
  PROVE [calls |-> RemoveAt(n.calls, i), busy |-> n.busy \ D] \in OrderlyNets(V, O, L, free, T)
<1> DEFINE r == RemoveAt(n.calls, i)
           m == [calls |-> r, busy |-> n.busy \ D]
           at(k) == IF k < i THEN k ELSE k + 1
           to(k) == IF k < i THEN k ELSE k - 1
<1>1. n.calls \in Seq(Records(V)) /\ n.busy \subseteq Flags
  BY CallsOf
<1>2. r \in Seq(Records(V)) /\ Len(r) = Len(n.calls) - 1 /\ \A k \in DOMAIN r : r[k] = IF k < i THEN n.calls[k] ELSE n.calls[k + 1]
  <2> HIDE DEF Records
  <2> QED BY <1>1, RemoveAtIn
<1>3. DOMAIN r = 1..(Len(n.calls) - 1) /\ DOMAIN n.calls = 1..Len(n.calls) /\ Len(n.calls) \in Nat
  <2> HIDE DEF r, Records
  <2> QED BY <1>1, <1>2
<1> HIDE DEF r
<1>4. \A k \in DOMAIN r : at(k) \in DOMAIN n.calls /\ at(k) # i /\ r[k] = n.calls[at(k)]
  BY <1>2, <1>3
<1>5. \A k, l \in DOMAIN r : k # l => at(k) # at(l)
  BY <1>3
<1>6. \A k \in DOMAIN n.calls : k # i => to(k) \in DOMAIN r /\ at(to(k)) = k
  BY <1>3
<1>7. \A k \in DOMAIN n.calls : k # i => to(k) \in DOMAIN r /\ r[to(k)] = n.calls[k]
  BY <1>4, <1>6
<1> HIDE DEF at, to
<1>8. m.calls = r /\ m.busy = n.busy \ D
  OBVIOUS
<1>9. m \in Nets(Records(V))
  BY <1>1, <1>2 DEF Nets
<1> HIDE DEF m
<1>10. Caused(m, O, L)
  <2> SUFFICES ASSUME NEW f \in m.busy \ O, ~(L /\ f \in {"google", "emailConnect"})
               PROVE \E k \in DOMAIN m.calls : m.calls[k].op = f /\ Waits(m.calls[k])
    BY DEF Caused
  <2>1. PICK k \in DOMAIN n.calls : n.calls[k].op = f /\ Waits(n.calls[k])
    BY <1>8 DEF Orderly, Caused
  <2>2. k # i
    BY <1>8, <2>1
  <2> QED BY <1>7, <1>8, <2>1, <2>2
<1>11. Raised(m, free)
  BY <1>4, <1>8 DEF Orderly, Raised
<1>12. Alone(m, free)
  BY <1>4, <1>5, <1>8 DEF Orderly, Alone
<1>13. Within(m, T)
  BY <1>4, <1>8 DEF Within
<1>14. Onward(m)
  BY <1>4, <1>8 DEF Orderly, Onward
<1> QED BY <1>9, <1>10, <1>11, <1>12, <1>13, <1>14 DEF Orderly, OrderlyNets, m, r

\* What is begun: loads or orders it makes old, then the new call.
LEMMA OrderlySupersede ==
  ASSUME NEW V, NEW n \in Nets(Records(V)), NEW O, NEW L, NEW free, NEW S, Orderly(n, O, L, free, S), NEW ops
  PROVE [calls |-> Superseded(n.calls, ops), busy |-> n.busy \ (ops \ {"bookings"})] \in OrderlyNets(V, O, L, free, S)
<1> DEFINE calls == Superseded(n.calls, ops)
           m == [calls |-> calls, busy |-> n.busy \ (ops \ {"bookings"})]
<1>1. n.calls \in Seq(Records(V)) /\ n.busy \subseteq Flags
  BY DEF Nets
<1>2. Lowers(Records(V))
  BY DEF Lowers, Records, Standings
<1>3. calls \in Seq(Records(V)) /\ DOMAIN calls = DOMAIN n.calls
  <2> DEFINE W == Records(V)
  <2>1. Lowers(W) /\ n.calls \in Seq(W)
    BY <1>1, <1>2
  <2> HIDE DEF W
  <2>3. calls \in Seq(W)
    BY <2>1, SupersededIn DEF Lowers
  <2>4. DOMAIN calls = DOMAIN n.calls
    BY DEF Superseded
  <2> QED BY <2>3, <2>4 DEF W
<1>4. ASSUME NEW i \in DOMAIN n.calls
      PROVE /\ calls[i].op = n.calls[i].op /\ calls[i].then = n.calls[i].then
            /\ Waits(calls[i]) <=> Waits(n.calls[i]) /\ n.calls[i].op \notin ops \ {"bookings"}
  <2>1. n.calls[i] \in Records(V)
    BY CallsOf
  <2>2. CASE n.calls[i].op \in ops /\ n.calls[i].standing = "live"
    <3>1. calls[i] = [n.calls[i] EXCEPT !.standing = "superseded"]
      BY <2>2 DEF Superseded
    <3>2. calls[i].op = n.calls[i].op /\ calls[i].then = n.calls[i].then /\ calls[i].standing = "superseded"
      BY <2>1, <3>1 DEF Records
    <3> QED BY <2>2, <3>2 DEF Waits
  <2>3. CASE ~(n.calls[i].op \in ops /\ n.calls[i].standing = "live")
    <3>1. calls[i] = n.calls[i]
      BY <2>3 DEF Superseded
    <3> QED BY <2>3, <3>1 DEF Waits
  <2> QED BY <2>2, <2>3
<1> HIDE DEF calls
<1>5. m.calls = calls /\ m.busy = n.busy \ (ops \ {"bookings"})
  OBVIOUS
<1>6. m \in Nets(Records(V))
  BY <1>1, <1>3 DEF Nets
<1> HIDE DEF m
<1>7. \A i \in DOMAIN n.calls : Waits(n.calls[i]) /\ n.calls[i].op \in Special => n.calls[i].op \in S
  BY DEF Orderly, Within
<1>8. Orderly(m, O, L, free, S)
  BY <1>3, <1>4, <1>5, <1>7, OrderlyMap
<1> QED BY <1>6, <1>8 DEF OrderlyNets, m, calls

LEMMA OrderlyAppend ==
  ASSUME NEW V, NEW n \in Nets(Records(V)), NEW O, NEW L, NEW free, NEW S, Orderly(n, O, L, free, S),
         NEW c \in Records(V), c.standing = "live", c.then = "start" => c.op \in {"bookings", "settings"},
         c.op \in free \/ \A i \in DOMAIN n.calls : Waits(n.calls[i]) => n.calls[i].op # c.op,
         c.op \in Special => c.op \in S
  PROVE [calls |-> Append(n.calls, c), busy |-> n.busy \cup ({c.op} \cap Flags)] \in OrderlyNets(V, O, L, free, S)
<1> DEFINE calls == Append(n.calls, c)
           m == [calls |-> calls, busy |-> n.busy \cup ({c.op} \cap Flags)]
<1>1. n.calls \in Seq(Records(V)) /\ n.busy \subseteq Flags
  BY DEF Nets
<1>2. /\ calls \in Seq(Records(V)) /\ DOMAIN calls = DOMAIN n.calls \cup {Len(n.calls) + 1} /\ Len(n.calls) + 1 \notin DOMAIN n.calls
      /\ \A i \in DOMAIN n.calls : calls[i] = n.calls[i]
      /\ calls[Len(n.calls) + 1] = c
  <2> HIDE DEF Records
  <2> QED BY <1>1
<1> DEFINE last == Len(n.calls) + 1
<1> HIDE DEF calls, last
<1>3. m.calls = calls /\ m.busy = n.busy \cup ({c.op} \cap Flags)
  OBVIOUS
<1>4. m \in Nets(Records(V))
  BY <1>1, <1>2 DEF Nets
<1>5. Waits(c)
  BY DEF Waits
<1> HIDE DEF m
<1>6. /\ DOMAIN calls = DOMAIN n.calls \cup {last} /\ last \notin DOMAIN n.calls /\ calls[last] = c
      /\ \A i \in DOMAIN n.calls : calls[i] = n.calls[i]
  BY <1>2 DEF last
<1>7. Caused(m, O, L)
  BY <1>3, <1>5, <1>6 DEF Orderly, Caused
<1>8. Raised(m, free)
  BY <1>3, <1>6 DEF Orderly, Raised
<1>9. Alone(m, free)
  BY <1>3, <1>6 DEF Orderly, Alone
<1>10. Within(m, S)
  BY <1>3, <1>6 DEF Orderly, Within
<1>11. Onward(m)
  BY <1>3, <1>6 DEF Orderly, Onward
<1> QED BY <1>4, <1>7, <1>8, <1>9, <1>10, <1>11 DEF Orderly, OrderlyNets, m, calls

\* An orderly net, with some set of arguments and answers.
Steady(n, O, L, free, S) == \E V : None \in V /\ n \in OrderlyNets(V, O, L, free, S)

\* A request begins when its flag was down, when it is one of those in free, or when no call of its kind is waited for.
LEMMA OrderlyBegin ==
  ASSUME NEW V, NEW n \in Nets(Records(V)), NEW O, NEW L, NEW free, NEW S, Orderly(n, O, L, free, S),
         NEW op \in Ops, NEW arg \in V, None \in V, NEW then \in Thens, then = "start" => op \in {"bookings", "settings"},
         \/ n.busy \cap Excludes[op] = {} /\ op \in Flags \ free
         \/ op \in free
         \/ \A i \in DOMAIN n.calls : Waits(n.calls[i]) => n.calls[i].op # op,
         op \in Special => op \in S
  PROVE Begin(n, op, arg, then) \in OrderlyNets(V, O, L, free, S)
<1> DEFINE ops == Supersedes[op]
           c == Call(op, arg, then)
           m == [calls |-> Superseded(n.calls, ops), busy |-> n.busy \ (ops \ {"bookings"})]
<1>1. op \notin ops
  BY DEF Supersedes, GoogleOps, EmailCommands
<1>2. m \in Nets(Records(V)) /\ Orderly(m, O, L, free, S)
  <2> HIDE DEF ops
  <2> QED BY <1>1, OrderlySupersede DEF OrderlyNets
<1>3. c \in Records(V) /\ c.standing = "live" /\ c.op = op /\ c.then = then
  BY DEF Call, Records, Thens, Standings, Outcomes
<1>4. op \in free \/ \A i \in DOMAIN m.calls : Waits(m.calls[i]) => m.calls[i].op # op
  <2>1. CASE n.busy \cap Excludes[op] = {} /\ op \in Flags \ free
    <3>1. op \in Excludes[op]
      BY <2>1 DEF Excludes, Flags, Ops, Loads, AccessOps, EmailOps, EmailCommands, GoogleOps
    <3>2. op \notin m.busy
      BY <2>1, <3>1
    <3> HIDE DEF m
    <3> QED BY <1>2, <2>1, <3>2 DEF Orderly, Raised
  <2>2. CASE \A i \in DOMAIN n.calls : Waits(n.calls[i]) => n.calls[i].op # op
    <3> SUFFICES ASSUME NEW i \in DOMAIN m.calls, Waits(m.calls[i]), m.calls[i].op = op PROVE FALSE
      OBVIOUS
    <3>1. i \in DOMAIN n.calls
      BY DEF Superseded
    <3>2. n.calls[i].op \notin ops
      <4>1. n.calls[i] \in Records(V)
        BY <3>1, CallsOf
      <4>2. n.calls[i].op \in ops /\ n.calls[i].standing = "live" => m.calls[i].op = n.calls[i].op
        BY <3>1, <4>1 DEF Superseded, Records
      <4>3. ~(n.calls[i].op \in ops /\ n.calls[i].standing = "live") => m.calls[i] = n.calls[i]
        BY <3>1 DEF Superseded
      <4> QED BY <1>1, <4>2, <4>3
    <3>3. m.calls[i] = n.calls[i]
      BY <3>1, <3>2 DEF Superseded
    <3> QED BY <2>2, <3>1, <3>3
  <2> QED BY <2>1, <2>2
<1>5. Begin(n, op, arg, then) = [calls |-> Append(m.calls, c), busy |-> m.busy \cup ({op} \cap Flags)]
  BY DEF Begin
<1> HIDE DEF m, c
<1>6. [calls |-> Append(m.calls, c), busy |-> m.busy \cup ({c.op} \cap Flags)] \in OrderlyNets(V, O, L, free, S)
  BY <1>2, <1>3, <1>4, OrderlyAppend
<1> QED BY <1>3, <1>5, <1>6

\* Loads begin behind their flags, and so need nothing more; whence all the sequences of loads.
LEMMA OrderlyLoads ==
  ASSUME NEW V, None \in V, NEW STATE role, NEW O, NEW L, NEW free, NEW S, free \cap Flags \subseteq {"saveSettings"}
  PROVE LoadsWithin(OrderlyNets(V, O, L, free, S), role)
<1> SUFFICES ASSUME NEW n \in OrderlyNets(V, O, L, free, S), NEW op \in Loads, NEW then \in {"", "poll"}, MayBegin(n, role, op)
             PROVE Begin(n, op, None, then) \in OrderlyNets(V, O, L, free, S)
  BY DEF LoadsWithin
<1>1. op \in Ops /\ op \in Flags \ free /\ op \notin Special
  BY DEF Loads, Ops, Flags, Special
<1>2. n.busy \cap Excludes[op] = {}
  BY DEF MayBegin
<1> QED BY <1>1, <1>2, OrderlyBegin DEF OrderlyNets, Thens

LEMMA SteadyIs ==
  ASSUME NEW STATE n, NEW STATE O, NEW STATE L, NEW STATE free, NEW STATE S, Steady(n, O, L, free, S)
  PROVE /\ Orderly(n, O, L, free, S)
        /\ \E V : None \in V /\ n \in Nets(Records(V))
BY DEF Steady, OrderlyNets

LEMMA RecordsGrow ==
  ASSUME NEW V, NEW W, V \subseteq W
  PROVE Nets(Records(V)) \subseteq Nets(Records(W))
<1>1. Records(V) \subseteq Records(W)
  BY DEF Records
<1> QED BY <1>1, NetsGrow

LEMMA SteadyBegin ==
  ASSUME NEW STATE n, NEW STATE O, NEW STATE L, NEW STATE free, NEW STATE S, NEW STATE T, Steady(n, O, L, free, S), S \subseteq T,
         NEW op \in Ops, NEW arg, NEW then \in Thens, then = "start" => op \in {"bookings", "settings"},
         \/ n.busy \cap Excludes[op] = {} /\ op \in Flags \ free
         \/ op \in free
         \/ \A i \in DOMAIN n.calls : Waits(n.calls[i]) => n.calls[i].op # op,
         op \in Special => op \in T
  PROVE Steady(Begin(n, op, arg, then), O, L, free, T)
<1>1. PICK V : None \in V /\ n \in OrderlyNets(V, O, L, free, S)
  BY DEF Steady
<1> DEFINE W == V \cup {arg}
<1>2. n \in Nets(Records(W)) /\ Orderly(n, O, L, free, S) /\ arg \in W /\ None \in W
  BY <1>1, RecordsGrow DEF OrderlyNets
<1>3. Orderly(n, O, L, free, T)
  BY <1>2 DEF Orderly, Within
<1> HIDE DEF W
<1>4. Begin(n, op, arg, then) \in OrderlyNets(W, O, L, free, T)
  BY <1>2, <1>3, OrderlyBegin
<1> QED BY <1>2, <1>4 DEF Steady

LEMMA SteadyLoad ==
  ASSUME NEW STATE n, NEW STATE O, NEW STATE L, NEW STATE free, NEW STATE S, Steady(n, O, L, free, S), free \cap Flags \subseteq {"saveSettings"},
         NEW STATE role, NEW op \in Loads
  PROVE Steady(Load(n, role, op), O, L, free, S)
<1>1. PICK V : None \in V /\ n \in OrderlyNets(V, O, L, free, S)
  BY DEF Steady
<1>2. LoadsWithin(OrderlyNets(V, O, L, free, S), role)
  BY <1>1, OrderlyLoads
<1>3. Load(n, role, op) \in OrderlyNets(V, O, L, free, S)
  BY <1>1, <1>2, LoadIn
<1> QED BY <1>1, <1>3 DEF Steady

LEMMA SteadyOpened ==
  ASSUME NEW STATE n, NEW STATE O, NEW STATE L, NEW STATE free, NEW STATE S, Steady(n, O, L, free, S), free \cap Flags \subseteq {"saveSettings"},
         NEW STATE role, NEW panel, NEW held
  PROVE Steady(Opened(n, role, panel), O, L, free, S) /\ Steady(Visible(n, role, activePanel, held), O, L, free, S)
<1>1. PICK V : None \in V /\ n \in OrderlyNets(V, O, L, free, S)
  BY DEF Steady
<1>2. LoadsWithin(OrderlyNets(V, O, L, free, S), role)
  BY <1>1, OrderlyLoads
<1>3. Opened(n, role, panel) \in OrderlyNets(V, O, L, free, S)
  BY <1>1, <1>2, OpenedIn
<1>4. Visible(n, role, activePanel, held) \in OrderlyNets(V, O, L, free, S)
  BY <1>1, <1>2, VisibleIn
<1> QED BY <1>1, <1>3, <1>4 DEF Steady

LEMMA SteadyPoll ==
  ASSUME NEW STATE n, NEW STATE O, NEW STATE L, NEW STATE free, NEW STATE S, Steady(n, O, L, free, S), free \cap Flags \subseteq {"saveSettings"},
         NEW STATE role, NEW STATE panel, NEW held
  PROVE Steady(PollGoesOn(n, role, panel, "session", held).net, O, L, free, S)
<1>1. PICK V : None \in V /\ n \in OrderlyNets(V, O, L, free, S)
  BY DEF Steady
<1>2. LoadsWithin(OrderlyNets(V, O, L, free, S), role)
  BY <1>1, OrderlyLoads
<1>3. PollGoesOn(n, role, panel, "session", held).net \in OrderlyNets(V, O, L, free, S)
  BY <1>1, <1>2, PollGoesOnIn
<1> QED BY <1>1, <1>3 DEF Steady

LEMMA SteadyEnds ==
  ASSUME NEW STATE n, NEW STATE O, NEW STATE L, NEW STATE free, NEW STATE S, Steady(n, O, L, free, S), free \cap Flags \subseteq {"saveSettings"},
         NEW STATE role, NEW STATE panel, NEW STATE call, Ends(n, role, panel, call)
  PROVE Steady(net', O, L, free, S)
<1>1. PICK V : None \in V /\ n \in OrderlyNets(V, O, L, free, S)
  BY DEF Steady
<1>2. LoadsWithin(OrderlyNets(V, O, L, free, S), role)
  BY <1>1, OrderlyLoads
<1>3. net' \in OrderlyNets(V, O, L, free, S)
  BY <1>1, <1>2, EndsIn
<1> QED BY <1>1, <1>3 DEF Steady

\* renderConnection lowers the flags of what it ends.
LEMMA SteadyRendered ==
  ASSUME NEW STATE n, NEW STATE O, NEW STATE L, NEW STATE free, NEW STATE S, Steady(n, O, L, free, S), NEW STATE role
  PROVE Steady(Rendered(n, role), O, L, free, S)
<1>1. PICK V : None \in V /\ n \in OrderlyNets(V, O, L, free, S)
  BY DEF Steady
<1> DEFINE lost == (IF role = "operator" THEN {} ELSE AccessOps) \cup (IF role \in Members THEN {} ELSE EmailOps)
<1>2. "bookings" \notin lost
  BY DEF AccessOps, EmailOps, EmailCommands
<1>3. Rendered(n, role) = [calls |-> Superseded(n.calls, lost), busy |-> n.busy \ (lost \ {"bookings"})]
  BY <1>2 DEF Rendered
<1> HIDE DEF lost
<1>4. [calls |-> Superseded(n.calls, lost), busy |-> n.busy \ (lost \ {"bookings"})] \in OrderlyNets(V, O, L, free, S)
  BY <1>1, <1>2, OrderlySupersede DEF OrderlyNets
<1> QED BY <1>1, <1>3, <1>4 DEF Steady

LEMMA SteadyShows ==
  ASSUME NEW STATE n, NEW STATE O, NEW STATE L, NEW STATE free, NEW STATE S, Steady(n, O, L, free, S), free \cap Flags \subseteq {"saveSettings"},
         NEW STATE s, NEW STATE call, Shows(s, n, call)
  PROVE Steady(net', O, L, free, S)
<1> DEFINE closes == activePanel = "access" /\ s.role # "operator"
           m == Rendered(n, s.role)
           after == IF closes THEN Load(m, s.role, "bookings") ELSE m
           panel == IF closes THEN "bookings" ELSE activePanel
<1>1. Steady(m, O, L, free, S)
  BY SteadyRendered
<1>2. Steady(Load(m, s.role, "bookings"), O, L, free, S)
  <2> HIDE DEF m
  <2> QED BY <1>1, SteadyLoad DEF Loads
<1>3. Steady(after, O, L, free, S)
  BY <1>1, <1>2
<1>4. Ends(after, s.role, panel, call)
  BY DEF Shows
<1> HIDE DEF m, after, panel
<1> QED BY <1>3, <1>4, SteadyEnds

\* What remains allowed when a call that was waited for goes.
Leaves(c, free, S, T) == S \subseteq T \/ (Waits(c) /\ c.op \notin free /\ S \ {c.op} \subseteq T)

LEMMA NetIs ==
  ASSUME NEW V, NEW STATE n, n \in Nets(Records(V))
  PROVE n = [calls |-> n.calls, busy |-> n.busy] /\ n.calls \in Seq(Records(V)) /\ n.busy \subseteq Flags
BY DEF Nets

LEMMA SetIn ==
  ASSUME NEW R, NEW s \in Seq(R), NEW i \in DOMAIN s, NEW d \in R
  PROVE [s EXCEPT ![i] = d] \in Seq(R)
OBVIOUS

LEMMA BusyIs ==
  ASSUME NEW R, NEW n \in Nets(R), NEW busy
  PROVE [n EXCEPT !.busy = busy] = [calls |-> n.calls, busy |-> busy]
BY DEF Nets

LEMMA CallsAre ==
  ASSUME NEW R, NEW n \in Nets(R), NEW calls
  PROVE [n EXCEPT !.calls = calls] = [calls |-> calls, busy |-> n.busy]
BY DEF Nets

\* A call is forgotten without lowering its flag, or with it; the server replies; the epoch ends.
LEMMA SteadyWithout ==
  ASSUME NEW STATE O, NEW STATE L, NEW STATE free, NEW STATE S, NEW STATE T, Steady(net, O, L, free, S), NEW i \in DOMAIN net.calls,
         Leaves(net.calls[i], free, S, T),
         Waits(net.calls[i]) => net.calls[i].op \notin net.busy \/ (L /\ net.calls[i].op \in {"google", "emailConnect"})
  PROVE Steady(Without(i), O, L, free, T)
<1>1. PICK V : None \in V /\ net \in OrderlyNets(V, O, L, free, S)
  BY DEF Steady
<1>2. net \in Nets(Records(V)) /\ Orderly(net, O, L, free, S)
  BY <1>1 DEF OrderlyNets
<1>3. \A k \in DOMAIN net.calls : k # i /\ Waits(net.calls[k]) /\ net.calls[k].op \in Special => net.calls[k].op \in T
  BY <1>2 DEF Leaves, Orderly, Alone, Within
<1>4. [calls |-> RemoveAt(net.calls, i), busy |-> net.busy \ {}] \in OrderlyNets(V, O, L, free, T)
  BY <1>2, <1>3, OrderlyRemove
<1>5. Without(i) = [calls |-> RemoveAt(net.calls, i), busy |-> net.busy \ {}]
  <2>1. net = [calls |-> net.calls, busy |-> net.busy]
    BY <1>2, NetIs
  <2>2. [net EXCEPT !.calls = RemoveAt(net.calls, i)] = [calls |-> RemoveAt(net.calls, i), busy |-> net.busy]
    BY <2>1
  <2> QED BY <2>2 DEF Without
<1> QED BY <1>1, <1>4, <1>5 DEF Steady

LEMMA SteadyReleased ==
  ASSUME NEW STATE O, NEW STATE L, NEW STATE free, NEW STATE S, NEW STATE T, Steady(net, O, L, free, S), NEW i \in DOMAIN net.calls,
         Leaves(net.calls[i], free, S, T), Waits(net.calls[i])
  PROVE Steady(Released(i), O, L, free, T)
<1>1. PICK V : None \in V /\ net \in OrderlyNets(V, O, L, free, S)
  BY DEF Steady
<1>2. net \in Nets(Records(V)) /\ Orderly(net, O, L, free, S)
  BY <1>1 DEF OrderlyNets
<1> DEFINE D == {net.calls[i].op}
<1>3. \A k \in DOMAIN net.calls : k # i /\ Waits(net.calls[k]) => /\ net.calls[k].op \in D => net.calls[k].op \in free
                                                                  /\ net.calls[k].op \in Special => net.calls[k].op \in T
  BY <1>2 DEF Leaves, Orderly, Alone, Within
<1>4. net.calls[i].op \in D
  OBVIOUS
<1> HIDE DEF D
<1>5. [calls |-> RemoveAt(net.calls, i), busy |-> net.busy \ D] \in OrderlyNets(V, O, L, free, T)
  BY <1>2, <1>3, <1>4, OrderlyRemove
<1> QED BY <1>1, <1>5 DEF Steady, Released, D

\* The waiting of one call is over, or the call says something else; the flag of its operation may go with it.
LEMMA SteadySet ==
  ASSUME NEW STATE O, NEW STATE L, NEW STATE free, NEW STATE S, NEW STATE T, Steady(net, O, L, free, S), NEW i \in DOMAIN net.calls,
         NEW d, NEW W, d \in Records(W), d.op = net.calls[i].op, d.then = net.calls[i].then \/ d.then = "",
         NEW D, \/ D = {} /\ S \subseteq T /\ d.standing = net.calls[i].standing
                \/ D = {d.op} /\ d.standing = "stale" /\ Waits(net.calls[i]) /\ Leaves(net.calls[i], free, S, T)
  PROVE Steady([calls |-> [net.calls EXCEPT ![i] = d], busy |-> net.busy \ D], O, L, free, T)
<1>1. PICK V0 : None \in V0 /\ net \in OrderlyNets(V0, O, L, free, S)
  BY DEF Steady
<1> DEFINE V == V0 \cup W
           R == Records(V)
           calls == [net.calls EXCEPT ![i] = d]
           m == [calls |-> calls, busy |-> net.busy \ D]
<1>2. /\ Orderly(net, O, L, free, S) /\ net.calls \in Seq(R) /\ net.busy \subseteq Flags /\ d \in R /\ None \in V
  <2>1. net \in Nets(Records(V)) /\ Orderly(net, O, L, free, S)
    BY <1>1, RecordsGrow DEF OrderlyNets
  <2>2. d \in R
    BY DEF Records
  <2> QED BY <1>1, <2>1, <2>2, NetIs
<1> HIDE DEF V, R
<1>3. calls \in Seq(R) /\ DOMAIN calls = DOMAIN net.calls
  <2>1. net.calls \in Seq(R) /\ d \in R
    BY <1>2
  <2>2. [net.calls EXCEPT ![i] = d] \in Seq(R)
    BY <2>1, SetIn
  <2> QED BY <2>2
<1>4. calls[i] = d /\ \A k \in DOMAIN net.calls : k # i => calls[k] = net.calls[k]
  BY <1>2
<1>5. m \in Nets(R)
  BY <1>2, <1>3 DEF Nets
<1>6. m.calls = calls /\ m.busy = net.busy \ D
  OBVIOUS
<1> HIDE DEF m, calls
<1>7. ASSUME NEW k \in DOMAIN net.calls
      PROVE /\ m.calls[k].op = net.calls[k].op
            /\ m.calls[k].then = net.calls[k].then \/ m.calls[k].then = ""
            /\ Waits(m.calls[k]) => Waits(net.calls[k])
            /\ Waits(net.calls[k]) /\ ~Waits(m.calls[k]) => net.calls[k].op \notin m.busy
            /\ Waits(m.calls[k]) /\ net.calls[k].op \in net.busy \ m.busy => net.calls[k].op \in free
            /\ Waits(m.calls[k]) /\ net.calls[k].op \in Special => net.calls[k].op \in T
  <2>1. CASE D = {} /\ S \subseteq T /\ d.standing = net.calls[i].standing
    <3>1. Waits(m.calls[k]) <=> Waits(net.calls[k])
      BY <1>4, <1>6, <2>1 DEF Waits
    <3> QED BY <1>2, <1>4, <1>6, <2>1, <3>1 DEF Orderly, Within
  <2>2. CASE D = {d.op} /\ d.standing = "stale" /\ Waits(net.calls[i]) /\ Leaves(net.calls[i], free, S, T)
    <3>1. ~Waits(d)
      BY <2>2 DEF Waits
    <3>2. CASE k = i
      BY <1>4, <1>6, <2>2, <3>1, <3>2
    <3>3. CASE k # i
      <4>1. m.calls[k] = net.calls[k]
        BY <1>4, <1>6, <3>3
      <4>2. Waits(net.calls[k]) /\ net.calls[k].op = net.calls[i].op => net.calls[k].op \in free
        BY <1>2, <2>2, <3>3 DEF Orderly, Alone
      <4>3. Waits(net.calls[k]) /\ net.calls[k].op \in Special => net.calls[k].op \in S
        BY <1>2 DEF Orderly, Within
      <4> QED BY <1>6, <2>2, <4>1, <4>2, <4>3 DEF Leaves
    <3> QED BY <3>2, <3>3
  <2> QED BY <2>1, <2>2
<1>8. DOMAIN m.calls = DOMAIN net.calls /\ m.busy \subseteq net.busy
  BY <1>3, <1>6
<1>9. Orderly(m, O, L, free, T)
  BY <1>2, <1>7, <1>8, OrderlyMap
<1> QED BY <1>2, <1>5, <1>9 DEF Steady, OrderlyNets, m, calls, R

LEMMA SteadyRemains ==
  ASSUME NEW STATE O, NEW STATE L, NEW STATE free, NEW STATE S, NEW STATE T, Steady(net, O, L, free, S), NEW i \in DOMAIN net.calls,
         Leaves(net.calls[i], free, S, T), net.calls[i].standing = "live", NEW n \in Remains(i)
  PROVE Steady(n, O, L, free, T)
<1>1. Waits(net.calls[i])
  BY DEF Waits
<1>2. Steady(Released(i), O, L, free, T)
  BY <1>1, SteadyReleased
<1>3. Steady(Adrift(i), O, L, free, T)
  <2>1. PICK V : None \in V /\ net \in Nets(Records(V))
    BY SteadyIs
  <2> DEFINE c == net.calls[i]
             d == [c EXCEPT !.standing = "stale"]
             D == {c.op}
  <2>2. c \in Records(V)
    BY <2>1, CallsOf
  <2>3. d \in Records(V) /\ d.op = c.op /\ d.then = c.then /\ d.standing = "stale"
    BY <2>2 DEF Records, Standings
  <2>4. Adrift(i) = [calls |-> [net.calls EXCEPT ![i] = d], busy |-> net.busy \ D]
    BY DEF Adrift
  <2>5. D = {d.op}
    BY <2>3
  <2> HIDE DEF d, D
  <2>6. Steady([calls |-> [net.calls EXCEPT ![i] = d], busy |-> net.busy \ D], O, L, free, T)
    BY <1>1, <2>3, <2>5, SteadySet
  <2> QED BY <2>4, <2>6
<1> QED BY <1>2, <1>3 DEF Remains

LEMMA SteadyHandled ==
  ASSUME NEW STATE O, NEW STATE L, NEW STATE free, NEW STATE S, Steady(net, O, L, free, S), NEW i \in DOMAIN net.calls,
         NEW status \in Outcomes, NEW answer, Handled(i, status, answer)
  PROVE Steady(net', O, L, free, S)
<1>1. PICK V : None \in V /\ net \in Nets(Records(V))
  BY SteadyIs
<1> DEFINE c == net.calls[i]
           W == V \cup {answer}
           d == [c EXCEPT !.status = status, !.answer = answer]
<1>2. c \in Records(V) /\ answer \in W
  BY <1>1, CallsOf
<1>3. d \in Records(W) /\ d.op = c.op /\ d.then = c.then /\ d.standing = c.standing
  BY <1>2 DEF Records, Outcomes
<1>4. net' = [calls |-> [net.calls EXCEPT ![i] = d], busy |-> net.busy \ {}]
  BY <1>1 DEF Nets, Handled
<1> HIDE DEF d
<1>5. Steady([calls |-> [net.calls EXCEPT ![i] = d], busy |-> net.busy \ {}], O, L, free, S)
  BY <1>3, SteadySet
<1> QED BY <1>4, <1>5

\* Every call is stale: nothing is waited for.
LEMMA SteadyStale ==
  ASSUME NEW V, None \in V, NEW STATE calls, calls \in Seq(Records(V)), NEW STATE busy, busy \subseteq Flags, NEW STATE O, busy \subseteq O,
         \A i \in DOMAIN calls : calls[i].then = "start" => calls[i].op \in {"bookings", "settings"}
  PROVE \A L, free, S : Steady([calls |-> Stale(calls), busy |-> busy], O, L, free, S)
<1> DEFINE R == Records(V)
           s == Stale(calls)
           m == [calls |-> s, busy |-> busy]
<1>1. \A c \in R : [c EXCEPT !.standing = "stale"] \in R
  BY DEF Records, Standings
<1>2. calls \in Seq(R)
  OBVIOUS
<1> HIDE DEF R
<1>3. s \in Seq(R) /\ DOMAIN s = DOMAIN calls
  BY <1>1, <1>2, StaleIn
<1>4. ASSUME NEW i \in DOMAIN calls PROVE s[i].op = calls[i].op /\ s[i].then = calls[i].then /\ ~Waits(s[i])
  <2>1. calls[i] \in R
    BY <1>2
  <2>2. s[i] = [calls[i] EXCEPT !.standing = "stale"]
    BY DEF Stale
  <2> QED BY <2>1, <2>2 DEF Records, R, Waits
<1> HIDE DEF s
<1>5. m \in Nets(R) /\ m.calls = s /\ m.busy = busy
  BY <1>3 DEF Nets
<1> HIDE DEF m
<1>6. \A L, free, S : Orderly(m, O, L, free, S)
  BY <1>3, <1>4, <1>5 DEF Orderly, Caused, Raised, Alone, Within, Onward
<1> QED BY <1>5, <1>6 DEF Steady, OrderlyNets, m, s, R

LEMMA SteadyStarted ==
  ASSUME NEW V, None \in V, NEW STATE calls, calls \in Seq(Records(V)), NEW STATE busy, busy \subseteq Flags, NEW STATE O, busy \ {"session"} \subseteq O,
         \A i \in DOMAIN calls : calls[i].then = "start" => calls[i].op \in {"bookings", "settings"},
         NEW STATE L, NEW STATE free, NEW STATE S, "start" \in S, NEW token
  PROVE Steady(Started([calls |-> calls, busy |-> busy], token), O, L, free, S)
<1> DEFINE up == busy \ {"session"}
           n == [calls |-> Stale(calls), busy |-> up]
           arg == IF token = "setup" THEN "bootstrap" ELSE "session"
<1>1. Steady(n, O, L, free, S)
  <2>1. up \subseteq Flags /\ up \subseteq O
    OBVIOUS
  <2> HIDE DEF up
  <2> QED BY <2>1, SteadyStale
<1>2. Started([calls |-> calls, busy |-> busy], token) = Begin(n, "start", arg, "")
  BY DEF Started
<1>3. \A i \in DOMAIN n.calls : Waits(n.calls[i]) => n.calls[i].op # "start"
  <2> SUFFICES ASSUME NEW i \in DOMAIN n.calls PROVE ~Waits(n.calls[i])
    OBVIOUS
  <2>1. i \in DOMAIN calls /\ n.calls[i] = [calls[i] EXCEPT !.standing = "stale"]
    BY DEF Stale
  <2>2. calls[i] \in Records(V)
    <3> HIDE DEF Records
    <3> QED BY <2>1
  <2> QED BY <2>1, <2>2 DEF Records, Waits
<1> HIDE DEF n, arg
<1>4. Steady(Begin(n, "start", arg, ""), O, L, free, S)
  BY <1>1, <1>3, SteadyBegin DEF Ops, Thens
<1> QED BY <1>2, <1>4

\* The end of a change of a booking, and the second reload of the availability.
LEMMA SteadyMutationEnds ==
  ASSUME NEW STATE n, NEW STATE O, NEW STATE L, NEW STATE free, NEW STATE S, Steady(n, O, L, free, S)
  PROVE Steady(MutationEnds(n), O, L, free, S)
<1>1. PICK V : None \in V /\ n \in OrderlyNets(V, O, L, free, S)
  BY DEF Steady
<1>2. n \in Nets(Records(V)) /\ Orderly(n, O, L, free, S)
  BY <1>1 DEF OrderlyNets
<1> DEFINE ops == {"bookings"}
<1>4. MutationEnds(n) = [calls |-> Superseded(n.calls, ops), busy |-> n.busy \ (ops \ {"bookings"})]
  <2>1. n.busy \ (ops \ {"bookings"}) = n.busy
    OBVIOUS
  <2>2. MutationEnds(n) = [calls |-> Superseded(n.calls, ops), busy |-> n.busy]
    BY <1>2, CallsAre DEF MutationEnds
  <2> QED BY <2>1, <2>2
<1> HIDE DEF ops
<1>5. [calls |-> Superseded(n.calls, ops), busy |-> n.busy \ (ops \ {"bookings"})] \in OrderlyNets(V, O, L, free, S)
  BY <1>2, OrderlySupersede
<1> QED BY <1>1, <1>4, <1>5 DEF Steady

LEMMA SteadyUnlocked ==
  ASSUME NEW STATE n, NEW STATE O, NEW STATE L, NEW STATE free, NEW STATE S, Steady(n, O, L, free, S), "saveSettings" \in free \/ "saveSettings" \notin S
  PROVE Steady(Unlocked(n), O, L, free, S)
<1>1. PICK V : None \in V /\ n \in OrderlyNets(V, O, L, free, S)
  BY DEF Steady
<1>2. n \in Nets(Records(V)) /\ Orderly(n, O, L, free, S)
  BY <1>1 DEF OrderlyNets
<1> DEFINE m == [calls |-> n.calls, busy |-> n.busy \ {"saveSettings"}]
<1>3. Unlocked(n) = m
  BY <1>2, BusyIs DEF Unlocked
<1>4. m \in Nets(Records(V)) /\ m.calls = n.calls /\ m.busy = n.busy \ {"saveSettings"}
  BY <1>2, NetIs DEF Nets
<1> HIDE DEF m
<1>5. Orderly(m, O, L, free, S)
  BY <1>2, <1>4 DEF Orderly, Caused, Raised, Alone, Within, Onward, Special
<1> QED BY <1>1, <1>3, <1>4, <1>5 DEF Steady, OrderlyNets

-----------------------------------------------------------------------------
(* What the page waits for                                                 *)

\* Two reloads of the availability that overlap are excepted.
Free == IF overlapped THEN {"saveSettings", "settings"} ELSE {}
\* When a start, a load or a save of the availability, or a new invitation may be waited for.
MayWait ==
  {op \in Special :
     /\ op = "start" => view = "loading"
     /\ op # "start" => view = "portal"
     /\ op = "settings" => overlapped \/ settings = None
     /\ op = "saveSettings" => overlapped \/ (settings # None /\ ~resettable)
     /\ op = "invite" => pendingRevoke = None}

\* The second inductive invariant: what is waited for is orderly, and settings are shown in the portal only.
OrderInv ==
  /\ Steady(net, orphaned, leaving, Free, MayWait)
  /\ settings # None => view = "portal"

\* What a step of the shell does to the calls and to what may be waited for.
ShellSteady ==
  \E T : /\ Steady(net', orphaned', leaving', Free, T)
         /\ \/ view' = view /\ T = MayWait
            \/ view' = "loading" /\ view # "portal" /\ T = {"start"}
            \/ view' = "portal" /\ view = "loading" /\ T = {"settings"}
            \/ view' = "entry" /\ view = "loading" /\ T = {}
            \/ view' \in {"loading", "entry"} /\ session'.role = "out" /\ T = {op \in {"start"} : view' = "loading"}

LEMMA FreeIs ==
  Free \cap Flags \subseteq {"saveSettings"} /\ Free \cap Loads = {} /\ "start" \notin Free
BY DEF Free, Flags, Loads

LEMMA SteadySame ==
  ASSUME OrderInv, net' = net, orphaned' = orphaned, leaving' = leaving
  PROVE Steady(net', orphaned', leaving', Free, MayWait)
BY DEF OrderInv

LEMMA StaysSteady ==
  ASSUME Steady(net', orphaned', leaving', Free, MayWait), view' = view
  PROVE ShellSteady
BY DEF ShellSteady

LEMMA SteadyTo ==
  ASSUME NEW STATE n, Steady(n, orphaned, leaving, Free, MayWait), net' = n, orphaned' = orphaned, leaving' = leaving
  PROVE Steady(net', orphaned', leaving', Free, MayWait)
OBVIOUS

LEMMA CallsHere ==
  ASSUME OrderInv
  PROVE \E V : /\ None \in V /\ net.calls \in Seq(Records(V)) /\ net.busy \subseteq Flags
               /\ \A i \in DOMAIN net.calls : net.calls[i].then = "start" => net.calls[i].op \in {"bookings", "settings"}
<1>1. PICK V : None \in V /\ net \in Nets(Records(V))
  BY SteadyIs DEF OrderInv
<1>2. Onward(net)
  BY SteadyIs DEF OrderInv, Orderly
<1> QED BY <1>1, <1>2, NetIs DEF Onward

LEMMA SignsOutSteady ==
  ASSUME NEW STATE n, NEW STATE O, NEW STATE L, NEW STATE free, NEW STATE S, Steady(n, O, L, free, S), NEW STATE s, s \in Sessions, SignsOut(s, n.calls)
  PROVE ShellSteady
<1>1. PICK V : None \in V /\ n \in Nets(Records(V))
  BY SteadyIs
<1>2. n.calls \in Seq(Records(V)) /\ \A i \in DOMAIN n.calls : n.calls[i].then = "start" => n.calls[i].op \in {"bookings", "settings"}
  BY <1>1, SteadyIs, NetIs DEF Orderly, Onward
<1>3. \A l, f, t : Steady([calls |-> Stale(n.calls), busy |-> {}], {}, l, f, t)
  BY <1>1, <1>2, SteadyStale
<1>4. /\ net' = [calls |-> Stale(n.calls), busy |-> {}] /\ orphaned' = {} /\ view' = "entry" /\ session'.role = "out"
  BY DEF SignsOut, Ended, Sessions
<1>5. PICK l, f : l = leaving' /\ f = Free
  OBVIOUS
<1>6. Steady(net', orphaned', leaving', Free, {})
  BY <1>3, <1>4, <1>5
<1> QED BY <1>4, <1>6 DEF ShellSteady

\* One lemma for each step of the shell.
LEMMA TryAgainSteady ==
  ASSUME OrderInv, TryAgain
  PROVE ShellSteady
<1>1. PICK V : /\ None \in V /\ net.calls \in Seq(Records(V)) /\ net.busy \subseteq Flags
               /\ \A i \in DOMAIN net.calls : net.calls[i].then = "start" => net.calls[i].op \in {"bookings", "settings"}
  BY CallsHere
<1>2. net' = Started([calls |-> net.calls, busy |-> net.busy], entry.token)
  BY DEF TryAgain, Started
<1>3. net'.busy = net.busy \ {"session"}
  BY <1>2 DEF Started, Begin, Flags, Supersedes, Ops, GoogleOps, EmailCommands
<1>4. PICK O : O = orphaned' /\ net.busy \ {"session"} \subseteq O
  BY <1>3 DEF TryAgain
<1>5. Steady(net', O, leaving, Free, {"start"})
  BY <1>1, <1>2, <1>4, SteadyStarted
<1> QED BY <1>4, <1>5 DEF TryAgain, ShellSteady

LEMMA LeaveSteady ==
  ASSUME CoreInv, OrderInv, LeaveAndReturn
  PROVE ShellSteady
<1>1. PICK V : /\ None \in V /\ net.calls \in Seq(Records(V)) /\ net.busy \subseteq Flags
               /\ \A i \in DOMAIN net.calls : net.calls[i].then = "start" => net.calls[i].op \in {"bookings", "settings"}
  BY CallsHere
<1>2. PICK e \in Entries : net' = Started([calls |-> net.calls, busy |-> {}], e.token)
  BY DEF LeaveAndReturn
<1>3. Steady(net', {}, FALSE, Free, {"start"})
  BY <1>1, <1>2, SteadyStarted
<1>4. orphaned' = {} /\ leaving' = FALSE /\ view' = "loading" /\ session'.role = "out"
  BY DEF LeaveAndReturn, Ended, CoreInv, Sessions
<1>5. {"start"} = {op \in {"start"} : view' = "loading"}
  BY <1>4
<1> QED BY <1>3, <1>4, <1>5 DEF ShellSteady

\* What is known of a call whose handler runs.
LEMMA SteadyHere ==
  ASSUME OrderInv
  PROVE Steady(net, orphaned, leaving, Free, MayWait)
BY DEF OrderInv

LEMMA LiveIs ==
  ASSUME OrderInv, NEW i \in DOMAIN net.calls, net.calls[i].standing = "live"
  PROVE /\ Waits(net.calls[i]) /\ net.calls[i].op \in Ops
        /\ net.calls[i].op \in Special => net.calls[i].op \in MayWait
        /\ net.busy \subseteq Flags
        /\ Leaves(net.calls[i], Free, MayWait, MayWait)
<1>1. Orderly(net, orphaned, leaving, Free, MayWait) /\ \E V : net \in Nets(Records(V))
  BY SteadyHere, SteadyIs
<1>2. Waits(net.calls[i])
  BY DEF Waits
<1>3. net.calls[i].op \in Special => net.calls[i].op \in MayWait
  BY <1>1, <1>2 DEF Orderly, Within
<1> QED BY <1>1, <1>2, <1>3, CallsOf DEF Leaves

LEMMA ReleasedSteady ==
  ASSUME OrderInv, NEW i \in DOMAIN net.calls, net.calls[i].standing = "live"
  PROVE Steady(Released(i), orphaned, leaving, Free, MayWait)
<1>1. Waits(net.calls[i]) /\ Leaves(net.calls[i], Free, MayWait, MayWait)
  BY LiveIs
<1> QED BY <1>1, SteadyHere, SteadyReleased

LEMMA StartAnsweredSteady ==
  ASSUME CoreInv, OrderInv, NEW i, StartAnswered(i)
  PROVE ShellSteady
<1> DEFINE s == net.calls[i].answer
           n == Without(i)
           call == [net.calls[i] EXCEPT !.then = "start"]
<1>1. s \in Sessions
  BY AnsweredIs DEF StartAnswered, Answered, Is, Told, AsksSession
<1>2. i \in DOMAIN net.calls /\ net.calls[i].standing = "live" /\ net.calls[i].op = "start"
  BY DEF StartAnswered, Answered, Is
<1>3. Waits(net.calls[i]) /\ "start" \in MayWait /\ net.calls[i].op \notin net.busy
  BY <1>2, LiveIs DEF Flags, Special
<1>4. view = "loading" /\ MayWait \subseteq {"start"}
  BY <1>3 DEF MayWait
<1>5. Leaves(net.calls[i], Free, MayWait, {})
  BY <1>2, <1>3, <1>4, FreeIs DEF Leaves
<1>6. Steady(n, orphaned, leaving, Free, {})
  BY <1>2, <1>3, <1>5, SteadyHere, SteadyWithout
<1>7. leaving' = leaving
  BY DEF StartAnswered
<1> HIDE DEF n
<1>8. CASE SignsOut(s, n.calls)
  <2> HIDE DEF s
  <2> QED BY <1>1, <1>6, <1>8, SignsOutSteady
<1>9. CASE view' = "entry" /\ Shows(s, n, call) /\ UNCHANGED orphaned
  <2> HIDE DEF s, call
  <2>1. Steady(net', orphaned, leaving, Free, {})
    BY <1>6, <1>9, FreeIs, SteadyShows
  <2> QED BY <1>4, <1>7, <1>9, <2>1 DEF ShellSteady
<1>10. CASE /\ view' = "portal" /\ UNCHANGED orphaned
            /\ LET starts(m, op) == IF MayBegin(n, s.role, op) THEN Begin(m, op, None, "start") ELSE m
               IN Shows(s, starts(starts(n, "bookings"), "settings"), call)
  <2> DEFINE starts(m, op) == IF MayBegin(n, s.role, op) THEN Begin(m, op, None, "start") ELSE m
             b == starts(n, "bookings")
  <2> HIDE DEF s
  <2>1. Steady(n, orphaned, leaving, Free, {"settings"})
    BY <1>6, SteadyIs DEF Steady, OrderlyNets, Orderly, Within
  <2>2. Steady(b, orphaned, leaving, Free, {})
    <3>1. CASE MayBegin(n, s.role, "bookings")
      <4>1. n.busy \cap Excludes["bookings"] = {} /\ "bookings" \in Flags \ Free /\ "bookings" \in Ops /\ "bookings" \notin Special
        BY <3>1, FreeIs DEF MayBegin, Flags, Ops, Loads, Special
      <4>2. Steady(Begin(n, "bookings", None, "start"), orphaned, leaving, Free, {})
        BY <1>6, <4>1, SteadyBegin DEF Thens
      <4> QED BY <3>1, <4>2
    <3>2. CASE ~MayBegin(n, s.role, "bookings")
      BY <1>6, <3>2
    <3> QED BY <3>1, <3>2
  <2> HIDE DEF b
  <2>3. \A k \in DOMAIN b.calls : Waits(b.calls[k]) => b.calls[k].op # "settings"
    BY <2>2, SteadyIs DEF Orderly, Within, Special
  <2>4. Steady(Begin(b, "settings", None, "start"), orphaned, leaving, Free, {"settings"})
    <3>1. "settings" \in Ops /\ "start" \in Thens
      BY DEF Ops, Thens
    <3> QED BY <2>2, <2>3, <3>1, SteadyBegin
  <2>5. Steady(b, orphaned, leaving, Free, {"settings"})
    BY <2>2 DEF Steady, OrderlyNets, Orderly, Within
  <2>6. Steady(starts(b, "settings"), orphaned, leaving, Free, {"settings"})
    BY <2>4, <2>5
  <2>7. Shows(s, starts(b, "settings"), call)
    BY <1>10 DEF b
  <2> DEFINE m == starts(b, "settings")
  <2>8. Steady(m, orphaned, leaving, Free, {"settings"}) /\ Shows(s, m, call)
    BY <2>6, <2>7
  <2> HIDE DEF m, call
  <2>9. Steady(net', orphaned, leaving, Free, {"settings"})
    BY <2>8, FreeIs, SteadyShows
  <2> QED BY <1>4, <1>7, <1>10, <2>9 DEF ShellSteady
<1> QED BY <1>8, <1>9, <1>10 DEF StartAnswered, n

LEMMA StartFailsSteady ==
  ASSUME CoreInv, OrderInv, NEW i, StartFails(i)
  PROVE ShellSteady
<1>1. i \in DOMAIN net.calls /\ net.calls[i].standing = "live"
  BY DEF StartFails, Failing, Is
<1>2. PICK n \in Remains(i) : SignsOut(session, n.calls)
  BY DEF StartFails
<1>3. Steady(n, orphaned, leaving, Free, MayWait)
  BY <1>1, LiveIs, SteadyHere, SteadyRemains
<1> QED BY <1>2, <1>3, SignsOutSteady DEF CoreInv

LEMMA SessionAnsweredSteady ==
  ASSUME CoreInv, OrderInv, NEW i, SessionAnswered(i)
  PROVE ShellSteady
<1> DEFINE s == net.calls[i].answer
           n == Released(i)
<1>1. Steady(n, orphaned, leaving, Free, MayWait)
  BY ReleasedSteady DEF SessionAnswered, Answered, Is
<1> HIDE DEF n, s
<1>2. CASE SignsOut(session, n.calls)
  BY <1>1, <1>2, SignsOutSteady DEF CoreInv
<1>3. CASE Shows(s, n, net.calls[i]) /\ UNCHANGED <<view, orphaned, leaving>>
  <2>1. Steady(net', orphaned, leaving, Free, MayWait)
    BY <1>1, <1>3, FreeIs, SteadyShows
  <2> QED BY <1>3, <2>1 DEF ShellSteady
<1> QED BY <1>2, <1>3 DEF SessionAnswered, s, n

\* A call ends, and a load may follow.
LEMMA EndsSteady ==
  ASSUME OrderInv, NEW STATE n, Steady(n, orphaned, leaving, Free, MayWait), NEW STATE call, NEW STATE role,
         Ends(n, role, activePanel, call), orphaned' = orphaned, leaving' = leaving
  PROVE Steady(net', orphaned', leaving', Free, MayWait)
<1>1. Steady(net', orphaned, leaving, Free, MayWait)
  BY FreeIs, SteadyEnds
<1> QED BY <1>1

LEMMA SessionFailsSteady ==
  ASSUME OrderInv, NEW i, SessionFails(i)
  PROVE ShellSteady
<1>1. Steady(Released(i), orphaned, leaving, Free, MayWait)
  BY ReleasedSteady DEF SessionFails, Failing, Is
<1>2. Steady(net', orphaned', leaving', Free, MayWait)
  BY <1>1, EndsSteady DEF SessionFails
<1> QED BY <1>2, StaysSteady DEF SessionFails

LEMMA DeniedSteady ==
  ASSUME CoreInv, OrderInv, NEW i, Denied(i)
  PROVE ShellSteady
<1>1. i \in DOMAIN net.calls /\ net.calls[i].standing # "stale"
  BY DEF Denied
<1>2. SignsOut(session, Released(i).calls) /\ SignsOut(session, Without(i).calls)
  <2>1. \E V : net \in Nets(Records(V))
    BY SteadyHere, SteadyIs
  <2> QED BY <2>1, CallsAre DEF Denied, Released, Without
<1>3. CASE Waits(net.calls[i])
  <2>1. Steady(Released(i), orphaned, leaving, Free, MayWait)
    BY <1>1, <1>3, SteadyHere, SteadyReleased DEF Leaves
  <2> QED BY <1>2, <2>1, SignsOutSteady DEF CoreInv
<1>4. CASE ~Waits(net.calls[i])
  <2>1. Steady(Without(i), orphaned, leaving, Free, MayWait)
    BY <1>1, <1>4, SteadyHere, SteadyWithout DEF Leaves
  <2> QED BY <1>2, <2>1, SignsOutSteady DEF CoreInv
<1> QED BY <1>3, <1>4

LEMMA DroppedSteady ==
  ASSUME OrderInv, NEW i, Dropped(i)
  PROVE ShellSteady
<1>1. i \in DOMAIN net.calls
  BY DEF Dropped
<1>2. CASE net.calls[i].standing = "stale" /\ net' = Without(i)
  <2>1. ~Waits(net.calls[i])
    BY <1>2 DEF Waits
  <2>2. Steady(Without(i), orphaned, leaving, Free, MayWait)
    BY <1>1, <2>1, SteadyHere, SteadyWithout DEF Leaves
  <2> QED BY <1>2, <2>2, StaysSteady DEF Dropped
<1>3. CASE /\ net.calls[i].standing = "superseded"
           /\ Ends(IF net.calls[i].op = "bookings" THEN Released(i) ELSE Without(i), session.role, activePanel, net.calls[i])
  <2> DEFINE n == IF net.calls[i].op = "bookings" THEN Released(i) ELSE Without(i)
  <2>1. Steady(n, orphaned, leaving, Free, MayWait)
    <3>1. CASE net.calls[i].op = "bookings"
      <4>1. Waits(net.calls[i])
        BY <1>3, <3>1 DEF Waits
      <4>2. Steady(Released(i), orphaned, leaving, Free, MayWait)
        BY <1>1, <4>1, SteadyHere, SteadyReleased DEF Leaves
      <4> QED BY <3>1, <4>2
    <3>2. CASE net.calls[i].op # "bookings"
      <4>1. ~Waits(net.calls[i])
        BY <1>3, <3>2 DEF Waits
      <4>2. Steady(Without(i), orphaned, leaving, Free, MayWait)
        BY <1>1, <4>1, SteadyHere, SteadyWithout DEF Leaves
      <4> QED BY <3>2, <4>2
    <3> QED BY <3>1, <3>2
  <2>2. Ends(n, session.role, activePanel, net.calls[i])
    BY <1>3
  <2> HIDE DEF n
  <2>3. Steady(net', orphaned', leaving', Free, MayWait)
    BY <2>1, <2>2, EndsSteady DEF Dropped
  <2> QED BY <2>3, StaysSteady DEF Dropped
<1> QED BY <1>2, <1>3 DEF Dropped

\* To know that the browser is leaving takes nothing away.
LEMMA SteadyLeaving ==
  ASSUME NEW STATE n, NEW STATE O, NEW STATE L, NEW STATE free, NEW STATE S, Steady(n, O, L, free, S)
  PROVE Steady(n, O, TRUE, free, S)
<1>1. PICK V : None \in V /\ n \in OrderlyNets(V, O, L, free, S)
  BY DEF Steady
<1>2. n \in Nets(Records(V)) /\ Orderly(n, O, L, free, S)
  BY <1>1 DEF OrderlyNets
<1>3. Orderly(n, O, TRUE, free, S)
  BY <1>2 DEF Orderly, Caused
<1> QED BY <1>1, <1>2, <1>3 DEF Steady, OrderlyNets

LEMMA BeginSteady ==
  ASSUME OrderInv, NEW op \in Flags \ Special, NEW arg, NEW then \in {"", "poll"}, NEW STATE role, MayBegin(net, role, op)
  PROVE Steady(Begin(net, op, arg, then), orphaned, leaving, Free, MayWait)
<1>1. op \in Ops /\ op \in Flags \ Free /\ net.busy \cap Excludes[op] = {}
  BY DEF Flags, Free, Special, MayBegin
<1>2. then \in Thens /\ then # "start"
  BY DEF Thens
<1> QED BY <1>1, <1>2, SteadyHere, SteadyBegin

\* The orders that the owner begins outside the panels.
LEMMA OrdersSteady ==
  ASSUME OrderInv, OpenGoogle \/ Configure \/ Disconnect \/ Logout
  PROVE ShellSteady
<1>1. PICK op, arg : op \in {"google", "configure", "disconnect", "logout"} /\ MayBegin(net, session.role, op) /\ net' = Begin(net, op, arg, "")
  BY Zenon DEF OpenGoogle, Configure, Disconnect, Logout
<1>2. op \in Flags \ Special
  BY <1>1 DEF Flags, Ops, GoogleOps, Special
<1>3. Steady(Begin(net, op, arg, ""), orphaned, leaving, Free, MayWait)
  BY <1>1, <1>2, BeginSteady
<1>4. view' = view /\ orphaned' = orphaned /\ leaving' = leaving
  BY DEF OpenGoogle, Configure, Disconnect, Logout
<1> QED BY <1>1, <1>3, <1>4, StaysSteady

LEMMA GoogleOpenedSteady ==
  ASSUME OrderInv, NEW i, GoogleOpened(i)
  PROVE ShellSteady
<1>1. i \in DOMAIN net.calls /\ net.calls[i].standing = "live" /\ net.calls[i].op = "google"
  BY DEF GoogleOpened, Answered, Is
<1>2. Leaves(net.calls[i], Free, MayWait, MayWait)
  BY DEF Leaves
<1>3. PICK L : L = leaving' /\ L
  BY DEF GoogleOpened
<1>4. Steady(net, orphaned, TRUE, Free, MayWait)
  BY SteadyHere, SteadyLeaving
<1>5. Steady(Without(i), orphaned, TRUE, Free, MayWait)
  BY <1>1, <1>2, <1>4, SteadyWithout
<1>6. net' = Without(i) /\ leaving' = TRUE /\ orphaned' = orphaned /\ view' = view
  BY DEF GoogleOpened
<1> QED BY <1>5, <1>6, StaysSteady

LEMMA GoogleGoesOnSteady ==
  ASSUME OrderInv, NEW i, NEW op, GoogleGoesOn(i, op)
  PROVE ShellSteady
<1> DEFINE d == Call(op, NextStage[net.calls[i].arg], "")
<1>1. i \in DOMAIN net.calls /\ net.calls[i].op = op /\ net.calls[i].standing = "live"
  BY DEF GoogleGoesOn, Answered, Is
<1>2. PICK V : None \in V /\ net \in Nets(Records(V))
  BY SteadyHere, SteadyIs
<1>3. PICK stage : stage = NextStage[net.calls[i].arg]
  OBVIOUS
<1>4. op \in Ops
  BY <1>1, <1>2, CallsOf
<1>5. d \in Records({stage, None}) /\ d.op = op /\ d.then = "" /\ d.standing = "live"
  BY <1>3, <1>4 DEF Call, Records, Standings, Outcomes, Thens
<1>6. net' = [calls |-> [net.calls EXCEPT ![i] = d], busy |-> net.busy \ {}]
  BY <1>2 DEF Nets, GoogleGoesOn
<1> HIDE DEF d
<1>7. Steady([calls |-> [net.calls EXCEPT ![i] = d], busy |-> net.busy \ {}], orphaned, leaving, Free, MayWait)
  BY <1>1, <1>5, SteadyHere, SteadySet
<1>8. view' = view /\ orphaned' = orphaned /\ leaving' = leaving
  BY DEF GoogleGoesOn
<1> QED BY <1>6, <1>7, <1>8, StaysSteady

LEMMA GoogleCheckedSteady ==
  ASSUME CoreInv, OrderInv, NEW i, NEW op, NEW loaded, GoogleChecked(i, op, loaded)
  PROVE ShellSteady
<1> DEFINE s == net.calls[i].answer
           n == Released(i)
           m == IF op = "disconnect" /\ loaded THEN Load(n, s.role, "emails") ELSE n
<1>1. Steady(n, orphaned, leaving, Free, MayWait)
  BY ReleasedSteady DEF GoogleChecked, Answered, Is
<1>2. Steady(m, orphaned, leaving, Free, MayWait)
  <2> HIDE DEF n, s
  <2>1. Steady(Load(n, s.role, "emails"), orphaned, leaving, Free, MayWait)
    BY <1>1, FreeIs, SteadyLoad DEF Loads
  <2> QED BY <1>1, <2>1
<1>3. \/ SignsOut(session, n.calls)
      \/ Shows(s, m, net.calls[i]) /\ UNCHANGED <<view, orphaned>>
  BY DEF GoogleChecked
<1>4. leaving' = leaving
  BY DEF GoogleChecked
<1> HIDE DEF n, m, s
<1>5. CASE SignsOut(session, n.calls)
  BY <1>1, <1>5, SignsOutSteady DEF CoreInv
<1>6. CASE Shows(s, m, net.calls[i]) /\ UNCHANGED <<view, orphaned>>
  <2>1. Steady(net', orphaned, leaving, Free, MayWait)
    BY <1>2, <1>6, FreeIs, SteadyShows
  <2> QED BY <1>4, <1>6, <2>1, StaysSteady
<1> QED BY <1>3, <1>5, <1>6

LEMMA LogoutAnsweredSteady ==
  ASSUME CoreInv, OrderInv, NEW i, LogoutAnswered(i)
  PROVE ShellSteady
<1>1. Steady(Released(i), orphaned, leaving, Free, MayWait)
  BY ReleasedSteady DEF LogoutAnswered, Answered, Is
<1> QED BY <1>1, SignsOutSteady DEF CoreInv, LogoutAnswered

LEMMA RemainsSteady ==
  ASSUME OrderInv, NEW i, NEW op, Failing(i, op), NEW n \in Remains(i)
  PROVE Steady(n, orphaned, leaving, Free, MayWait)
<1>1. i \in DOMAIN net.calls /\ net.calls[i].standing = "live"
  BY DEF Failing, Is
<1> QED BY <1>1, LiveIs, SteadyHere, SteadyRemains

LEMMA ActionFailsSteady ==
  ASSUME OrderInv, NEW i, NEW op, ActionFails(i, op)
  PROVE ShellSteady
<1>1. PICK n \in Remains(i) : net' = n
  BY DEF ActionFails
<1>2. Steady(n, orphaned, leaving, Free, MayWait)
  BY RemainsSteady DEF ActionFails
<1> QED BY <1>1, <1>2, StaysSteady DEF ActionFails

LEMMA LoadSteady ==
  ASSUME NEW STATE n, Steady(n, orphaned, leaving, Free, MayWait), NEW op \in Loads
  PROVE Steady(Load(n, session.role, op), orphaned, leaving, Free, MayWait)
BY FreeIs, SteadyLoad

LEMMA SwitchSteady ==
  ASSUME OrderInv, Switch
  PROVE ShellSteady
<1>1. PICK panel \in part.panels : net' = Opened(net, session.role, panel)
  BY DEF Switch
<1>2. Steady(Opened(net, session.role, panel), orphaned, leaving, Free, MayWait)
  <2>1. PICK held : held = {}
    OBVIOUS
  <2> QED BY <2>1, FreeIs, SteadyHere, SteadyOpened
<1> QED BY <1>1, <1>2, StaysSteady DEF Switch

LEMMA RefreshSteady ==
  ASSUME OrderInv, Refresh
  PROVE ShellSteady
<1>1. \A op \in Loads : Steady(Load(net, session.role, op), orphaned, leaving, Free, MayWait)
  BY SteadyHere, LoadSteady
<1>2. Steady(Load(Load(net, session.role, "bookings"), session.role, "session"), orphaned, leaving, Free, MayWait)
  <2> DEFINE n == Load(net, session.role, "bookings")
  <2>1. Steady(n, orphaned, leaving, Free, MayWait)
    BY <1>1 DEF Loads
  <2> HIDE DEF n
  <2>2. Steady(Load(n, session.role, "session"), orphaned, leaving, Free, MayWait)
    BY <2>1, LoadSteady DEF Loads
  <2> QED BY <2>2 DEF n
<1>3. Steady(net', orphaned, leaving, Free, MayWait)
  BY <1>1, <1>2 DEF Refresh, Loads
<1> QED BY <1>3, StaysSteady DEF Refresh

LEMMA RefreshVisibleSteady ==
  ASSUME OrderInv, RefreshVisible, view' = view, orphaned' = orphaned, leaving' = leaving
  PROVE ShellSteady
<1>1. PICK held \in SUBSET (Lists \cap part.does) : net' = Visible(net, session.role, activePanel, held) \/ net' = net
  BY DEF RefreshVisible
<1>2. Steady(Visible(net, session.role, activePanel, held), orphaned, leaving, Free, MayWait)
  <2>1. PICK panel : panel = activePanel
    OBVIOUS
  <2> QED BY <2>1, FreeIs, SteadyHere, SteadyOpened
<1>3. Steady(net', orphaned, leaving, Free, MayWait)
  BY <1>1, <1>2, SteadyHere
<1> QED BY <1>3, StaysSteady

LEMMA PollFiresSteady ==
  ASSUME OrderInv, PollFires
  PROVE ShellSteady
<1>1. CASE MayBegin(net, session.role, "session") /\ net' = Begin(net, "session", None, "poll")
  <2>1. "session" \in Flags \ Special
    BY DEF Flags, Ops, Loads, Special
  <2>2. PICK arg : arg = None
    OBVIOUS
  <2>3. Steady(Begin(net, "session", arg, "poll"), orphaned, leaving, Free, MayWait)
    BY <1>1, <2>1, BeginSteady
  <2> QED BY <1>1, <2>2, <2>3, StaysSteady DEF PollFires
<1>2. CASE \E held \in SUBSET (Lists \cap part.does) : net' = PollGoesOn(net, session.role, activePanel, "session", held).net
  <2>1. PICK held \in SUBSET (Lists \cap part.does) : net' = PollGoesOn(net, session.role, activePanel, "session", held).net
    BY <1>2
  <2>2. Steady(PollGoesOn(net, session.role, activePanel, "session", held).net, orphaned, leaving, Free, MayWait)
    BY FreeIs, SteadyHere, SteadyPoll
  <2> QED BY <2>1, <2>2, StaysSteady DEF PollFires
<1> QED BY <1>1, <1>2 DEF PollFires

LEMMA HandledSteady ==
  ASSUME OrderInv, NEW i \in DOMAIN net.calls, NEW status \in Outcomes, NEW answer, Handled(i, status, answer)
  PROVE Steady(net', orphaned, leaving, Free, MayWait)
BY SteadyHere, SteadyHandled

LEMMA ServesSteady ==
  ASSUME OrderInv, NEW i, ServeDenied(i) \/ ServeForbidden(i) \/ ServeSession(i) \/ ServeBootstrap(i) \/ ServeGoogle(i)
  PROVE ShellSteady
<1>0. {"ok", "denied", "refused"} \subseteq Outcomes
  BY DEF Outcomes
<1>1. PICK status, answer : status \in Outcomes /\ Handled(i, status, answer)
  <2>1. CASE ServeDenied(i)
    BY <1>0, <2>1, Zenon DEF ServeDenied
  <2>2. CASE ServeForbidden(i)
    BY <1>0, <2>2, Zenon DEF ServeForbidden, Refuses
  <2>3. CASE ServeSession(i)
    BY <1>0, <2>3, Zenon DEF ServeSession, Replies
  <2>4. CASE ServeBootstrap(i)
    <3>1. PICK answer : Replies(i, answer) \/ Refuses(i)
      BY <2>4 DEF ServeBootstrap
    <3> QED BY <1>0, <3>1, Zenon DEF Replies, Refuses
  <2>5. CASE ServeGoogle(i)
    <3>1. Replies(i, None) \/ Refuses(i)
      BY <2>5 DEF ServeGoogle
    <3> QED BY <1>0, <3>1, Zenon DEF Replies, Refuses
  <2> QED BY <2>1, <2>2, <2>3, <2>4, <2>5
<1>2. i \in DOMAIN net.calls
  BY DEF ServeDenied, ServeForbidden, ServeSession, ServeBootstrap, ServeGoogle, Arrives, Is
<1>3. view' = view /\ orphaned' = orphaned /\ leaving' = leaving
  BY DEF ServeDenied, ServeForbidden, ServeSession, ServeBootstrap, ServeGoogle
<1>4. Steady(net', orphaned, leaving, Free, MayWait)
  BY <1>1, <1>2, HandledSteady
<1> QED BY <1>3, <1>4, StaysSteady

\* Every step of the shell keeps the calls orderly.
LEMMA ShellStepSteady ==
  ASSUME CoreInv, OrderInv, ShellStep
  PROVE ShellSteady
<1>1. CASE TryAgain \/ LeaveAndReturn
  BY <1>1, TryAgainSteady, LeaveSteady
<1>2. CASE OpenGoogle \/ Configure \/ Disconnect \/ Logout
  BY <1>2, OrdersSteady
<1>3. CASE Switch \/ Refresh \/ PollFires
  BY <1>3, SwitchSteady, RefreshSteady, PollFiresSteady
<1>4. CASE Focus \/ Show
  BY <1>4, RefreshVisibleSteady DEF Focus, Show
<1>5. CASE Hide \/ Regranted \/ ConnectionChanges
  BY <1>5, SteadySame, StaysSteady DEF Hide, Regranted, ConnectionChanges
<1>6. ASSUME NEW i \in DOMAIN net.calls,
             \/ StartAnswered(i) \/ StartFails(i) \/ SessionAnswered(i) \/ SessionFails(i) \/ Denied(i) \/ Dropped(i)
      PROVE ShellSteady
  BY <1>6, StartAnsweredSteady, StartFailsSteady, SessionAnsweredSteady, SessionFailsSteady, DeniedSteady, DroppedSteady
<1>7. ASSUME NEW i \in DOMAIN net.calls, NEW op, GoogleOpened(i) \/ GoogleGoesOn(i, op) \/ LogoutAnswered(i) \/ ActionFails(i, op)
      PROVE ShellSteady
  BY <1>7, GoogleOpenedSteady, GoogleGoesOnSteady, LogoutAnsweredSteady, ActionFailsSteady
<1>8. ASSUME NEW i \in DOMAIN net.calls, ServeDenied(i) \/ ServeForbidden(i) \/ ServeSession(i) \/ ServeBootstrap(i) \/ ServeGoogle(i)
      PROVE ShellSteady
  BY <1>8, ServesSteady
<1>9. CASE SessionNext
  BY <1>1, <1>2, <1>3, <1>4, <1>5, <1>6, <1>7, <1>8, <1>9 DEF SessionNext
<1>10. ASSUME NEW i \in DOMAIN net.calls, NEW op, GoogleChecked(i, op, email # None)
       PROVE ShellSteady
  <2>1. PICK loaded : loaded = (email # None)
    OBVIOUS
  <2>2. GoogleChecked(i, op, loaded)
    BY <1>10, <2>1
  <2> QED BY <2>2, GoogleCheckedSteady
<1> QED BY <1>9, <1>10 DEF ShellStep

\* What a step of a panel does to the calls.
PanelSteady == Steady(net', orphaned', leaving', Free, MayWait)

\* What a panel does: it begins an order, ends a call, or receives a reply.
LEMMA PanelBeginSteady ==
  ASSUME OrderInv, NEW op \in Flags \ Special, NEW arg, MayBegin(net, session.role, op), net' = Begin(net, op, arg, ""),
         orphaned' = orphaned, leaving' = leaving
  PROVE PanelSteady
BY BeginSteady DEF PanelSteady

LEMMA AnsweredSteady ==
  ASSUME OrderInv, NEW i, NEW op, Answered(i, op)
  PROVE Steady(Released(i), orphaned, leaving, Free, MayWait)
BY ReleasedSteady DEF Answered, Is

LEMMA PanelReleasedSteady ==
  ASSUME OrderInv, NEW i, NEW op, Answered(i, op), net' = Released(i), orphaned' = orphaned, leaving' = leaving
  PROVE PanelSteady
BY AnsweredSteady DEF PanelSteady

LEMMA PanelEndsSteady ==
  ASSUME OrderInv, NEW i, NEW op, Answered(i, op) \/ Failing(i, op), Ends(Released(i), session.role, activePanel, net.calls[i]),
         orphaned' = orphaned, leaving' = leaving
  PROVE PanelSteady
<1>1. Steady(Released(i), orphaned, leaving, Free, MayWait)
  BY ReleasedSteady DEF Answered, Failing, Is
<1> QED BY <1>1, EndsSteady DEF PanelSteady

LEMMA PanelFailsSteady ==
  ASSUME OrderInv, NEW i, NEW op, Failing(i, op), \E n \in Remains(i) : Ends(n, session.role, activePanel, net.calls[i]),
         orphaned' = orphaned, leaving' = leaving
  PROVE PanelSteady
<1>1. PICK n \in Remains(i) : Ends(n, session.role, activePanel, net.calls[i])
  OBVIOUS
<1>2. Steady(n, orphaned, leaving, Free, MayWait)
  BY RemainsSteady
<1> QED BY <1>1, <1>2, EndsSteady DEF PanelSteady

LEMMA PanelHandledSteady ==
  ASSUME OrderInv, NEW i, NEW op, Arrives(i, op), NEW answer, Replies(i, answer) \/ Refuses(i), orphaned' = orphaned, leaving' = leaving
  PROVE PanelSteady
<1>1. i \in DOMAIN net.calls
  BY DEF Arrives, Is
<1>2. PICK status, what : status \in Outcomes /\ Handled(i, status, what)
  BY DEF Replies, Refuses, Outcomes
<1> QED BY <1>1, <1>2, HandledSteady DEF PanelSteady

LEMMA PanelSameSteady ==
  ASSUME OrderInv, net' = net, orphaned' = orphaned, leaving' = leaving
  PROVE PanelSteady
BY SteadySame DEF PanelSteady

-----------------------------------------------------------------------------
\* Each panel keeps the calls orderly; the availability, which says what may be waited for, comes last.
LEMMA BookingsSteady ==
  ASSUME OrderInv, BookingsNext
  PROVE PanelSteady
<1>0. orphaned' = orphaned /\ leaving' = leaving
  BY DEF BookingsNext, OpenBooking, CloseBooking, EditBooking, Mutate, BookingChanges, MutateAnswered, MutateFails, BookingsAnswered,
         BookingsFails, ServeBookings, ServeMutate, shellVars, notShell
<1>1. CASE OpenBooking \/ CloseBooking \/ EditBooking \/ BookingChanges
  BY <1>1, PanelSameSteady DEF OpenBooking, CloseBooking, EditBooking, BookingChanges, shellVars
<1>2. CASE Mutate
  <2>1. PICK arg : net' = Begin(net, "mutate", arg, "")
    BY <1>2 DEF Mutate
  <2>2. "mutate" \in Flags \ Special /\ MayBegin(net, session.role, "mutate")
    BY <1>2 DEF Mutate, Flags, Ops, Special
  <2> QED BY <1>0, <2>1, <2>2, PanelBeginSteady
<1>3. ASSUME NEW i, MutateAnswered(i) PROVE PanelSteady
  <2>1. Steady(Released(i), orphaned, leaving, Free, MayWait) /\ net' = MutationEnds(Released(i))
    BY <1>3, AnsweredSteady DEF MutateAnswered
  <2> QED BY <1>0, <2>1, SteadyMutationEnds DEF PanelSteady
<1>4. ASSUME NEW i, MutateFails(i) PROVE PanelSteady
  <2>1. PICK n \in Remains(i) : net' = MutationEnds(n)
    BY <1>4 DEF MutateFails
  <2>2. Steady(n, orphaned, leaving, Free, MayWait)
    BY <1>4, RemainsSteady DEF MutateFails
  <2> QED BY <1>0, <2>1, <2>2, SteadyMutationEnds DEF PanelSteady
<1>5. ASSUME NEW i, BookingsAnswered(i) \/ BookingsFails(i) PROVE PanelSteady
  BY <1>0, <1>5, PanelEndsSteady DEF BookingsAnswered, BookingsFails
<1>6. ASSUME NEW i, ServeBookings(i) \/ ServeMutate(i) PROVE PanelSteady
  <2>1. PICK op : Arrives(i, op)
    BY <1>6 DEF ServeBookings, ServeMutate
  <2>2. PICK answer : Replies(i, answer) \/ Refuses(i)
    BY <1>6 DEF ServeBookings, ServeMutate
  <2> QED BY <1>0, <2>1, <2>2, PanelHandledSteady
<1> QED BY <1>1, <1>2, <1>3, <1>4, <1>5, <1>6 DEF BookingsNext

\* A new invitation ends the confirmation of a revocation, and holds back the next.
AccessSteadily ==
  \E T : /\ Steady(net', orphaned', leaving', Free, T) /\ T \subseteq MayWait \cup {"invite"}
         /\ "invite" \in T => view = "portal" /\ pendingRevoke' = None

LEMMA AccessSteadyTo ==
  ASSUME PanelSteady, pendingRevoke' \in {pendingRevoke, None}
  PROVE AccessSteadily
<1>1. "invite" \in MayWait => view = "portal" /\ pendingRevoke = None
  BY DEF MayWait
<1> QED BY <1>1 DEF PanelSteady, AccessSteadily

LEMMA CreateInvitationSteady ==
  ASSUME OrderInv, CreateInvitation
  PROVE AccessSteadily
<1>1. PICK arg : MayBegin(net, session.role, "invite") /\ net' = Begin(net, "invite", arg, "")
  BY DEF CreateInvitation
<1> DEFINE T == MayWait \cup {"invite"}
<1>2. net.busy \cap Excludes["invite"] = {} /\ "invite" \in Flags \ Free /\ "invite" \in Ops /\ "" \in Thens /\ MayWait \subseteq T /\ "invite" \in T
  BY <1>1 DEF MayBegin, Flags, Ops, AccessOps, Free, Thens
<1> HIDE DEF T
<1>3. Steady(Begin(net, "invite", arg, ""), orphaned, leaving, Free, T)
  BY <1>2, SteadyHere, SteadyBegin
<1>4. orphaned' = orphaned /\ leaving' = leaving /\ view = "portal" /\ pendingRevoke' = None
  BY DEF CreateInvitation, InPanel, quiet, others
<1> QED BY <1>1, <1>3, <1>4 DEF T, AccessSteadily

LEMMA AskRevokeSteady ==
  ASSUME OrderInv, AskRevoke
  PROVE AccessSteadily
<1> DEFINE T == MayWait \ {"invite"}
<1>1. "invite" \notin net.busy
  BY DEF AskRevoke, Excludes
<1>2. PICK V : None \in V /\ net \in OrderlyNets(V, orphaned, leaving, Free, MayWait)
  BY SteadyHere DEF Steady
<1>3. net \in Nets(Records(V)) /\ Orderly(net, orphaned, leaving, Free, MayWait)
  BY <1>2 DEF OrderlyNets
<1>4. \A i \in DOMAIN net.calls : Waits(net.calls[i]) => net.calls[i].op # "invite"
  BY <1>1, <1>3 DEF Orderly, Raised, Flags, Ops, AccessOps, Free
<1>5. Orderly(net, orphaned, leaving, Free, T)
  BY <1>3, <1>4 DEF Orderly, Within
<1>6. net' = net /\ orphaned' = orphaned /\ leaving' = leaving
  BY DEF AskRevoke, shellVars
<1> QED BY <1>2, <1>3, <1>5, <1>6 DEF Steady, OrderlyNets, AccessSteadily

LEMMA AccessSteady ==
  ASSUME OrderInv, AccessNext
  PROVE AccessSteadily
<1>0. orphaned' = orphaned /\ leaving' = leaving
  BY DEF AccessNext, CreateInvitation, AskRevoke, HideLink, RevokeInvitation, AskRemove, RemoveMember, DirectoryChanges, InvitationCreated,
         InvitationRevoked, InvitationsAnswered, MemberRemoved, MembersAnswered, AccessFails, ServeInvitations, ServeMembers, shellVars, others, quiet
<1>1. CASE HideLink \/ AskRemove \/ DirectoryChanges
  <2>1. PanelSteady
    BY <1>1, PanelSameSteady DEF HideLink, AskRemove, DirectoryChanges, shellVars
  <2> QED BY <1>1, <2>1, AccessSteadyTo DEF HideLink, AskRemove, DirectoryChanges, invitationVars
<1>2. CASE RevokeInvitation \/ RemoveMember
  <2>1. PICK op, arg : op \in {"revoke", "remove"} /\ MayBegin(net, session.role, op) /\ net' = Begin(net, op, arg, "")
    BY <1>2, Zenon DEF RevokeInvitation, RemoveMember
  <2>2. op \in Flags \ Special
    BY <2>1 DEF Flags, Ops, AccessOps, Special
  <2>3. PanelSteady
    BY <1>0, <2>1, <2>2, PanelBeginSteady
  <2> QED BY <1>2, <2>3, AccessSteadyTo DEF RevokeInvitation, RemoveMember, accessVars, invitationVars
<1>3. ASSUME NEW i, InvitationCreated(i) \/ InvitationRevoked(i) \/ MemberRemoved(i) PROVE AccessSteadily
  <2>1. PanelSteady
    BY <1>0, <1>3, PanelReleasedSteady DEF InvitationCreated, InvitationRevoked, MemberRemoved
  <2>2. pendingRevoke' \in {pendingRevoke, None}
    BY <1>3 DEF InvitationCreated, InvitationRevoked, MemberRemoved, invitationVars, Keep
  <2> QED BY <2>1, <2>2, AccessSteadyTo
<1>4. ASSUME NEW i, InvitationsAnswered(i) \/ MembersAnswered(i) PROVE AccessSteadily
  <2>1. PanelSteady
    BY <1>0, <1>4, PanelEndsSteady DEF InvitationsAnswered, MembersAnswered
  <2>2. pendingRevoke' \in {pendingRevoke, None}
    BY <1>4 DEF InvitationsAnswered, MembersAnswered, invitationVars, Keep
  <2> QED BY <2>1, <2>2, AccessSteadyTo
<1>5. ASSUME NEW i, NEW op, AccessFails(i, op) PROVE AccessSteadily
  <2>1. PanelSteady
    BY <1>0, <1>5, PanelFailsSteady DEF AccessFails
  <2> QED BY <1>5, <2>1, AccessSteadyTo DEF AccessFails, accessVars, invitationVars
<1>6. ASSUME NEW i, ServeInvitations(i) \/ ServeMembers(i) PROVE AccessSteadily
  <2>1. PICK op : Arrives(i, op)
    BY <1>6 DEF ServeInvitations, ServeMembers
  <2>2. PICK answer : Replies(i, answer) \/ Refuses(i)
    BY <1>6 DEF ServeInvitations, ServeMembers
  <2>3. PanelSteady
    BY <1>0, <2>1, <2>2, PanelHandledSteady
  <2> QED BY <1>6, <2>3, AccessSteadyTo DEF ServeInvitations, ServeMembers, invitationVars
<1> QED BY <1>1, <1>2, <1>3, <1>4, <1>5, <1>6, CreateInvitationSteady, AskRevokeSteady DEF AccessNext

LEMMA EmailsSteady ==
  ASSUME OrderInv, EmailsNext
  PROVE PanelSteady
<1>0. orphaned' = orphaned
  BY DEF EmailsNext, EditEmail, DiscardEmail, SaveEmail, ConnectEmail, AskEmail, EmailCommand, MailChanges, EmailSaved, EmailConsentOpened,
         EmailCommanded, EmailsAnswered, EmailFails, ServeEmails, shellVars, otherVars
<1>1. CASE EditEmail \/ DiscardEmail \/ AskEmail \/ MailChanges
  BY <1>1, PanelSameSteady DEF EditEmail, DiscardEmail, AskEmail, MailChanges, shellVars
<1>2. CASE SaveEmail \/ ConnectEmail \/ EmailCommand
  <2>1. PICK op, arg : op \in EmailCommands /\ MayBegin(net, session.role, op) /\ net' = Begin(net, op, arg, "")
    BY <1>2, Zenon DEF SaveEmail, ConnectEmail, EmailCommand, EmailCommands
  <2>2. op \in Flags \ Special
    BY <2>1 DEF Flags, Ops, EmailOps, EmailCommands, Special
  <2>3. leaving' = leaving
    BY <1>2 DEF SaveEmail, ConnectEmail, EmailCommand
  <2> QED BY <1>0, <2>1, <2>2, <2>3, PanelBeginSteady
<1>3. ASSUME NEW i, EmailSaved(i) PROVE PanelSteady
  BY <1>0, <1>3, PanelReleasedSteady DEF EmailSaved
<1>4. ASSUME NEW i, EmailConsentOpened(i) PROVE PanelSteady
  <2>1. i \in DOMAIN net.calls /\ net.calls[i].standing = "live" /\ net.calls[i].op = "emailConnect"
    BY <1>4 DEF EmailConsentOpened, Answered, Is
  <2>2. Leaves(net.calls[i], Free, MayWait, MayWait)
    BY DEF Leaves
  <2>3. Steady(net, orphaned, TRUE, Free, MayWait)
    BY SteadyHere, SteadyLeaving
  <2>4. Steady(Without(i), orphaned, TRUE, Free, MayWait)
    BY <2>1, <2>2, <2>3, SteadyWithout
  <2>5. net' = Without(i) /\ leaving' = TRUE
    BY <1>4 DEF EmailConsentOpened
  <2> QED BY <1>0, <2>4, <2>5 DEF PanelSteady
<1>5. ASSUME NEW i, EmailCommanded(i) PROVE PanelSteady
  <2> DEFINE n == Released(i)
  <2>1. Steady(n, orphaned, leaving, Free, MayWait) /\ net' = Load(n, session.role, "emails") /\ leaving' = leaving
    BY <1>5, AnsweredSteady DEF EmailCommanded
  <2> HIDE DEF n
  <2>2. Steady(Load(n, session.role, "emails"), orphaned, leaving, Free, MayWait)
    BY <2>1, LoadSteady DEF Loads
  <2> QED BY <1>0, <2>1, <2>2 DEF PanelSteady
<1>6. ASSUME NEW i, EmailsAnswered(i) PROVE PanelSteady
  BY <1>0, <1>6, PanelEndsSteady DEF EmailsAnswered
<1>7. ASSUME NEW i, NEW op, EmailFails(i, op) PROVE PanelSteady
  BY <1>0, <1>7, PanelFailsSteady DEF EmailFails
<1>8. ASSUME NEW i, ServeEmails(i) PROVE PanelSteady
  <2>1. PICK op : Arrives(i, op)
    BY <1>8 DEF ServeEmails
  <2>2. PICK answer : Replies(i, answer) \/ Refuses(i)
    BY <1>8, Zenon DEF ServeEmails
  <2>3. leaving' = leaving
    BY <1>8 DEF ServeEmails
  <2> QED BY <1>0, <2>1, <2>2, <2>3, PanelHandledSteady
<1> QED BY <1>1, <1>2, <1>3, <1>4, <1>5, <1>6, <1>7, <1>8 DEF EmailsNext

-----------------------------------------------------------------------------
(* The availability, and the whole page                                    *)

\* More may be excepted, and more may be waited for.
LEMMA SteadyMore ==
  ASSUME NEW n, NEW O, NEW L, NEW free, NEW S, Steady(n, O, L, free, S), NEW more, NEW T, S \subseteq T,
         free \subseteq more \/ S \cap {"settings", "saveSettings"} = {}, free \subseteq {"settings", "saveSettings"}
  PROVE Steady(n, O, L, more, T)
<1>1. PICK V : None \in V /\ n \in OrderlyNets(V, O, L, free, S)
  BY DEF Steady
<1>2. n \in Nets(Records(V)) /\ Orderly(n, O, L, free, S)
  BY <1>1 DEF OrderlyNets
<1>3. \A i \in DOMAIN n.calls : Waits(n.calls[i]) /\ n.calls[i].op \in free => n.calls[i].op \in more
  BY <1>2 DEF Orderly, Within, Special
<1>4. Raised(n, more)
  BY <1>2, <1>3 DEF Orderly, Raised
<1>5. Alone(n, more)
  BY <1>2, <1>3 DEF Orderly, Alone
<1>6. Within(n, T)
  BY <1>2 DEF Orderly, Within
<1>7. Orderly(n, O, L, more, T)
  BY <1>2, <1>4, <1>5, <1>6 DEF Orderly
<1> QED BY <1>1, <1>2, <1>7 DEF Steady, OrderlyNets

\* What the present step leaves, when the availability is reloaded without an overlap.
LEMMA OrderTo ==
  ASSUME NEW free, NEW S, Steady(net', orphaned', leaving', free, S), S \subseteq MayWait', free \subseteq {"settings", "saveSettings"},
         free \subseteq Free' \/ S \cap {"settings", "saveSettings"} = {}, settings' # None => view' = "portal"
  PROVE OrderInv'
<1>1. PICK more, T : more = Free' /\ T = MayWait'
  OBVIOUS
<1>2. Steady(net', orphaned', leaving', more, T)
  BY <1>1, SteadyMore
<1> QED BY <1>1, <1>2 DEF OrderInv

\* What the steps of the shell make of the availability: see SettingsFollow.
LEMMA ShellOrder ==
  ASSUME SideInv, SettingsInv, OrderInv, ShellSteady, SettingsFollow, SideInv', session' \in Sessions, pendingRevoke' \in {pendingRevoke, None}
  PROVE OrderInv'
<1>0. Free \subseteq {"settings", "saveSettings"}
  BY DEF Free
<1>1. settings' # None => session'.role \in Authenticated /\ settings' = settings /\ view = "portal"
  BY DEF SettingsFollow, OrderInv
<1>2. PICK T : /\ Steady(net', orphaned', leaving', Free, T)
               /\ \/ view' = view /\ T = MayWait
                  \/ view' = "loading" /\ view # "portal" /\ T = {"start"}
                  \/ view' = "portal" /\ view = "loading" /\ T = {"settings"}
                  \/ view' = "entry" /\ view = "loading" /\ T = {}
                  \/ view' \in {"loading", "entry"} /\ session'.role = "out" /\ T = {op \in {"start"} : view' = "loading"}
  BY DEF ShellSteady
<1>3. CASE view' = view /\ T = MayWait
  <2>1. CASE view = "portal"
    <3>1. session'.role \in Authenticated
      BY <1>3, <2>1 DEF SideInv, Sessions
    <3>2. (overlapped' <=> overlapped) /\ settings' = settings /\ resettable' = resettable
      BY <1>3, <2>1, <3>1 DEF SettingsFollow
    <3>3. MayWait \subseteq MayWait' /\ Free' = Free
      BY <1>3, <3>2 DEF MayWait, Free
    <3> QED BY <1>0, <1>1, <1>2, <1>3, <2>1, <3>3, OrderTo
  <2>2. CASE view # "portal"
    <3>1. T \subseteq {op \in {"start"} : view = "loading"}
      BY <1>3, <2>2 DEF MayWait, Special
    <3>2. T \subseteq MayWait'
      BY <1>3, <3>1 DEF MayWait, Special
    <3> QED BY <1>0, <1>1, <1>2, <2>2, <3>1, <3>2, OrderTo
  <2> QED BY <2>1, <2>2
<1>4. CASE view' = "loading" /\ view # "portal" /\ T = {"start"}
  <2>1. T \subseteq MayWait'
    BY <1>4 DEF MayWait, Special
  <2> QED BY <1>0, <1>1, <1>2, <1>4, <2>1, OrderTo
<1>5. CASE view' = "portal" /\ view = "loading" /\ T = {"settings"}
  <2>1. settings' = None /\ Free' = Free
    BY <1>1, <1>5 DEF SettingsFollow, Free
  <2>2. T \subseteq MayWait'
    BY <1>5, <2>1 DEF MayWait, Special
  <2> QED BY <1>0, <1>2, <1>5, <2>1, <2>2, OrderTo
<1>6. CASE view' = "entry" /\ view = "loading" /\ T = {}
  BY <1>0, <1>1, <1>2, <1>6, OrderTo
<1>7. CASE view' \in {"loading", "entry"} /\ session'.role = "out" /\ T = {op \in {"start"} : view' = "loading"}
  <2>1. settings' = None
    BY <1>7 DEF SettingsFollow, Authenticated, Members
  <2>2. T \subseteq MayWait' /\ T \cap {"settings", "saveSettings"} = {}
    BY <1>7 DEF MayWait, Special
  <2> QED BY <1>0, <1>2, <2>1, <2>2, OrderTo
<1> QED BY <1>2, <1>3, <1>4, <1>5, <1>6, <1>7

LEMMA PanelOrder ==
  ASSUME SideInv, SettingsInv, OrderInv, PanelSteady, view' = view, SettingsFollow, SideInv', session' \in Sessions,
         pendingRevoke' \in {pendingRevoke, None}
  PROVE OrderInv'
<1>1. ShellSteady
  BY StaysSteady DEF PanelSteady
<1> QED BY <1>1, ShellOrder

-----------------------------------------------------------------------------
\* While nothing overlapped, the load or the save that is waited for is the only one of the two.
LEMMA OnlyWaits ==
  ASSUME OrderInv, NEW i \in DOMAIN net.calls, net.calls[i].standing = "live", net.calls[i].op \in {"settings", "saveSettings"}
  PROVE /\ view = "portal"
        /\ ~overlapped => MayWait \subseteq {"invite", net.calls[i].op} /\ Leaves(net.calls[i], Free, MayWait, MayWait \cap {"invite"})
<1>1. net.calls[i].op \in MayWait /\ Waits(net.calls[i])
  BY LiveIs DEF Special
<1>2. view = "portal"
  BY <1>1 DEF MayWait
<1>3. ASSUME ~overlapped PROVE MayWait \subseteq {"invite", net.calls[i].op} /\ Leaves(net.calls[i], Free, MayWait, MayWait \cap {"invite"})
  <2>1. MayWait \subseteq {"invite", net.calls[i].op}
    BY <1>1, <1>2, <1>3 DEF MayWait, Special
  <2>2. net.calls[i].op \notin Free
    BY <1>3 DEF Free
  <2> QED BY <1>1, <2>1, <2>2 DEF Leaves
<1> QED BY <1>2, <1>3

\* After the answer, or the failure, of a load or a save.
LEMMA AfterSettings ==
  ASSUME OrderInv, NEW i \in DOMAIN net.calls, net.calls[i].standing = "live", net.calls[i].op \in {"settings", "saveSettings"},
         view' = view, overlapped' = overlapped, resettable', pendingRevoke' \in {pendingRevoke, None},
         Steady(net', orphaned', leaving', Free, MayWait \cap (IF overlapped THEN Special ELSE {"invite"}))
  PROVE OrderInv'
<1>1. view = "portal"
  BY OnlyWaits
<1>2. Free' = Free /\ Free \subseteq {"settings", "saveSettings"}
  BY DEF Free
<1> DEFINE T == MayWait \cap (IF overlapped THEN Special ELSE {"invite"})
<1>3. T \subseteq MayWait'
  BY <1>1 DEF MayWait
<1>4. Steady(net', orphaned', leaving', Free, T)
  OBVIOUS
<1> HIDE DEF T
<1> QED BY <1>1, <1>2, <1>3, <1>4, OrderTo

LEMMA SettingsReleased ==
  ASSUME OrderInv, NEW i, NEW op \in {"settings", "saveSettings"}, Answered(i, op) \/ Failing(i, op)
  PROVE /\ i \in DOMAIN net.calls /\ net.calls[i].standing = "live" /\ net.calls[i].op \in {"settings", "saveSettings"}
        /\ \A n \in Remains(i) : Steady(n, orphaned, leaving, Free, MayWait \cap (IF overlapped THEN Special ELSE {"invite"}))
<1>1. i \in DOMAIN net.calls /\ net.calls[i].standing = "live" /\ net.calls[i].op \in {"settings", "saveSettings"}
  BY DEF Answered, Failing, Is
<1> DEFINE T == MayWait \cap (IF overlapped THEN Special ELSE {"invite"})
<1>2. Leaves(net.calls[i], Free, MayWait, T)
  <2>1. overlapped => MayWait \subseteq T
    BY DEF MayWait
  <2>2. ~overlapped => T = MayWait \cap {"invite"}
    OBVIOUS
  <2>3. ~overlapped => Leaves(net.calls[i], Free, MayWait, MayWait \cap {"invite"})
    BY <1>1, OnlyWaits
  <2> QED BY <2>1, <2>2, <2>3 DEF Leaves
<1> HIDE DEF T
<1>3. \A n \in Remains(i) : Steady(n, orphaned, leaving, Free, T)
  BY <1>1, <1>2, SteadyHere, SteadyRemains
<1> QED BY <1>1, <1>3 DEF T

LEMMA SettingsAnsweredOrder ==
  ASSUME OrderInv, NEW i, SettingsAnswered(i) \/ SettingsSaved(i), pendingRevoke' \in {pendingRevoke, None}
  PROVE OrderInv'
<1> DEFINE T == MayWait \cap (IF overlapped THEN Special ELSE {"invite"})
           n == Released(i)
<1>1. PICK op \in {"settings", "saveSettings"} : Answered(i, op)
  BY DEF SettingsAnswered, SettingsSaved
<1>2. /\ i \in DOMAIN net.calls /\ net.calls[i].standing = "live" /\ net.calls[i].op \in {"settings", "saveSettings"}
      /\ Steady(n, orphaned, leaving, Free, T)
  BY <1>1, SettingsReleased DEF Remains
<1>3. Unlocked(n) = n \/ Steady(Unlocked(n), orphaned, leaving, Free, T)
  <2>1. "saveSettings" \in Free \/ "saveSettings" \notin T
    BY DEF Free
  <2> HIDE DEF n, T
  <2> QED BY <1>2, <2>1, SteadyUnlocked
<1> HIDE DEF n
<1>4. CASE SettingsAnswered(i)
  <2> DEFINE m == Unlocked(n)
  <2>1. Steady(m, orphaned, leaving, Free, T) /\ Ends(m, session.role, activePanel, net.calls[i])
    BY <1>2, <1>3, <1>4 DEF SettingsAnswered, n
  <2> HIDE DEF m, T
  <2>2. Steady(net', orphaned, leaving, Free, T)
    BY <2>1, FreeIs, SteadyEnds
  <2>3. view' = view /\ orphaned' = orphaned /\ leaving' = leaving /\ overlapped' = overlapped /\ resettable'
    BY <1>4 DEF SettingsAnswered, beside, Renders
  <2> QED BY <1>2, <2>2, <2>3, AfterSettings DEF T
<1>5. CASE SettingsSaved(i)
  <2>1. view' = view /\ orphaned' = orphaned /\ leaving' = leaving /\ overlapped' = overlapped /\ resettable' /\ net' = n
    BY <1>5 DEF SettingsSaved, beside, Renders, n
  <2> QED BY <1>2, <2>1, AfterSettings
<1> QED BY <1>4, <1>5

LEMMA SettingsFailOrder ==
  ASSUME OrderInv, NEW i, NEW op \in {"settings", "saveSettings"}, SettingsFail(i, op), pendingRevoke' \in {pendingRevoke, None}
  PROVE OrderInv'
<1> DEFINE T == MayWait \cap (IF overlapped THEN Special ELSE {"invite"})
<1>1. PICK n \in Remains(i) : Ends(n, session.role, activePanel, net.calls[i])
  BY DEF SettingsFail
<1>2. /\ i \in DOMAIN net.calls /\ net.calls[i].standing = "live" /\ net.calls[i].op \in {"settings", "saveSettings"}
      /\ Steady(n, orphaned, leaving, Free, T)
  BY SettingsReleased DEF SettingsFail
<1>3. Steady(net', orphaned, leaving, Free, T)
  <2> HIDE DEF T
  <2> QED BY <1>1, <1>2, FreeIs, SteadyEnds
<1>4. view' = view /\ orphaned' = orphaned /\ leaving' = leaving /\ overlapped' = overlapped /\ resettable'
  BY DEF SettingsFail, beside
<1> QED BY <1>2, <1>3, <1>4, AfterSettings

LEMMA DiscardOrder ==
  ASSUME OrderInv, DiscardSettings, pendingRevoke' \in {pendingRevoke, None}
  PROVE OrderInv'
<1>1. view = "portal" /\ settings # None /\ resettable
  BY DEF DiscardSettings, Editable
<1>2. "saveSettings" \in Free \/ "saveSettings" \notin MayWait
  BY <1>1 DEF Free, MayWait
<1>3. Steady(Unlocked(net), orphaned, leaving, Free, MayWait)
  BY <1>2, SteadyHere, SteadyUnlocked
<1>4. /\ view' = view /\ orphaned' = orphaned /\ leaving' = leaving /\ overlapped' = overlapped /\ settings' = settings
      /\ net' = Unlocked(net)
  BY DEF DiscardSettings, beside, Renders
<1>5. MayWait \subseteq MayWait' /\ Free' = Free /\ Free \subseteq {"settings", "saveSettings"}
  BY <1>1, <1>4 DEF MayWait, Free
<1> QED BY <1>1, <1>3, <1>4, <1>5, OrderTo

LEMMA ReloadOrder ==
  ASSUME OrderInv, ReloadSettings, pendingRevoke' \in {pendingRevoke, None}
  PROVE OrderInv'
<1>1. /\ view = "portal" /\ view' = "portal" /\ settings = None /\ settings' = None /\ resettable' = resettable
      /\ orphaned' = orphaned /\ leaving' = leaving
      /\ overlapped' = (overlapped \/ \E i \in DOMAIN net.calls : net.calls[i].op = "settings" /\ net.calls[i].standing = "live")
  BY DEF ReloadSettings, beside
<1>2. PICK free, T, arg : free = Free' /\ T = MayWait' /\ arg = None
  OBVIOUS
<1>3. /\ Free \subseteq free /\ Free \subseteq {"settings", "saveSettings"} /\ free \subseteq {"settings", "saveSettings"}
      /\ MayWait \subseteq T /\ "settings" \in T
  BY <1>1, <1>2 DEF Free, MayWait, Special
<1>4. Steady(net, orphaned, leaving, free, T)
  BY <1>3, SteadyHere, SteadyMore
<1>5. "settings" \in free \/ \A i \in DOMAIN net.calls : Waits(net.calls[i]) => net.calls[i].op # "settings"
  BY <1>1, <1>2 DEF Free, Waits
<1>6. "settings" \in Ops /\ "" \in Thens
  BY DEF Ops, Thens
<1>7. Steady(Begin(net, "settings", arg, ""), orphaned, leaving, free, T)
  BY <1>3, <1>4, <1>5, <1>6, SteadyBegin
<1>8. net' = Begin(net, "settings", arg, "")
  BY <1>2 DEF ReloadSettings
<1> QED BY <1>1, <1>2, <1>3, <1>7, <1>8, OrderTo

LEMMA SaveOrder ==
  ASSUME OrderInv, SaveSettings, pendingRevoke' \in {pendingRevoke, None}
  PROVE OrderInv'
<1>1. /\ view = "portal" /\ view' = "portal" /\ settings # None /\ settings' = settings /\ ~resettable'
      /\ orphaned' = orphaned /\ leaving' = leaving /\ overlapped' = overlapped
  BY DEF SaveSettings, beside, Editable
<1>2. PICK arg : net' = Begin(net, "saveSettings", arg, "")
  BY DEF SaveSettings
<1>3. PICK T : T = MayWait'
  OBVIOUS
<1>4. MayWait \subseteq T /\ "saveSettings" \in T /\ Free' = Free /\ Free \subseteq {"settings", "saveSettings"}
  BY <1>1, <1>3 DEF MayWait, Free, Special
<1>5. net.busy \cap Excludes["saveSettings"] = {}
  BY DEF SaveSettings, MayBegin
<1>6. "saveSettings" \in Ops /\ "saveSettings" \in Flags /\ "" \in Thens
  BY DEF Ops, Flags, Thens
<1>7. Steady(Begin(net, "saveSettings", arg, ""), orphaned, leaving, Free, T)
  BY <1>4, <1>5, <1>6, SteadyHere, SteadyBegin
<1> QED BY <1>1, <1>2, <1>3, <1>4, <1>7, OrderTo

LEMMA SettingsQuietOrder ==
  ASSUME OrderInv, PanelSteady, view' = view, settings' = settings, resettable' = resettable, overlapped' = overlapped, pendingRevoke' \in {pendingRevoke, None}
  PROVE OrderInv'
<1>1. MayWait \subseteq MayWait' /\ Free' = Free /\ Free \subseteq {"settings", "saveSettings"}
  BY DEF MayWait, Free
<1> QED BY <1>1, OrderTo DEF PanelSteady, OrderInv

LEMMA SettingsOrder ==
  ASSUME OrderInv, SettingsNext, pendingRevoke' \in {pendingRevoke, None}
  PROVE OrderInv'
<1>1. CASE EditSettings \/ SettingsChange
  <2>1. PanelSteady
    BY <1>1, PanelSameSteady DEF EditSettings, SettingsChange, shellVars
  <2> QED BY <1>1, <2>1, SettingsQuietOrder DEF EditSettings, SettingsChange, shellVars
<1>2. ASSUME NEW i, ServeSettings(i) PROVE OrderInv'
  <2>1. PICK op : Arrives(i, op)
    BY <1>2 DEF ServeSettings
  <2>2. PICK answer : Replies(i, answer) \/ Refuses(i)
    BY <1>2 DEF ServeSettings
  <2>3. /\ orphaned' = orphaned /\ leaving' = leaving /\ view' = view
        /\ settings' = settings /\ resettable' = resettable /\ overlapped' = overlapped
    BY <1>2 DEF ServeSettings, beside
  <2>4. PanelSteady
    BY <2>1, <2>2, <2>3, PanelHandledSteady
  <2> QED BY <2>3, <2>4, SettingsQuietOrder
<1> QED BY <1>1, <1>2, SettingsAnsweredOrder, SettingsFailOrder, DiscardOrder, ReloadOrder, SaveOrder DEF SettingsNext

LEMMA AccessOrder ==
  ASSUME SideInv, SettingsInv, OrderInv, AccessSteadily, view' = view, SettingsFollow, SideInv', session' \in Sessions
  PROVE OrderInv'
<1>0. Free \subseteq {"settings", "saveSettings"}
  BY DEF Free
<1>1. settings' # None => view' = "portal"
  BY DEF SettingsFollow, OrderInv
<1>2. PICK T : /\ Steady(net', orphaned', leaving', Free, T) /\ T \subseteq MayWait \cup {"invite"}
               /\ "invite" \in T => view = "portal" /\ pendingRevoke' = None
  BY DEF AccessSteadily
<1>3. CASE view = "portal"
  <2>1. session'.role \in Authenticated
    BY <1>3 DEF SideInv, Sessions
  <2>2. (overlapped' <=> overlapped) /\ settings' = settings /\ resettable' = resettable
    BY <1>3, <2>1 DEF SettingsFollow
  <2>3. T \subseteq MayWait' /\ Free' = Free
    BY <1>2, <1>3, <2>2 DEF MayWait, Free, Special
  <2> QED BY <1>0, <1>1, <1>2, <2>3, OrderTo
<1>4. CASE view # "portal"
  <2>1. T \subseteq {op \in {"start"} : view = "loading"}
    BY <1>2, <1>4 DEF MayWait, Special
  <2>2. T \subseteq MayWait'
    BY <2>1 DEF MayWait, Special
  <2> QED BY <1>0, <1>1, <1>2, <2>1, <2>2, OrderTo
<1> QED BY <1>3, <1>4

\* OrderInv holds when the page is opened and is kept by every step.
LEMMA OrderStart ==
  Init => OrderInv
<1> SUFFICES ASSUME Init PROVE OrderInv
  OBVIOUS
<1>1. /\ view = "loading" /\ settings = None /\ orphaned = {}
      /\ \E e \in Entries : net = Started(Empty, e.token)
  BY DEF Init, ShellInit, SettingsInit
<1>2. PICK e \in Entries : net = Started(Empty, e.token)
  BY <1>1
<1>3. "start" \in MayWait
  BY <1>1 DEF MayWait, Special
<1> DEFINE V == {None}
<1>4. <<>> \in Seq(Records(V)) /\ None \in V
  <2> HIDE DEF Records
  <2> QED OBVIOUS
<1> HIDE DEF V
<1>5. Steady(Started([calls |-> <<>>, busy |-> {}], e.token), orphaned, leaving, Free, MayWait)
  <2> DEFINE calls == <<>>
             busy == {}
             token == e.token
  <2>1. /\ calls \in Seq(Records(V)) /\ busy \subseteq Flags /\ busy \ {"session"} \subseteq orphaned
        /\ \A i \in DOMAIN calls : calls[i].then = "start" => calls[i].op \in {"bookings", "settings"}
    BY <1>4
  <2> HIDE DEF calls, busy, token
  <2>2. Steady(Started([calls |-> calls, busy |-> busy], token), orphaned, leaving, Free, MayWait)
    BY <1>3, <1>4, <2>1, SteadyStarted
  <2> QED BY <2>2 DEF calls, busy, token
<1> QED BY <1>1, <1>2, <1>5 DEF OrderInv, Empty

LEMMA OrderStep ==
  PortalInv /\ PortalInv' /\ OrderInv /\ [Next]_vars => OrderInv'
<1> SUFFICES ASSUME PortalInv, PortalInv', OrderInv, [Next]_vars PROVE OrderInv'
  OBVIOUS
<1>0. CoreInv /\ SideInv /\ SettingsInv /\ SideInv' /\ session' \in Sessions
  BY DEF PortalInv, CoreInv
<1>7. AccessFollow => pendingRevoke' \in {pendingRevoke, None}
  BY DEF AccessFollow, Keep
<1>1. CASE ShellStep /\ SettingsFollow /\ AccessFollow
  BY <1>0, <1>7, <1>1, ShellStepSteady, ShellOrder
<1>2. CASE BookingsNext /\ SettingsFollow /\ AccessFollow
  <2>1. view' = view
    BY <1>2 DEF BookingsNext, OpenBooking, CloseBooking, EditBooking, Mutate, BookingChanges, MutateAnswered, MutateFails, BookingsAnswered,
                BookingsFails, ServeBookings, ServeMutate, shellVars, notShell
  <2> QED BY <1>0, <1>7, <1>2, <2>1, BookingsSteady, PanelOrder
<1>3. CASE AccessNext /\ SettingsFollow
  <2>1. view' = view
    BY <1>3 DEF AccessNext, CreateInvitation, AskRevoke, HideLink, RevokeInvitation, AskRemove, RemoveMember, DirectoryChanges,
                InvitationCreated, InvitationRevoked, InvitationsAnswered, MemberRemoved, MembersAnswered, AccessFails, ServeInvitations,
                ServeMembers, shellVars, others, quiet
  <2> QED BY <1>0, <1>3, <2>1, AccessSteady, AccessOrder
<1>4. CASE EmailsNext /\ SettingsFollow /\ AccessFollow
  <2>1. view' = view
    BY <1>4 DEF EmailsNext, EditEmail, DiscardEmail, SaveEmail, ConnectEmail, AskEmail, EmailCommand, MailChanges, EmailSaved,
                EmailConsentOpened, EmailCommanded, EmailsAnswered, EmailFails, ServeEmails, shellVars, otherVars
  <2> QED BY <1>0, <1>7, <1>4, <2>1, EmailsSteady, PanelOrder
<1>5. CASE SettingsNext /\ AccessFollow
  BY <1>7, <1>5, SettingsOrder
<1>6. CASE UNCHANGED vars
  <2>1. net' = net /\ orphaned' = orphaned /\ leaving' = leaving
    BY <1>6 DEF vars, shellVars
  <2>2. view' = view /\ settings' = settings /\ resettable' = resettable /\ overlapped' = overlapped
    BY <1>6 DEF vars, shellVars, settingsVars
  <2>3. pendingRevoke' = pendingRevoke
    BY <1>6 DEF vars, accessVars, invitationVars
  <2> QED BY <2>1, <2>2, <2>3, PanelSameSteady, SettingsQuietOrder
<1> QED BY <1>1, <1>2, <1>3, <1>4, <1>5, <1>6 DEF Next, PanelsFollow, OthersFollow

LEMMA OrderHolds ==
  Spec => [](PortalInv /\ OrderInv)
<1>1. Init => PortalInv /\ OrderInv
  BY PortalStart, OrderStart
<1>2. PortalInv /\ OrderInv /\ [Next]_vars => (PortalInv /\ OrderInv)'
  BY PortalStep, OrderStep
<1> QED BY <1>1, <1>2, PTL DEF Spec

\* BusyHasCause: no flag stays raised without a call that will lower it (the finally blocks), a page on its way to Google, or
\* an epoch that was left with "Try again".
THEOREM BusyHasCauseHolds ==
  Spec => []BusyHasCause
<1>1. OrderInv => BusyHasCause
  <2> SUFFICES ASSUME OrderInv, NEW f \in net.busy \ orphaned
               PROVE \/ \E i \in DOMAIN net.calls : net.calls[i].op = f /\ net.calls[i].standing # "stale"
                     \/ leaving /\ f \in {"google", "emailConnect"}
    BY DEF BusyHasCause
  <2>1. Caused(net, orphaned, leaving)
    BY SteadyIs DEF OrderInv, Orderly
  <2> QED BY <2>1 DEF Caused, Waits
<1> QED BY <1>1, OrderHolds, PTL

\* NoOverlap: two refreshes or two orders of the owner never overlap, apart from two reloads of the availability. The flags of
\* Excludes keep the second from starting while the first is waited for: a call that is waited for has its flag raised (Raised).
THEOREM NoOverlapHolds ==
  Spec => []NoOverlap
<1>1. OrderInv => NoOverlap
  <2> SUFFICES ASSUME OrderInv, NEW i \in DOMAIN net.calls, NEW j \in DOMAIN net.calls, i # j, net.calls[i].op = net.calls[j].op,
                      net.calls[i].op \in Flags, net.calls[i].standing = "live", net.calls[j].standing = "live"
               PROVE net.calls[i].op = "saveSettings" /\ overlapped
    BY DEF NoOverlap
  <2>1. Alone(net, Free)
    BY SteadyIs DEF OrderInv, Orderly
  <2>2. net.calls[i].op \in Free
    BY <2>1 DEF Alone, Waits
  <2> QED BY <2>2 DEF Free, Flags
<1> QED BY <1>1, OrderHolds, PTL

-----------------------------------------------------------------------------
(* What the access panel offers                                            *)

\* The third: what the access panel offers is in the list that it shows.
OffersInv ==
  /\ entry.landing # "access"
  /\ activePanel = "access" => view = "portal"
  /\ link # None => activePanel = "access" /\ Pending(invitations, link)
  /\ pendingRevoke # None => activePanel = "access" /\ Pending(invitations, pendingRevoke)
  /\ pendingRemove # None => activePanel = "access" /\ pendingRemove \in DOMAIN members

\* The access panel is opened in the portal only; no consent leads to it.
PanelGoes == entry'.landing # "access" /\ (activePanel' = "access" => view' = "portal")

\* No end of a handler opens the access panel.
LEMMA EndsPanel ==
  ASSUME NEW STATE n, NEW STATE role, NEW STATE panel, NEW STATE call, Ends(n, role, panel, call), entry.landing # "access"
  PROVE /\ activePanel' = "access" => panel = "access"
        /\ call.then # "start" => activePanel' = panel
<1>1. PICK held \in SUBSET (Lists \cap part.does) : activePanel' = GoesOn(n, role, panel, call, held).panel
  BY DEF Ends
<1>2. PollGoesOn(n, role, panel, call.op, held).panel = panel
  BY DEF PollGoesOn
<1>3. Landed(n, role, panel).panel \in {panel, entry.landing}
  BY DEF Landed
<1>4. CASE call.then = "poll"
  BY <1>1, <1>2, <1>4 DEF GoesOn
<1>5. CASE call.then # "poll"
  <2>1. GoesOn(n, role, panel, call, held) = Landed(n, role, panel) \/ GoesOn(n, role, panel, call, held).panel = panel
    BY <1>5 DEF GoesOn
  <2>2. call.then # "start" => GoesOn(n, role, panel, call, held).panel = panel
    BY <1>5 DEF GoesOn
  <2> QED BY <1>1, <1>3, <2>1, <2>2
<1> QED BY <1>4, <1>5

LEMMA ShowsPanel ==
  ASSUME NEW STATE s, NEW STATE n, NEW STATE call, Shows(s, n, call), entry.landing # "access"
  PROVE activePanel' = "access" => activePanel = "access"
<1> DEFINE closes == activePanel = "access" /\ s.role # "operator"
           m == Rendered(n, s.role)
           after == IF closes THEN Load(m, s.role, "bookings") ELSE m
           panel == IF closes THEN "bookings" ELSE activePanel
<1>1. Ends(after, s.role, panel, call)
  BY DEF Shows
<1>2. panel = "access" => activePanel = "access"
  OBVIOUS
<1> HIDE DEF after, panel
<1>3. activePanel' = "access" => panel = "access"
  BY <1>1, EndsPanel
<1> QED BY <1>2, <1>3

\* The steps that leave the view and what a consent asked for.
LEMMA PanelStays ==
  ASSUME OffersInv, activePanel' = "access" => activePanel = "access", view' = view, entry'.landing = entry.landing
  PROVE PanelGoes
BY DEF OffersInv, PanelGoes

LEMMA EndsGoes ==
  ASSUME OffersInv, NEW STATE n, NEW STATE role, NEW STATE call, Ends(n, role, activePanel, call), view' = view, entry' = entry
  PROVE PanelGoes
BY EndsPanel, PanelStays DEF OffersInv

LEMMA ShowsGoes ==
  ASSUME OffersInv, NEW STATE s, NEW STATE n, NEW STATE call, Shows(s, n, call), view' = view, entry' = entry
  PROVE PanelGoes
BY ShowsPanel, PanelStays DEF OffersInv

LEMMA SignsOutGoes ==
  ASSUME OffersInv, NEW s, NEW calls, SignsOut(s, calls), entry' = entry
  PROVE PanelGoes
BY DEF SignsOut, OffersInv, PanelGoes

LEMMA StartsGo ==
  ASSUME SideInv, OffersInv, TryAgain \/ LeaveAndReturn
  PROVE PanelGoes
<1>1. CASE TryAgain
  <2>1. entry'.landing = entry.landing
    BY <1>1 DEF TryAgain, Spent, SideInv
  <2> QED BY <1>1, <2>1 DEF TryAgain, OffersInv, PanelGoes
<1>2. CASE LeaveAndReturn
  <2>1. PICK e \in Entries : entry' = Spent(e)
    BY <1>2 DEF LeaveAndReturn
  <2>2. e.landing # "access" /\ Spent(e).landing = e.landing
    BY DEF Entries, Spent
  <2> QED BY <1>2, <2>1, <2>2 DEF LeaveAndReturn, PanelGoes
<1> QED BY <1>1, <1>2

LEMMA StartAnsweredGoes ==
  ASSUME OrderInv, OffersInv, NEW i, StartAnswered(i)
  PROVE PanelGoes
<1> DEFINE s == net.calls[i].answer
           call == [net.calls[i] EXCEPT !.then = "start"]
<1>1. i \in DOMAIN net.calls /\ net.calls[i].standing = "live" /\ net.calls[i].op = "start"
  BY DEF StartAnswered, Answered, Is
<1>2. view = "loading"
  BY <1>1, LiveIs DEF Special, MayWait
<1>3. activePanel # "access" /\ entry.landing # "access" /\ entry' = entry
  BY <1>2 DEF OffersInv, StartAnswered
<1>4. \/ SignsOut(s, Without(i).calls)
      \/ \E n : Shows(s, n, call)
  BY DEF StartAnswered
<1> HIDE DEF s, call
<1>5. ASSUME NEW n, Shows(s, n, call) PROVE activePanel' # "access"
  BY <1>3, <1>5, ShowsPanel
<1> QED BY <1>3, <1>4, <1>5, SignsOutGoes DEF PanelGoes

\* No step of the shell or of another panel does, except that of the owner who opens it.
LEMMA ShellGoes ==
  ASSUME SideInv, OrderInv, OffersInv, ShellStep
  PROVE PanelGoes
<1>1. CASE TryAgain \/ LeaveAndReturn
  BY <1>1, StartsGo
<1>2. CASE OpenGoogle \/ Configure \/ Disconnect \/ Logout \/ Refresh \/ Focus \/ Hide \/ Show \/ Regranted \/ ConnectionChanges
  <2>1. activePanel' = activePanel /\ view' = view /\ entry' = entry
    BY <1>2 DEF OpenGoogle, Configure, Disconnect, Logout, Refresh, Focus, Hide, Show, Regranted, ConnectionChanges
  <2> QED BY <2>1, PanelStays
<1>3. CASE Switch
  BY <1>3 DEF Switch, OffersInv, PanelGoes
<1>4. CASE PollFires
  <2>1. \A held : PollGoesOn(net, session.role, activePanel, "session", held).panel = activePanel
    BY DEF PollGoesOn
  <2>2. activePanel' = activePanel
    BY <1>4, <2>1 DEF PollFires
  <2>3. view' = view /\ entry' = entry
    BY <1>4 DEF PollFires
  <2> QED BY <2>2, <2>3, PanelStays
<1>5. ASSUME NEW i, StartFails(i) \/ Denied(i) \/ LogoutAnswered(i) PROVE PanelGoes
  <2>1. PICK calls : SignsOut(session, calls)
    BY <1>5 DEF StartFails, Denied, LogoutAnswered
  <2>2. entry' = entry
    BY <1>5 DEF StartFails, Denied, LogoutAnswered
  <2> QED BY <2>1, <2>2 DEF SignsOut, OffersInv, PanelGoes
<1>6. ASSUME NEW i, SessionAnswered(i) PROVE PanelGoes
  <2> DEFINE s == net.calls[i].answer
             n == Released(i)
  <2>1. SignsOut(session, n.calls) \/ (Shows(s, n, net.calls[i]) /\ view' = view)
    BY <1>6 DEF SessionAnswered
  <2>2. entry' = entry
    BY <1>6 DEF SessionAnswered
  <2> HIDE DEF s, n
  <2>3. CASE SignsOut(session, n.calls)
    BY <2>2, <2>3 DEF SignsOut, OffersInv, PanelGoes
  <2>4. CASE Shows(s, n, net.calls[i]) /\ view' = view
    BY <2>2, <2>4, ShowsGoes
  <2> QED BY <2>1, <2>3, <2>4
<1>7. ASSUME NEW i, SessionFails(i) PROVE PanelGoes
  BY <1>7, EndsGoes DEF SessionFails
<1>8. ASSUME NEW i, Dropped(i) PROVE PanelGoes
  <2>1. \/ activePanel' = activePanel
        \/ \E n \in {Released(i), Without(i)} : Ends(n, session.role, activePanel, net.calls[i])
    BY <1>8 DEF Dropped
  <2>2. view' = view /\ entry' = entry
    BY <1>8 DEF Dropped
  <2> QED BY <2>1, <2>2, PanelStays, EndsGoes
<1>9. ASSUME NEW i, NEW op, \/ GoogleOpened(i) \/ GoogleGoesOn(i, op) \/ ActionFails(i, op)
                            \/ ServeDenied(i) \/ ServeForbidden(i) \/ ServeSession(i) \/ ServeBootstrap(i) \/ ServeGoogle(i)
      PROVE PanelGoes
  <2>1. activePanel' = activePanel /\ view' = view
    BY <1>9 DEF GoogleOpened, GoogleGoesOn, ActionFails, ServeDenied, ServeForbidden, ServeSession, ServeBootstrap, ServeGoogle
  <2>2. entry' = entry \/ entry' = [entry EXCEPT !.token = "none"]
    BY <1>9 DEF GoogleOpened, GoogleGoesOn, ActionFails, ServeDenied, ServeForbidden, ServeSession, ServeBootstrap, ServeGoogle
  <2>3. entry'.landing = entry.landing
    BY <2>2 DEF SideInv
  <2> QED BY <2>1, <2>3, PanelStays
<1>10. CASE SessionNext
  BY <1>1, <1>2, <1>3, <1>4, <1>5, <1>6, <1>7, <1>8, <1>9, <1>10, StartAnsweredGoes DEF SessionNext
<1>11. ASSUME NEW i, NEW op, GoogleChecked(i, op, email # None) PROVE PanelGoes
  <2>1. entry' = entry
    BY <1>11 DEF GoogleChecked
  <2>2. \/ \E calls : SignsOut(session, calls)
        \/ view' = view /\ \E s, n : Shows(s, n, net.calls[i])
    BY <1>11 DEF GoogleChecked
  <2>3. CASE \E calls : SignsOut(session, calls)
    BY <2>1, <2>3 DEF SignsOut, OffersInv, PanelGoes
  <2>4. CASE view' = view /\ \E s, n : Shows(s, n, net.calls[i])
    BY <2>1, <2>4, ShowsGoes
  <2> QED BY <2>2, <2>3, <2>4
<1> QED BY <1>10, <1>11 DEF ShellStep

LEMMA PanelsGo ==
  ASSUME OffersInv, BookingsNext \/ EmailsNext \/ SettingsNext
  PROVE PanelGoes
<1>1. entry' = entry /\ view' = view
  <2>1. CASE BookingsNext
    BY <2>1 DEF BookingsNext, OpenBooking, CloseBooking, EditBooking, Mutate, BookingChanges, MutateAnswered, MutateFails, BookingsAnswered,
                BookingsFails, ServeBookings, ServeMutate, shellVars, notShell
  <2>2. CASE EmailsNext
    BY <2>2 DEF EmailsNext, EditEmail, DiscardEmail, SaveEmail, ConnectEmail, AskEmail, EmailCommand, MailChanges, EmailSaved,
                EmailConsentOpened, EmailCommanded, EmailsAnswered, EmailFails, ServeEmails, shellVars, otherVars
  <2>3. CASE SettingsNext
    BY <2>3 DEF SettingsNext, EditSettings, DiscardSettings, ReloadSettings, SaveSettings, SettingsChange, SettingsAnswered, SettingsSaved,
                ServeSettings, SettingsFail, shellVars, beside
  <2> QED BY <2>1, <2>2, <2>3
<1>2. activePanel' = activePanel \/ \E n, role, call : Ends(n, role, activePanel, call)
  <2>1. CASE BookingsNext
    BY <2>1 DEF BookingsNext, OpenBooking, CloseBooking, EditBooking, Mutate, BookingChanges, MutateAnswered, MutateFails, BookingsAnswered,
                BookingsFails, ServeBookings, ServeMutate, shellVars
  <2>2. CASE EmailsNext
    BY <2>2 DEF EmailsNext, EditEmail, DiscardEmail, SaveEmail, ConnectEmail, AskEmail, EmailCommand, MailChanges, EmailSaved,
                EmailConsentOpened, EmailCommanded, EmailsAnswered, EmailFails, ServeEmails, shellVars
  <2>3. CASE SettingsNext
    BY <2>3 DEF SettingsNext, EditSettings, DiscardSettings, ReloadSettings, SaveSettings, SettingsChange, SettingsAnswered, SettingsSaved,
                ServeSettings, SettingsFail, shellVars
  <2> QED BY <2>1, <2>2, <2>3
<1> QED BY <1>1, <1>2, PanelStays, EndsGoes

\* When the access panel is left, its offers go with it; a new list keeps only those that are still in it.
LEMMA OffersFollow ==
  ASSUME OffersInv, PanelGoes, AccessFollow
  PROVE OffersInv'
BY DEF OffersInv, PanelGoes, AccessFollow, Keep, Pending

\* The end of a call of the access panel opens no other panel.
LEMMA AccessEndsStay ==
  ASSUME OrderInv, OffersInv, NEW i, NEW op \in AccessOps, Is(i, op), NEW STATE n, Ends(n, session.role, activePanel, net.calls[i])
  PROVE activePanel' = activePanel
<1>1. net.calls[i].then # "start"
  BY SteadyIs DEF OrderInv, Orderly, Onward, Is, AccessOps
<1> QED BY <1>1, EndsPanel DEF OffersInv

LEMMA InvitationCreatedOffers ==
  ASSUME OrderInv, OffersInv, NEW i, InvitationCreated(i)
  PROVE OffersInv'
<1> DEFINE new == net.calls[i].answer
           old == [id \in DOMAIN invitations |->
                     IF invitations[id].status = "pending" /\ invitations[id].address = new.address
                     THEN [invitations[id] EXCEPT !.status = "revoked"] ELSE invitations[id]]
<1>1. i \in DOMAIN net.calls /\ net.calls[i].standing = "live" /\ net.calls[i].op = "invite"
  BY DEF InvitationCreated, Answered, Is
<1>2. pendingRevoke = None
  BY <1>1, LiveIs DEF Special, MayWait
<1>3. /\ invitations' = [id \in DOMAIN old \cup {new.id} |->
                           IF id = new.id THEN [address |-> new.address, status |-> "pending"] ELSE old[id]]
      /\ link' = IF activePanel = "access" THEN new.id ELSE link
      /\ activePanel' = activePanel /\ view' = view /\ entry' = entry
      /\ pendingRevoke' = pendingRevoke /\ pendingRemove' = pendingRemove /\ members' = members
  BY DEF InvitationCreated, quiet, others, memberVars
<1> HIDE DEF new, old
<1>4. Pending(invitations', new.id)
  BY <1>3 DEF Pending
<1>5. link' # None => activePanel' = "access" /\ Pending(invitations', link')
  BY <1>3, <1>4 DEF OffersInv
<1> QED BY <1>2, <1>3, <1>5 DEF OffersInv

LEMMA InvitationRevokedOffers ==
  ASSUME OffersInv, NEW i, InvitationRevoked(i)
  PROVE OffersInv'
<1> DEFINE id == net.calls[i].arg
<1>1. /\ invitations' = [k \in DOMAIN invitations |-> IF k = id THEN [invitations[k] EXCEPT !.status = "revoked"] ELSE invitations[k]]
      /\ link' = Keep(link, link # id)
      /\ pendingRevoke' = Keep(pendingRevoke, ~\E k \in DOMAIN invitations' : k = id /\ invitations'[k].status = "revoked")
      /\ activePanel' = activePanel /\ view' = view /\ entry' = entry /\ pendingRemove' = pendingRemove /\ members' = members
  BY DEF InvitationRevoked, quiet, others, memberVars
<1>2. link' # None => Pending(invitations', link')
  BY <1>1 DEF OffersInv, Pending, Keep
<1>3. ASSUME pendingRevoke' # None PROVE pendingRevoke' = pendingRevoke /\ pendingRevoke # None /\ Pending(invitations', pendingRevoke)
  <2>1. /\ pendingRevoke' = pendingRevoke /\ pendingRevoke # None
        /\ ~\E k \in DOMAIN invitations' : k = id /\ invitations'[k].status = "revoked"
    BY <1>1, <1>3 DEF Keep
  <2>2. Pending(invitations, pendingRevoke)
    BY <2>1 DEF OffersInv
  <2>3. pendingRevoke = id => invitations'[id] = [invitations[id] EXCEPT !.status = "revoked"] /\ id \in DOMAIN invitations'
    BY <1>1, <2>2 DEF Pending
  <2>4. CASE pendingRevoke # id
    BY <1>1, <2>1, <2>2, <2>4 DEF Pending
  <2>5. CASE pendingRevoke = id /\ invitations'[id].status = "revoked"
    BY <2>1, <2>3, <2>5
  <2>6. CASE pendingRevoke = id /\ invitations'[id].status # "revoked"
    BY <1>1, <2>1, <2>2, <2>3, <2>6 DEF Pending
  <2> QED BY <2>4, <2>5, <2>6
<1>4. link' # None => link' = link /\ link # None
  BY <1>1 DEF Keep
<1> QED BY <1>1, <1>2, <1>3, <1>4 DEF OffersInv

LEMMA AccessOffers ==
  ASSUME OrderInv, OffersInv, AccessNext
  PROVE OffersInv'
<1>0. view' = view /\ entry' = entry
  BY DEF AccessNext, CreateInvitation, AskRevoke, HideLink, RevokeInvitation, AskRemove, RemoveMember, DirectoryChanges,
         InvitationCreated, InvitationRevoked, InvitationsAnswered, MemberRemoved, MembersAnswered, AccessFails, ServeInvitations,
         ServeMembers, shellVars, others, quiet
<1>1. CASE CreateInvitation
  BY <1>0, <1>1 DEF CreateInvitation, quiet, memberVars, OffersInv
<1>2. CASE AskRevoke
  BY <1>0, <1>2 DEF AskRevoke, InPanel, shellVars, memberVars, OffersInv
<1>3. CASE HideLink
  BY <1>0, <1>3 DEF HideLink, shellVars, memberVars, OffersInv
<1>4. CASE AskRemove
  <2>1. activePanel = "access" /\ activePanel' = activePanel /\ pendingRemove' \in DOMAIN members \cup {None}
    BY <1>4 DEF AskRemove, InPanel, shellVars
  <2>2. invitations' = invitations /\ link' = link /\ pendingRevoke' = pendingRevoke /\ members' = members
    BY <1>4 DEF AskRemove, invitationVars
  <2> QED BY <1>0, <2>1, <2>2 DEF OffersInv
<1>5. CASE RevokeInvitation \/ RemoveMember
  BY <1>0, <1>5 DEF RevokeInvitation, RemoveMember, quiet, accessVars, invitationVars, memberVars, OffersInv
<1>6. CASE DirectoryChanges
  BY <1>0, <1>6 DEF DirectoryChanges, shellVars, invitationVars, memberVars, OffersInv
<1>7. ASSUME NEW i, InvitationsAnswered(i) PROVE OffersInv'
  <2>1. activePanel' = activePanel
    BY <1>7, AccessEndsStay DEF InvitationsAnswered, Answered, AccessOps
  <2>2. /\ link' = Keep(link, Good(invitations', link)) /\ pendingRevoke' = Keep(pendingRevoke, Good(invitations', pendingRevoke))
        /\ members' = members /\ pendingRemove' = pendingRemove
    BY <1>7 DEF InvitationsAnswered, memberVars
  <2> QED BY <1>0, <2>1, <2>2 DEF OffersInv, Keep, Good
<1>8. ASSUME NEW i, MemberRemoved(i) PROVE OffersInv'
  BY <1>0, <1>8 DEF MemberRemoved, quiet, invitationVars, OffersInv
<1>9. ASSUME NEW i, MembersAnswered(i) PROVE OffersInv'
  <2>1. activePanel' = activePanel
    BY <1>9, AccessEndsStay DEF MembersAnswered, Answered, AccessOps
  <2>2. /\ pendingRemove' = Keep(pendingRemove, pendingRemove \in DOMAIN members')
        /\ invitations' = invitations /\ link' = link /\ pendingRevoke' = pendingRevoke
    BY <1>9 DEF MembersAnswered, invitationVars
  <2> QED BY <1>0, <2>1, <2>2 DEF OffersInv, Keep
<1>10. ASSUME NEW i, NEW op \in AccessOps, AccessFails(i, op) PROVE OffersInv'
  <2>1. activePanel' = activePanel
    BY <1>10, AccessEndsStay DEF AccessFails, Failing
  <2> QED BY <1>0, <1>10, <2>1 DEF AccessFails, accessVars, invitationVars, memberVars, OffersInv
<1>11. ASSUME NEW i, ServeInvitations(i) \/ ServeMembers(i) PROVE OffersInv'
  BY <1>0, <1>11 DEF ServeInvitations, ServeMembers, quiet, invitationVars, memberVars, OffersInv
<1> QED BY <1>1, <1>2, <1>3, <1>4, <1>5, <1>6, <1>7, <1>8, <1>9, <1>10, <1>11, InvitationCreatedOffers, InvitationRevokedOffers DEF AccessNext

LEMMA OffersStart ==
  Init => OffersInv
<1> SUFFICES ASSUME Init PROVE OffersInv
  OBVIOUS
<1>1. PICK e \in Entries : entry = Spent(e)
  BY DEF Init, ShellInit
<1>2. entry.landing # "access"
  BY <1>1 DEF Entries, Spent
<1>3. activePanel # "access" /\ link = None /\ pendingRevoke = None /\ pendingRemove = None
  BY DEF Init, ShellInit, AccessInit
<1> QED BY <1>2, <1>3 DEF OffersInv

LEMMA OffersStep ==
  PortalInv /\ OrderInv /\ OffersInv /\ [Next]_vars => OffersInv'
<1> SUFFICES ASSUME PortalInv, OrderInv, OffersInv, [Next]_vars PROVE OffersInv'
  OBVIOUS
<1>1. CASE ShellStep /\ AccessFollow
  BY <1>1, ShellGoes, OffersFollow DEF PortalInv
<1>2. CASE (BookingsNext \/ EmailsNext \/ SettingsNext) /\ AccessFollow
  BY <1>2, PanelsGo, OffersFollow
<1>3. CASE AccessNext
  BY <1>3, AccessOffers
<1>4. CASE UNCHANGED vars
  BY <1>4 DEF vars, shellVars, accessVars, invitationVars, memberVars, OffersInv
<1> QED BY <1>1, <1>2, <1>3, <1>4 DEF Next, PanelsFollow, OthersFollow

LEMMA OffersHold ==
  Spec => [](PortalInv /\ OrderInv /\ OffersInv)
<1>1. Init => PortalInv /\ OrderInv /\ OffersInv
  BY PortalStart, OrderStart, OffersStart
<1>2. PortalInv /\ OrderInv /\ OffersInv /\ [Next]_vars => (PortalInv /\ OrderInv /\ OffersInv)'
  BY PortalStep, OrderStep, OffersStep
<1> QED BY <1>1, <1>2, PTL DEF Spec

\* OffersStand: a private link, and a revocation or removal that awaits its confirmation, stand in the open access panel for
\* an entry of the list that is shown, whatever lists arrive meanwhile.
THEOREM OffersStandHolds ==
  Spec => []OffersStand
<1>1. PortalInv /\ OffersInv => OffersStand
  BY DEF PortalInv, CoreInv, PageInv, OffersInv, OffersStand, InPanel
<1> QED BY <1>1, OffersHold, PTL

-----------------------------------------------------------------------------
(* Drafts                                                                  *)

\* While no change of a booking is under way, only an answer of loadBookings changes the list that an open dialog stands on:
\* a change that is waited for has its flag raised.
LEMMA DraftsStep ==
  ASSUME PortalInv, OrderInv, [Next]_vars, selected # None, selected' = selected, shown' # shown, ~Saving
  PROVE \E i : BookingsAnswered(i)
<1>1. ASSUME NEW i, MutateAnswered(i) PROVE FALSE
  <2>1. /\ i \in DOMAIN net.calls /\ net.calls[i].op = "mutate" /\ Waits(net.calls[i])
    BY <1>1 DEF MutateAnswered, Answered, Is, Waits
  <2>2. Raised(net, Free)
    BY SteadyIs DEF OrderInv, Orderly
  <2>3. "mutate" \in Flags \ Free
    BY DEF Flags, Ops, Free
  <2> QED BY <2>1, <2>2, <2>3 DEF Raised, Saving
<1>2. CASE BookingsNext
  BY <1>1, <1>2 DEF BookingsNext, OpenBooking, CloseBooking, EditBooking, Mutate, BookingChanges, MutateFails, BookingsFails,
                    ServeBookings, ServeMutate, bookingVars
<1>3. CASE BookingsFollow
  BY <1>3 DEF BookingsFollow
<1>4. CASE UNCHANGED vars
  BY <1>4 DEF vars, bookingVars
<1> QED BY <1>2, <1>3, <1>4 DEF Next, PanelsFollow

\* DraftsKept: a load of the list keeps the unsaved note, and the unsaved status of a booking that is not cancelled
\* (renderDetail). No answer of a save can be mistaken for the load, because a save that is waited for has its flag raised.
THEOREM DraftsKeptHolds ==
  Spec => DraftsKept
<1>1. ASSUME PortalInv, OrderInv, [Next]_vars, selected # None, selected' = selected, shown' # shown, ~Saving
      PROVE /\ fields.notes # shown[selected].notes => fields'.notes = fields.notes
            /\ fields.status # shown[selected].status /\ shown'[selected].status # "cancelled" => fields'.status = fields.status
  <2>1. PICK i : BookingsAnswered(i)
    BY <1>1, DraftsStep
  <2>2. fields' = Detail(shown'[selected], shown[selected])
    BY <1>1, <2>1 DEF BookingsAnswered
  <2>3. shown[selected] # None
    <3>1. shown \in BookingLists /\ selected \in Bookings
      BY <1>1 DEF PortalInv, BookingsInv, OrNone
    <3>2. shown[selected] \in Booking
      BY <3>1 DEF BookingLists
    <3> QED BY <3>2, BookingsAssumption
  <2> QED BY <2>2, <2>3 DEF Detail
<1>2. PortalInv /\ OrderInv /\ [Next]_vars =>
        ((/\ selected # None /\ selected' = selected /\ shown' # shown
          /\ \E i \in DOMAIN net.calls : Answered(i, "bookings") /\ shown' = net.calls[i].answer /\ ~Saving)
         => /\ fields.notes # shown[selected].notes => fields'.notes = fields.notes
            /\ fields.status # shown[selected].status /\ shown'[selected].status # "cancelled" => fields'.status = fields.status)
  BY <1>1
<1> QED BY <1>2, OrderHolds, PTL DEF Spec, DraftsKept

-----------------------------------------------------------------------------
(* What the calls bring                                                    *)

\* The orders of the panels that are begun with an argument.
Orders == {"mutate", "invite", "revoke", "remove", "emailSettings", "emailCommand", "saveSettings"}
\* What a call says, and whether it says anything: an order its argument, a call that succeeded its answer.
Fact(c) == <<c.op, c.arg, c.status, c.answer>>
Tells(c) == c.standing = "live" /\ (c.status = "ok" \/ (c.status = "sent" /\ c.op \in Orders))
\* The live calls of the operations M say nothing but what is in K,
Knows(c, M, K) == Tells(c) /\ c.op \in M => Fact(c) \in K
\* of the operations of a room at most one has its flag raised,
Rooms == {{"invitations", "invite", "revoke"}, {"members", "remove"}, EmailOps, GoogleOps \cup {"session"}}
FlagsApart(n) == \A room \in Rooms : \A f, g \in n.busy \cap room : f = g
\* and no list of bookings is waited for while a booking is changed.
Quiet(n) == "mutate" \in n.busy => \A i \in DOMAIN n.calls : ~(n.calls[i].op = "bookings" /\ n.calls[i].standing = "live")

KnownCalls(V, M, K) == {c \in Records(V) : Knows(c, M, K)}
KnownNets(V, M, K) == {n \in Nets(KnownCalls(V, M, K)) : FlagsApart(n) /\ Quiet(n)}
\* The arguments of the calls that the shell begins.
ShellArgs == {None, "session", "bootstrap", "connect", "signin", "accept", "file", "post", "check"}
Known(n, M, K) == \E V : ShellArgs \subseteq V /\ n \in KnownNets(V, M, K)

\* A set of nets that only orders and replies leave: other calls begin, calls become superseded or stale, one by one
\* or all, and go, and flags are lowered.
Closed(Q) ==
  /\ \A n \in Q : \A b : [calls |-> n.calls, busy |-> n.busy \ b] \in Q
  /\ \A n \in Q, op \in Ops \ Orders, arg \in ShellArgs, then \in Thens : n.busy \cap Excludes[op] = {} => Begin(n, op, arg, then) \in Q
  /\ \A n \in Q : \A b, ops : [calls |-> Superseded(n.calls, ops), busy |-> n.busy \ b] \in Q
  /\ \A n \in Q : \A b : [calls |-> Stale(n.calls), busy |-> n.busy \ b] \in Q
  /\ \A n \in Q : \A i \in DOMAIN n.calls : \A b : [calls |-> RemoveAt(n.calls, i), busy |-> n.busy \ b] \in Q
  /\ \A n \in Q : \A i \in DOMAIN n.calls : \A b :
       [calls |-> [n.calls EXCEPT ![i] = [n.calls[i] EXCEPT !.standing = "stale"]], busy |-> n.busy \ b] \in Q
  /\ \A n \in Q, op \in {"configure", "disconnect"}, arg \in ShellArgs : \A i \in DOMAIN n.calls :
       [calls |-> [n.calls EXCEPT ![i] = Call(op, arg, "")], busy |-> n.busy] \in Q

-----------------------------------------------------------------------------
\* What is known of the calls of such a net, and what makes one.
LEMMA KnownCall ==
  ASSUME NEW V, NEW M, NEW K, NEW n \in KnownNets(V, M, K)
  PROVE /\ n.calls \in Seq(KnownCalls(V, M, K)) /\ n.busy \subseteq Flags /\ FlagsApart(n) /\ Quiet(n)
        /\ n = [calls |-> n.calls, busy |-> n.busy]
        /\ \A i \in DOMAIN n.calls : n.calls[i] \in KnownCalls(V, M, K)
<1>1. n \in Nets(KnownCalls(V, M, K)) /\ FlagsApart(n) /\ Quiet(n)
  BY DEF KnownNets
<1> DEFINE S == KnownCalls(V, M, K)
<1> HIDE DEF S
<1>2. n.calls \in Seq(S) /\ n.busy \subseteq Flags /\ n = [calls |-> n.calls, busy |-> n.busy]
  BY <1>1 DEF Nets, S
<1>3. \A i \in DOMAIN n.calls : n.calls[i] \in S
  BY <1>2
<1> QED BY <1>1, <1>2, <1>3 DEF S

LEMMA KnownNet ==
  ASSUME NEW V, NEW M, NEW K, NEW calls \in Seq(KnownCalls(V, M, K)), NEW busy, busy \subseteq Flags,
         \A room \in Rooms : \A f, g \in busy \cap room : f = g,
         "mutate" \in busy => \A i \in DOMAIN calls : ~(calls[i].op = "bookings" /\ calls[i].standing = "live")
  PROVE [calls |-> calls, busy |-> busy] \in KnownNets(V, M, K)
<1> DEFINE n == [calls |-> calls, busy |-> busy]
<1>1. n.calls = calls /\ n.busy = busy
  OBVIOUS
<1>2. n \in Nets(KnownCalls(V, M, K))
  BY DEF Nets
<1> HIDE DEF n
<1>3. FlagsApart(n) /\ Quiet(n)
  BY <1>1 DEF FlagsApart, Quiet
<1> QED BY <1>2, <1>3 DEF KnownNets, n

\* Fewer flags, and calls of which none becomes live.
LEMMA KnownLess ==
  ASSUME NEW V, NEW M, NEW K, NEW n \in KnownNets(V, M, K), NEW b, NEW calls \in Seq(KnownCalls(V, M, K)),
         \A k \in DOMAIN calls : calls[k].op = "bookings" /\ calls[k].standing = "live" =>
           \E i \in DOMAIN n.calls : n.calls[i].op = "bookings" /\ n.calls[i].standing = "live"
  PROVE [calls |-> calls, busy |-> n.busy \ b] \in KnownNets(V, M, K)
<1>1. n.busy \subseteq Flags /\ FlagsApart(n) /\ Quiet(n)
  BY KnownCall
<1>2. PICK busy : busy = n.busy \ b
  OBVIOUS
<1>3. \A room \in Rooms : \A f, g \in busy \cap room : f = g
  BY <1>1, <1>2 DEF FlagsApart
<1>4. "mutate" \in busy => \A i \in DOMAIN calls : ~(calls[i].op = "bookings" /\ calls[i].standing = "live")
  BY <1>1, <1>2 DEF Quiet
<1>5. busy \subseteq Flags
  BY <1>1, <1>2
<1>6. [calls |-> calls, busy |-> busy] \in KnownNets(V, M, K)
  BY <1>3, <1>4, <1>5, KnownNet
<1> QED BY <1>2, <1>6

\* The flags of a room keep its operations from being raised together.
LEMMA RoomsHold ==
  ASSUME NEW room \in Rooms, NEW op \in room
  PROVE room \subseteq Excludes[op] \cup (Supersedes[op] \ {"bookings"})
<1>1. op \in Ops
  BY DEF Rooms, Ops, Loads, AccessOps, EmailOps, GoogleOps
<1>2. CASE room = {"invitations", "invite", "revoke"}
  BY <1>1, <1>2 DEF Excludes, Supersedes, GoogleOps, EmailCommands
<1>3. CASE room = {"members", "remove"}
  BY <1>1, <1>3 DEF Excludes, Supersedes, GoogleOps, EmailCommands
<1>4. CASE room = EmailOps
  <2>1. op = "emails" \/ op = "emailSettings" \/ op = "emailConnect" \/ op = "emailCommand"
    BY <1>4 DEF EmailOps, EmailCommands
  <2>2. Excludes["emails"] = EmailOps /\ EmailCommands \subseteq Excludes[op]
    BY <2>1 DEF Excludes, EmailOps
  <2>3. op # "emails" => Supersedes[op] = {"emails"}
    BY <1>1, <2>1 DEF Supersedes, GoogleOps, EmailCommands
  <2>4. ASSUME op = "emails" PROVE room \subseteq Excludes[op] \cup (Supersedes[op] \ {"bookings"})
    BY <1>4, <2>2, <2>4
  <2>5. ASSUME op # "emails" PROVE room \subseteq Excludes[op] \cup (Supersedes[op] \ {"bookings"})
    <3>1. room \subseteq EmailCommands \cup {"emails"} /\ "emails" \in Supersedes[op] \ {"bookings"}
      BY <1>4, <2>3, <2>5 DEF EmailOps
    <3> HIDE DEF EmailCommands
    <3> QED BY <2>2, <3>1
  <2> QED BY <2>4, <2>5
<1>5. CASE room = GoogleOps \cup {"session"}
  <2>1. op \in GoogleOps => Excludes[op] = GoogleOps /\ Supersedes[op] = {"session"}
    <3>1. op \in {"google", "configure", "disconnect"} => Supersedes[op] = {"session"}
      BY <1>1 DEF Supersedes, GoogleOps, EmailCommands
    <3>2. op \in GoogleOps => Excludes[op] = GoogleOps
      BY DEF Excludes, GoogleOps
    <3> QED BY <3>1, <3>2 DEF GoogleOps
  <2>2. Excludes["session"] = GoogleOps \cup {"session"}
    BY DEF Excludes
  <2>3. op \in GoogleOps \/ op = "session"
    BY <1>5
  <2> QED BY <1>5, <2>1, <2>2, <2>3
<1> QED BY <1>2, <1>3, <1>4, <1>5 DEF Rooms

\* A call that is no longer live says nothing.
LEMMA KnownLower ==
  ASSUME NEW V, NEW M, NEW K, NEW c \in KnownCalls(V, M, K), NEW s \in {"superseded", "stale"}
  PROVE [c EXCEPT !.standing = s] \in KnownCalls(V, M, K)
<1> DEFINE d == [c EXCEPT !.standing = s]
<1>1. c \in Records(V)
  BY DEF KnownCalls
<1>2. d \in Records(V) /\ d.standing = s
  BY <1>1 DEF Records, Standings
<1> HIDE DEF d
<1>3. Knows(d, M, K)
  BY <1>2 DEF Knows, Tells
<1> QED BY <1>2, <1>3 DEF KnownCalls, d

\* Superseding and ending calls keep what is known, and make no call live.
LEMMA KnownSuperseded ==
  ASSUME NEW V, NEW M, NEW K, NEW calls \in Seq(KnownCalls(V, M, K)), NEW ops
  PROVE /\ Superseded(calls, ops) \in Seq(KnownCalls(V, M, K))
        /\ \A k \in DOMAIN Superseded(calls, ops) :
             /\ k \in DOMAIN calls /\ Superseded(calls, ops)[k].op = calls[k].op
             /\ Superseded(calls, ops)[k].standing = "live" => calls[k].standing = "live" /\ calls[k].op \notin ops
<1> DEFINE S == KnownCalls(V, M, K)
           T == KnownCalls(V, M, K)
<1>1. ASSUME NEW c \in S PROVE (IF c.op \in ops /\ c.standing = "live" THEN [c EXCEPT !.standing = "superseded"] ELSE c) \in T
  BY KnownLower
<1>2. ASSUME NEW c \in S
      PROVE LET d == IF c.op \in ops /\ c.standing = "live" THEN [c EXCEPT !.standing = "superseded"] ELSE c
            IN d.op = c.op /\ (d.standing = "live" => c.standing = "live" /\ c.op \notin ops)
  <2>1. c \in Records(V)
    BY DEF KnownCalls
  <2>2. [c EXCEPT !.standing = "superseded"].op = c.op /\ [c EXCEPT !.standing = "superseded"].standing = "superseded"
    BY <2>1 DEF Records
  <2> QED BY <2>2
<1> HIDE DEF S, T
<1>3. Superseded(calls, ops) \in Seq(T) /\ DOMAIN Superseded(calls, ops) = DOMAIN calls
  <2>1. calls \in Seq(S)
    BY DEF S
  <2>2. Superseded(calls, ops) \in Seq(T)
    BY <1>1, <2>1, SupersededIn
  <2>3. DOMAIN Superseded(calls, ops) = DOMAIN calls
    BY DEF Superseded
  <2> QED BY <2>2, <2>3
<1>4. ASSUME NEW k \in DOMAIN calls
      PROVE /\ Superseded(calls, ops)[k].op = calls[k].op
            /\ Superseded(calls, ops)[k].standing = "live" => calls[k].standing = "live" /\ calls[k].op \notin ops
  <2>1. calls[k] \in S
    BY DEF S
  <2>2. Superseded(calls, ops)[k] = IF calls[k].op \in ops /\ calls[k].standing = "live" THEN [calls[k] EXCEPT !.standing = "superseded"] ELSE calls[k]
    BY DEF Superseded
  <2> QED BY <1>2, <2>1, <2>2
<1> QED BY <1>3, <1>4 DEF T

LEMMA KnownStale ==
  ASSUME NEW V, NEW M, NEW K, NEW calls \in Seq(KnownCalls(V, M, K))
  PROVE /\ Stale(calls) \in Seq(KnownCalls(V, M, K))
        /\ \A k \in DOMAIN Stale(calls) : Stale(calls)[k].standing = "stale"
<1> DEFINE S == KnownCalls(V, M, K)
<1>1. \A c \in S : [c EXCEPT !.standing = "stale"] \in S
  BY KnownLower
<1>2. ASSUME NEW c \in S PROVE [c EXCEPT !.standing = "stale"].standing = "stale"
  <2>1. c \in Records(V)
    BY DEF KnownCalls
  <2> QED BY <2>1 DEF Records
<1> HIDE DEF S
<1>3. Stale(calls) \in Seq(S) /\ DOMAIN Stale(calls) = DOMAIN calls
  BY <1>1, StaleIn DEF S
<1>4. \A k \in DOMAIN calls : calls[k] \in S
  BY DEF S
<1>5. \A k \in DOMAIN calls : Stale(calls)[k].standing = "stale"
  BY <1>2, <1>4 DEF Stale
<1> QED BY <1>3, <1>5 DEF S

-----------------------------------------------------------------------------
\* An operation that begins when no flag holds it back, with a call that says nothing that is not known.
LEMMA KnownBegin ==
  ASSUME NEW V, NEW M, NEW K, NEW n \in KnownNets(V, M, K), NEW op \in Ops, NEW arg, NEW then,
         n.busy \cap Excludes[op] = {}, Call(op, arg, then) \in KnownCalls(V, M, K)
  PROVE Begin(n, op, arg, then) \in KnownNets(V, M, K)
<1>1. n.calls \in Seq(KnownCalls(V, M, K)) /\ n.busy \subseteq Flags /\ FlagsApart(n) /\ Quiet(n)
  BY KnownCall
<1>2. PICK old : old = Superseded(n.calls, Supersedes[op])
  OBVIOUS
<1>3. /\ old \in Seq(KnownCalls(V, M, K))
      /\ \A k \in DOMAIN old : /\ k \in DOMAIN n.calls /\ old[k].op = n.calls[k].op
                               /\ old[k].standing = "live" => n.calls[k].standing = "live" /\ n.calls[k].op \notin Supersedes[op]
  BY <1>1, <1>2, KnownSuperseded
<1>4. PICK c : c = Call(op, arg, then)
  OBVIOUS
<1>5. c.op = op
  BY <1>4 DEF Call
<1>6. PICK calls : calls = Append(old, c)
  OBVIOUS
<1>7. PICK busy : busy = (n.busy \ (Supersedes[op] \ {"bookings"})) \cup ({op} \cap Flags)
  OBVIOUS
<1>8. Begin(n, op, arg, then) = [calls |-> calls, busy |-> busy]
  BY <1>2, <1>4, <1>6, <1>7 DEF Begin
<1>9. calls \in Seq(KnownCalls(V, M, K)) /\ busy \subseteq Flags
  BY <1>1, <1>3, <1>4, <1>6, <1>7
<1>10. ASSUME NEW room \in Rooms, NEW f \in busy \cap room, NEW g \in busy \cap room PROVE f = g
  <2>1. CASE op \in room
    <3>1. room \subseteq Excludes[op] \cup (Supersedes[op] \ {"bookings"})
      BY <2>1, RoomsHold
    <3>2. \A h \in busy \cap room : h = op
      BY <1>7, <3>1
    <3> QED BY <3>2
  <2>2. CASE op \notin room
    <3>1. f \in n.busy \cap room /\ g \in n.busy \cap room
      BY <1>7, <2>2
    <3> QED BY <1>1, <3>1 DEF FlagsApart
  <2> QED BY <2>1, <2>2
<1>11. ASSUME "mutate" \in busy, NEW i \in DOMAIN calls, calls[i].op = "bookings", calls[i].standing = "live" PROVE FALSE
  <2>1. i \in 1..(Len(old) + 1) /\ Len(old) \in Nat /\ DOMAIN old = 1..Len(old)
    BY <1>3, <1>6, <1>11
  <2>2. calls[i] = IF i = Len(old) + 1 THEN c ELSE old[i]
    BY <1>3, <1>6, <2>1
  <2>3. op = "mutate" => Supersedes[op] = {"bookings"}
    BY DEF Supersedes, GoogleOps, EmailCommands
  <2>4. Excludes["bookings"] = {"bookings", "mutate"}
    BY DEF Excludes
  <2>5. CASE i = Len(old) + 1
    <3>1. op = "bookings" /\ "mutate" \in n.busy
      BY <1>5, <1>7, <1>11, <2>2, <2>5
    <3> QED BY <2>4, <3>1
  <2>6. CASE i \in DOMAIN old
    <3>1. old[i].op = "bookings" /\ old[i].standing = "live"
      BY <1>11, <2>1, <2>2, <2>6
    <3>2. i \in DOMAIN n.calls /\ n.calls[i].op = "bookings" /\ n.calls[i].standing = "live" /\ op # "mutate"
      BY <1>3, <2>3, <2>6, <3>1
    <3>3. "mutate" \in n.busy
      BY <1>7, <1>11, <3>2
    <3> QED BY <1>1, <3>2, <3>3 DEF Quiet
  <2> QED BY <2>1, <2>5, <2>6
<1>12. [calls |-> calls, busy |-> busy] \in KnownNets(V, M, K)
  BY <1>9, <1>10, <1>11, KnownNet
<1> QED BY <1>8, <1>12

\* A call that begins and is no order of the owner says nothing.
LEMMA NewSilent ==
  ASSUME NEW V, None \in V, NEW M, NEW K, NEW op \in Ops, NEW arg \in V, NEW then \in Thens, op \notin Orders \/ op \notin M \/ <<op, arg, "sent", None>> \in K
  PROVE Call(op, arg, then) \in KnownCalls(V, M, K)
<1>1. PICK c : c = Call(op, arg, then)
  OBVIOUS
<1>2. c.op = op /\ c.arg = arg /\ c.status = "sent" /\ c.answer = None /\ c \in Records(V)
  BY <1>1 DEF Call, Records, Standings, Outcomes
<1>3. Knows(c, M, K)
  BY <1>2 DEF Knows, Tells, Fact
<1> QED BY <1>1, <1>2, <1>3 DEF KnownCalls

-----------------------------------------------------------------------------
\* The nets of which nothing else is known are closed under what the shell does.
LEMMA KnownClosed ==
  ASSUME NEW V, ShellArgs \subseteq V, NEW M, NEW K
  PROVE Closed(KnownNets(V, M, K))
<1> DEFINE Q == KnownNets(V, M, K)
<1>1. ASSUME NEW n \in Q, NEW b PROVE [calls |-> n.calls, busy |-> n.busy \ b] \in Q
  BY KnownCall, KnownLess
<1>2. ASSUME NEW n \in Q, NEW op \in Ops \ Orders, NEW arg \in ShellArgs, NEW then \in Thens, n.busy \cap Excludes[op] = {}
      PROVE Begin(n, op, arg, then) \in Q
  <2>1. None \in V /\ arg \in V
    BY DEF ShellArgs
  <2>2. Call(op, arg, then) \in KnownCalls(V, M, K)
    BY <2>1, NewSilent
  <2> QED BY <1>2, <2>2, KnownBegin
<1>3. ASSUME NEW n \in Q, NEW b, NEW ops PROVE [calls |-> Superseded(n.calls, ops), busy |-> n.busy \ b] \in Q
  <2>1. n.calls \in Seq(KnownCalls(V, M, K))
    BY KnownCall
  <2>2. PICK calls : calls = Superseded(n.calls, ops)
    OBVIOUS
  <2>3. /\ calls \in Seq(KnownCalls(V, M, K))
        /\ \A k \in DOMAIN calls : /\ k \in DOMAIN n.calls /\ calls[k].op = n.calls[k].op
                                   /\ calls[k].standing = "live" => n.calls[k].standing = "live"
    BY <2>1, <2>2, KnownSuperseded
  <2>4. [calls |-> calls, busy |-> n.busy \ b] \in Q
    BY <2>3, KnownLess
  <2> QED BY <2>2, <2>4
<1>4. ASSUME NEW n \in Q, NEW b PROVE [calls |-> Stale(n.calls), busy |-> n.busy \ b] \in Q
  <2>1. n.calls \in Seq(KnownCalls(V, M, K))
    BY KnownCall
  <2>2. PICK calls : calls = Stale(n.calls)
    OBVIOUS
  <2>3. calls \in Seq(KnownCalls(V, M, K)) /\ \A k \in DOMAIN calls : calls[k].standing = "stale"
    BY <2>1, <2>2, KnownStale
  <2>4. [calls |-> calls, busy |-> n.busy \ b] \in Q
    BY <2>3, KnownLess
  <2> QED BY <2>2, <2>4
<1>5. ASSUME NEW n \in Q, NEW i \in DOMAIN n.calls, NEW b PROVE [calls |-> RemoveAt(n.calls, i), busy |-> n.busy \ b] \in Q
  <2>1. n.calls \in Seq(KnownCalls(V, M, K))
    BY KnownCall
  <2>2. PICK calls : calls = RemoveAt(n.calls, i)
    OBVIOUS
  <2>3. /\ calls \in Seq(KnownCalls(V, M, K)) /\ Len(calls) = Len(n.calls) - 1
        /\ \A k \in DOMAIN calls : calls[k] = IF k < i THEN n.calls[k] ELSE n.calls[k + 1]
    BY <2>1, <2>2, RemoveAtIn
  <2>4. ASSUME NEW k \in DOMAIN calls PROVE \E j \in DOMAIN n.calls : calls[k] = n.calls[j]
    <3>1. k \in 1..(Len(n.calls) - 1) /\ Len(n.calls) \in Nat /\ DOMAIN n.calls = 1..Len(n.calls)
      BY <2>1, <2>3, <2>4
    <3>2. k \in DOMAIN n.calls /\ k + 1 \in DOMAIN n.calls
      BY <3>1
    <3> QED BY <2>3, <3>2
  <2>5. \A k \in DOMAIN calls : calls[k].op = "bookings" /\ calls[k].standing = "live" =>
          \E j \in DOMAIN n.calls : n.calls[j].op = "bookings" /\ n.calls[j].standing = "live"
    BY <2>4
  <2>6. [calls |-> calls, busy |-> n.busy \ b] \in Q
    BY <2>3, <2>5, KnownLess
  <2> QED BY <2>2, <2>6
<1>6. ASSUME NEW n \in Q, NEW i \in DOMAIN n.calls, NEW d \in KnownCalls(V, M, K), d.standing = "live" => d.op # "bookings", NEW b
      PROVE [calls |-> [n.calls EXCEPT ![i] = d], busy |-> n.busy \ b] \in Q
  <2>1. n.calls \in Seq(KnownCalls(V, M, K))
    BY KnownCall
  <2>2. PICK calls : calls = [n.calls EXCEPT ![i] = d]
    OBVIOUS
  <2>3. calls \in Seq(KnownCalls(V, M, K)) /\ DOMAIN calls = DOMAIN n.calls /\ \A k \in DOMAIN calls : calls[k] = IF k = i THEN d ELSE n.calls[k]
    <3>1. calls \in Seq(KnownCalls(V, M, K))
      BY <2>1, <2>2, SetIn
    <3> QED BY <3>1, <2>2
  <2>4. [calls |-> calls, busy |-> n.busy \ b] \in Q
    BY <1>6, <2>3, KnownLess
  <2> QED BY <2>2, <2>4
<1>7. ASSUME NEW n \in Q, NEW i \in DOMAIN n.calls, NEW b
      PROVE [calls |-> [n.calls EXCEPT ![i] = [n.calls[i] EXCEPT !.standing = "stale"]], busy |-> n.busy \ b] \in Q
  <2>1. PICK d : d = [n.calls[i] EXCEPT !.standing = "stale"]
    OBVIOUS
  <2>2. n.calls[i] \in KnownCalls(V, M, K)
    BY KnownCall
  <2>3. d \in KnownCalls(V, M, K)
    BY <2>1, <2>2, KnownLower
  <2>4. d.standing = "stale"
    BY <2>1, <2>2 DEF KnownCalls, Records
  <2> QED BY <1>6, <2>1, <2>3, <2>4
<1>8. ASSUME NEW n \in Q, NEW op \in {"configure", "disconnect"}, NEW arg \in ShellArgs, NEW i \in DOMAIN n.calls
      PROVE [calls |-> [n.calls EXCEPT ![i] = Call(op, arg, "")], busy |-> n.busy] \in Q
  <2>1. None \in V /\ arg \in V /\ op \in Ops \ Orders /\ "" \in Thens
    BY DEF ShellArgs, Ops, Orders, GoogleOps, Thens
  <2>2. PICK d : d = Call(op, arg, "")
    OBVIOUS
  <2>3. d \in KnownCalls(V, M, K)
    BY <2>1, <2>2, NewSilent
  <2>4. d.op # "bookings"
    BY <2>2 DEF Call
  <2>5. [calls |-> [n.calls EXCEPT ![i] = d], busy |-> n.busy \ {}] \in Q
    BY <1>6, <2>3, <2>4
  <2>6. n.busy \ {} = n.busy
    OBVIOUS
  <2> QED BY <2>2, <2>5, <2>6
<1> HIDE DEF Q
<1>9. Closed(Q)
  BY <1>1, <1>2, <1>3, <1>4, <1>5, <1>7, <1>8 DEF Closed
<1> QED BY <1>9 DEF Q

-----------------------------------------------------------------------------
(* What the shell's steps bring: nothing but the server's replies          *)

LEMMA ClosedLoads ==
  ASSUME NEW Q, Closed(Q), NEW STATE role
  PROVE LoadsWithin(Q, role)
<1> SUFFICES ASSUME NEW n \in Q, NEW op \in Loads, NEW then \in {"", "poll"}, MayBegin(n, role, op)
             PROVE Begin(n, op, None, then) \in Q
  BY DEF LoadsWithin
<1>1. op \in Ops \ Orders /\ None \in ShellArgs /\ then \in Thens
  BY DEF Loads, Ops, Orders, ShellArgs, Thens
<1>2. n.busy \cap Excludes[op] = {}
  BY DEF MayBegin
<1> QED BY <1>1, <1>2 DEF Closed

LEMMA ClosedEnds ==
  ASSUME NEW Q, Closed(Q), NEW STATE n, n \in Q, NEW STATE role, NEW STATE panel, NEW STATE call, Ends(n, role, panel, call)
  PROVE net' \in Q
BY ClosedLoads, EndsIn

LEMMA ClosedWithout ==
  ASSUME NEW Q, Closed(Q), net \in Q, CoreInv, NEW i \in DOMAIN net.calls
  PROVE /\ Without(i) \in Q /\ Released(i) \in Q /\ \A n \in Remains(i) : n \in Q
        /\ net = [calls |-> net.calls, busy |-> net.busy]
<1>1. net = [calls |-> net.calls, busy |-> net.busy]
  BY DEF CoreInv, NetOK, Nets
<1>2. \A b : [calls |-> RemoveAt(net.calls, i), busy |-> net.busy \ b] \in Q
  BY DEF Closed
<1>3. net.busy \ {} = net.busy
  OBVIOUS
<1>4. Without(i) = [calls |-> RemoveAt(net.calls, i), busy |-> net.busy]
  BY <1>1 DEF Without
<1>5. Without(i) \in Q /\ Released(i) \in Q
  BY <1>2, <1>3, <1>4 DEF Released
<1>6. Adrift(i) \in Q
  BY DEF Closed, Adrift
<1> QED BY <1>1, <1>5, <1>6 DEF Remains

LEMMA ClosedSignsOut ==
  ASSUME NEW Q, Closed(Q), NEW STATE n, n \in Q, NEW STATE s, SignsOut(s, n.calls)
  PROVE net' \in Q
<1>1. net' = [calls |-> Stale(n.calls), busy |-> {}]
  BY DEF SignsOut
<1>2. [calls |-> Stale(n.calls), busy |-> n.busy \ n.busy] \in Q
  BY DEF Closed
<1>3. n.busy \ n.busy = {}
  OBVIOUS
<1> QED BY <1>1, <1>2, <1>3

LEMMA ClosedShows ==
  ASSUME NEW Q, Closed(Q), NEW STATE n, n \in Q, NEW STATE s, NEW STATE call, Shows(s, n, call)
  PROVE net' \in Q
<1> DEFINE m == Rendered(n, s.role)
           closes == activePanel = "access" /\ s.role # "operator"
<1>1. m \in Q
  BY DEF Closed, Rendered
<1>2. Ends(IF closes THEN Load(m, s.role, "bookings") ELSE m, s.role, IF closes THEN "bookings" ELSE activePanel, call)
  BY DEF Shows
<1> HIDE DEF m
<1>3. LoadsWithin(Q, s.role)
  BY ClosedLoads
<1>4. Load(m, s.role, "bookings") \in Q
  BY <1>1, <1>3, LoadIn DEF Loads
<1>5. (IF closes THEN Load(m, s.role, "bookings") ELSE m) \in Q
  BY <1>1, <1>4
<1> QED BY <1>2, <1>5, ClosedEnds

LEMMA ClosedStarted ==
  ASSUME NEW Q, Closed(Q), NEW n \in Q, NEW token
  PROVE /\ Started(n, token) \in Q
        /\ Started([calls |-> n.calls, busy |-> {}], token) \in Q
<1>1. ASSUME NEW m \in Q PROVE Started(m, token) \in Q
  <2>1. PICK k : k = [calls |-> Stale(m.calls), busy |-> m.busy \ {"session"}]
    OBVIOUS
  <2>2. k \in Q
    BY <2>1 DEF Closed
  <2>3. PICK arg \in ShellArgs : arg = IF token = "setup" THEN "bootstrap" ELSE "session"
    BY DEF ShellArgs
  <2>4. "start" \in Ops \ Orders /\ "" \in Thens /\ Excludes["start"] = {}
    BY DEF Ops, Orders, Thens, Excludes
  <2>5. Begin(k, "start", arg, "") \in Q
    BY <2>2, <2>4 DEF Closed
  <2> QED BY <2>1, <2>3, <2>5 DEF Started
<1>2. [calls |-> n.calls, busy |-> n.busy \ n.busy] \in Q
  BY DEF Closed
<1>3. n.busy \ n.busy = {}
  OBVIOUS
<1> QED BY <1>1, <1>2, <1>3

LEMMA ClosedBegin ==
  ASSUME NEW Q, Closed(Q), NEW STATE n, n \in Q, NEW STATE role, NEW op \in Ops \ Orders, MayBegin(n, role, op), NEW arg \in ShellArgs, NEW then \in Thens
  PROVE Begin(n, op, arg, then) \in Q
BY DEF Closed, MayBegin

-----------------------------------------------------------------------------
LEMMA StartAnsweredIn ==
  ASSUME NEW Q, Closed(Q), net \in Q, CoreInv, NEW i, StartAnswered(i)
  PROVE net' \in Q
<1> DEFINE s == net.calls[i].answer
           n == Without(i)
           call == [net.calls[i] EXCEPT !.then = "start"]
           starts(m, op) == IF MayBegin(n, s.role, op) THEN Begin(m, op, None, "start") ELSE m
<1>1. i \in DOMAIN net.calls
  BY DEF StartAnswered, Answered, Is
<1>2. n \in Q
  BY <1>1, ClosedWithout
<1> HIDE DEF n
<1>3. CASE SignsOut(s, n.calls)
  BY <1>2, <1>3, ClosedSignsOut
<1>4. CASE Shows(s, n, call)
  BY <1>2, <1>4, ClosedShows
<1>5. CASE Shows(s, starts(starts(n, "bookings"), "settings"), call)
  <2>1. "bookings" \in Ops \ Orders /\ "settings" \in Ops \ Orders /\ None \in ShellArgs /\ "start" \in Thens /\ Excludes["settings"] = {}
    BY DEF Ops, Loads, Orders, ShellArgs, Thens, Excludes
  <2>2. starts(n, "bookings") \in Q
    BY <1>2, <2>1 DEF Closed, MayBegin
  <2>3. ASSUME NEW m \in Q PROVE starts(m, "settings") \in Q
    BY <2>1 DEF Closed
  <2>4. starts(starts(n, "bookings"), "settings") \in Q
    BY <2>2, <2>3
  <2> HIDE DEF starts, s, call
  <2> QED BY <1>5, <2>4, ClosedShows
<1> QED BY <1>3, <1>4, <1>5 DEF StartAnswered, n

LEMMA SessionEndsIn ==
  ASSUME NEW Q, Closed(Q), net \in Q, CoreInv, NEW i, NEW op, NEW loaded,
         \/ StartFails(i) \/ SessionAnswered(i) \/ SessionFails(i) \/ Denied(i) \/ Dropped(i)
         \/ GoogleOpened(i) \/ GoogleGoesOn(i, op) \/ GoogleChecked(i, op, loaded) \/ LogoutAnswered(i) \/ ActionFails(i, op)
         \/ TryAgain \/ LeaveAndReturn,
         op \in {"configure", "disconnect"} \/ ActionFails(i, op)
  PROVE net' \in Q
<1>1. ASSUME i \in DOMAIN net.calls PROVE /\ Without(i) \in Q /\ Released(i) \in Q /\ \A n \in Remains(i) : n \in Q
                                          /\ net = [calls |-> net.calls, busy |-> net.busy]
                                          /\ Released(i).calls = RemoveAt(net.calls, i)
  BY <1>1, ClosedWithout DEF Released
<1>2. CASE StartFails(i)
  <2>1. i \in DOMAIN net.calls
    BY <1>2 DEF StartFails, Failing, Is
  <2>2. PICK n \in Remains(i) : SignsOut(session, n.calls)
    BY <1>2 DEF StartFails
  <2> QED BY <1>1, <2>1, <2>2, ClosedSignsOut
<1>3. CASE SessionAnswered(i)
  <2>1. i \in DOMAIN net.calls
    BY <1>3 DEF SessionAnswered, Answered, Is
  <2>2. CASE SignsOut(session, Released(i).calls)
    BY <1>1, <2>1, <2>2, ClosedSignsOut
  <2>3. CASE Shows(net.calls[i].answer, Released(i), net.calls[i])
    BY <1>1, <2>1, <2>3, ClosedShows
  <2> QED BY <1>3, <2>2, <2>3 DEF SessionAnswered
<1>4. CASE SessionFails(i)
  <2>1. i \in DOMAIN net.calls
    BY <1>4 DEF SessionFails, Failing, Is
  <2> QED BY <1>1, <1>4, <2>1, ClosedEnds DEF SessionFails
<1>5. CASE Denied(i)
  <2>1. i \in DOMAIN net.calls /\ SignsOut(session, Released(i).calls)
    BY <1>1, <1>5 DEF Denied
  <2> QED BY <1>1, <2>1, ClosedSignsOut
<1>6. CASE Dropped(i)
  <2>1. i \in DOMAIN net.calls
    BY <1>6 DEF Dropped
  <2>2. CASE net' = Without(i)
    BY <1>1, <2>1, <2>2
  <2>3. CASE Ends(IF net.calls[i].op = "bookings" THEN Released(i) ELSE Without(i), session.role, activePanel, net.calls[i])
    <3>1. (IF net.calls[i].op = "bookings" THEN Released(i) ELSE Without(i)) \in Q
      BY <1>1, <2>1
    <3> QED BY <2>3, <3>1, ClosedEnds
  <2> QED BY <1>6, <2>2, <2>3 DEF Dropped
<1>7. CASE GoogleOpened(i)
  BY <1>1, <1>7 DEF GoogleOpened, Answered, Is
<1>8. CASE GoogleGoesOn(i, op) /\ op \in {"configure", "disconnect"}
  <2>1. i \in DOMAIN net.calls /\ net.calls[i].arg \in DOMAIN NextStage
    BY <1>8 DEF GoogleGoesOn, Answered, Is
  <2>2. PICK arg : arg = NextStage[net.calls[i].arg]
    OBVIOUS
  <2>3. arg \in ShellArgs
    BY <2>1, <2>2 DEF NextStage, ShellArgs
  <2>4. [calls |-> [net.calls EXCEPT ![i] = Call(op, arg, "")], busy |-> net.busy] \in Q
    BY <1>8, <2>1, <2>3 DEF Closed
  <2>5. PICK d : d = Call(op, arg, "")
    OBVIOUS
  <2>6. net' = [net EXCEPT !.calls[i] = d]
    BY <1>8, <2>2, <2>5 DEF GoogleGoesOn
  <2>7. net = [calls |-> net.calls, busy |-> net.busy]
    BY <1>1, <2>1
  <2>8. [net EXCEPT !.calls[i] = d] = [calls |-> [net.calls EXCEPT ![i] = d], busy |-> net.busy]
    BY <2>7
  <2> QED BY <2>4, <2>5, <2>6, <2>8
<1>9. CASE GoogleChecked(i, op, loaded)
  <2>1. i \in DOMAIN net.calls
    BY <1>9 DEF GoogleChecked, Answered, Is
  <2>2. CASE SignsOut(session, Released(i).calls)
    BY <1>1, <2>1, <2>2, ClosedSignsOut
  <2> DEFINE s == net.calls[i].answer
             n == IF op = "disconnect" /\ loaded THEN Load(Released(i), s.role, "emails") ELSE Released(i)
  <2>3. n \in Q
    BY <1>1, <2>1, ClosedLoads, LoadIn DEF Loads
  <2>4. CASE Shows(s, n, net.calls[i])
    <3> HIDE DEF n
    <3> QED BY <2>3, <2>4, ClosedShows
  <2> QED BY <1>9, <2>2, <2>4 DEF GoogleChecked
<1>10. CASE LogoutAnswered(i)
  <2>1. i \in DOMAIN net.calls /\ SignsOut(session, Released(i).calls)
    BY <1>10 DEF LogoutAnswered, Answered, Is
  <2> QED BY <1>1, <2>1, ClosedSignsOut
<1>11. CASE ActionFails(i, op)
  BY <1>1, <1>11 DEF ActionFails, Failing, Is
<1>12. CASE TryAgain
  BY <1>12, ClosedStarted DEF TryAgain
<1>13. CASE LeaveAndReturn
  BY <1>13, ClosedStarted DEF LeaveAndReturn
<1> QED BY <1>2, <1>3, <1>4, <1>5, <1>6, <1>7, <1>8, <1>9, <1>10, <1>11, <1>12, <1>13

LEMMA SessionBeginsIn ==
  ASSUME NEW Q, Closed(Q), net \in Q,
         OpenGoogle \/ Configure \/ Disconnect \/ Logout \/ Switch \/ Refresh \/ RefreshVisible \/ PollFires
  PROVE net' \in Q
<1>1. /\ GoogleOps \cup {"logout", "session"} \subseteq Ops \ Orders /\ "" \in Thens /\ "poll" \in Thens
      /\ {"connect", "signin", "accept", "file", "post", None} \subseteq ShellArgs
      /\ "google" \in GoogleOps /\ "configure" \in GoogleOps /\ "disconnect" \in GoogleOps
  BY DEF Ops, Loads, GoogleOps, Orders, Thens, ShellArgs
<1>2. LoadsWithin(Q, session.role)
  BY ClosedLoads
<1>3. CASE OpenGoogle
  <2>1. PICK purpose \in {"connect", "signin", "accept"} : net' = Begin(net, "google", purpose, "")
    BY <1>3 DEF OpenGoogle
  <2> QED BY <1>1, <1>3, <2>1, ClosedBegin DEF OpenGoogle
<1>4. CASE Configure
  BY <1>1, <1>4, ClosedBegin DEF Configure
<1>5. CASE Disconnect
  BY <1>1, <1>5, ClosedBegin DEF Disconnect
<1>6. CASE Logout
  BY <1>1, <1>6, ClosedBegin DEF Logout
<1>7. CASE Switch
  BY <1>2, <1>7, OpenedIn DEF Switch
<1>8. CASE Refresh
  <2>1. \A op \in Loads : Load(net, session.role, op) \in Q
    BY <1>2, LoadIn
  <2>2. "bookings" \in Loads /\ "session" \in Loads /\ "invitations" \in Loads /\ "members" \in Loads /\ "emails" \in Loads
    BY DEF Loads
  <2>3. Load(Load(net, session.role, "bookings"), session.role, "session") \in Q
    BY <1>2, <2>1, <2>2, LoadIn
  <2> QED BY <1>8, <2>1, <2>2, <2>3 DEF Refresh
<1>9. CASE RefreshVisible
  BY <1>2, <1>9, VisibleIn DEF RefreshVisible
<1>10. CASE PollFires
  <2>1. CASE MayBegin(net, session.role, "session") /\ net' = Begin(net, "session", None, "poll")
    BY <1>1, <2>1, ClosedBegin
  <2>2. CASE \E held \in SUBSET (Lists \cap part.does) : net' = PollGoesOn(net, session.role, activePanel, "session", held).net
    BY <1>2, <2>2, PollGoesOnIn
  <2> QED BY <1>10, <2>1, <2>2 DEF PollFires
<1> QED BY <1>3, <1>4, <1>5, <1>6, <1>7, <1>8, <1>9, <1>10

\* A step of the shell stays in such a set, or it is a reply of the server.
SessionServes(i) == ServeDenied(i) \/ ServeForbidden(i) \/ ServeSession(i) \/ ServeBootstrap(i) \/ ServeGoogle(i)
LEMMA ShellIn ==
  ASSUME NEW Q, Closed(Q), net \in Q, CoreInv, ShellStep
  PROVE net' \in Q \/ \E i \in DOMAIN net.calls : SessionServes(i)
<1>1. CASE OpenGoogle \/ Configure \/ Disconnect \/ Logout \/ Switch \/ Refresh \/ Focus \/ Show \/ PollFires
  BY <1>1, SessionBeginsIn DEF Focus, Show
<1>2. CASE TryAgain \/ LeaveAndReturn
  BY <1>2, SessionEndsIn
<1>3. CASE Hide \/ Regranted \/ ConnectionChanges
  BY <1>3 DEF Hide, Regranted, ConnectionChanges
<1>4. ASSUME NEW i \in DOMAIN net.calls, NEW op,
             \/ StartFails(i) \/ SessionAnswered(i) \/ SessionFails(i) \/ Denied(i) \/ Dropped(i) \/ GoogleOpened(i) \/ LogoutAnswered(i)
             \/ ActionFails(i, op) \/ (op \in {"configure", "disconnect"} /\ (GoogleGoesOn(i, op) \/ GoogleChecked(i, op, email # None)))
      PROVE net' \in Q
  BY <1>4, SessionEndsIn
<1>5. ASSUME NEW i \in DOMAIN net.calls, StartAnswered(i) PROVE net' \in Q
  BY <1>5, StartAnsweredIn
<1> QED BY <1>1, <1>2, <1>3, <1>4, <1>5 DEF ShellStep, SessionNext, SessionServes

-----------------------------------------------------------------------------
(* Orders, replies and the panels                                          *)

\* More values, and more that is known, do no harm.
LEMMA KnownGrows ==
  ASSUME NEW V, NEW W, V \subseteq W, NEW M, NEW K, NEW L, K \subseteq L
  PROVE KnownCalls(V, M, K) \subseteq KnownCalls(W, M, L) /\ KnownNets(V, M, K) \subseteq KnownNets(W, M, L)
<1>1. Records(V) \subseteq Records(W)
  BY DEF Records
<1>2. KnownCalls(V, M, K) \subseteq KnownCalls(W, M, L)
  BY <1>1 DEF KnownCalls, Knows
<1>3. Nets(KnownCalls(V, M, K)) \subseteq Nets(KnownCalls(W, M, L))
  BY <1>2, NetsGrow
<1> QED BY <1>2, <1>3 DEF KnownNets

LEMMA KnownIs ==
  ASSUME NEW M, NEW K, Known(net, M, K)
  PROVE /\ \E Q : Closed(Q) /\ net \in Q /\ \A n \in Q : Known(n, M, K)
        /\ FlagsApart(net) /\ Quiet(net) /\ net = [calls |-> net.calls, busy |-> net.busy]
        /\ \A i \in DOMAIN net.calls : Tells(net.calls[i]) /\ net.calls[i].op \in M => Fact(net.calls[i]) \in K
<1>1. PICK V : ShellArgs \subseteq V /\ net \in KnownNets(V, M, K)
  BY DEF Known
<1>2. Closed(KnownNets(V, M, K))
  BY <1>1, KnownClosed
<1>3. \A n \in KnownNets(V, M, K) : Known(n, M, K)
  BY <1>1 DEF Known
<1>4. /\ FlagsApart(net) /\ Quiet(net) /\ net = [calls |-> net.calls, busy |-> net.busy]
      /\ \A i \in DOMAIN net.calls : net.calls[i] \in KnownCalls(V, M, K)
  BY <1>1, KnownCall
<1>5. \A i \in DOMAIN net.calls : Knows(net.calls[i], M, K)
  BY <1>4 DEF KnownCalls
<1>6. \A i \in DOMAIN net.calls : Tells(net.calls[i]) /\ net.calls[i].op \in M => Fact(net.calls[i]) \in K
  BY <1>5 DEF Knows
<1> QED BY <1>1, <1>2, <1>3, <1>4, <1>6

\* An order of the owner says what it asks for.
LEMMA KnownOrder ==
  ASSUME NEW M, NEW K, NEW L, K \subseteq L, NEW STATE n, Known(n, M, K), NEW op \in Ops, NEW arg, NEW STATE role, MayBegin(n, role, op),
         op \in M => <<op, arg, "sent", None>> \in L
  PROVE Known(Begin(n, op, arg, ""), M, L)
<1>1. PICK V : ShellArgs \subseteq V /\ n \in KnownNets(V, M, K)
  BY DEF Known
<1>2. PICK W : W = V \cup {arg}
  OBVIOUS
<1>3. n \in KnownNets(W, M, L) /\ ShellArgs \subseteq W /\ None \in W /\ arg \in W
  BY <1>1, <1>2, KnownGrows DEF ShellArgs
<1>4. "" \in Thens /\ n.busy \cap Excludes[op] = {}
  BY DEF Thens, MayBegin
<1>5. Call(op, arg, "") \in KnownCalls(W, M, L)
  BY <1>3, <1>4, NewSilent
<1>6. Begin(n, op, arg, "") \in KnownNets(W, M, L)
  BY <1>3, <1>4, <1>5, KnownBegin
<1> QED BY <1>3, <1>6 DEF Known

\* A reply of the server says what it answers, a refusal nothing.
LEMMA KnownReply ==
  ASSUME NEW M, NEW K, NEW L, K \subseteq L, Known(net, M, K), NEW i \in DOMAIN net.calls, NEW status \in {"ok", "denied", "refused"}, NEW answer,
         Handled(i, status, answer),
         net.calls[i].standing = "live" /\ net.calls[i].op \in M /\ status = "ok" => <<net.calls[i].op, net.calls[i].arg, "ok", answer>> \in L
  PROVE Known(net', M, L)
<1>1. PICK V : ShellArgs \subseteq V /\ net \in KnownNets(V, M, K)
  BY DEF Known
<1>2. PICK W : W = V \cup {answer}
  OBVIOUS
<1>3. net \in KnownNets(W, M, L) /\ ShellArgs \subseteq W /\ answer \in W
  BY <1>1, <1>2, KnownGrows
<1>4. PICK c : c = net.calls[i]
  OBVIOUS
<1>5. /\ net.calls \in Seq(KnownCalls(W, M, L)) /\ c \in KnownCalls(W, M, L) /\ net = [calls |-> net.calls, busy |-> net.busy]
  BY <1>3, <1>4, KnownCall
<1>6. PICK d : d = [c EXCEPT !.status = status, !.answer = answer]
  OBVIOUS
<1>7. c \in Records(W)
  BY <1>5 DEF KnownCalls
<1>8. /\ d \in Records(W) /\ d.op = c.op /\ d.arg = c.arg /\ d.standing = c.standing
      /\ d.status = status /\ d.answer = answer
  BY <1>3, <1>6, <1>7 DEF Records, Outcomes
<1>9. Knows(d, M, L)
  BY <1>4, <1>8 DEF Knows, Tells, Fact
<1>10. d \in KnownCalls(W, M, L)
  BY <1>8, <1>9 DEF KnownCalls
<1>11. PICK calls : calls = [net.calls EXCEPT ![i] = d]
  OBVIOUS
<1>12. calls \in Seq(KnownCalls(W, M, L))
  BY <1>5, <1>10, <1>11, SetIn
<1>13. \A k \in DOMAIN calls : calls[k].op = "bookings" /\ calls[k].standing = "live" =>
         \E j \in DOMAIN net.calls : net.calls[j].op = "bookings" /\ net.calls[j].standing = "live"
  BY <1>4, <1>8, <1>11
<1>14. [calls |-> calls, busy |-> net.busy \ {}] \in KnownNets(W, M, L)
  BY <1>3, <1>12, <1>13, KnownLess
<1>15. net' = [net EXCEPT !.calls[i] = d]
  BY <1>4, <1>6 DEF Handled
<1>16. [net EXCEPT !.calls[i] = d] = [calls |-> calls, busy |-> net.busy \ {}]
  <2>1. net = [calls |-> net.calls, busy |-> net.busy]
    BY <1>5
  <2>2. [net EXCEPT !.calls[i] = d] = [calls |-> [net.calls EXCEPT ![i] = d], busy |-> net.busy]
    BY <2>1
  <2>3. net.busy \ {} = net.busy
    OBVIOUS
  <2> QED BY <1>11, <2>2, <2>3
<1> QED BY <1>3, <1>14, <1>15, <1>16 DEF Known

\* Only the session, the Google connection and signing out are answered in steps of the shell.
ShellOps == {"start", "session", "logout"} \cup GoogleOps
LEMMA ShellServes ==
  ASSUME NEW i \in DOMAIN net.calls, SessionServes(i)
  PROVE \E status \in {"ok", "denied", "refused"} : \E answer :
          /\ Handled(i, status, answer)
          /\ status = "ok" => /\ net.calls[i].op \in ShellOps
                              /\ AsksSession(net.calls[i]) => answer = Says \/ answer = [role |-> Setup.role, connects |-> Setup.connects, google |-> google]
<1>1. CASE ServeDenied(i) \/ ServeForbidden(i)
  BY <1>1 DEF ServeDenied, ServeForbidden, Refuses
<1>2. CASE ServeSession(i)
  BY <1>2 DEF ServeSession, Arrives, Is, Replies, ShellOps, GoogleOps
<1>3. CASE ServeBootstrap(i)
  BY <1>3 DEF ServeBootstrap, Arrives, Is, Replies, Refuses, ShellOps
<1>4. CASE ServeGoogle(i)
  <2>1. net.calls[i].op \in ShellOps /\ ~AsksSession(net.calls[i])
    BY <1>4 DEF ServeGoogle, ShellOps, AsksSession, GoogleOps
  <2>2. Replies(i, None) \/ Refuses(i)
    BY <1>4 DEF ServeGoogle
  <2> QED BY <2>1, <2>2 DEF Replies, Refuses
<1> QED BY <1>1, <1>2, <1>3, <1>4 DEF SessionServes

LEMMA ShellKnown ==
  ASSUME NEW M, M \cap ShellOps = {}, NEW K, Known(net, M, K), CoreInv, ShellStep
  PROVE Known(net', M, K)
<1>1. PICK Q : Closed(Q) /\ net \in Q /\ \A n \in Q : Known(n, M, K)
  BY KnownIs
<1>2. CASE net' \in Q
  BY <1>1, <1>2
<1>3. ASSUME NEW i \in DOMAIN net.calls, SessionServes(i) PROVE Known(net', M, K)
  BY <1>3, ShellServes, KnownReply
<1> QED BY <1>1, <1>2, <1>3, ShellIn

-----------------------------------------------------------------------------
\* The steps of the panels, beside the owner's orders and the server's replies.
LEMMA AnsweredIn ==
  ASSUME NEW Q, Closed(Q), net \in Q, CoreInv, NEW i, NEW op, Answered(i, op) \/ Failing(i, op)
  PROVE /\ i \in DOMAIN net.calls /\ net.calls[i].op = op /\ net.calls[i].standing = "live"
        /\ Without(i) \in Q /\ Released(i) \in Q /\ \A n \in Remains(i) : n \in Q
BY ClosedWithout DEF Answered, Failing, Is

LEMMA RemainsFields ==
  ASSUME NEW i, NEW n \in Remains(i)
  PROVE n = [calls |-> n.calls, busy |-> n.busy]
BY DEF Remains, Released, Adrift

LEMMA ClosedMutationEnds ==
  ASSUME NEW Q, Closed(Q), NEW n \in Q, n = [calls |-> n.calls, busy |-> n.busy]
  PROVE MutationEnds(n) \in Q
<1>1. [calls |-> Superseded(n.calls, {"bookings"}), busy |-> n.busy \ {}] \in Q
  BY DEF Closed
<1>2. MutationEnds(n) = [calls |-> Superseded(n.calls, {"bookings"}), busy |-> n.busy]
  BY DEF MutationEnds
<1>3. n.busy \ {} = n.busy
  OBVIOUS
<1> QED BY <1>1, <1>2, <1>3

LEMMA ClosedUnlocked ==
  ASSUME NEW Q, Closed(Q), NEW n \in Q, n = [calls |-> n.calls, busy |-> n.busy]
  PROVE Unlocked(n) \in Q
<1>1. [calls |-> n.calls, busy |-> n.busy \ {"saveSettings"}] \in Q
  BY DEF Closed
<1>2. Unlocked(n) = [calls |-> n.calls, busy |-> n.busy \ {"saveSettings"}]
  BY DEF Unlocked
<1> QED BY <1>1, <1>2

LEMMA BookingsIn ==
  ASSUME NEW Q, Closed(Q), net \in Q, CoreInv, BookingsNext
  PROVE net' \in Q \/ Mutate \/ \E i \in DOMAIN net.calls : ServeBookings(i) \/ ServeMutate(i)
<1>1. CASE OpenBooking \/ CloseBooking \/ EditBooking \/ BookingChanges
  BY <1>1 DEF OpenBooking, CloseBooking, EditBooking, BookingChanges, shellVars
<1>2. ASSUME NEW i \in DOMAIN net.calls, MutateAnswered(i) PROVE net' \in Q
  <2>1. Released(i) \in Q /\ net' = MutationEnds(Released(i))
    BY <1>2, AnsweredIn DEF MutateAnswered
  <2>2. Released(i) \in Remains(i)
    BY DEF Remains
  <2> QED BY <2>1, <2>2, RemainsFields, ClosedMutationEnds
<1>3. ASSUME NEW i \in DOMAIN net.calls, MutateFails(i) PROVE net' \in Q
  <2>1. PICK n \in Remains(i) : net' = MutationEnds(n)
    BY <1>3 DEF MutateFails
  <2>2. n \in Q
    BY <1>3, <2>1, AnsweredIn DEF MutateFails
  <2> QED BY <2>1, <2>2, RemainsFields, ClosedMutationEnds
<1>4. ASSUME NEW i \in DOMAIN net.calls, BookingsAnswered(i) \/ BookingsFails(i) PROVE net' \in Q
  <2>1. Released(i) \in Q
    BY <1>4, AnsweredIn DEF BookingsAnswered, BookingsFails
  <2>2. Ends(Released(i), session.role, activePanel, net.calls[i])
    BY <1>4 DEF BookingsAnswered, BookingsFails
  <2> QED BY <2>1, <2>2, ClosedEnds
<1> QED BY <1>1, <1>2, <1>3, <1>4 DEF BookingsNext

LEMMA AccessIn ==
  ASSUME NEW Q, Closed(Q), net \in Q, CoreInv, AccessNext
  PROVE net' \in Q \/ CreateInvitation \/ RevokeInvitation \/ RemoveMember \/ \E i \in DOMAIN net.calls : ServeInvitations(i) \/ ServeMembers(i)
<1>1. CASE AskRevoke \/ HideLink \/ AskRemove \/ DirectoryChanges
  BY <1>1 DEF AskRevoke, HideLink, AskRemove, DirectoryChanges, shellVars
<1>2. ASSUME NEW i \in DOMAIN net.calls, InvitationCreated(i) \/ InvitationRevoked(i) \/ MemberRemoved(i) PROVE net' \in Q
  <2>1. Released(i) \in Q
    BY <1>2, AnsweredIn DEF InvitationCreated, InvitationRevoked, MemberRemoved
  <2> QED BY <1>2, <2>1 DEF InvitationCreated, InvitationRevoked, MemberRemoved
<1>3. ASSUME NEW i \in DOMAIN net.calls, InvitationsAnswered(i) \/ MembersAnswered(i) PROVE net' \in Q
  <2>1. Released(i) \in Q
    BY <1>3, AnsweredIn DEF InvitationsAnswered, MembersAnswered
  <2>2. Ends(Released(i), session.role, activePanel, net.calls[i])
    BY <1>3 DEF InvitationsAnswered, MembersAnswered
  <2> QED BY <2>1, <2>2, ClosedEnds
<1>4. ASSUME NEW i \in DOMAIN net.calls, NEW op, AccessFails(i, op) PROVE net' \in Q
  <2>1. PICK n \in Remains(i) : Ends(n, session.role, activePanel, net.calls[i])
    BY <1>4 DEF AccessFails
  <2>2. n \in Q
    BY <1>4, <2>1, AnsweredIn DEF AccessFails
  <2> QED BY <2>1, <2>2, ClosedEnds
<1> QED BY <1>1, <1>2, <1>3, <1>4 DEF AccessNext

LEMMA EmailsIn ==
  ASSUME NEW Q, Closed(Q), net \in Q, CoreInv, EmailsNext
  PROVE net' \in Q \/ SaveEmail \/ EmailCommand \/ \E i \in DOMAIN net.calls : ServeEmails(i)
<1>1. CASE EditEmail \/ DiscardEmail \/ AskEmail \/ MailChanges
  BY <1>1 DEF EditEmail, DiscardEmail, AskEmail, MailChanges, shellVars
<1>2. CASE ConnectEmail
  <2>1. "emailConnect" \in Ops \ Orders /\ None \in ShellArgs /\ "" \in Thens
    BY DEF Ops, EmailOps, EmailCommands, Orders, ShellArgs, Thens
  <2> QED BY <1>2, <2>1, ClosedBegin DEF ConnectEmail
<1>3. ASSUME NEW i \in DOMAIN net.calls, EmailSaved(i) \/ EmailConsentOpened(i) PROVE net' \in Q
  <2>1. Released(i) \in Q /\ Without(i) \in Q
    BY <1>3, AnsweredIn DEF EmailSaved, EmailConsentOpened
  <2> QED BY <1>3, <2>1 DEF EmailSaved, EmailConsentOpened
<1>4. ASSUME NEW i \in DOMAIN net.calls, EmailCommanded(i) PROVE net' \in Q
  <2>1. Released(i) \in Q /\ net' = Load(Released(i), session.role, "emails")
    BY <1>4, AnsweredIn DEF EmailCommanded
  <2> QED BY <2>1, ClosedLoads, LoadIn DEF Loads
<1>5. ASSUME NEW i \in DOMAIN net.calls, EmailsAnswered(i) PROVE net' \in Q
  <2>1. Released(i) \in Q /\ Ends(Released(i), session.role, activePanel, net.calls[i])
    BY <1>5, AnsweredIn DEF EmailsAnswered
  <2> QED BY <2>1, ClosedEnds
<1>6. ASSUME NEW i \in DOMAIN net.calls, NEW op, EmailFails(i, op) PROVE net' \in Q
  <2>1. PICK n \in Remains(i) : Ends(n, session.role, activePanel, net.calls[i])
    BY <1>6 DEF EmailFails
  <2>2. n \in Q
    BY <1>6, <2>1, AnsweredIn DEF EmailFails
  <2> QED BY <2>1, <2>2, ClosedEnds
<1> QED BY <1>1, <1>2, <1>3, <1>4, <1>5, <1>6 DEF EmailsNext

LEMMA SettingsIn ==
  ASSUME NEW Q, Closed(Q), net \in Q, CoreInv, SettingsNext
  PROVE net' \in Q \/ SaveSettings \/ \E i \in DOMAIN net.calls : ServeSettings(i)
<1>1. CASE EditSettings \/ SettingsChange
  BY <1>1 DEF EditSettings, SettingsChange, shellVars
<1>2. CASE DiscardSettings
  <2>1. net = [calls |-> net.calls, busy |-> net.busy]
    BY DEF CoreInv, NetOK, Nets
  <2> QED BY <1>2, <2>1, ClosedUnlocked DEF DiscardSettings
<1>3. CASE ReloadSettings
  <2>1. "settings" \in Ops \ Orders /\ None \in ShellArgs /\ "" \in Thens
    BY DEF Ops, Orders, ShellArgs, Thens
  <2> QED BY <1>3, <2>1, ClosedBegin DEF ReloadSettings
<1>4. ASSUME NEW i \in DOMAIN net.calls, SettingsAnswered(i) PROVE net' \in Q
  <2>1. Released(i) \in Q /\ Ends(Unlocked(Released(i)), session.role, activePanel, net.calls[i])
    BY <1>4, AnsweredIn DEF SettingsAnswered
  <2>2. Released(i) \in Remains(i)
    BY DEF Remains
  <2>3. Unlocked(Released(i)) \in Q
    BY <2>1, <2>2, RemainsFields, ClosedUnlocked
  <2> QED BY <2>1, <2>3, ClosedEnds
<1>5. ASSUME NEW i \in DOMAIN net.calls, SettingsSaved(i) PROVE net' \in Q
  BY <1>5, AnsweredIn DEF SettingsSaved
<1>6. ASSUME NEW i \in DOMAIN net.calls, NEW op, SettingsFail(i, op) PROVE net' \in Q
  <2>1. PICK n \in Remains(i) : Ends(n, session.role, activePanel, net.calls[i])
    BY <1>6 DEF SettingsFail
  <2>2. n \in Q
    BY <1>6, <2>1, AnsweredIn DEF SettingsFail
  <2> QED BY <2>1, <2>2, ClosedEnds
<1> QED BY <1>1, <1>2, <1>3, <1>4, <1>5, <1>6 DEF SettingsNext

-----------------------------------------------------------------------------
(* Where what a call says comes from                                       *)

\* Rooms and bookings are kept apart, and every call is one.
CallsInv == Known(net, {}, {})

\* Two calls that say the same; what the live calls of the operations M say after a step was said before it, or is in new.
Same(c, d) == c.op = d.op /\ c.arg = d.arg /\ c.status = d.status /\ c.answer = d.answer
Brings(M, new) ==
  \A j \in DOMAIN net'.calls : Tells(net'.calls[j]) /\ net'.calls[j].op \in M =>
    \/ \E i \in DOMAIN net.calls : Tells(net.calls[i]) /\ Same(net.calls[i], net'.calls[j])
    \/ Fact(net'.calls[j]) \in new

LEMMA KnownTells ==
  ASSUME NEW M, NEW K, NEW n, Known(n, M, K)
  PROVE /\ FlagsApart(n) /\ Quiet(n)
        /\ \A i \in DOMAIN n.calls : Tells(n.calls[i]) /\ n.calls[i].op \in M => Fact(n.calls[i]) \in K
<1>1. PICK V : ShellArgs \subseteq V /\ n \in KnownNets(V, M, K)
  BY DEF Known
<1>2. FlagsApart(n) /\ Quiet(n) /\ \A i \in DOMAIN n.calls : n.calls[i] \in KnownCalls(V, M, K)
  BY <1>1, KnownCall
<1> QED BY <1>2 DEF KnownCalls, Knows

LEMMA KnownExact ==
  ASSUME NEW M, NEW K, NEW N, NEW L, NEW n, Known(n, N, L),
         \A i \in DOMAIN n.calls : Tells(n.calls[i]) /\ n.calls[i].op \in M => Fact(n.calls[i]) \in K
  PROVE Known(n, M, K)
<1>1. PICK V : ShellArgs \subseteq V /\ n \in KnownNets(V, N, L)
  BY DEF Known
<1>2. /\ n.calls \in Seq(KnownCalls(V, N, L)) /\ n.busy \subseteq Flags /\ FlagsApart(n) /\ Quiet(n) /\ n = [calls |-> n.calls, busy |-> n.busy]
      /\ \A i \in DOMAIN n.calls : n.calls[i] \in KnownCalls(V, N, L)
  BY <1>1, KnownCall
<1>3. \A i \in DOMAIN n.calls : n.calls[i] \in KnownCalls(V, M, K)
  BY <1>2 DEF KnownCalls, Knows
<1>4. n.calls \in Seq(KnownCalls(V, M, K))
  <2>1. PICK S : S = KnownCalls(V, M, K)
    OBVIOUS
  <2>2. PICK T : T = KnownCalls(V, N, L)
    OBVIOUS
  <2>3. n.calls \in Seq(T) /\ \A i \in DOMAIN n.calls : n.calls[i] \in S
    BY <1>2, <1>3, <2>1, <2>2
  <2>4. DOMAIN n.calls = 1..Len(n.calls) /\ Len(n.calls) \in Nat /\ n.calls = [i \in DOMAIN n.calls |-> n.calls[i]]
    BY <2>3
  <2> QED BY <2>1, <2>3, <2>4
<1>5. n \in KnownNets(V, M, K)
  BY <1>2, <1>4 DEF KnownNets, Nets
<1> QED BY <1>1, <1>5 DEF Known

\* A step brings what it adds to whatever was known.
LEMMA BringsOf ==
  ASSUME CallsInv, NEW M, NEW new, \A K : Known(net, M, K) => Known(net', M, K \cup new)
  PROVE Brings(M, new)
<1>1. PICK n : n = net
  OBVIOUS
<1>2. PICK m : m = net'
  OBVIOUS
<1>3. PICK K : K = {Fact(n.calls[i]) : i \in {j \in DOMAIN n.calls : Tells(n.calls[j]) /\ n.calls[j].op \in M}}
  OBVIOUS
<1>4. Known(n, M, K)
  <2>1. Known(n, {}, {})
    BY <1>1 DEF CallsInv
  <2>2. \A i \in DOMAIN n.calls : Tells(n.calls[i]) /\ n.calls[i].op \in M => Fact(n.calls[i]) \in K
    BY <1>3
  <2> QED BY <2>1, <2>2, KnownExact
<1>5. Known(m, M, K \cup new)
  BY <1>1, <1>2, <1>4
<1>6. ASSUME NEW j \in DOMAIN m.calls, Tells(m.calls[j]), m.calls[j].op \in M, Fact(m.calls[j]) \notin new
      PROVE \E i \in DOMAIN n.calls : Tells(n.calls[i]) /\ Same(n.calls[i], m.calls[j])
  <2>1. Fact(m.calls[j]) \in K
    BY <1>5, <1>6, KnownTells
  <2>2. PICK i \in DOMAIN n.calls : Tells(n.calls[i]) /\ Fact(m.calls[j]) = Fact(n.calls[i])
    BY <1>3, <2>1
  <2>3. Same(n.calls[i], m.calls[j])
    BY <2>2 DEF Fact, Same
  <2> QED BY <2>2, <2>3
<1> QED BY <1>1, <1>2, <1>6 DEF Brings

\* Steps within a closed set bring nothing,
LEMMA BringsIn ==
  ASSUME CallsInv, NEW M, \A Q : Closed(Q) /\ net \in Q => net' \in Q
  PROVE Brings(M, {})
<1>1. ASSUME NEW K, Known(net, M, K) PROVE Known(net', M, K)
  <2>1. PICK Q : Closed(Q) /\ net \in Q /\ \A n \in Q : Known(n, M, K)
    BY <1>1, KnownIs
  <2> QED BY <2>1
<1>2. \A K : K \cup {} = K
  OBVIOUS
<1>3. \A K : Known(net, M, K) => Known(net', M, K \cup {})
  BY <1>1, <1>2
<1> QED BY <1>3, BringsOf

\* an order its argument,
LEMMA BringsOrder ==
  ASSUME CallsInv, NEW M, NEW op \in Ops, NEW arg, MayBegin(net, session.role, op), net' = Begin(net, op, arg, "")
  PROVE Brings(M, {<<op, arg, "sent", None>>})
<1>1. ASSUME NEW K, Known(net, M, K) PROVE Known(net', M, K \cup {<<op, arg, "sent", None>>})
  BY <1>1, KnownOrder
<1> QED BY <1>1, BringsOf

\* and a reply its answer.
LEMMA BringsReply ==
  ASSUME CallsInv, NEW M, NEW i \in DOMAIN net.calls, NEW answer, Replies(i, answer) \/ Refuses(i) \/ Handled(i, "denied", None)
  PROVE /\ Brings(M, {<<net.calls[i].op, net.calls[i].arg, "ok", answer>>})
        /\ Refuses(i) \/ Handled(i, "denied", None) \/ net.calls[i].standing # "live" => Brings(M, {})
<1>1. PICK fact : fact = <<net.calls[i].op, net.calls[i].arg, "ok", answer>>
  OBVIOUS
<1>2. ASSUME NEW K, Known(net, M, K) PROVE Known(net', M, K \cup {fact})
  BY <1>1, <1>2, KnownReply DEF Replies, Refuses
<1>3. Brings(M, {fact})
  BY <1>2, BringsOf
<1>4. ASSUME Refuses(i) \/ Handled(i, "denied", None) \/ net.calls[i].standing # "live" PROVE Brings(M, {})
  <2>1. ASSUME NEW K, Known(net, M, K) PROVE Known(net', M, K)
    BY <1>4, <2>1, KnownReply DEF Replies, Refuses
  <2>2. \A K : K \cup {} = K
    OBVIOUS
  <2>3. \A K : Known(net, M, K) => Known(net', M, K \cup {})
    BY <2>1, <2>2
  <2> QED BY <2>3, BringsOf
<1> QED BY <1>1, <1>3, <1>4

\* What is not asked for by an operation in M brings nothing.
LEMMA BringsOther ==
  ASSUME NEW M, NEW op, op \notin M, NEW arg, NEW status, NEW answer, Brings(M, {<<op, arg, status, answer>>})
  PROVE Brings(M, {})
<1> SUFFICES ASSUME NEW j \in DOMAIN net'.calls, Tells(net'.calls[j]), net'.calls[j].op \in M
             PROVE \E i \in DOMAIN net.calls : Tells(net.calls[i]) /\ Same(net.calls[i], net'.calls[j])
  BY DEF Brings
<1>1. Fact(net'.calls[j]) # <<op, arg, status, answer>>
  BY DEF Fact
<1> QED BY <1>1 DEF Brings

-----------------------------------------------------------------------------
\* The shell brings answers about the session and the Google connection, and each panel what belongs to it.
LEMMA ShellBrings ==
  ASSUME CallsInv, CoreInv, NEW M, M \cap ShellOps = {}, ShellStep
  PROVE Brings(M, {})
<1>1. ASSUME NEW K, Known(net, M, K) PROVE Known(net', M, K)
  BY <1>1, ShellKnown
<1>2. \A K : K \cup {} = K
  OBVIOUS
<1>3. \A K : Known(net, M, K) => Known(net', M, K \cup {})
  BY <1>1, <1>2
<1> QED BY <1>3, BringsOf

LEMMA OrderBrings ==
  ASSUME CallsInv, NEW M, Mutate \/ CreateInvitation \/ RevokeInvitation \/ RemoveMember \/ SaveEmail \/ EmailCommand \/ SaveSettings
  PROVE /\ Mutate => \E arg : Brings(M, {<<"mutate", arg, "sent", None>>})
        /\ CreateInvitation => \E arg : Brings(M, {<<"invite", arg, "sent", None>>})
        /\ RevokeInvitation => Brings(M, {<<"revoke", pendingRevoke, "sent", None>>})
        /\ RemoveMember => Brings(M, {<<"remove", pendingRemove, "sent", None>>})
        /\ SaveEmail => Brings(M, {<<"emailSettings", form, "sent", None>>})
        /\ EmailCommand => \E arg : Brings(M, {<<"emailCommand", arg, "sent", None>>})
        /\ SaveSettings => Brings(M, {<<"saveSettings", F!Read(rows), "sent", None>>})
<1>1. {"mutate", "invite", "revoke", "remove", "emailSettings", "emailCommand", "saveSettings"} \subseteq Ops
  BY DEF Ops, AccessOps, EmailOps, EmailCommands
<1>2. ASSUME NEW op \in Ops, NEW arg, MayBegin(net, session.role, op), net' = Begin(net, op, arg, "")
      PROVE Brings(M, {<<op, arg, "sent", None>>})
  BY <1>2, BringsOrder
<1>3. ASSUME Mutate PROVE \E arg : Brings(M, {<<"mutate", arg, "sent", None>>})
  <2>1. MayBegin(net, session.role, "mutate") /\ \E arg : net' = Begin(net, "mutate", arg, "")
    BY <1>3 DEF Mutate
  <2> QED BY <1>1, <1>2, <2>1
<1>4. ASSUME CreateInvitation PROVE \E arg : Brings(M, {<<"invite", arg, "sent", None>>})
  <2>1. MayBegin(net, session.role, "invite") /\ \E arg : net' = Begin(net, "invite", arg, "")
    BY <1>4 DEF CreateInvitation
  <2> QED BY <1>1, <1>2, <2>1
<1>5. ASSUME RevokeInvitation PROVE Brings(M, {<<"revoke", pendingRevoke, "sent", None>>})
  BY <1>1, <1>2, <1>5 DEF RevokeInvitation
<1>6. ASSUME RemoveMember PROVE Brings(M, {<<"remove", pendingRemove, "sent", None>>})
  BY <1>1, <1>2, <1>6 DEF RemoveMember
<1>7. ASSUME SaveEmail PROVE Brings(M, {<<"emailSettings", form, "sent", None>>})
  BY <1>1, <1>2, <1>7 DEF SaveEmail
<1>8. ASSUME EmailCommand PROVE \E arg : Brings(M, {<<"emailCommand", arg, "sent", None>>})
  <2>1. MayBegin(net, session.role, "emailCommand") /\ \E arg : net' = Begin(net, "emailCommand", arg, "")
    BY <1>8 DEF EmailCommand
  <2> QED BY <1>1, <1>2, <2>1
<1>9. ASSUME SaveSettings PROVE Brings(M, {<<"saveSettings", F!Read(rows), "sent", None>>})
  BY <1>1, <1>2, <1>9 DEF SaveSettings
<1> QED BY <1>3, <1>4, <1>5, <1>6, <1>7, <1>8, <1>9

\* A reply to an operation that is not in M brings nothing.
LEMMA ReplyOther ==
  ASSUME CallsInv, NEW M, NEW i \in DOMAIN net.calls, net.calls[i].op \notin M, NEW answer, Replies(i, answer) \/ Refuses(i)
  PROVE Brings(M, {})
<1>1. PICK op : op = net.calls[i].op
  OBVIOUS
<1>2. PICK arg : arg = net.calls[i].arg
  OBVIOUS
<1>3. Brings(M, {<<op, arg, "ok", answer>>})
  BY <1>1, <1>2, BringsReply
<1> QED BY <1>1, <1>3, BringsOther

LEMMA BookingsBrings ==
  ASSUME CallsInv, CoreInv, NEW M, M \cap {"bookings", "mutate"} = {}, BookingsNext
  PROVE Brings(M, {})
<1>1. CASE Mutate
  BY <1>1, OrderBrings, BringsOther
<1>2. ASSUME NEW i \in DOMAIN net.calls, ServeBookings(i) \/ ServeMutate(i) PROVE Brings(M, {})
  <2>1. net.calls[i].op \notin M
    BY <1>2 DEF ServeBookings, ServeMutate, Arrives, Is
  <2>2. Refuses(i) \/ \E answer : Replies(i, answer)
    BY <1>2 DEF ServeBookings, ServeMutate
  <2> QED BY <2>1, <2>2, ReplyOther
<1>3. ASSUME ~Mutate, ~\E i \in DOMAIN net.calls : ServeBookings(i) \/ ServeMutate(i) PROVE Brings(M, {})
  BY <1>3, BookingsIn, BringsIn
<1> QED BY <1>1, <1>2, <1>3

LEMMA AccessBrings ==
  ASSUME CallsInv, CoreInv, NEW M, M \cap AccessOps = {}, AccessNext
  PROVE Brings(M, {})
<1>1. CASE CreateInvitation \/ RevokeInvitation \/ RemoveMember
  <2>1. "invite" \notin M /\ "revoke" \notin M /\ "remove" \notin M
    BY DEF AccessOps
  <2>2. PICK p, q : p = pendingRevoke /\ q = pendingRemove
    OBVIOUS
  <2>3. CASE CreateInvitation
    BY <2>1, <2>3, OrderBrings, BringsOther
  <2>4. CASE RevokeInvitation
    BY <2>1, <2>2, <2>4, OrderBrings, BringsOther
  <2>5. CASE RemoveMember
    BY <2>1, <2>2, <2>5, OrderBrings, BringsOther
  <2> QED BY <1>1, <2>3, <2>4, <2>5
<1>2. ASSUME NEW i \in DOMAIN net.calls, ServeInvitations(i) \/ ServeMembers(i) PROVE Brings(M, {})
  <2>1. net.calls[i].op \in AccessOps
    BY <1>2 DEF ServeInvitations, ServeMembers, Arrives, Is, AccessOps
  <2>2. Refuses(i) \/ \E answer : Replies(i, answer)
    BY <1>2 DEF ServeInvitations, ServeMembers
  <2> QED BY <2>1, <2>2, ReplyOther
<1>3. ASSUME ~(CreateInvitation \/ RevokeInvitation \/ RemoveMember), ~\E i \in DOMAIN net.calls : ServeInvitations(i) \/ ServeMembers(i)
      PROVE Brings(M, {})
  BY <1>3, AccessIn, BringsIn
<1> QED BY <1>1, <1>2, <1>3

LEMMA EmailsBrings ==
  ASSUME CallsInv, CoreInv, NEW M, M \cap EmailOps = {}, EmailsNext
  PROVE Brings(M, {})
<1>1. CASE SaveEmail \/ EmailCommand
  <2>1. "emailSettings" \notin M /\ "emailCommand" \notin M
    BY DEF EmailOps, EmailCommands
  <2>2. PICK p : p = form
    OBVIOUS
  <2>3. CASE SaveEmail
    BY <2>1, <2>2, <2>3, OrderBrings, BringsOther
  <2>4. CASE EmailCommand
    BY <2>1, <2>4, OrderBrings, BringsOther
  <2> QED BY <1>1, <2>3, <2>4
<1>2. ASSUME NEW i \in DOMAIN net.calls, ServeEmails(i) PROVE Brings(M, {})
  <2>1. net.calls[i].op \in EmailOps
    BY <1>2 DEF ServeEmails, Arrives, Is, EmailOps, EmailCommands
  <2>2. Refuses(i) \/ \E answer : Replies(i, answer)
    BY <1>2 DEF ServeEmails
  <2> QED BY <2>1, <2>2, ReplyOther
<1>3. ASSUME ~(SaveEmail \/ EmailCommand), ~\E i \in DOMAIN net.calls : ServeEmails(i) PROVE Brings(M, {})
  BY <1>3, EmailsIn, BringsIn
<1> QED BY <1>1, <1>2, <1>3

LEMMA SettingsBrings ==
  ASSUME CallsInv, CoreInv, NEW M, M \cap {"settings", "saveSettings"} = {}, SettingsNext
  PROVE Brings(M, {})
<1>1. CASE SaveSettings
  <2>1. PICK arg : arg = F!Read(rows)
    OBVIOUS
  <2> QED BY <1>1, <2>1, OrderBrings, BringsOther
<1>2. ASSUME NEW i \in DOMAIN net.calls, ServeSettings(i) PROVE Brings(M, {})
  <2>1. net.calls[i].op \notin M
    BY <1>2 DEF ServeSettings, Arrives, Is
  <2>2. Refuses(i) \/ \E answer : Replies(i, answer)
    BY <1>2 DEF ServeSettings
  <2> QED BY <2>1, <2>2, ReplyOther
<1>3. ASSUME ~SaveSettings, ~\E i \in DOMAIN net.calls : ServeSettings(i) PROVE Brings(M, {})
  BY <1>3, SettingsIn, BringsIn
<1> QED BY <1>1, <1>2, <1>3

LEMMA SameBrings ==
  ASSUME NEW M, net' = net
  PROVE Brings(M, {})
BY DEF Brings, Same

-----------------------------------------------------------------------------
\* CallsInv holds when the page is opened and is kept by every step.
LEMMA CallsStart ==
  Init => CallsInv
<1> SUFFICES ASSUME Init PROVE CallsInv
  OBVIOUS
<1>1. PICK e \in Entries : net = Started(Empty, e.token)
  BY DEF Init, ShellInit
<1> DEFINE Q == KnownNets(ShellArgs, {}, {})
<1>2. Closed(Q)
  BY KnownClosed
<1>3. Empty \in Q
  <2>1. <<>> \in Seq(KnownCalls(ShellArgs, {}, {})) /\ {} \subseteq Flags
    <3> HIDE DEF ShellArgs
    <3> QED OBVIOUS
  <2>2. \A room \in Rooms : \A f, g \in {} \cap room : f = g
    OBVIOUS
  <2>3. PICK calls, busy : calls = <<>> /\ busy = {}
    OBVIOUS
  <2>4. [calls |-> calls, busy |-> busy] \in Q
    BY <2>1, <2>2, <2>3, KnownNet
  <2> QED BY <2>3, <2>4 DEF Empty
<1>4. PICK n : n = Empty
  OBVIOUS
<1>5. n \in Q
  BY <1>3, <1>4
<1> HIDE DEF Q
<1>6. Started(n, e.token) \in Q
  BY <1>2, <1>5, ClosedStarted
<1>7. Started(Empty, e.token) \in Q
  BY <1>4, <1>6
<1> QED BY <1>1, <1>7 DEF CallsInv, Known, Q

LEMMA CallsStep ==
  ASSUME CoreInv, CallsInv, [Next]_vars
  PROVE CallsInv'
<1>1. PICK Q : Closed(Q) /\ net \in Q /\ \A n \in Q : Known(n, {}, {})
  BY KnownIs DEF CallsInv
<1>2. CASE net' \in Q
  BY <1>1, <1>2 DEF CallsInv
<1>3. ASSUME NEW i \in DOMAIN net.calls, NEW answer, Replies(i, answer) \/ Refuses(i) PROVE CallsInv'
  <2>1. PICK none : none = {}
    OBVIOUS
  <2>2. Known(net, none, none) /\ none \subseteq none /\ net.calls[i].op \notin none
    BY <2>1 DEF CallsInv
  <2>3. Handled(i, "ok", answer) \/ Handled(i, "refused", None)
    BY <1>3 DEF Replies, Refuses
  <2>4. Known(net', none, none)
    BY <2>2, <2>3, KnownReply
  <2> QED BY <2>1, <2>4 DEF CallsInv
<1>4. ASSUME NEW op \in Ops, NEW arg, MayBegin(net, session.role, op), net' = Begin(net, op, arg, "") PROVE CallsInv'
  <2>1. Known(Begin(net, op, arg, ""), {}, {})
    BY <1>4, KnownOrder DEF CallsInv
  <2> QED BY <1>4, <2>1 DEF CallsInv
<1>5. {"mutate", "invite", "revoke", "remove", "emailSettings", "emailCommand", "saveSettings"} \subseteq Ops
  BY DEF Ops, AccessOps, EmailOps, EmailCommands
<1>6. CASE ShellStep
  <2>1. Known(net', {}, {})
    BY <1>6, ShellKnown DEF CallsInv
  <2> QED BY <2>1 DEF CallsInv
<1>7. CASE BookingsNext
  <2>1. ASSUME Mutate PROVE CallsInv'
    BY <1>4, <1>5, <2>1 DEF Mutate
  <2>2. ASSUME NEW i \in DOMAIN net.calls, ServeBookings(i) \/ ServeMutate(i) PROVE CallsInv'
    BY <1>3, <2>2 DEF ServeBookings, ServeMutate
  <2> QED BY <1>1, <1>2, <1>7, <2>1, <2>2, BookingsIn
<1>8. CASE AccessNext
  <2>1. ASSUME CreateInvitation \/ RevokeInvitation \/ RemoveMember PROVE CallsInv'
    BY <1>4, <1>5, <2>1 DEF CreateInvitation, RevokeInvitation, RemoveMember
  <2>2. ASSUME NEW i \in DOMAIN net.calls, ServeInvitations(i) \/ ServeMembers(i) PROVE CallsInv'
    BY <1>3, <2>2 DEF ServeInvitations, ServeMembers
  <2> QED BY <1>1, <1>2, <1>8, <2>1, <2>2, AccessIn
<1>9. CASE EmailsNext
  <2>1. ASSUME SaveEmail \/ EmailCommand PROVE CallsInv'
    BY <1>4, <1>5, <2>1 DEF SaveEmail, EmailCommand
  <2>2. ASSUME NEW i \in DOMAIN net.calls, ServeEmails(i) PROVE CallsInv'
    BY <1>3, <2>2 DEF ServeEmails
  <2> QED BY <1>1, <1>2, <1>9, <2>1, <2>2, EmailsIn
<1>10. CASE SettingsNext
  <2>1. ASSUME SaveSettings PROVE CallsInv'
    BY <1>4, <1>5, <2>1 DEF SaveSettings
  <2>2. ASSUME NEW i \in DOMAIN net.calls, ServeSettings(i) PROVE CallsInv'
    BY <1>3, <2>2 DEF ServeSettings
  <2> QED BY <1>1, <1>2, <1>10, <2>1, <2>2, SettingsIn
<1>11. CASE UNCHANGED vars
  BY <1>1, <1>2, <1>11 DEF vars, shellVars
<1> QED BY <1>6, <1>7, <1>8, <1>9, <1>10, <1>11 DEF Next

\* What the theorems about answers rest on.
BaseInv == PortalInv /\ OrderInv /\ CallsInv
LEMMA BaseHolds ==
  Spec => []BaseInv
<1>1. Init => CallsInv
  BY CallsStart
<1>2. (PortalInv /\ OrderInv) /\ CallsInv /\ [Next]_vars => CallsInv'
  BY CallsStep DEF PortalInv
<1> QED BY <1>1, <1>2, OrderHolds, PTL DEF Spec, BaseInv

-----------------------------------------------------------------------------
(* The unsaved email preferences                                           *)

\* What is known of a live call.
LEMMA LiveCall ==
  ASSUME NEW n, NEW role, NEW may, NetOK(n, role, may), NEW O, NEW L, NEW free, NEW S, Steady(n, O, L, free, S),
         NEW j \in DOMAIN n.calls, n.calls[j].standing = "live"
  PROVE /\ n.calls[j].op \in Ops /\ n.calls[j].op \in may
        /\ Asked(n.calls[j]) /\ Told(n.calls[j])
        /\ n.calls[j].op \in Special => n.calls[j].op \in S
        /\ n.calls[j].op \in Flags \ free => n.calls[j].op \in n.busy
        /\ role = "out" => n.calls[j].op \in {"start", "google"}
<1>1. PICK V : n \in Nets(CallsFor(V, role, may))
  BY DEF NetOK
<1>2. n.calls[j] \in CallsFor(V, role, may)
  <2>1. PICK T : T = CallsFor(V, role, may)
    OBVIOUS
  <2>2. n.calls \in Seq(T)
    BY <1>1, <2>1 DEF Nets
  <2> QED BY <2>1, <2>2
<1>3. n.calls[j] \in Records(V) /\ Rightful(n.calls[j], role, may) /\ Asked(n.calls[j]) /\ Told(n.calls[j])
  BY <1>2 DEF CallsFor
<1>4. Raised(n, free) /\ Within(n, S)
  BY DEF Steady, OrderlyNets, Orderly
<1>5. Waits(n.calls[j])
  BY DEF Waits
<1> QED BY <1>3, <1>4, <1>5 DEF Records, Rightful, Raised, Within

LEMMA LiveBefore ==
  ASSUME CoreInv, OrderInv, NEW j \in DOMAIN net.calls, net.calls[j].standing = "live"
  PROVE /\ net.calls[j].op \in Ops /\ net.calls[j].op \in AnyMay /\ MayDo(session.role, net.calls[j].op)
        /\ Asked(net.calls[j]) /\ Told(net.calls[j])
        /\ net.calls[j].op \in Special => net.calls[j].op \in MayWait
        /\ net.calls[j].op \in Flags \ Free => net.calls[j].op \in net.busy
        /\ session.role = "out" => net.calls[j].op \in {"start", "google"}
<1>1. PICK n, role, may, O, L, free, S : n = net /\ role = session.role /\ may = May(session.role) /\ O = orphaned /\ L = leaving /\ free = Free /\ S = MayWait
  OBVIOUS
<1>2. NetOK(n, role, may) /\ Steady(n, O, L, free, S)
  BY <1>1 DEF CoreInv, OrderInv
<1>3. /\ n.calls[j].op \in Ops /\ n.calls[j].op \in may
      /\ Asked(n.calls[j]) /\ Told(n.calls[j])
      /\ n.calls[j].op \in Special => n.calls[j].op \in S
      /\ n.calls[j].op \in Flags \ free => n.calls[j].op \in n.busy
      /\ role = "out" => n.calls[j].op \in {"start", "google"}
  BY <1>1, <1>2, LiveCall
<1> QED BY <1>1, <1>3 DEF May

LEMMA LiveAfter ==
  ASSUME CoreInv', OrderInv', NEW j \in DOMAIN net'.calls, net'.calls[j].standing = "live"
  PROVE /\ net'.calls[j].op \in Ops /\ net'.calls[j].op \in AnyMay' /\ MayDo(session'.role, net'.calls[j].op)
        /\ Asked(net'.calls[j]) /\ Told(net'.calls[j])
        /\ net'.calls[j].op \in Special => net'.calls[j].op \in MayWait'
        /\ net'.calls[j].op \in Flags \ Free' => net'.calls[j].op \in net'.busy
        /\ session'.role = "out" => net'.calls[j].op \in {"start", "google"}
<1>1. PICK n, role, may, O, L, free, S : n = net' /\ role = session'.role /\ may = May(session.role)' /\ O = orphaned' /\ L = leaving' /\ free = Free' /\ S = MayWait'
  OBVIOUS
<1>2. NetOK(n, role, may) /\ Steady(n, O, L, free, S)
  BY <1>1 DEF CoreInv, OrderInv
<1>3. /\ n.calls[j].op \in Ops /\ n.calls[j].op \in may
      /\ Asked(n.calls[j]) /\ Told(n.calls[j])
      /\ n.calls[j].op \in Special => n.calls[j].op \in S
      /\ n.calls[j].op \in Flags \ free => n.calls[j].op \in n.busy
      /\ role = "out" => n.calls[j].op \in {"start", "google"}
  BY <1>1, <1>2, LiveCall
<1> QED BY <1>1, <1>3 DEF May

\* A page that is opened has begun nothing but its start.
LEMMA StartsAlone ==
  ASSUME NEW token
  PROVE \A i \in DOMAIN Started(Empty, token).calls : Started(Empty, token).calls[i].op = "start"
<1>1. <<>> \in Seq({})
  OBVIOUS
<1>2. PICK old : old = Stale(<<>>)
  OBVIOUS
<1>3. old \in Seq({})
  <2>1. PICK none : none = {}
    OBVIOUS
  <2>2. PICK calls : calls = <<>>
    OBVIOUS
  <2>3. calls \in Seq(none) /\ \A c \in none : [c EXCEPT !.standing = "stale"] \in none
    BY <2>1, <2>2
  <2>4. Stale(calls) \in Seq(none)
    BY <2>3, StaleIn
  <2> QED BY <1>2, <2>1, <2>2, <2>4
<1>4. PICK rest : rest = Superseded(old, Supersedes["start"])
  OBVIOUS
<1>5. rest \in Seq({})
  BY <1>3, <1>4, SupersededIn
<1>6. PICK c : c = Call("start", IF token = "setup" THEN "bootstrap" ELSE "session", "")
  OBVIOUS
<1>7. Started(Empty, token).calls = Append(rest, c)
  BY <1>2, <1>4, <1>6 DEF Started, Empty, Begin
<1>8. c.op = "start"
  BY <1>6 DEF Call
<1>9. rest = <<>>
  BY <1>5
<1> QED BY <1>7, <1>8, <1>9

-----------------------------------------------------------------------------
\* While the preferences are being saved they are what the form holds, and it is still unsaved.
DraftInv ==
  \A i \in DOMAIN net.calls : Tells(net.calls[i]) /\ net.calls[i].op = "emailSettings" => emailDirty /\ net.calls[i].arg = form

LEMMA EmailIsBusy ==
  ASSUME NEW j \in DOMAIN net.calls, CoreInv, OrderInv, net.calls[j].standing = "live", net.calls[j].op = "emailSettings"
  PROVE EmailBusy
<1>1. "emailSettings" \in EmailCommands /\ "emailSettings" \in Flags \ Free
  BY DEF EmailCommands, Flags, Ops, EmailOps, Free
<1> QED BY <1>1, LiveBefore DEF EmailBusy

\* What the calls bring keeps the preferences under way as they are typed.
LEMMA DraftBrings ==
  ASSUME DraftInv, Brings({"emailSettings"}, {}), UNCHANGED form \/ ~emailDirty, emailDirty' <=> emailDirty
  PROVE DraftInv'
<1> SUFFICES ASSUME NEW j \in DOMAIN net'.calls, Tells(net'.calls[j]), net'.calls[j].op = "emailSettings"
             PROVE emailDirty' /\ net'.calls[j].arg = form'
  BY DEF DraftInv
<1>1. PICK i \in DOMAIN net.calls : Tells(net.calls[i]) /\ Same(net.calls[i], net'.calls[j])
  BY DEF Brings
<1>2. emailDirty /\ net.calls[i].arg = form
  BY <1>1 DEF DraftInv, Same
<1> QED BY <1>1, <1>2 DEF Same

\* A step of another part leaves the form alone, or the session has lost its right to it.
LEMMA DraftFollows ==
  ASSUME DraftInv, CoreInv', OrderInv', Brings({"emailSettings"}, {}), EmailsFollow
  PROVE DraftInv' /\ (emailDirty /\ (form' # form \/ ~emailDirty') => session'.role \notin Members)
<1>1. CASE session'.role \in Members
  <2>1. form' = form /\ emailDirty' = emailDirty
    BY <1>1 DEF EmailsFollow
  <2> QED BY <2>1, DraftBrings
<1>2. CASE session'.role \notin Members
  <2>1. ASSUME NEW j \in DOMAIN net'.calls, Tells(net'.calls[j]), net'.calls[j].op = "emailSettings" PROVE FALSE
    <3>1. MayDo(session'.role, "emailSettings")
      BY <2>1, LiveAfter DEF Tells
    <3>2. "emailSettings" \in EmailOps /\ "emailSettings" \notin AccessOps
      BY DEF EmailOps, EmailCommands, AccessOps
    <3> QED BY <1>2, <3>1, <3>2 DEF MayDo
  <2> QED BY <1>2, <2>1 DEF DraftInv
<1> QED BY <1>1, <1>2

KeepsDraft ==
  emailDirty /\ (form' # form \/ ~emailDirty') =>
       \/ session'.role \notin Members
       \/ emailDirty' /\ UNCHANGED net
       \/ ~emailDirty' /\ form' = email'.settings.value /\ UNCHANGED <<net, email>>
       \/ ~emailDirty' /\ \E i \in DOMAIN net.calls : Answered(i, "emailSettings") /\ net.calls[i].arg = form

LEMMA EmailsDraft ==
  ASSUME BaseInv, BaseInv', DraftInv, EmailsNext
  PROVE DraftInv' /\ KeepsDraft
<1>0. CallsInv /\ CoreInv /\ OrderInv /\ CoreInv' /\ OrderInv' /\ emailDirty \in BOOLEAN
  BY DEF BaseInv, PortalInv, EmailsInv
<1> DEFINE M == {"emailSettings"}
<1>1. CASE EditEmail \/ DiscardEmail
  <2>1. ~EmailBusy /\ net' = net
    BY <1>1 DEF EditEmail, DiscardEmail, shellVars
  <2>2. \A j \in DOMAIN net.calls : ~(Tells(net.calls[j]) /\ net.calls[j].op = "emailSettings")
    BY <1>0, <2>1, EmailIsBusy DEF Tells
  <2>3. DraftInv'
    BY <2>1, <2>2 DEF DraftInv
  <2>4. CASE EditEmail
    BY <2>1, <2>3, <2>4 DEF EditEmail, KeepsDraft
  <2>5. CASE DiscardEmail
    <3>1. email' = email
      BY <2>5 DEF DiscardEmail
    <3> QED BY <2>1, <2>3, <2>5, <3>1 DEF DiscardEmail, KeepsDraft
  <2> QED BY <1>1, <2>4, <2>5
<1>2. ASSUME UNCHANGED <<form, emailDirty>>, Brings(M, {}) PROVE DraftInv' /\ KeepsDraft
  BY <1>0, <1>2, DraftBrings DEF KeepsDraft
<1>3. CASE SaveEmail
  <2>1. PICK f : f = form
    OBVIOUS
  <2>2. Brings(M, {<<"emailSettings", f, "sent", None>>})
    BY <1>0, <1>3, <2>1, OrderBrings
  <2>3. emailDirty /\ UNCHANGED <<form, emailDirty>>
    BY <1>3 DEF SaveEmail, emailVars
  <2>4. ASSUME NEW j \in DOMAIN net'.calls, Tells(net'.calls[j]), net'.calls[j].op = "emailSettings"
        PROVE net'.calls[j].arg = form
    <3>1. CASE \E i \in DOMAIN net.calls : Tells(net.calls[i]) /\ Same(net.calls[i], net'.calls[j])
      BY <2>4, <3>1 DEF DraftInv, Same
    <3>2. CASE Fact(net'.calls[j]) \in {<<"emailSettings", f, "sent", None>>}
      BY <2>1, <3>2 DEF Fact
    <3> QED BY <2>2, <2>4, <3>1, <3>2 DEF Brings
  <2> QED BY <2>3, <2>4 DEF DraftInv, KeepsDraft
<1>4. CASE EmailCommand
  <2>1. Brings(M, {})
    BY <1>0, <1>4, OrderBrings, BringsOther
  <2>2. UNCHANGED <<form, emailDirty>>
    BY <1>4 DEF EmailCommand, emailVars
  <2> QED BY <1>2, <2>1, <2>2
<1>5. ASSUME NEW i \in DOMAIN net.calls, ServeEmails(i) PROVE DraftInv' /\ KeepsDraft
  <2>1. UNCHANGED <<form, emailDirty>>
    BY <1>5 DEF ServeEmails
  <2>2. PICK op, arg : op = net.calls[i].op /\ arg = net.calls[i].arg
    OBVIOUS
  <2>3. net.calls[i].status = "sent"
    BY <1>5 DEF ServeEmails, Arrives
  <2>4. PICK answer : Replies(i, answer) \/ Refuses(i)
    BY <1>5 DEF ServeEmails
  <2>5. CASE op = "emailSettings" /\ net.calls[i].standing = "live"
    <3>1. Tells(net.calls[i])
      BY <2>2, <2>3, <2>5 DEF Tells, Orders
    <3>2. emailDirty /\ arg = form
      BY <2>2, <2>5, <3>1 DEF DraftInv
    <3>3. Brings(M, {<<op, arg, "ok", answer>>})
      BY <1>0, <2>2, <2>4, BringsReply
    <3>4. ASSUME NEW j \in DOMAIN net'.calls, Tells(net'.calls[j]), net'.calls[j].op = "emailSettings"
          PROVE net'.calls[j].arg = form
      <4>1. CASE \E k \in DOMAIN net.calls : Tells(net.calls[k]) /\ Same(net.calls[k], net'.calls[j])
        BY <3>4, <4>1 DEF DraftInv, Same
      <4>2. CASE Fact(net'.calls[j]) \in {<<op, arg, "ok", answer>>}
        BY <3>2, <4>2 DEF Fact
      <4> QED BY <3>3, <3>4, <4>1, <4>2 DEF Brings
    <3> QED BY <2>1, <3>2, <3>4 DEF DraftInv, KeepsDraft
  <2>6. CASE op # "emailSettings"
    BY <1>0, <1>2, <2>1, <2>2, <2>4, <2>6, ReplyOther
  <2>7. CASE net.calls[i].standing # "live"
    BY <1>0, <1>2, <2>1, <2>4, <2>7, BringsReply
  <2> QED BY <2>5, <2>6, <2>7
<1>6. ASSUME NEW i \in DOMAIN net.calls, EmailSaved(i) PROVE DraftInv' /\ KeepsDraft
  <2>1. /\ net.calls[i].standing = "live" /\ net.calls[i].op = "emailSettings" /\ net.calls[i].status = "ok"
        /\ Answered(i, "emailSettings") /\ ~emailDirty' /\ net' = Released(i)
    BY <1>6 DEF EmailSaved, Answered, Is
  <2>2. "emailSettings" \notin net'.busy
    BY <2>1 DEF Released
  <2>3. \A j \in DOMAIN net'.calls : ~(Tells(net'.calls[j]) /\ net'.calls[j].op = "emailSettings")
    <3>1. "emailSettings" \in Flags \ Free'
      BY DEF Flags, Ops, EmailOps, EmailCommands, Free
    <3> QED BY <1>0, <2>2, <3>1, LiveAfter DEF Tells
  <2>4. net.calls[i].arg = form
    BY <2>1 DEF DraftInv, Tells
  <2> QED BY <2>1, <2>3, <2>4 DEF DraftInv, KeepsDraft
<1>7. ASSUME ~EditEmail, ~DiscardEmail, ~SaveEmail, ~EmailCommand, ~\E i \in DOMAIN net.calls : ServeEmails(i) \/ EmailSaved(i)
      PROVE DraftInv' /\ KeepsDraft
  <2>1. Brings(M, {})
    BY <1>0, <1>7, EmailsIn, BringsIn
  <2>2. CASE ConnectEmail \/ AskEmail \/ MailChanges
    <3>1. UNCHANGED <<form, emailDirty>>
      BY <2>2 DEF ConnectEmail, AskEmail, MailChanges, emailVars
    <3> QED BY <1>2, <2>1, <3>1
  <2>3. ASSUME NEW i \in DOMAIN net.calls, NEW op, EmailConsentOpened(i) \/ EmailCommanded(i) \/ EmailFails(i, op) PROVE DraftInv' /\ KeepsDraft
    <3>1. UNCHANGED <<form, emailDirty>>
      BY <2>3 DEF EmailConsentOpened, EmailCommanded, EmailFails, emailVars
    <3> QED BY <1>2, <2>1, <3>1
  <2>4. ASSUME NEW i \in DOMAIN net.calls, EmailsAnswered(i) PROVE DraftInv' /\ KeepsDraft
    <3>1. (emailDirty => form' = form) /\ emailDirty' = emailDirty
      BY <2>4 DEF EmailsAnswered, FormShows
    <3> QED BY <1>0, <2>1, <3>1, DraftBrings DEF KeepsDraft
  <2> QED BY <1>7, <2>2, <2>3, <2>4 DEF EmailsNext
<1> QED BY <1>1, <1>3, <1>4, <1>5, <1>6, <1>7

LEMMA EmailDraftStep ==
  ASSUME BaseInv, BaseInv', DraftInv, [Next]_vars
  PROVE DraftInv' /\ KeepsDraft
<1>0. CallsInv /\ CoreInv /\ OrderInv /\ CoreInv' /\ OrderInv'
  BY DEF BaseInv, PortalInv
<1> DEFINE M == {"emailSettings"}
<1>1. ASSUME EmailsFollow, Brings(M, {}) PROVE DraftInv' /\ KeepsDraft
  BY <1>0, <1>1, DraftFollows DEF KeepsDraft
<1>2. M \cap ShellOps = {} /\ M \cap {"bookings", "mutate"} = {} /\ M \cap AccessOps = {} /\ M \cap {"settings", "saveSettings"} = {}
  BY DEF ShellOps, GoogleOps, AccessOps
<1> HIDE DEF M
<1>3. CASE EmailsFollow /\ (ShellStep \/ BookingsNext \/ AccessNext \/ SettingsNext)
  BY <1>0, <1>1, <1>2, <1>3, ShellBrings, BookingsBrings, AccessBrings, SettingsBrings
<1>4. CASE EmailsNext
  BY <1>4, EmailsDraft
<1>5. CASE UNCHANGED vars
  <2>1. net' = net /\ form' = form /\ emailDirty' = emailDirty
    BY <1>5 DEF vars, shellVars, emailVars
  <2>2. KeepsDraft
    BY <2>1 DEF KeepsDraft
  <2> QED BY <2>1, <2>2 DEF DraftInv
<1> QED BY <1>3, <1>4, <1>5 DEF Next, PanelsFollow, OthersFollow

\* EmailDraftKept: unsaved email preferences are lost neither by a load nor by a command nor by a failure (renderEmailSettings shows
\* the form again when it is unsaved; saveEmailSettings keeps it until its answer, markEmailDirty is off meanwhile).
THEOREM EmailDraftKeptHolds ==
  Spec => EmailDraftKept
<1>1. Init => DraftInv
  <2> SUFFICES ASSUME Init PROVE DraftInv
    OBVIOUS
  <2>1. PICK e \in Entries : net = Started(Empty, e.token)
    BY DEF Init, ShellInit
  <2>2. \A i \in DOMAIN net.calls : net.calls[i].op = "start"
    BY <2>1, StartsAlone
  <2> QED BY <2>2 DEF DraftInv
<1>2. BaseInv /\ BaseInv' /\ DraftInv /\ [Next]_vars => DraftInv'
  BY EmailDraftStep
<1>3. BaseInv /\ BaseInv' /\ DraftInv /\ [Next]_vars => [emailDirty /\ (form' # form \/ ~emailDirty') =>
       \/ session'.role \notin Members
       \/ emailDirty' /\ UNCHANGED net
       \/ ~emailDirty' /\ form' = email'.settings.value /\ UNCHANGED <<net, email>>
       \/ ~emailDirty' /\ \E i \in DOMAIN net.calls : Answered(i, "emailSettings") /\ net.calls[i].arg = form]_vars
  BY EmailDraftStep DEF KeepsDraft
<1> QED BY <1>1, <1>2, <1>3, BaseHolds, PTL DEF Spec, EmailDraftKept

-----------------------------------------------------------------------------
(* The unsaved availability                                                *)

\* While the availability is being saved it is what the form holds, and so is what the server answers; only what was loaded is edited.
EditsInv ==
  /\ dirty => settings # None
  /\ \A i \in DOMAIN net.calls :
       Tells(net.calls[i]) /\ net.calls[i].op = "saveSettings" /\ ~overlapped =>
         /\ net.calls[i].arg = F!Read(rows)
         /\ net.calls[i].status = "ok" => net.calls[i].answer.value = net.calls[i].arg

KeepsEdits ==
  dirty /\ ~dirty' =>
       \/ session'.role \notin Authenticated \/ overlapped
       \/ settings' = settings
       \/ settings'.value = F!Read(rows)

Save == {"saveSettings"}

\* A save under way, before and after a step.
LEMMA SaveLive ==
  ASSUME CoreInv, OrderInv, NEW i \in DOMAIN net.calls, net.calls[i].standing = "live", net.calls[i].op \in {"settings", "saveSettings"}, ~overlapped
  PROVE /\ net.calls[i].op = "saveSettings" => Locked /\ settings # None /\ ~resettable /\ view = "portal"
        /\ net.calls[i].op = "settings" => settings = None
<1>1. net.calls[i].op \in MayWait
  BY LiveBefore DEF Special
<1>2. net.calls[i].op = "saveSettings" => net.calls[i].op \in Flags \ Free
  BY DEF Flags, Ops, Free
<1> QED BY <1>1, <1>2, LiveBefore DEF MayWait, Locked

LEMMA SaveLiveAfter ==
  ASSUME CoreInv', OrderInv', NEW j \in DOMAIN net'.calls, Tells(net'.calls[j]), net'.calls[j].op = "saveSettings", ~overlapped'
  PROVE /\ "saveSettings" \in net'.busy /\ ~resettable' /\ view' = "portal"
        /\ session'.role \in Authenticated
<1>1. net'.calls[j].op \in MayWait' /\ MayDo(session'.role, "saveSettings")
  BY LiveAfter DEF Tells, Special
<1>2. "saveSettings" \in Flags \ Free'
  BY DEF Flags, Ops, Free
<1>3. session'.role \in Authenticated
  BY <1>1 DEF MayDo, AccessOps, EmailOps, EmailCommands
<1> QED BY <1>1, <1>2, <1>3, LiveAfter DEF MayWait, Tells

\* What the calls bring keeps the save under way as the form holds it.
LEMMA EditsBrings ==
  ASSUME EditsInv, Brings(Save, {}), UNCHANGED rows, ~overlapped' => ~overlapped, dirty' => settings' # None
  PROVE EditsInv'
<1> SUFFICES ASSUME NEW j \in DOMAIN net'.calls, Tells(net'.calls[j]), net'.calls[j].op = "saveSettings", ~overlapped'
             PROVE net'.calls[j].arg = F!Read(rows') /\ (net'.calls[j].status = "ok" => net'.calls[j].answer.value = net'.calls[j].arg)
  BY DEF EditsInv
<1>1. PICK i \in DOMAIN net.calls : Tells(net.calls[i]) /\ Same(net.calls[i], net'.calls[j])
  BY DEF Brings, Save
<1>2. /\ net.calls[i].arg = F!Read(rows) /\ (net.calls[i].status = "ok" => net.calls[i].answer.value = net.calls[i].arg)
  BY <1>1 DEF EditsInv, Same
<1>3. F!Read(rows') = F!Read(rows)
  OBVIOUS
<1> QED BY <1>1, <1>2, <1>3 DEF Same

\* A step of another part leaves the form alone, or the session has ended.
LEMMA EditsFollow ==
  ASSUME EditsInv, CoreInv', OrderInv', Brings(Save, {}), SettingsFollow
  PROVE EditsInv' /\ KeepsEdits
<1>1. ASSUME NEW j \in DOMAIN net'.calls, Tells(net'.calls[j]), net'.calls[j].op = "saveSettings", ~overlapped'
      PROVE /\ session'.role \in Authenticated /\ ~overlapped
  BY <1>1, SaveLiveAfter DEF SettingsFollow
<1>2. CASE session'.role \in Authenticated
  <2>1. settings' = settings /\ rows' = rows /\ dirty' = dirty
    BY <1>2 DEF SettingsFollow
  <2>2. ASSUME NEW j \in DOMAIN net'.calls, Tells(net'.calls[j]), net'.calls[j].op = "saveSettings", ~overlapped'
        PROVE net'.calls[j].arg = F!Read(rows') /\ (net'.calls[j].status = "ok" => net'.calls[j].answer.value = net'.calls[j].arg)
    <3>1. PICK i \in DOMAIN net.calls : Tells(net.calls[i]) /\ Same(net.calls[i], net'.calls[j])
      BY <2>2 DEF Brings, Save
    <3>2. /\ net.calls[i].arg = F!Read(rows) /\ (net.calls[i].status = "ok" => net.calls[i].answer.value = net.calls[i].arg)
      BY <1>1, <2>2, <3>1 DEF EditsInv, Same
    <3>3. F!Read(rows') = F!Read(rows)
      BY <2>1
    <3> QED BY <3>1, <3>2, <3>3 DEF Same
  <2>3. dirty' => settings' # None
    BY <2>1 DEF EditsInv
  <2> QED BY <2>1, <2>2, <2>3 DEF EditsInv, KeepsEdits
<1>3. CASE session'.role \notin Authenticated
  <2>1. ~dirty'
    BY <1>3 DEF SettingsFollow
  <2> QED BY <1>1, <1>3, <2>1 DEF EditsInv, KeepsEdits
<1> QED BY <1>2, <1>3

LEMMA SettingsEdits ==
  ASSUME BaseInv, BaseInv', EditsInv, SettingsNext
  PROVE EditsInv' /\ KeepsEdits
<1>0. CallsInv /\ CoreInv /\ OrderInv /\ CoreInv' /\ OrderInv'
  BY DEF BaseInv, PortalInv
<1>1. CASE EditSettings
  <2>1. net' = net /\ ~Locked /\ overlapped' = overlapped /\ settings' = settings /\ settings # None /\ dirty'
    BY <1>1 DEF EditSettings, Editable, shellVars
  <2>2. \A j \in DOMAIN net.calls : Tells(net.calls[j]) /\ net.calls[j].op = "saveSettings" => overlapped
    BY <1>0, <2>1, SaveLive DEF Tells
  <2> QED BY <2>1, <2>2 DEF EditsInv, KeepsEdits
<1>2. CASE DiscardSettings
  <2>1. settings' = settings /\ ~dirty' /\ resettable' /\ overlapped' = overlapped
    BY <1>2 DEF DiscardSettings, Renders
  <2>2. \A j \in DOMAIN net'.calls : Tells(net'.calls[j]) /\ net'.calls[j].op = "saveSettings" => overlapped'
    BY <1>0, <2>1, SaveLiveAfter
  <2> QED BY <2>1, <2>2 DEF EditsInv, KeepsEdits
<1>3. ASSUME NEW i \in DOMAIN net.calls, SettingsAnswered(i) PROVE EditsInv' /\ KeepsEdits
  <2>1. ~dirty' /\ resettable' /\ overlapped' = overlapped /\ net.calls[i].standing = "live" /\ net.calls[i].op = "settings"
    BY <1>3 DEF SettingsAnswered, Renders, Answered, Is
  <2>2. \A j \in DOMAIN net'.calls : Tells(net'.calls[j]) /\ net'.calls[j].op = "saveSettings" => overlapped'
    BY <1>0, <2>1, SaveLiveAfter
  <2>3. ~overlapped => settings = None
    BY <1>0, <2>1, SaveLive
  <2> QED BY <2>1, <2>2, <2>3 DEF EditsInv, KeepsEdits
<1>4. ASSUME NEW i \in DOMAIN net.calls, SettingsSaved(i) PROVE EditsInv' /\ KeepsEdits
  <2>1. /\ ~dirty' /\ resettable' /\ overlapped' = overlapped /\ settings' = net.calls[i].answer
        /\ net.calls[i].standing = "live" /\ net.calls[i].op = "saveSettings" /\ net.calls[i].status = "ok"
    BY <1>4 DEF SettingsSaved, Renders, Answered, Is
  <2>2. \A j \in DOMAIN net'.calls : Tells(net'.calls[j]) /\ net'.calls[j].op = "saveSettings" => overlapped'
    BY <1>0, <2>1, SaveLiveAfter
  <2>3. ~overlapped => settings'.value = F!Read(rows)
    BY <2>1 DEF EditsInv, Tells
  <2> QED BY <2>1, <2>2, <2>3 DEF EditsInv, KeepsEdits
<1>5. CASE SaveSettings
  <2>1. UNCHANGED <<settings, rows, dirty, overlapped>>
    BY <1>5 DEF SaveSettings
  <2>2. PICK f : f = F!Read(rows)
    OBVIOUS
  <2>3. Brings(Save, {<<"saveSettings", f, "sent", None>>})
    BY <1>0, <1>5, <2>2, OrderBrings
  <2>4. ASSUME NEW j \in DOMAIN net'.calls, Tells(net'.calls[j]), net'.calls[j].op = "saveSettings", ~overlapped'
        PROVE net'.calls[j].arg = f /\ (net'.calls[j].status = "ok" => net'.calls[j].answer.value = net'.calls[j].arg)
    <3>1. CASE \E i \in DOMAIN net.calls : Tells(net.calls[i]) /\ Same(net.calls[i], net'.calls[j])
      BY <2>1, <2>2, <2>4, <3>1 DEF EditsInv, Same
    <3>2. CASE Fact(net'.calls[j]) \in {<<"saveSettings", f, "sent", None>>}
      BY <3>2 DEF Fact
    <3> QED BY <2>3, <2>4, <3>1, <3>2 DEF Brings, Save
  <2>5. F!Read(rows') = f
    BY <2>1, <2>2
  <2> QED BY <2>1, <2>4, <2>5 DEF EditsInv, KeepsEdits
<1>6. ASSUME NEW i \in DOMAIN net.calls, ServeSettings(i) PROVE EditsInv' /\ KeepsEdits
  <2>1. UNCHANGED <<settings, rows, dirty, overlapped>> /\ net.calls[i].status = "sent"
    BY <1>6 DEF ServeSettings, Arrives
  <2>2. PICK op, arg : op = net.calls[i].op /\ arg = net.calls[i].arg
    OBVIOUS
  <2>3. PICK answer : (Replies(i, answer) /\ (op = "saveSettings" => answer.value = arg)) \/ Refuses(i)
    BY <1>6, <2>2 DEF ServeSettings, Arrives, Is
  <2>4. ASSUME Brings(Save, {}) PROVE EditsInv' /\ KeepsEdits
    BY <2>1, <2>4, EditsBrings DEF KeepsEdits, EditsInv
  <2>5. CASE Refuses(i) \/ net.calls[i].standing # "live"
    BY <1>0, <2>3, <2>4, <2>5, BringsReply
  <2>6. CASE op # "saveSettings"
    BY <1>0, <2>2, <2>3, <2>4, <2>6, ReplyOther DEF Save
  <2>7. CASE op = "saveSettings" /\ net.calls[i].standing = "live" /\ answer.value = arg
    <3>1. Tells(net.calls[i])
      BY <2>1, <2>2, <2>7 DEF Tells, Orders
    <3>2. ~overlapped => arg = F!Read(rows)
      BY <2>2, <2>7, <3>1 DEF EditsInv
    <3>3. Brings(Save, {<<op, arg, "ok", answer>>})
      BY <1>0, <2>2, <2>3, BringsReply
    <3>4. PICK f : f = F!Read(rows)
      OBVIOUS
    <3>5. ASSUME NEW j \in DOMAIN net'.calls, Tells(net'.calls[j]), net'.calls[j].op = "saveSettings", ~overlapped'
          PROVE net'.calls[j].arg = f /\ (net'.calls[j].status = "ok" => net'.calls[j].answer.value = net'.calls[j].arg)
      <4>1. CASE \E k \in DOMAIN net.calls : Tells(net.calls[k]) /\ Same(net.calls[k], net'.calls[j])
        BY <2>1, <3>4, <3>5, <4>1 DEF EditsInv, Same
      <4>2. CASE Fact(net'.calls[j]) \in {<<op, arg, "ok", answer>>}
        BY <2>1, <2>7, <3>2, <3>4, <3>5, <4>2 DEF Fact
      <4> QED BY <3>3, <3>5, <4>1, <4>2 DEF Brings, Save
    <3>6. F!Read(rows') = f
      BY <2>1, <3>4
    <3> QED BY <2>1, <3>5, <3>6 DEF EditsInv, KeepsEdits
  <2> QED BY <2>2, <2>3, <2>5, <2>6, <2>7
<1>7. ASSUME ~EditSettings, ~DiscardSettings, ~SaveSettings,
             ~\E i \in DOMAIN net.calls : SettingsAnswered(i) \/ SettingsSaved(i) \/ ServeSettings(i)
      PROVE EditsInv' /\ KeepsEdits
  <2>1. Brings(Save, {})
    BY <1>0, <1>7, SettingsIn, BringsIn
  <2>2. UNCHANGED <<settings, rows, dirty>> /\ (~overlapped' => ~overlapped)
    <3>1. CASE ReloadSettings
      BY <3>1 DEF ReloadSettings
    <3>2. CASE SettingsChange
      BY <3>2 DEF SettingsChange
    <3>3. ASSUME NEW i \in DOMAIN net.calls, NEW op, SettingsFail(i, op) PROVE UNCHANGED <<settings, rows, dirty, overlapped>>
      BY <3>3 DEF SettingsFail
    <3> QED BY <1>7, <3>1, <3>2, <3>3 DEF SettingsNext
  <2> QED BY <2>1, <2>2, EditsBrings DEF KeepsEdits, EditsInv
<1> QED BY <1>1, <1>2, <1>3, <1>4, <1>5, <1>6, <1>7

LEMMA EditsStep ==
  ASSUME BaseInv, BaseInv', EditsInv, [Next]_vars
  PROVE EditsInv' /\ KeepsEdits
<1>0. CallsInv /\ CoreInv /\ OrderInv /\ CoreInv' /\ OrderInv'
  BY DEF BaseInv, PortalInv
<1>1. ASSUME SettingsFollow, Brings(Save, {}) PROVE EditsInv' /\ KeepsEdits
  BY <1>0, <1>1, EditsFollow
<1>2. Save \cap ShellOps = {} /\ Save \cap {"bookings", "mutate"} = {} /\ Save \cap AccessOps = {} /\ Save \cap EmailOps = {}
  BY DEF Save, ShellOps, GoogleOps, AccessOps, EmailOps, EmailCommands
<1>3. CASE SettingsFollow /\ (ShellStep \/ BookingsNext \/ AccessNext \/ EmailsNext)
  BY <1>0, <1>1, <1>2, <1>3, ShellBrings, BookingsBrings, AccessBrings, EmailsBrings
<1>4. CASE SettingsNext
  BY <1>4, SettingsEdits
<1>5. CASE UNCHANGED vars
  <2>1. net' = net /\ UNCHANGED <<settings, rows, dirty, overlapped>>
    BY <1>5 DEF vars, shellVars, settingsVars
  <2>2. Brings(Save, {})
    BY <2>1, SameBrings
  <2> QED BY <2>1, <2>2, EditsBrings DEF KeepsEdits, EditsInv
<1> QED BY <1>3, <1>4, <1>5 DEF Next, PanelsFollow, OthersFollow

\* EditsSurvive: unsaved availability is lost only when it is discarded, when its own save comes back (renderSettings with the answer
\* of the PUT), or with the session; a failed save, a refresh or a load of another panel leaves it. The form is locked while it is saved.
THEOREM EditsSurviveHolds ==
  Spec => EditsSurvive
<1>1. Init => EditsInv
  <2> SUFFICES ASSUME Init PROVE EditsInv
    OBVIOUS
  <2>1. PICK e \in Entries : net = Started(Empty, e.token)
    BY DEF Init, ShellInit
  <2>2. \A i \in DOMAIN net.calls : net.calls[i].op = "start"
    BY <2>1, StartsAlone
  <2>3. ~dirty
    BY DEF Init, SettingsInit
  <2> QED BY <2>2, <2>3 DEF EditsInv
<1>2. BaseInv /\ BaseInv' /\ EditsInv /\ [Next]_vars => EditsInv'
  BY EditsStep
<1>3. BaseInv /\ BaseInv' /\ EditsInv /\ [Next]_vars => [dirty /\ ~dirty' =>
       \/ session'.role \notin Authenticated \/ overlapped
       \/ settings' = settings
       \/ settings'.value = F!Read(rows)]_vars
  BY EditsStep DEF KeepsEdits
<1> QED BY <1>1, <1>2, <1>3, BaseHolds, PTL DEF Spec, EditsSurvive
=============================================================================
