------------------------- MODULE OwnerPortalAnswers_proofs -------------------------
(***************************************************************************)
(* What the answers do to the page: the lists, bookings, emails and the    *)
(* connection that they never set back, and the availability form, whose   *)
(* hours are those that the service offers.  For each panel an invariant   *)
(* relates what its live calls tell to what the server has and what the    *)
(* page shows; what a step brings is said in OwnerPortal_proofs.           *)
(***************************************************************************)
EXTENDS OwnerPortal_proofs, PortalHours, Availability_proofs

-----------------------------------------------------------------------------
(* What has been revoked stays revoked                                     *)

\* What a call of the access panel says of the invitations agrees with the server's list and with what the page has revoked,
SoundList(c, list, revoked) ==
  /\ c.op = "invitations" => DOMAIN c.answer \subseteq DOMAIN list /\ \A id \in revoked \cap DOMAIN c.answer : c.answer[id].status # "pending"
  /\ c.op = "invite" /\ c.status = "ok" => c.answer.id \in DOMAIN list \ revoked
  /\ c.op = "revoke" => c.arg \in DOMAIN list /\ (c.status = "ok" => list[c.arg].status # "pending")
\* which are no longer pending at the server, nor in the list that is shown.
ListInv ==
  /\ settled = [revoked |-> settled.revoked, removed |-> settled.removed]
  /\ settled.revoked \subseteq DOMAIN issued /\ \A id \in settled.revoked : issued[id].status # "pending"
  /\ DOMAIN invitations \subseteq DOMAIN issued /\ \A id \in settled.revoked \cap DOMAIN invitations : invitations[id].status # "pending"
  /\ \A i \in DOMAIN net.calls : Tells(net.calls[i]) => SoundList(net.calls[i], issued, settled.revoked)

\* The server's list only grows, and what is not pending there never is again.
Goes(list, later) ==
  DOMAIN list \subseteq DOMAIN later /\ \A id \in DOMAIN list : list[id].status # "pending" => later[id].status # "pending"

LEMMA SoundListKept ==
  ASSUME NEW c, NEW d, Same(c, d), NEW list, NEW later, Goes(list, later), NEW revoked, NEW again, again \subseteq revoked, SoundList(c, list, revoked)
  PROVE SoundList(d, later, again)
<1>1. d.op = "invitations" => DOMAIN d.answer \subseteq DOMAIN later /\ \A id \in again \cap DOMAIN d.answer : d.answer[id].status # "pending"
  BY DEF Same, SoundList, Goes
<1>2. d.op = "invite" /\ d.status = "ok" => d.answer.id \in DOMAIN later \ again
  BY DEF Same, SoundList, Goes
<1>3. d.op = "revoke" => d.arg \in DOMAIN later /\ (d.status = "ok" => later[d.arg].status # "pending")
  BY DEF Same, SoundList, Goes
<1> QED BY <1>1, <1>2, <1>3 DEF SoundList

\* The calls stay sound when what they bring is.
LEMMA ListBrings ==
  ASSUME ListInv, NEW new, Brings(AccessOps, new), Goes(issued, issued'), settled'.revoked \subseteq settled.revoked,
         \A j \in DOMAIN net'.calls : Fact(net'.calls[j]) \in new => SoundList(net'.calls[j], issued', settled'.revoked)
  PROVE \A j \in DOMAIN net'.calls : Tells(net'.calls[j]) => SoundList(net'.calls[j], issued', settled'.revoked)
<1> SUFFICES ASSUME NEW j \in DOMAIN net'.calls, Tells(net'.calls[j]) PROVE SoundList(net'.calls[j], issued', settled'.revoked)
  OBVIOUS
<1>1. CASE net'.calls[j].op \notin AccessOps
  BY <1>1 DEF SoundList, AccessOps
<1>2. ASSUME NEW i \in DOMAIN net.calls, Tells(net.calls[i]), Same(net.calls[i], net'.calls[j]) PROVE SoundList(net'.calls[j], issued', settled'.revoked)
  <2>1. SoundList(net.calls[i], issued, settled.revoked)
    BY <1>2 DEF ListInv
  <2>2. PICK c, d, list, later, revoked, again : /\ c = net.calls[i] /\ d = net'.calls[j] /\ list = issued /\ later = issued'
                                                 /\ revoked = settled.revoked /\ again = settled'.revoked
    OBVIOUS
  <2>3. SoundList(d, later, again)
    BY <1>2, <2>1, <2>2, SoundListKept
  <2> QED BY <2>2, <2>3
<1> QED BY <1>1, <1>2 DEF Brings

\* Nothing of it changes at the server or on the page but the calls.
LEMMA ListSame ==
  ASSUME ListInv, NEW new, Brings(AccessOps, new), UNCHANGED <<issued, settled, invitations>>,
         \A j \in DOMAIN net'.calls : Fact(net'.calls[j]) \in new => SoundList(net'.calls[j], issued, settled.revoked)
  PROVE ListInv'
<1>1. Goes(issued, issued') /\ settled'.revoked \subseteq settled.revoked
  BY DEF Goes
<1>2. \A j \in DOMAIN net'.calls : Tells(net'.calls[j]) => SoundList(net'.calls[j], issued', settled'.revoked)
  BY <1>1, ListBrings
<1> QED BY <1>2 DEF ListInv

-----------------------------------------------------------------------------
\* The server.
LEMMA ListServed ==
  ASSUME BaseInv, ListInv, NEW i \in DOMAIN net.calls, ServeInvitations(i)
  PROVE ListInv'
<1>0. CallsInv /\ CoreInv /\ OrderInv /\ AccessInv /\ UNCHANGED <<settled, invitations>>
  BY DEF BaseInv, PortalInv, ServeInvitations, invitationVars
<1>1. DOMAIN issued = 1..Len(issued) /\ Len(issued) \in Nat /\ \A id \in DOMAIN issued : issued[id] \in Invitation
  BY <1>0 DEF AccessInv
<1>2. PICK op, arg : op = net.calls[i].op /\ arg = net.calls[i].arg
  OBVIOUS
<1>3. ASSUME Goes(issued, issued'), NEW answer, Replies(i, answer) \/ Refuses(i),
             Replies(i, answer) => \A c : c.op = op /\ c.arg = arg /\ c.status = "ok" /\ c.answer = answer => SoundList(c, issued', settled.revoked)
      PROVE ListInv'
  <2>1. Brings(AccessOps, {<<op, arg, "ok", answer>>}) /\ (Refuses(i) => Brings(AccessOps, {}))
    BY <1>0, <1>2, <1>3, BringsReply
  <2>2. settled'.revoked \subseteq settled.revoked
    BY <1>0
  <2>3. \A j \in DOMAIN net'.calls : Tells(net'.calls[j]) => SoundList(net'.calls[j], issued', settled'.revoked)
    <3>1. CASE Refuses(i)
      BY <1>3, <2>1, <2>2, <3>1, ListBrings
    <3>2. CASE Replies(i, answer)
      <4>1. \A j \in DOMAIN net'.calls : Fact(net'.calls[j]) \in {<<op, arg, "ok", answer>>} => SoundList(net'.calls[j], issued', settled'.revoked)
        <5> SUFFICES ASSUME NEW j \in DOMAIN net'.calls, Fact(net'.calls[j]) \in {<<op, arg, "ok", answer>>} PROVE SoundList(net'.calls[j], issued', settled'.revoked)
          OBVIOUS
        <5>1. PICK c : c = net'.calls[j]
          OBVIOUS
        <5>2. c.op = op /\ c.arg = arg /\ c.status = "ok" /\ c.answer = answer
          BY <5>1 DEF Fact
        <5>3. SoundList(c, issued', settled.revoked)
          BY <1>3, <3>2, <5>2
        <5> QED BY <1>0, <5>1, <5>3
      <4> QED BY <1>3, <2>1, <2>2, <4>1, ListBrings
    <3> QED BY <1>3, <3>1, <3>2
  <2>4. settled'.revoked \subseteq DOMAIN issued' /\ \A id \in settled'.revoked : issued'[id].status # "pending"
    BY <1>0, <1>3 DEF ListInv, Goes
  <2>5. DOMAIN invitations' \subseteq DOMAIN issued' /\ \A id \in settled'.revoked \cap DOMAIN invitations' : invitations'[id].status # "pending"
    BY <1>0, <1>3 DEF ListInv, Goes
  <2>6. settled' = [revoked |-> settled'.revoked, removed |-> settled'.removed]
    BY <1>0 DEF ListInv
  <2> QED BY <2>3, <2>4, <2>5, <2>6 DEF ListInv
<1>4. CASE Arrives(i, "invitations") /\ Replies(i, Reported) /\ UNCHANGED directory
  <2>1. op = "invitations" /\ issued' = issued
    BY <1>2, <1>4 DEF Arrives, Is, directory
  <2>2. Goes(issued, issued')
    BY <2>1 DEF Goes
  <2>3. PICK answer : answer = Reported
    OBVIOUS
  <2>4. DOMAIN answer = DOMAIN issued /\ \A id \in DOMAIN issued : issued[id].status # "pending" => answer[id] = issued[id]
    BY <2>3 DEF Reported
  <2>5. \A c : c.op = op /\ c.arg = arg /\ c.status = "ok" /\ c.answer = answer => SoundList(c, issued', settled.revoked)
    BY <2>1, <2>4 DEF SoundList, ListInv
  <2>6. Replies(i, answer)
    BY <1>4, <2>3
  <2> QED BY <1>3, <2>2, <2>5, <2>6
<1>5. CASE /\ Arrives(i, "invite") /\ Len(issued) < MaxInvites
           /\ issued' = Append(RevokePending(issued, net.calls[i].arg), [address |-> net.calls[i].arg, status |-> "pending"])
           /\ Replies(i, [id |-> Len(issued'), address |-> net.calls[i].arg])
  <2>1. PICK list : list = RevokePending(issued, arg)
    OBVIOUS
  <2>2. list \in Seq(Invitation) /\ Len(list) = Len(issued)
    BY <1>0, <2>1, RevokePendingIs DEF AccessInv
  <2>3. \A id \in DOMAIN issued : issued[id].status # "pending" => list[id] = issued[id]
    BY <2>1 DEF RevokePending
  <2>4. PICK new : new = [address |-> arg, status |-> "pending"]
    OBVIOUS
  <2>5. issued' = Append(list, new) /\ op = "invite"
    BY <1>2, <1>5, <2>1, <2>4 DEF Arrives, Is
  <2> HIDE DEF Invitation
  <2>6. DOMAIN issued' = 1..(Len(issued) + 1) /\ Len(issued') = Len(issued) + 1 /\ \A id \in DOMAIN issued : issued'[id] = list[id]
    BY <1>1, <2>2, <2>5
  <2>7. Goes(issued, issued')
    BY <1>1, <2>3, <2>6 DEF Goes
  <2>8. PICK answer : answer = [id |-> Len(issued'), address |-> arg]
    OBVIOUS
  <2>9. answer.id \in DOMAIN issued' \ settled.revoked
    BY <1>1, <2>6, <2>8 DEF ListInv
  <2>10. \A c : c.op = op /\ c.arg = arg /\ c.status = "ok" /\ c.answer = answer => SoundList(c, issued', settled.revoked)
    BY <2>5, <2>9 DEF SoundList
  <2>11. Replies(i, answer)
    BY <1>2, <1>5, <2>8
  <2> QED BY <1>3, <2>7, <2>10, <2>11
<1>6. CASE /\ Arrives(i, "revoke")
           /\ issued' = [issued EXCEPT ![net.calls[i].arg] = [@ EXCEPT !.status = "revoked"]]
           /\ Replies(i, None)
  <2>1. PICK x : x = [issued[arg] EXCEPT !.status = "revoked"]
    OBVIOUS
  <2>2. issued' = [issued EXCEPT ![arg] = x] /\ op = "revoke"
    BY <1>2, <1>6, <2>1 DEF Arrives, Is
  <2>3. arg \in DOMAIN issued => x.status = "revoked"
    BY <1>1, <2>1 DEF Invitation
  <2>4. DOMAIN issued' = DOMAIN issued /\ \A id \in DOMAIN issued : issued'[id] = IF id = arg THEN x ELSE issued[id]
    BY <2>2
  <2>5. Goes(issued, issued')
    BY <2>3, <2>4 DEF Goes
  <2>6. CASE net.calls[i].standing = "live"
    <3>1. Tells(net.calls[i])
      BY <1>2, <1>6, <2>2, <2>6 DEF Tells, Orders, Arrives
    <3>2. arg \in DOMAIN issued
      BY <1>2, <2>2, <3>1 DEF ListInv, SoundList
    <3>3. \A c : c.op = op /\ c.arg = arg /\ c.status = "ok" /\ c.answer = None => SoundList(c, issued', settled.revoked)
      BY <2>2, <2>3, <2>4, <3>2 DEF SoundList
    <3>4. PICK answer : answer = None
      OBVIOUS
    <3> QED BY <1>3, <1>6, <2>5, <3>3, <3>4
  <2>7. CASE net.calls[i].standing # "live"
    <3>1. Brings(AccessOps, {})
      BY <1>0, <1>6, <2>7, BringsReply
    <3>2. settled'.revoked \subseteq settled.revoked
      BY <1>0
    <3>3. \A j \in DOMAIN net'.calls : Tells(net'.calls[j]) => SoundList(net'.calls[j], issued', settled'.revoked)
      BY <2>5, <3>1, <3>2, ListBrings
    <3>4. settled'.revoked \subseteq DOMAIN issued' /\ \A id \in settled'.revoked : issued'[id].status # "pending"
      BY <1>0, <2>5 DEF ListInv, Goes
    <3>5. DOMAIN invitations' \subseteq DOMAIN issued' /\ \A id \in settled'.revoked \cap DOMAIN invitations' : invitations'[id].status # "pending"
      BY <1>0, <2>5 DEF ListInv, Goes
    <3>6. settled' = [revoked |-> settled'.revoked, removed |-> settled'.removed]
      BY <1>0 DEF ListInv
    <3> QED BY <3>3, <3>4, <3>5, <3>6 DEF ListInv
  <2> QED BY <2>6, <2>7
<1>7. CASE Refuses(i) /\ UNCHANGED issued
  <2>1. Goes(issued, issued')
    BY <1>7 DEF Goes
  <2>2. ~Replies(i, None) \/ Replies(i, None)
    OBVIOUS
  <2>3. Brings(AccessOps, {})
    BY <1>0, <1>7, BringsReply
  <2> QED BY <1>0, <1>7, <2>3, ListSame
<1> QED BY <1>4, <1>5, <1>6, <1>7 DEF ServeInvitations

\* Two operations of one room are not waited for at the same time.
LEMMA ApartLive ==
  ASSUME BaseInv, NEW room \in Rooms, NEW i \in DOMAIN net.calls, NEW j \in DOMAIN net.calls,
         net.calls[i].standing = "live", net.calls[j].standing = "live", net.calls[i].op \in room, net.calls[j].op \in room
  PROVE net.calls[i].op = net.calls[j].op /\ i = j
<1>0. CoreInv /\ OrderInv
  BY DEF BaseInv, PortalInv
<1>1. FlagsApart(net)
  <2>1. PICK n : n = net
    OBVIOUS
  <2>2. Known(n, {}, {})
    BY <2>1 DEF BaseInv, CallsInv
  <2>3. FlagsApart(n)
    BY <2>2, KnownTells
  <2> QED BY <2>1, <2>3
<1>2. room \subseteq Flags /\ "saveSettings" \notin room /\ "settings" \notin room
  BY DEF Rooms, Flags, Ops, Loads, AccessOps, EmailOps, EmailCommands, GoogleOps
<1>3. room \cap Free = {}
  BY <1>2 DEF Free
<1>4. net.calls[i].op \in net.busy /\ net.calls[j].op \in net.busy
  BY <1>0, <1>2, <1>3, LiveBefore
<1>5. net.calls[i].op = net.calls[j].op
  BY <1>1, <1>4 DEF FlagsApart
<1>6. i = j
  <2>1. Alone(net, Free)
    BY <1>0 DEF OrderInv, Steady, OrderlyNets, Orderly
  <2>2. Waits(net.calls[i]) /\ Waits(net.calls[j])
    BY DEF Waits
  <2> QED BY <1>3, <1>5, <2>1, <2>2 DEF Alone
<1> QED BY <1>5, <1>6

\* While a revocation is waited for, no list and no new invitation is.
LEMMA RevokesAlone ==
  ASSUME BaseInv, NEW i \in DOMAIN net.calls, net.calls[i].standing = "live", net.calls[i].op = "revoke",
         NEW j \in DOMAIN net.calls, net.calls[j].standing = "live"
  PROVE net.calls[j].op \notin {"invitations", "invite"}
<1>1. {"invitations", "invite", "revoke"} \in Rooms
  BY DEF Rooms
<1> QED BY <1>1, ApartLive

-----------------------------------------------------------------------------
\* The access panel.
LEMMA ListStep ==
  ASSUME BaseInv, BaseInv', ListInv, AccessNext
  PROVE ListInv'
<1>0. CallsInv /\ CoreInv /\ OrderInv /\ AccessInv
  BY DEF BaseInv, PortalInv
<1>1. CASE CreateInvitation
  <2>1. PICK arg : Brings(AccessOps, {<<"invite", arg, "sent", None>>})
    BY <1>0, <1>1, OrderBrings
  <2>2. UNCHANGED <<issued, settled, invitations>>
    BY <1>1 DEF CreateInvitation, directory
  <2>3. ASSUME NEW j \in DOMAIN net'.calls, Fact(net'.calls[j]) \in {<<"invite", arg, "sent", None>>} PROVE SoundList(net'.calls[j], issued, settled.revoked)
    BY <2>3 DEF SoundList, Fact
  <2> QED BY <2>1, <2>2, <2>3, ListSame
<1>2. CASE RevokeInvitation
  <2>1. PICK arg : arg = pendingRevoke
    OBVIOUS
  <2>2. Brings(AccessOps, {<<"revoke", arg, "sent", None>>})
    BY <1>0, <1>2, <2>1, OrderBrings
  <2>3. UNCHANGED <<issued, settled, invitations>> /\ arg \in DOMAIN issued
    BY <1>2, <2>1 DEF RevokeInvitation, accessVars, directory, invitationVars, Pending, ListInv
  <2>4. ASSUME NEW j \in DOMAIN net'.calls, Fact(net'.calls[j]) \in {<<"revoke", arg, "sent", None>>} PROVE SoundList(net'.calls[j], issued, settled.revoked)
    BY <2>3, <2>4 DEF SoundList, Fact
  <2> QED BY <2>2, <2>3, <2>4, ListSame
<1>3. CASE RemoveMember
  <2>1. PICK arg : arg = pendingRemove
    OBVIOUS
  <2>2. Brings(AccessOps, {<<"remove", arg, "sent", None>>})
    BY <1>0, <1>3, <2>1, OrderBrings
  <2>3. UNCHANGED <<issued, settled, invitations>>
    BY <1>3 DEF RemoveMember, accessVars, directory, invitationVars
  <2>4. ASSUME NEW j \in DOMAIN net'.calls, Fact(net'.calls[j]) \in {<<"remove", arg, "sent", None>>} PROVE SoundList(net'.calls[j], issued, settled.revoked)
    BY <2>4 DEF SoundList, Fact
  <2> QED BY <2>2, <2>3, <2>4, ListSame
<1>4. ASSUME NEW i \in DOMAIN net.calls, ServeMembers(i) PROVE ListInv'
  <2>1. UNCHANGED <<issued, settled, invitations>>
    BY <1>4 DEF ServeMembers, directory, invitationVars
  <2>2. PICK op, arg : op = net.calls[i].op /\ arg = net.calls[i].arg
    OBVIOUS
  <2>3. op \in {"members", "remove"}
    BY <1>4, <2>2 DEF ServeMembers, Arrives, Is
  <2>4. PICK answer : Replies(i, answer) \/ Refuses(i)
    BY <1>4 DEF ServeMembers
  <2>5. Brings(AccessOps, {<<op, arg, "ok", answer>>})
    BY <1>0, <2>2, <2>4, BringsReply
  <2>6. ASSUME NEW j \in DOMAIN net'.calls, Fact(net'.calls[j]) \in {<<op, arg, "ok", answer>>} PROVE SoundList(net'.calls[j], issued, settled.revoked)
    BY <2>3, <2>6 DEF SoundList, Fact
  <2> QED BY <2>1, <2>5, <2>6, ListSame
<1>5. ASSUME NEW i \in DOMAIN net.calls, ServeInvitations(i) PROVE ListInv'
  BY <1>5, ListServed
<1>6. ASSUME ~(CreateInvitation \/ RevokeInvitation \/ RemoveMember), ~\E i \in DOMAIN net.calls : ServeInvitations(i) \/ ServeMembers(i)
      PROVE ListInv'
  <2>0. Brings(AccessOps, {})
    BY <1>0, <1>6, AccessIn, BringsIn
  <2>1. ASSUME UNCHANGED <<issued, settled, invitations>> PROVE ListInv'
    BY <2>0, <2>1, ListSame
  <2>2. ASSUME UNCHANGED issued, settled'.revoked \subseteq settled.revoked, settled' = [revoked |-> settled'.revoked, removed |-> settled'.removed],
               DOMAIN invitations' \subseteq DOMAIN issued, \A id \in settled.revoked \cap DOMAIN invitations' : invitations'[id].status # "pending"
        PROVE ListInv'
    <3>1. Goes(issued, issued')
      BY <2>2 DEF Goes
    <3>2. \A j \in DOMAIN net'.calls : Tells(net'.calls[j]) => SoundList(net'.calls[j], issued', settled'.revoked)
      BY <2>0, <2>2, <3>1, ListBrings
    <3> QED BY <2>2, <3>2 DEF ListInv
  <2>3. CASE AskRevoke \/ HideLink \/ AskRemove
    BY <2>1, <2>3 DEF AskRevoke, HideLink, AskRemove, directory, invitationVars
  <2>4. CASE DirectoryChanges
    <3>1. UNCHANGED <<settled, invitations>>
      BY <2>4 DEF DirectoryChanges, invitationVars
    <3>2. Goes(issued, issued')
      <4>1. CASE issued' = issued
        BY <4>1 DEF Goes
      <4>2. ASSUME NEW id \in DOMAIN issued, issued[id].status = "pending", issued' = [issued EXCEPT ![id] = [@ EXCEPT !.status = "used"]]
            PROVE Goes(issued, issued')
        BY <4>2 DEF Goes
      <4> QED BY <2>4, <4>1, <4>2 DEF DirectoryChanges
    <3>3. settled'.revoked \subseteq settled.revoked
      BY <3>1
    <3>4. \A j \in DOMAIN net'.calls : Tells(net'.calls[j]) => SoundList(net'.calls[j], issued', settled'.revoked)
      BY <2>0, <3>2, <3>3, ListBrings
    <3> QED BY <3>1, <3>2, <3>4 DEF ListInv, Goes
  <2>5. ASSUME NEW i \in DOMAIN net.calls, InvitationCreated(i) PROVE ListInv'
    <3>1. /\ net.calls[i].op = "invite" /\ net.calls[i].status = "ok" /\ net.calls[i].standing = "live" /\ UNCHANGED <<issued, settled>>
      BY <2>5 DEF InvitationCreated, Answered, Is, directory
    <3>2. PICK new : new = net.calls[i].answer
      OBVIOUS
    <3>3. new.id \in DOMAIN issued \ settled.revoked
      BY <3>1, <3>2 DEF ListInv, SoundList, Tells
    <3>4. \A id \in DOMAIN invitations : invitations[id] \in Invitation
      BY <1>0 DEF AccessInv
    <3>5. PICK old : old = [id \in DOMAIN invitations |->
                   IF invitations[id].status = "pending" /\ invitations[id].address = new.address
                   THEN [invitations[id] EXCEPT !.status = "revoked"] ELSE invitations[id]]
      OBVIOUS
    <3>6. DOMAIN old = DOMAIN invitations /\ \A id \in DOMAIN old : invitations[id].status # "pending" => old[id].status # "pending"
      BY <3>5
    <3>7. invitations' = [id \in DOMAIN old \cup {new.id} |-> IF id = new.id THEN [address |-> new.address, status |-> "pending"] ELSE old[id]]
      BY <2>5, <3>2, <3>5 DEF InvitationCreated
    <3>8. DOMAIN invitations' \subseteq DOMAIN issued
      BY <3>3, <3>6, <3>7 DEF ListInv
    <3>9. \A id \in settled.revoked \cap DOMAIN invitations' : invitations'[id].status # "pending"
      BY <3>3, <3>6, <3>7 DEF ListInv
    <3>10. settled' = [revoked |-> settled'.revoked, removed |-> settled'.removed] /\ settled'.revoked \subseteq settled.revoked
      BY <3>1 DEF ListInv
    <3> QED BY <2>2, <3>1, <3>8, <3>9, <3>10
  <2>6. ASSUME NEW i \in DOMAIN net.calls, InvitationRevoked(i) PROVE ListInv'
    <3>1. /\ net.calls[i].op = "revoke" /\ net.calls[i].status = "ok" /\ net.calls[i].standing = "live" /\ UNCHANGED issued
      BY <2>6 DEF InvitationRevoked, Answered, Is, directory
    <3>2. PICK id : id = net.calls[i].arg
      OBVIOUS
    <3>3. id \in DOMAIN issued /\ issued[id].status # "pending"
      BY <3>1, <3>2 DEF ListInv, SoundList, Tells
    <3>4. settled' = [revoked |-> settled.revoked \cup {id}, removed |-> settled.removed]
      BY <2>6, <3>2 DEF InvitationRevoked, ListInv
    <3>5. invitations' = [k \in DOMAIN invitations |-> IF k = id THEN [invitations[k] EXCEPT !.status = "revoked"] ELSE invitations[k]]
      BY <2>6, <3>2 DEF InvitationRevoked
    <3>6. \A k \in DOMAIN invitations : invitations[k] \in Invitation
      BY <1>0 DEF AccessInv
    <3>7. \A k \in DOMAIN invitations : [invitations[k] EXCEPT !.status = "revoked"].status = "revoked"
      BY <3>6 DEF Invitation
    <3>8. DOMAIN invitations' \subseteq DOMAIN issued /\ \A k \in settled'.revoked \cap DOMAIN invitations' : invitations'[k].status # "pending"
      BY <3>4, <3>5, <3>7 DEF ListInv
    <3>9. ASSUME NEW j \in DOMAIN net'.calls, Tells(net'.calls[j]) PROVE SoundList(net'.calls[j], issued, settled'.revoked)
      <4>1. CASE net'.calls[j].op \notin AccessOps
        BY <4>1 DEF SoundList, AccessOps
      <4>2. ASSUME NEW k \in DOMAIN net.calls, Tells(net.calls[k]), Same(net.calls[k], net'.calls[j]) PROVE SoundList(net'.calls[j], issued, settled'.revoked)
        <5>1. net.calls[k].op \notin {"invitations", "invite"}
          BY <3>1, <4>2, RevokesAlone DEF Tells
        <5>2. SoundList(net.calls[k], issued, settled.revoked)
          BY <4>2 DEF ListInv
        <5> QED BY <4>2, <5>1, <5>2 DEF SoundList, Same
      <4> QED BY <2>0, <3>9, <4>1, <4>2 DEF Brings
    <3>10. settled'.revoked \subseteq DOMAIN issued /\ \A k \in settled'.revoked : issued[k].status # "pending"
      BY <3>3, <3>4 DEF ListInv
    <3>11. settled' = [revoked |-> settled'.revoked, removed |-> settled'.removed]
      BY <3>4
    <3> QED BY <3>1, <3>8, <3>9, <3>10, <3>11 DEF ListInv
  <2>7. ASSUME NEW i \in DOMAIN net.calls, InvitationsAnswered(i) PROVE ListInv'
    <3>1. /\ net.calls[i].op = "invitations" /\ net.calls[i].status = "ok" /\ net.calls[i].standing = "live" /\ UNCHANGED <<issued, settled>>
          /\ invitations' = net.calls[i].answer
      BY <2>7 DEF InvitationsAnswered, Answered, Is, directory
    <3>2. SoundList(net.calls[i], issued, settled.revoked)
      BY <3>1 DEF ListInv, Tells
    <3>3. settled' = [revoked |-> settled'.revoked, removed |-> settled'.removed] /\ settled'.revoked \subseteq settled.revoked
      BY <3>1 DEF ListInv
    <3> QED BY <2>2, <3>1, <3>2, <3>3 DEF SoundList
  <2>8. ASSUME NEW i \in DOMAIN net.calls, NEW op, MemberRemoved(i) \/ MembersAnswered(i) \/ AccessFails(i, op) PROVE ListInv'
    <3>1. CASE MemberRemoved(i)
      <4>1. UNCHANGED <<issued, invitations>>
        BY <3>1 DEF MemberRemoved, directory, invitationVars
      <4>2. PICK removed : settled' = [settled EXCEPT !.removed = removed]
        BY <3>1 DEF MemberRemoved
      <4>3. settled' = [revoked |-> settled'.revoked, removed |-> settled'.removed] /\ settled'.revoked = settled.revoked
        BY <4>2 DEF ListInv
      <4> QED BY <2>2, <4>1, <4>3 DEF ListInv
    <3>2. CASE MembersAnswered(i) \/ AccessFails(i, op)
      BY <2>1, <3>2 DEF MembersAnswered, AccessFails, accessVars, directory, invitationVars
    <3> QED BY <2>8, <3>1, <3>2
  <2> QED BY <1>6, <2>3, <2>4, <2>5, <2>6, <2>7, <2>8 DEF AccessNext
<1> QED BY <1>1, <1>2, <1>3, <1>4, <1>5, <1>6

\* The steps of the other parts.
LEMMA ListFollows ==
  ASSUME ListInv, Brings(AccessOps, {}), AccessFollow
  PROVE ListInv'
<1>1. issued' = issued
  BY DEF AccessFollow, directory
<1>2. Goes(issued, issued')
  BY <1>1 DEF Goes
<1>3. settled' = settled \/ (settled' = Settled /\ Settled = [revoked |-> Settled.revoked, removed |-> Settled.removed] /\ Settled.revoked = {})
  BY DEF AccessFollow, Settled
<1>4. settled'.revoked \subseteq settled.revoked /\ settled' = [revoked |-> settled'.revoked, removed |-> settled'.removed]
  BY <1>3 DEF ListInv
<1>5. \A j \in DOMAIN net'.calls : Tells(net'.calls[j]) => SoundList(net'.calls[j], issued', settled'.revoked)
  BY <1>2, <1>4, ListBrings
<1>6. invitations' = invitations \/ DOMAIN invitations' = {}
  <2>1. DOMAIN Nothing = {}
    BY DEF Nothing
  <2> QED BY <2>1 DEF AccessFollow
<1> QED BY <1>1, <1>4, <1>5, <1>6 DEF ListInv

-----------------------------------------------------------------------------
(* Who has been removed stays removed, until he joins again                *)

\* What a call says of the members agrees with how often they joined, and with the removals the page has seen;
SoundPeople(c, people, removed) ==
  /\ c.op = "members" => \A p \in DOMAIN c.answer : c.answer[p] \in Nat /\ c.answer[p] > removed[p] /\ c.answer[p] > 0
  /\ c.op = "remove" /\ c.status = "ok" =>
       c.answer \in Nat /\ c.answer <= people[c.arg].joins /\ (people[c.arg].in => c.answer < people[c.arg].joins)
\* so do the members that are shown; who is a member has joined since his last removal.
PeopleInv ==
  /\ settled = [revoked |-> settled.revoked, removed |-> settled.removed] /\ settled.removed \in [People -> Nat]
  /\ \A p \in People : /\ roster[p].joins > 0 /\ settled.removed[p] <= roster[p].joins
                       /\ roster[p].in => settled.removed[p] < roster[p].joins
  /\ \A p \in DOMAIN members : members[p] \in Nat /\ members[p] > settled.removed[p] /\ members[p] > 0
  /\ \A i \in DOMAIN net.calls : Tells(net.calls[i]) => SoundPeople(net.calls[i], roster, settled.removed)

\* The people join again, and are removed.
Joins(people, later) ==
  \A p \in People : /\ people[p].joins \in Nat /\ later[p].joins \in Nat /\ later[p].joins >= people[p].joins
                    /\ later[p].in => people[p].in \/ later[p].joins > people[p].joins

LEMMA SoundPeopleKept ==
  ASSUME NEW c, NEW d, Same(c, d), NEW people, NEW later, Joins(people, later), NEW removed, NEW again \in [People -> Nat],
         again = removed \/ \A p \in People : again[p] = 0,
         c.op = "members" => DOMAIN c.answer \subseteq People, c.op = "remove" => c.arg \in People, SoundPeople(c, people, removed)
  PROVE SoundPeople(d, later, again)
<1>1. ASSUME d.op = "members", NEW p \in DOMAIN d.answer PROVE d.answer[p] \in Nat /\ d.answer[p] > again[p] /\ d.answer[p] > 0
  <2>1. p \in People /\ d.answer[p] \in Nat /\ d.answer[p] > removed[p] /\ d.answer[p] > 0
    BY <1>1 DEF Same, SoundPeople
  <2> QED BY <2>1
<1>2. ASSUME d.op = "remove", d.status = "ok"
      PROVE d.answer \in Nat /\ d.answer <= later[d.arg].joins /\ (later[d.arg].in => d.answer < later[d.arg].joins)
  <2>1. d.arg \in People /\ d.answer \in Nat /\ d.answer <= people[d.arg].joins /\ (people[d.arg].in => d.answer < people[d.arg].joins)
    BY <1>2 DEF Same, SoundPeople
  <2>2. /\ people[d.arg].joins \in Nat /\ later[d.arg].joins \in Nat /\ later[d.arg].joins >= people[d.arg].joins
        /\ later[d.arg].in => people[d.arg].in \/ later[d.arg].joins > people[d.arg].joins
    BY <2>1 DEF Joins
  <2>3. d.answer <= later[d.arg].joins
    BY <2>1, <2>2
  <2>4. ASSUME later[d.arg].in PROVE d.answer < later[d.arg].joins
    <3>1. CASE people[d.arg].in
      <4>1. d.answer < people[d.arg].joins
        BY <2>1, <3>1
      <4> QED BY <2>1, <2>2, <4>1
    <3>2. CASE later[d.arg].joins > people[d.arg].joins
      BY <2>1, <2>2, <3>2
    <3> QED BY <2>2, <2>4, <3>1, <3>2
  <2> QED BY <2>1, <2>3, <2>4
<1> QED BY <1>1, <1>2 DEF SoundPeople

LEMMA PeopleBrings ==
  ASSUME BaseInv, PeopleInv, NEW new, Brings(AccessOps, new), Joins(roster, roster'), settled'.removed \in [People -> Nat],
         settled'.removed = settled.removed \/ \A p \in People : settled'.removed[p] = 0,
         \A j \in DOMAIN net'.calls : Fact(net'.calls[j]) \in new => SoundPeople(net'.calls[j], roster', settled'.removed)
  PROVE \A j \in DOMAIN net'.calls : Tells(net'.calls[j]) => SoundPeople(net'.calls[j], roster', settled'.removed)
<1> SUFFICES ASSUME NEW j \in DOMAIN net'.calls, Tells(net'.calls[j]) PROVE SoundPeople(net'.calls[j], roster', settled'.removed)
  OBVIOUS
<1>1. CASE net'.calls[j].op \notin AccessOps
  BY <1>1 DEF SoundPeople, AccessOps
<1>2. ASSUME NEW i \in DOMAIN net.calls, Tells(net.calls[i]), Same(net.calls[i], net'.calls[j]) PROVE SoundPeople(net'.calls[j], roster', settled'.removed)
  <2>1. SoundPeople(net.calls[i], roster, settled.removed)
    BY <1>2 DEF PeopleInv
  <2>2. PICK c, d, people, later, removed, again : /\ c = net.calls[i] /\ d = net'.calls[j] /\ people = roster /\ later = roster'
                                                   /\ removed = settled.removed /\ again = settled'.removed
    OBVIOUS
  <2>3. Asked(c) /\ Told(c)
    BY <1>2, <2>2, LiveBefore DEF BaseInv, PortalInv, Tells
  <2>4. (c.op = "members" => DOMAIN c.answer \subseteq People) /\ (c.op = "remove" => c.arg \in People)
    BY <1>2, <2>2, <2>3 DEF Asked, Told, Tells, Orders
  <2>5. SoundPeople(d, later, again)
    BY <1>2, <2>1, <2>2, <2>4, SoundPeopleKept
  <2> QED BY <2>2, <2>5
<1> QED BY <1>1, <1>2 DEF Brings

\* Nothing of it changes at the server.
LEMMA RosterStays ==
  ASSUME BaseInv, roster' = roster
  PROVE Joins(roster, roster')
<1>1. \A p \in People : roster[p].joins \in Nat
  BY DEF BaseInv, PortalInv, AccessInv
<1> QED BY <1>1 DEF Joins

LEMMA PeopleSame ==
  ASSUME BaseInv, PeopleInv, NEW new, Brings(AccessOps, new), UNCHANGED <<roster, settled, members>>,
         \A j \in DOMAIN net'.calls : Fact(net'.calls[j]) \in new => SoundPeople(net'.calls[j], roster, settled.removed)
  PROVE PeopleInv'
<1>1. settled'.removed \in [People -> Nat] /\ settled'.removed = settled.removed
  BY DEF PeopleInv
<1>2. \A j \in DOMAIN net'.calls : Fact(net'.calls[j]) \in new => SoundPeople(net'.calls[j], roster', settled'.removed)
  OBVIOUS
<1>3. Joins(roster, roster')
  BY RosterStays
<1>4. \A j \in DOMAIN net'.calls : Tells(net'.calls[j]) => SoundPeople(net'.calls[j], roster', settled'.removed)
  BY <1>1, <1>2, <1>3, PeopleBrings
<1> QED BY <1>4 DEF PeopleInv

-----------------------------------------------------------------------------
\* A change of the roster at the server.
LEMMA RosterChanges ==
  ASSUME BaseInv, PeopleInv, NEW new, Brings(AccessOps, new), Joins(roster, roster'), UNCHANGED <<settled, members>>,
         \A j \in DOMAIN net'.calls : Fact(net'.calls[j]) \in new => SoundPeople(net'.calls[j], roster', settled.removed)
  PROVE PeopleInv'
<1>1. settled'.removed \in [People -> Nat] /\ settled'.removed = settled.removed
  BY DEF PeopleInv
<1>2. \A j \in DOMAIN net'.calls : Fact(net'.calls[j]) \in new => SoundPeople(net'.calls[j], roster', settled'.removed)
  OBVIOUS
<1>3. \A j \in DOMAIN net'.calls : Tells(net'.calls[j]) => SoundPeople(net'.calls[j], roster', settled'.removed)
  BY <1>1, <1>2, PeopleBrings
<1>4. ASSUME NEW p \in People
      PROVE /\ roster'[p].joins > 0 /\ settled.removed[p] <= roster'[p].joins
            /\ roster'[p].in => settled.removed[p] < roster'[p].joins
  <2>1. /\ roster[p].joins > 0 /\ settled.removed[p] <= roster[p].joins /\ settled.removed[p] \in Nat
        /\ roster[p].in => settled.removed[p] < roster[p].joins
    BY DEF PeopleInv
  <2>2. /\ roster[p].joins \in Nat /\ roster'[p].joins \in Nat /\ roster'[p].joins >= roster[p].joins
        /\ roster'[p].in => roster[p].in \/ roster'[p].joins > roster[p].joins
    BY DEF Joins
  <2>3. roster'[p].joins > 0 /\ settled.removed[p] <= roster'[p].joins
    BY <2>1, <2>2
  <2>4. ASSUME roster'[p].in PROVE settled.removed[p] < roster'[p].joins
    <3>1. CASE roster[p].in
      <4>1. settled.removed[p] < roster[p].joins
        BY <2>1, <3>1
      <4> QED BY <2>1, <2>2, <4>1
    <3>2. CASE roster'[p].joins > roster[p].joins
      BY <2>1, <2>2, <3>2
    <3> QED BY <2>2, <2>4, <3>1, <3>2
  <2> QED BY <2>3, <2>4
<1> QED BY <1>3, <1>4 DEF PeopleInv

LEMMA RosterSet ==
  ASSUME BaseInv, NEW p \in People, NEW r \in [joins : Nat, in : BOOLEAN], roster' = [roster EXCEPT ![p] = r],
         r.joins >= roster[p].joins, r.in => roster[p].in \/ r.joins > roster[p].joins
  PROVE Joins(roster, roster')
<1>1. roster \in [People -> [joins : Nat, in : BOOLEAN]]
  BY DEF BaseInv, PortalInv, AccessInv
<1>2. \A q \in People : roster[q].joins \in Nat /\ roster'[q] = IF q = p THEN r ELSE roster[q]
  BY <1>1
<1> QED BY <1>2 DEF Joins

LEMMA PeopleServed ==
  ASSUME BaseInv, PeopleInv, NEW i \in DOMAIN net.calls, ServeMembers(i)
  PROVE PeopleInv'
<1>0. CallsInv /\ CoreInv /\ OrderInv /\ UNCHANGED <<settled, members>>
  BY DEF BaseInv, PortalInv, ServeMembers, memberVars
<1>1. roster \in [People -> [joins : Nat, in : BOOLEAN]]
  BY DEF BaseInv, PortalInv, AccessInv
<1>2. PICK op, arg : op = net.calls[i].op /\ arg = net.calls[i].arg
  OBVIOUS
<1>3. CASE Arrives(i, "members") /\ Replies(i, [p \in Present |-> roster[p].joins]) /\ UNCHANGED directory
  <2>1. op = "members" /\ roster' = roster
    BY <1>2, <1>3 DEF Arrives, Is, directory
  <2>2. PICK answer : answer = [p \in Present |-> roster[p].joins]
    OBVIOUS
  <2>3. Brings(AccessOps, {<<op, arg, "ok", answer>>})
    BY <1>0, <1>2, <1>3, <2>2, BringsReply
  <2>4. ASSUME NEW p \in DOMAIN answer PROVE answer[p] \in Nat /\ answer[p] > settled.removed[p] /\ answer[p] > 0
    <3>1. p \in People /\ roster[p].in /\ answer[p] = roster[p].joins
      BY <2>2 DEF Present
    <3>2. roster[p].joins \in Nat /\ roster[p].joins > 0 /\ settled.removed[p] < roster[p].joins /\ settled.removed[p] \in Nat
      BY <1>1, <3>1 DEF PeopleInv
    <3> QED BY <3>1, <3>2
  <2>5. ASSUME NEW j \in DOMAIN net'.calls, Fact(net'.calls[j]) \in {<<op, arg, "ok", answer>>} PROVE SoundPeople(net'.calls[j], roster, settled.removed)
    <3>1. net'.calls[j].op = "members" /\ net'.calls[j].answer = answer
      BY <2>1, <2>5 DEF Fact
    <3> QED BY <2>4, <3>1 DEF SoundPeople
  <2> QED BY <1>0, <2>1, <2>3, <2>5, PeopleSame
<1>4. CASE /\ Arrives(i, "remove") /\ net.calls[i].arg \in Present
           /\ roster' = [roster EXCEPT ![net.calls[i].arg] = [@ EXCEPT !.in = FALSE]] /\ Replies(i, roster[net.calls[i].arg].joins)
  <2>1. op = "remove" /\ arg \in People
    BY <1>2, <1>4 DEF Arrives, Is, Present
  <2>2. PICK r : r = [roster[arg] EXCEPT !.in = FALSE]
    OBVIOUS
  <2>3. r \in [joins : Nat, in : BOOLEAN] /\ r.joins = roster[arg].joins /\ ~r.in /\ roster[arg].joins \in Nat
    BY <1>1, <2>1, <2>2
  <2>4. roster' = [roster EXCEPT ![arg] = r]
    BY <1>2, <1>4, <2>2
  <2>5. Joins(roster, roster')
    <3>1. r.joins >= roster[arg].joins
      BY <2>3
    <3>2. r.in => roster[arg].in \/ r.joins > roster[arg].joins
      BY <2>3
    <3> QED BY <2>1, <2>3, <2>4, <3>1, <3>2, RosterSet
  <2>6. PICK answer : answer = roster[arg].joins
    OBVIOUS
  <2>7. Brings(AccessOps, {<<op, arg, "ok", answer>>})
    BY <1>0, <1>2, <1>4, <2>6, BringsReply
  <2>8. roster'[arg] = r
    BY <1>1, <2>1, <2>4
  <2>9. ASSUME NEW j \in DOMAIN net'.calls, Fact(net'.calls[j]) \in {<<op, arg, "ok", answer>>} PROVE SoundPeople(net'.calls[j], roster', settled.removed)
    <3>1. PICK c : c = net'.calls[j]
      OBVIOUS
    <3>2. c.op = "remove" /\ c.arg = arg /\ c.answer = answer
      BY <2>1, <2>9, <3>1 DEF Fact
    <3>3. answer \in Nat /\ answer <= r.joins
      BY <2>3, <2>6
    <3>4. SoundPeople(c, roster', settled.removed)
      BY <2>3, <2>8, <3>2, <3>3 DEF SoundPeople
    <3> QED BY <3>1, <3>4
  <2> QED BY <1>0, <2>5, <2>7, <2>9, RosterChanges
<1>5. CASE Refuses(i) /\ UNCHANGED roster
  <2>1. Brings(AccessOps, {})
    BY <1>0, <1>5, BringsReply
  <2> QED BY <1>0, <1>5, <2>1, PeopleSame
<1> QED BY <1>3, <1>4, <1>5 DEF ServeMembers

\* While a removal is waited for, no list of the members is.
LEMMA RemovesAlone ==
  ASSUME BaseInv, NEW i \in DOMAIN net.calls, net.calls[i].standing = "live", net.calls[i].op = "remove",
         NEW j \in DOMAIN net.calls, net.calls[j].standing = "live"
  PROVE net.calls[j].op # "members"
<1>1. {"members", "remove"} \in Rooms
  BY DEF Rooms
<1> QED BY <1>1, ApartLive

LEMMA PeopleStep ==
  ASSUME BaseInv, BaseInv', PeopleInv, AccessNext
  PROVE PeopleInv'
<1>0. CallsInv /\ CoreInv /\ OrderInv /\ AccessInv
  BY DEF BaseInv, PortalInv
<1>1. ASSUME UNCHANGED <<roster, settled, members>>, NEW op, NEW arg, NEW status, NEW answer, Brings(AccessOps, {<<op, arg, status, answer>>}),
             op # "members", op # "remove" \/ status # "ok"
      PROVE PeopleInv'
  <2>1. ASSUME NEW j \in DOMAIN net'.calls, Fact(net'.calls[j]) \in {<<op, arg, status, answer>>} PROVE SoundPeople(net'.calls[j], roster, settled.removed)
    BY <1>1, <2>1 DEF SoundPeople, Fact
  <2> QED BY <1>1, <2>1, PeopleSame
<1>2. CASE CreateInvitation
  <2>1. PICK arg : Brings(AccessOps, {<<"invite", arg, "sent", None>>})
    BY <1>0, <1>2, OrderBrings
  <2>2. UNCHANGED <<roster, settled, members>>
    BY <1>2 DEF CreateInvitation, directory, memberVars
  <2> QED BY <1>1, <2>1, <2>2
<1>3. CASE RevokeInvitation
  <2>1. PICK arg : arg = pendingRevoke
    OBVIOUS
  <2>2. Brings(AccessOps, {<<"revoke", arg, "sent", None>>})
    BY <1>0, <1>3, <2>1, OrderBrings
  <2>3. UNCHANGED <<roster, settled, members>>
    BY <1>3 DEF RevokeInvitation, accessVars, directory, memberVars
  <2> QED BY <1>1, <2>2, <2>3
<1>4. CASE RemoveMember
  <2>1. PICK arg : arg = pendingRemove
    OBVIOUS
  <2>2. Brings(AccessOps, {<<"remove", arg, "sent", None>>})
    BY <1>0, <1>4, <2>1, OrderBrings
  <2>3. UNCHANGED <<roster, settled, members>>
    BY <1>4 DEF RemoveMember, accessVars, directory, memberVars
  <2> QED BY <1>1, <2>2, <2>3
<1>5. ASSUME NEW i \in DOMAIN net.calls, ServeInvitations(i) PROVE PeopleInv'
  <2>1. UNCHANGED <<roster, settled, members>>
    BY <1>5 DEF ServeInvitations, directory, memberVars
  <2>2. PICK op, arg : op = net.calls[i].op /\ arg = net.calls[i].arg
    OBVIOUS
  <2>3. op \in {"invitations", "invite", "revoke"}
    BY <1>5, <2>2 DEF ServeInvitations, Arrives, Is
  <2>4. PICK answer : Replies(i, answer) \/ Refuses(i)
    BY <1>5 DEF ServeInvitations
  <2>5. Brings(AccessOps, {<<op, arg, "ok", answer>>})
    BY <1>0, <2>2, <2>4, BringsReply
  <2> QED BY <1>1, <2>1, <2>3, <2>5
<1>6. ASSUME NEW i \in DOMAIN net.calls, ServeMembers(i) PROVE PeopleInv'
  BY <1>6, PeopleServed
<1>7. ASSUME ~(CreateInvitation \/ RevokeInvitation \/ RemoveMember), ~\E i \in DOMAIN net.calls : ServeInvitations(i) \/ ServeMembers(i)
      PROVE PeopleInv'
  <2>0. Brings(AccessOps, {})
    BY <1>0, <1>7, AccessIn, BringsIn
  <2>1. ASSUME UNCHANGED <<roster, settled, members>> PROVE PeopleInv'
    BY <2>0, <2>1, PeopleSame
  <2>2. CASE AskRevoke \/ HideLink \/ AskRemove
    BY <2>1, <2>2 DEF AskRevoke, HideLink, AskRemove, directory, memberVars
  <2>3. CASE DirectoryChanges
    <3>1. UNCHANGED <<settled, members>>
      BY <2>3 DEF DirectoryChanges, memberVars
    <3>2. CASE roster' = roster
      BY <2>1, <3>1, <3>2
    <3>3. ASSUME NEW p \in People, roster' = [roster EXCEPT ![p] = IF @.in THEN [@ EXCEPT !.in = FALSE] ELSE [in |-> TRUE, joins |-> @.joins + 1]]
          PROVE PeopleInv'
      <4>1. roster[p] \in [joins : Nat, in : BOOLEAN] /\ roster[p].joins \in Nat
        BY <1>0 DEF AccessInv
      <4>2. PICK gone, back : gone = [roster[p] EXCEPT !.in = FALSE] /\ back = [in |-> TRUE, joins |-> roster[p].joins + 1]
        OBVIOUS
      <4>3. gone \in [joins : Nat, in : BOOLEAN] /\ gone.joins = roster[p].joins /\ ~gone.in
        BY <4>1, <4>2
      <4>4. back \in [joins : Nat, in : BOOLEAN] /\ back.joins > roster[p].joins
        BY <4>1, <4>2
      <4>5. CASE roster' = [roster EXCEPT ![p] = gone]
        <5>1. gone.joins >= roster[p].joins
          BY <4>1, <4>3
        <5>2. gone.in => roster[p].in \/ gone.joins > roster[p].joins
          BY <4>3
        <5>3. Joins(roster, roster')
          BY <4>3, <4>5, <5>1, <5>2, RosterSet
        <5> QED BY <2>0, <3>1, <5>3, RosterChanges
      <4>6. CASE roster' = [roster EXCEPT ![p] = back]
        <5>1. back.joins >= roster[p].joins
          BY <4>1, <4>4
        <5>2. back.in => roster[p].in \/ back.joins > roster[p].joins
          BY <4>4
        <5>3. Joins(roster, roster')
          BY <4>4, <4>6, <5>1, <5>2, RosterSet
        <5> QED BY <2>0, <3>1, <5>3, RosterChanges
      <4> QED BY <3>3, <4>2, <4>5, <4>6
    <3> QED BY <2>3, <3>2, <3>3 DEF DirectoryChanges
  <2>4. ASSUME NEW i \in DOMAIN net.calls, MemberRemoved(i) PROVE PeopleInv'
    <3>1. /\ net.calls[i].op = "remove" /\ net.calls[i].status = "ok" /\ net.calls[i].standing = "live" /\ UNCHANGED roster
      BY <2>4 DEF MemberRemoved, Answered, Is, directory
    <3>2. PICK p : p = net.calls[i].arg
      OBVIOUS
    <3>3. PICK n : n = net.calls[i].answer
      OBVIOUS
    <3>4. p \in People
      BY <1>0, <3>1, <3>2, LiveBefore DEF Asked
    <3>5. n \in Nat /\ n <= roster[p].joins /\ (roster[p].in => n < roster[p].joins)
      BY <3>1, <3>2, <3>3 DEF PeopleInv, SoundPeople, Tells
    <3>6. PICK removed : removed = [settled.removed EXCEPT ![p] = n]
      OBVIOUS
    <3>7. settled' = [settled EXCEPT !.removed = removed]
      BY <2>4, <3>2, <3>3, <3>6 DEF MemberRemoved
    <3>8. settled' = [revoked |-> settled.revoked, removed |-> removed]
      BY <3>7 DEF PeopleInv
    <3>9. removed \in [People -> Nat] /\ \A q \in People : removed[q] = IF q = p THEN n ELSE settled.removed[q]
      BY <3>4, <3>5, <3>6 DEF PeopleInv
    <3>10. members' = [q \in DOMAIN members \ {p} |-> members[q]] /\ DOMAIN members \subseteq People
      BY <1>0, <2>4, <3>2 DEF MemberRemoved, AccessInv
    <3>11. \A q \in DOMAIN members' : members'[q] \in Nat /\ members'[q] > removed[q] /\ members'[q] > 0
      BY <3>9, <3>10 DEF PeopleInv
    <3>12. \A q \in People : /\ roster[q].joins > 0 /\ removed[q] <= roster[q].joins
                             /\ roster[q].in => removed[q] < roster[q].joins
      BY <3>5, <3>9 DEF PeopleInv
    <3>13. ASSUME NEW j \in DOMAIN net'.calls, Tells(net'.calls[j]) PROVE SoundPeople(net'.calls[j], roster, removed)
      <4>1. CASE net'.calls[j].op \notin AccessOps
        BY <4>1 DEF SoundPeople, AccessOps
      <4>2. ASSUME NEW k \in DOMAIN net.calls, Tells(net.calls[k]), Same(net.calls[k], net'.calls[j]) PROVE SoundPeople(net'.calls[j], roster, removed)
        <5>1. net.calls[k].op # "members"
          BY <3>1, <4>2, RemovesAlone DEF Tells
        <5>2. SoundPeople(net.calls[k], roster, settled.removed)
          BY <4>2 DEF PeopleInv
        <5> QED BY <4>2, <5>1, <5>2 DEF SoundPeople, Same
      <4> QED BY <2>0, <3>13, <4>1, <4>2 DEF Brings
    <3>14. settled'.removed = removed /\ settled' = [revoked |-> settled'.revoked, removed |-> settled'.removed] /\ settled'.removed \in [People -> Nat]
      BY <3>8, <3>9
    <3> QED BY <3>1, <3>11, <3>12, <3>13, <3>14 DEF PeopleInv
  <2>5. ASSUME NEW i \in DOMAIN net.calls, MembersAnswered(i) PROVE PeopleInv'
    <3>1. /\ net.calls[i].op = "members" /\ net.calls[i].status = "ok" /\ net.calls[i].standing = "live" /\ UNCHANGED <<roster, settled>>
          /\ members' = net.calls[i].answer
      BY <2>5 DEF MembersAnswered, Answered, Is, directory
    <3>2. SoundPeople(net.calls[i], roster, settled.removed)
      BY <3>1 DEF PeopleInv, Tells
    <3>3. \A p \in DOMAIN members' : members'[p] \in Nat /\ members'[p] > settled.removed[p] /\ members'[p] > 0
      BY <3>1, <3>2 DEF SoundPeople
    <3>4. Joins(roster, roster') /\ settled'.removed \in [People -> Nat] /\ settled'.removed = settled.removed
      BY <3>1, RosterStays DEF PeopleInv
    <3>5. \A j \in DOMAIN net'.calls : Tells(net'.calls[j]) => SoundPeople(net'.calls[j], roster', settled'.removed)
      BY <2>0, <3>4, PeopleBrings
    <3> QED BY <3>1, <3>3, <3>5 DEF PeopleInv
  <2>6. ASSUME NEW i \in DOMAIN net.calls, NEW op, InvitationCreated(i) \/ InvitationRevoked(i) \/ InvitationsAnswered(i) \/ AccessFails(i, op)
        PROVE PeopleInv'
    <3>1. CASE InvitationRevoked(i)
      <4>1. UNCHANGED <<roster, members>>
        BY <3>1 DEF InvitationRevoked, directory, memberVars
      <4>2. PICK revoked : settled' = [settled EXCEPT !.revoked = revoked]
        BY <3>1 DEF InvitationRevoked
      <4>3. settled' = [revoked |-> settled'.revoked, removed |-> settled'.removed] /\ settled'.removed = settled.removed
        BY <4>2 DEF PeopleInv
      <4>4. Joins(roster, roster') /\ settled'.removed \in [People -> Nat]
        BY <4>1, <4>3, RosterStays DEF PeopleInv
      <4>5. \A j \in DOMAIN net'.calls : Tells(net'.calls[j]) => SoundPeople(net'.calls[j], roster', settled'.removed)
        BY <2>0, <4>3, <4>4, PeopleBrings
      <4> QED BY <4>1, <4>3, <4>5 DEF PeopleInv
    <3>2. CASE InvitationCreated(i) \/ InvitationsAnswered(i) \/ AccessFails(i, op)
      BY <2>1, <3>2 DEF InvitationCreated, InvitationsAnswered, AccessFails, accessVars, directory, memberVars
    <3> QED BY <2>6, <3>1, <3>2
  <2> QED BY <1>7, <2>2, <2>3, <2>4, <2>5, <2>6 DEF AccessNext
<1> QED BY <1>2, <1>3, <1>4, <1>5, <1>6, <1>7

LEMMA PeopleFollow ==
  ASSUME BaseInv, PeopleInv, Brings(AccessOps, {}), AccessFollow
  PROVE PeopleInv'
<1>1. roster' = roster
  BY DEF AccessFollow, directory
<1>2. Joins(roster, roster')
  BY <1>1, RosterStays
<1>3. settled' = settled \/ settled' = Settled
  BY DEF AccessFollow
<1>4. /\ settled'.removed = settled.removed \/ \A p \in People : settled'.removed[p] = 0
      /\ settled'.removed \in [People -> Nat] /\ settled' = [revoked |-> settled'.revoked, removed |-> settled'.removed]
  BY <1>3 DEF PeopleInv, Settled
<1>5. \A j \in DOMAIN net'.calls : Tells(net'.calls[j]) => SoundPeople(net'.calls[j], roster', settled'.removed)
  BY <1>2, <1>4, PeopleBrings
<1>6. members' = members \/ DOMAIN members' = {}
  <2>1. DOMAIN Nothing = {}
    BY DEF Nothing
  <2> QED BY <2>1 DEF AccessFollow
<1>7. DOMAIN members \subseteq People
  BY DEF BaseInv, PortalInv, AccessInv
<1>8. \A p \in DOMAIN members' : members'[p] \in Nat /\ members'[p] > settled'.removed[p] /\ members'[p] > 0
  BY <1>4, <1>6, <1>7 DEF PeopleInv
<1>9. \A p \in People : /\ roster'[p].joins > 0 /\ settled'.removed[p] <= roster'[p].joins
                        /\ roster'[p].in => settled'.removed[p] < roster'[p].joins
  <2>1. \A p \in People : roster[p].joins \in Nat
    BY DEF BaseInv, PortalInv, AccessInv
  <2> QED BY <1>1, <1>4, <2>1 DEF PeopleInv
<1> QED BY <1>4, <1>5, <1>8, <1>9 DEF PeopleInv

-----------------------------------------------------------------------------
LEMMA RevivalStep ==
  ASSUME BaseInv, BaseInv', ListInv, PeopleInv, [Next]_vars
  PROVE ListInv' /\ PeopleInv'
<1>0. CallsInv /\ CoreInv
  BY DEF BaseInv, PortalInv
<1>1. AccessOps \cap ShellOps = {} /\ AccessOps \cap {"bookings", "mutate"} = {} /\ AccessOps \cap EmailOps = {} /\ AccessOps \cap {"settings", "saveSettings"} = {}
  BY DEF ShellOps, GoogleOps, AccessOps, EmailOps, EmailCommands
<1>2. CASE AccessFollow /\ (ShellStep \/ BookingsNext \/ EmailsNext \/ SettingsNext)
  <2>1. Brings(AccessOps, {})
    BY <1>0, <1>1, <1>2, ShellBrings, BookingsBrings, EmailsBrings, SettingsBrings
  <2> QED BY <1>2, <2>1, ListFollows, PeopleFollow
<1>3. CASE AccessNext
  BY <1>3, ListStep, PeopleStep
<1>4. CASE UNCHANGED vars
  <2>1. net' = net /\ UNCHANGED <<issued, roster, settled, invitations, members>>
    BY <1>4 DEF vars, shellVars, accessVars, directory, invitationVars, memberVars
  <2>2. Brings(AccessOps, {})
    BY <2>1, SameBrings
  <2> QED BY <2>1, <2>2, ListSame, PeopleSame
<1> QED BY <1>2, <1>3, <1>4 DEF Next, PanelsFollow, OthersFollow

\* NothingRevived: a list of invitations or of members that was asked for before a revocation or a removal is not shown after it
\* (revokeInvitation and removeMember count the revision up, and hold loads back); an invitation made meanwhile is another one.
THEOREM NothingRevivedHolds ==
  Spec => []NothingRevived
<1>1. Init => ListInv /\ PeopleInv
  <2> SUFFICES ASSUME Init PROVE ListInv /\ PeopleInv
    OBVIOUS
  <2>1. PICK e \in Entries : net = Started(Empty, e.token)
    BY DEF Init, ShellInit
  <2>2. \A i \in DOMAIN net.calls : net.calls[i].op = "start"
    BY <2>1, StartsAlone
  <2>3. \A i \in DOMAIN net.calls : SoundList(net.calls[i], issued, settled.revoked) /\ SoundPeople(net.calls[i], roster, settled.removed)
    BY <2>2 DEF SoundList, SoundPeople
  <2>4. settled = [revoked |-> {}, removed |-> [p \in People |-> 0]] /\ DOMAIN invitations = {} /\ DOMAIN members = {}
    BY DEF Init, AccessInit, Settled, Nothing
  <2>5. \A p \in People : roster[p].joins = 1
    <3>1. PICK B \in {BOOLEAN, {FALSE}} : roster \in [People -> [joins : {1}, in : B]]
      BY DEF Init, AccessInit
    <3> QED BY <3>1
  <2> QED BY <2>3, <2>4, <2>5 DEF ListInv, PeopleInv
<1>2. BaseInv /\ BaseInv' /\ (ListInv /\ PeopleInv) /\ [Next]_vars => (ListInv /\ PeopleInv)'
  BY RevivalStep
<1>3. ListInv /\ PeopleInv => NothingRevived
  BY DEF ListInv, PeopleInv, NothingRevived
<1> QED BY <1>1, <1>2, <1>3, BaseHolds, PTL DEF Spec

-----------------------------------------------------------------------------
(* No booking is shown as it was before                                    *)

\* What a call says of the bookings is not newer than what is stored, and not older than what is shown;
SoundBooking(c, there, here) ==
  /\ c.op = "bookings" => \A b \in Bookings : c.answer[b].rev <= there[b].rev /\ (here # None => here[b].rev <= c.answer[b].rev)
  /\ c.op = "mutate" /\ c.status = "ok" => c.answer.rev <= there[c.arg.id].rev /\ (here # None => here[c.arg.id].rev <= c.answer.rev)
\* what is shown is not newer either.
ShownInv ==
  /\ shown # None => \A b \in Bookings : shown[b].rev <= stored[b].rev
  /\ \A i \in DOMAIN net.calls : Tells(net.calls[i]) => SoundBooking(net.calls[i], stored, shown)

NotBehind(there, then) == \A b \in Bookings : there[b].rev <= then[b].rev
ShownGrows == shown # None /\ shown' # None => \A b \in Bookings : shown'[b].rev >= shown[b].rev
List == {"bookings", "mutate"}

\* The revisions are numbers.
LEMMA RevsAre ==
  ASSUME NEW c, c.rev \in 0..MaxChanges
  PROVE c.rev \in Nat
BY PortalAssumption

LEMMA BookingRevs ==
  ASSUME NEW list \in BookingLists, NEW b \in Bookings
  PROVE list[b] \in Booking /\ list[b].rev \in Nat
<1>1. list[b] \in Booking
  BY DEF BookingLists
<1>2. list[b].rev \in 0..MaxChanges
  BY <1>1 DEF Booking
<1> QED BY <1>1, <1>2, RevsAre

\* A live answer about bookings, with its numbers.
LEMMA BookingTold ==
  ASSUME BaseInv, NEW i \in DOMAIN net.calls, Tells(net.calls[i])
  PROVE /\ net.calls[i].op = "bookings" => net.calls[i].answer \in BookingLists
        /\ net.calls[i].op = "mutate" => net.calls[i].arg \in Patches /\ shown \in BookingLists
        /\ net.calls[i].op = "mutate" /\ net.calls[i].status = "ok" => net.calls[i].answer \in Booking
<1>1. Asked(net.calls[i]) /\ Told(net.calls[i]) /\ net.calls[i].op \in AnyMay
  BY LiveBefore DEF BaseInv, PortalInv, Tells
<1>2. net.calls[i].op = "bookings" => net.calls[i].status = "ok"
  BY DEF Tells, Orders
<1> QED BY <1>1, <1>2 DEF Asked, Told, AnyMay

\* What is stored gets newer, what is shown stays or is forgotten.
LEMMA SoundBookingKept ==
  ASSUME NEW c, NEW d, Same(c, d), NEW there \in BookingLists, NEW then \in BookingLists, NotBehind(there, then), NEW here, NEW now, now = here \/ now = None,
         c.op = "bookings" => c.answer \in BookingLists,
         c.op = "mutate" /\ c.status = "ok" => c.arg \in Patches /\ c.answer \in Booking,
         SoundBooking(c, there, here)
  PROVE SoundBooking(d, then, now)
<1>1. \A b \in Bookings : there[b].rev \in Nat /\ then[b].rev \in Nat
  BY BookingRevs
<1>2. ASSUME d.op = "bookings", NEW b \in Bookings PROVE d.answer[b].rev <= then[b].rev /\ (now # None => now[b].rev <= d.answer[b].rev)
  <2>1. d.answer[b].rev \in Nat
    BY <1>2, BookingRevs DEF Same
  <2>2. d.answer[b].rev <= there[b].rev /\ (here # None => here[b].rev <= d.answer[b].rev)
    BY <1>2 DEF Same, SoundBooking
  <2>3. d.answer[b].rev <= then[b].rev
    BY <1>1, <2>1, <2>2 DEF NotBehind
  <2> QED BY <2>2, <2>3
<1>3. ASSUME d.op = "mutate", d.status = "ok" PROVE d.answer.rev <= then[d.arg.id].rev /\ (now # None => now[d.arg.id].rev <= d.answer.rev)
  <2>1. d.arg.id \in Bookings
    BY <1>3 DEF Same, Patches
  <2>2. d.answer.rev \in Nat
    <3>1. d.answer.rev \in 0..MaxChanges
      BY <1>3 DEF Same, Booking
    <3> QED BY <3>1, RevsAre
  <2>3. d.answer.rev <= there[d.arg.id].rev /\ (here # None => here[d.arg.id].rev <= d.answer.rev)
    BY <1>3 DEF Same, SoundBooking
  <2>4. d.answer.rev <= then[d.arg.id].rev
    BY <1>1, <2>1, <2>2, <2>3 DEF NotBehind
  <2> QED BY <2>3, <2>4
<1> QED BY <1>2, <1>3 DEF SoundBooking

LEMMA ShownBrings ==
  ASSUME BaseInv, ShownInv, NEW new, Brings(List, new), stored' \in BookingLists, NotBehind(stored, stored'), shown' = shown \/ shown' = None,
         \A j \in DOMAIN net'.calls : Fact(net'.calls[j]) \in new /\ Tells(net'.calls[j]) => SoundBooking(net'.calls[j], stored', shown')
  PROVE ShownInv' /\ ShownGrows
<1>0. stored \in BookingLists /\ (shown = None \/ shown \in BookingLists)
  BY DEF BaseInv, PortalInv, BookingsInv
<1>1. \A b \in Bookings : stored[b].rev \in Nat /\ stored'[b].rev \in Nat /\ (shown # None => shown[b].rev \in Nat)
  BY <1>0, BookingRevs
<1>2. ASSUME NEW j \in DOMAIN net'.calls, Tells(net'.calls[j]) PROVE SoundBooking(net'.calls[j], stored', shown')
  <2>1. CASE net'.calls[j].op \notin List
    BY <2>1 DEF SoundBooking, List
  <2>2. ASSUME NEW i \in DOMAIN net.calls, Tells(net.calls[i]), Same(net.calls[i], net'.calls[j]) PROVE SoundBooking(net'.calls[j], stored', shown')
    <3>1. SoundBooking(net.calls[i], stored, shown)
      BY <2>2 DEF ShownInv
    <3>2. PICK c, d, there, then, here, now : /\ c = net.calls[i] /\ d = net'.calls[j] /\ there = stored /\ then = stored' /\ here = shown /\ now = shown'
      OBVIOUS
    <3>3. /\ c.op = "bookings" => c.answer \in BookingLists
          /\ c.op = "mutate" /\ c.status = "ok" => c.arg \in Patches /\ c.answer \in Booking
      BY <2>2, <3>2, BookingTold
    <3>4. SoundBooking(d, then, now)
      BY <1>0, <2>2, <3>1, <3>2, <3>3, SoundBookingKept
    <3> QED BY <3>2, <3>4
  <2> QED BY <1>2, <2>1, <2>2 DEF Brings
<1>3. shown' # None => \A b \in Bookings : shown'[b].rev <= stored'[b].rev
  BY <1>1 DEF ShownInv, NotBehind
<1>4. ShownGrows
  BY <1>1 DEF ShownGrows
<1> QED BY <1>2, <1>3, <1>4 DEF ShownInv

LEMMA StoredStays ==
  ASSUME BaseInv, stored' = stored
  PROVE stored' \in BookingLists /\ NotBehind(stored, stored')
<1>1. stored \in BookingLists
  BY DEF BaseInv, PortalInv, BookingsInv
<1>2. \A b \in Bookings : stored[b].rev \in Nat
  BY <1>1, BookingRevs
<1> QED BY <1>1, <1>2 DEF NotBehind

\* One booking is changed at the server.
LEMMA StoredChanges ==
  ASSUME BaseInv, stored' \in BookingLists, NEW b \in Bookings, NEW notes, NEW status, stored' = [stored EXCEPT ![b] = Changed(stored[b], notes, status)]
  PROVE NotBehind(stored, stored') /\ stored'[b] = Changed(stored[b], notes, status) /\ stored'[b].rev = stored[b].rev + 1
<1>1. stored \in BookingLists
  BY DEF BaseInv, PortalInv, BookingsInv
<1>2. \A a \in Bookings : stored[a].rev \in Nat
  BY <1>1, BookingRevs
<1>3. PICK x : x = Changed(stored[b], notes, status)
  OBVIOUS
<1>4. x.rev = stored[b].rev + 1
  BY <1>3 DEF Changed
<1>5. \A a \in Bookings : stored'[a] = IF a = b THEN x ELSE stored[a]
  BY <1>1, <1>3 DEF BookingLists
<1> QED BY <1>2, <1>3, <1>4, <1>5 DEF NotBehind

\* Of a list or an order that is waited for there is one.
LEMMA AloneLive ==
  ASSUME BaseInv, NEW i \in DOMAIN net.calls, NEW j \in DOMAIN net.calls,
         net.calls[i].standing = "live", net.calls[j].standing = "live", net.calls[i].op = net.calls[j].op, net.calls[i].op \notin {"settings", "saveSettings"}
  PROVE i = j
<1>1. Alone(net, Free)
  BY DEF BaseInv, PortalInv, OrderInv, Steady, OrderlyNets, Orderly
<1>2. Waits(net.calls[i]) /\ Waits(net.calls[j])
  BY DEF Waits
<1>3. net.calls[i].op \notin Free
  BY DEF Free
<1> QED BY <1>1, <1>2, <1>3 DEF Alone

\* No list is waited for while a booking is changed.
LEMMA QuietLive ==
  ASSUME BaseInv, NEW i \in DOMAIN net.calls, net.calls[i].standing = "live", net.calls[i].op = "mutate"
  PROVE Saving /\ \A j \in DOMAIN net.calls : net.calls[j].standing = "live" => net.calls[j].op # "bookings"
<1>1. Quiet(net)
  <2>1. PICK n : n = net
    OBVIOUS
  <2>2. Known(n, {}, {})
    BY <2>1 DEF BaseInv, CallsInv
  <2>3. Quiet(n)
    BY <2>2, KnownTells
  <2> QED BY <2>1, <2>3
<1>2. "mutate" \in Flags \ Free
  BY DEF Flags, Ops, Free
<1>3. "mutate" \in net.busy
  BY <1>2, LiveBefore DEF BaseInv, PortalInv
<1> QED BY <1>1, <1>3 DEF Quiet, Saving

LEMMA ShownServed ==
  ASSUME BaseInv, BaseInv', ShownInv, NEW i \in DOMAIN net.calls, ServeBookings(i) \/ ServeMutate(i)
  PROVE ShownInv' /\ ShownGrows
<1>0. CallsInv /\ stored \in BookingLists /\ stored' \in BookingLists /\ (shown = None \/ shown \in BookingLists) /\ shown' = shown
  BY DEF BaseInv, PortalInv, BookingsInv, ServeBookings, ServeMutate, bookingVars
<1>1. \A b \in Bookings : stored[b].rev \in Nat /\ (shown # None => shown[b].rev \in Nat)
  BY <1>0, BookingRevs
<1>2. PICK op, arg : op = net.calls[i].op /\ arg = net.calls[i].arg
  OBVIOUS
<1>3. CASE ServeBookings(i)
  <2>1. op = "bookings" /\ stored' = stored
    BY <1>2, <1>3 DEF ServeBookings, Arrives, Is, bookingVars
  <2>2. PICK answer : answer = stored
    OBVIOUS
  <2>3. Brings(List, {<<op, arg, "ok", answer>>})
    BY <1>0, <1>2, <1>3, <2>2, BringsReply DEF ServeBookings
  <2>4. ASSUME NEW j \in DOMAIN net'.calls, Fact(net'.calls[j]) \in {<<op, arg, "ok", answer>>} PROVE SoundBooking(net'.calls[j], stored', shown')
    <3>1. net'.calls[j].op = "bookings" /\ net'.calls[j].answer = stored
      BY <2>1, <2>2, <2>4 DEF Fact
    <3>2. \A b \in Bookings : stored[b].rev <= stored[b].rev /\ (shown # None => shown[b].rev <= stored[b].rev)
      BY <1>1 DEF ShownInv
    <3> QED BY <1>0, <2>1, <3>1, <3>2 DEF SoundBooking
  <2> QED BY <1>0, <2>1, <2>3, <2>4, StoredStays, ShownBrings
<1>4. CASE ServeMutate(i)
  <2>1. op = "mutate" /\ net.calls[i].status = "sent"
    BY <1>2, <1>4 DEF ServeMutate, Arrives, Is
  <2>2. CASE Refuses(i) /\ stored' = stored
    <3>1. Brings(List, {})
      BY <1>0, <2>2, BringsReply
    <3> QED BY <1>0, <2>2, <3>1, StoredStays, ShownBrings
  <2>3. CASE /\ stored' = [stored EXCEPT ![arg.id] = Changed(stored[arg.id], arg.notes, arg.status)]
             /\ Replies(i, Changed(stored[arg.id], arg.notes, arg.status))
    <3>1. PICK answer : answer = Changed(stored[arg.id], arg.notes, arg.status)
      OBVIOUS
    <3>2. CASE net.calls[i].standing = "live"
      <4>1. Tells(net.calls[i])
        BY <1>2, <2>1, <3>2 DEF Tells, Orders
      <4>2. arg \in Patches /\ arg.id \in Bookings
        BY <1>2, <2>1, <4>1, BookingTold DEF Patches
      <4>3. NotBehind(stored, stored') /\ stored'[arg.id] = answer /\ stored'[arg.id].rev = stored[arg.id].rev + 1
        BY <1>0, <2>3, <3>1, <4>2, StoredChanges
      <4>4. Brings(List, {<<op, arg, "ok", answer>>})
        BY <1>0, <1>2, <2>3, <3>1, BringsReply
      <4>5. ASSUME NEW j \in DOMAIN net'.calls, Fact(net'.calls[j]) \in {<<op, arg, "ok", answer>>} PROVE SoundBooking(net'.calls[j], stored', shown')
        <5>1. net'.calls[j].op = "mutate" /\ net'.calls[j].answer = answer /\ net'.calls[j].arg = arg
          BY <2>1, <4>5 DEF Fact
        <5>2. answer.rev <= stored'[arg.id].rev /\ (shown # None => shown[arg.id].rev <= answer.rev)
          BY <1>1, <4>2, <4>3 DEF ShownInv
        <5> QED BY <1>0, <5>1, <5>2 DEF SoundBooking
      <4> QED BY <1>0, <4>3, <4>4, <4>5, ShownBrings
    <3>3. CASE net.calls[i].standing # "live"
      <4>1. Brings(List, {})
        BY <1>0, <2>3, <3>3, BringsReply
      <4>2. NotBehind(stored, stored')
        <5>1. CASE arg.id \in Bookings
          BY <1>0, <2>3, <5>1, StoredChanges
        <5>2. CASE arg.id \notin Bookings
          <6>1. PICK x, k : x = Changed(stored[arg.id], arg.notes, arg.status) /\ k = arg.id
            OBVIOUS
          <6>2. stored' = [stored EXCEPT ![k] = x] /\ k \notin Bookings
            BY <2>3, <5>2, <6>1
          <6>3. \A b \in Bookings : stored'[b] = stored[b]
            BY <1>0, <6>2 DEF BookingLists
          <6> QED BY <1>1, <6>3 DEF NotBehind
        <5> QED BY <5>1, <5>2
      <4> QED BY <1>0, <4>1, <4>2, ShownBrings
    <3> QED BY <3>2, <3>3
  <2> QED BY <1>2, <1>4, <2>2, <2>3 DEF ServeMutate
<1> QED BY <1>3, <1>4

LEMMA ShownStep ==
  ASSUME BaseInv, BaseInv', ShownInv, BookingsNext
  PROVE ShownInv' /\ ShownGrows
<1>0. CallsInv /\ CoreInv /\ stored \in BookingLists /\ stored' \in BookingLists /\ (shown = None \/ shown \in BookingLists)
  BY DEF BaseInv, PortalInv, BookingsInv
<1>1. CASE Mutate
  <2>1. PICK arg : Brings(List, {<<"mutate", arg, "sent", None>>})
    BY <1>0, <1>1, OrderBrings
  <2>2. UNCHANGED <<stored, shown>>
    BY <1>1 DEF Mutate, bookingVars
  <2>3. ASSUME NEW j \in DOMAIN net'.calls, Fact(net'.calls[j]) \in {<<"mutate", arg, "sent", None>>} PROVE SoundBooking(net'.calls[j], stored', shown')
    BY <2>3 DEF SoundBooking, Fact
  <2> QED BY <2>1, <2>2, <2>3, StoredStays, ShownBrings
<1>2. ASSUME NEW i \in DOMAIN net.calls, ServeBookings(i) \/ ServeMutate(i) PROVE ShownInv' /\ ShownGrows
  BY <1>2, ShownServed
<1>3. ASSUME ~Mutate, ~\E i \in DOMAIN net.calls : ServeBookings(i) \/ ServeMutate(i) PROVE ShownInv' /\ ShownGrows
  <2>0. Brings(List, {})
    BY <1>0, <1>3, BookingsIn, BringsIn
  <2>1. ASSUME UNCHANGED <<stored, shown>> PROVE ShownInv' /\ ShownGrows
    BY <2>0, <2>1, StoredStays, ShownBrings
  <2>2. CASE OpenBooking \/ CloseBooking \/ EditBooking
    BY <2>1, <2>2 DEF OpenBooking, CloseBooking, EditBooking
  <2>3. CASE BookingChanges
    <3>1. shown' = shown
      BY <2>3 DEF BookingChanges
    <3>2. PICK b \in Bookings : \E notes, status : stored' = [stored EXCEPT ![b] = Changed(@, notes, status)]
      BY <2>3 DEF BookingChanges
    <3>3. PICK notes, status : stored' = [stored EXCEPT ![b] = Changed(stored[b], notes, status)]
      BY <3>2
    <3>4. NotBehind(stored, stored')
      BY <1>0, <3>3, StoredChanges
    <3> QED BY <1>0, <2>0, <3>1, <3>4, ShownBrings
  <2>4. ASSUME NEW i \in DOMAIN net.calls, MutateAnswered(i) PROVE ShownInv' /\ ShownGrows
    <3>1. /\ net.calls[i].op = "mutate" /\ net.calls[i].status = "ok" /\ net.calls[i].standing = "live" /\ stored' = stored
      BY <2>4 DEF MutateAnswered, Answered, Is
    <3>2. Tells(net.calls[i])
      BY <3>1 DEF Tells
    <3>3. PICK id, updated : id = net.calls[i].arg.id /\ updated = net.calls[i].answer
      OBVIOUS
    <3>4. id \in Bookings /\ shown \in BookingLists /\ updated \in Booking
      BY <3>1, <3>2, <3>3, BookingTold DEF Patches
    <3>5. shown # None
      BY <3>4, BookingsAssumption DEF BookingLists
    <3>6. updated.rev <= stored[id].rev /\ shown[id].rev <= updated.rev
      BY <3>1, <3>2, <3>3, <3>5 DEF ShownInv, SoundBooking
    <3>7. shown' = [shown EXCEPT ![id] = updated]
      BY <2>4, <3>3 DEF MutateAnswered
    <3>8. \A b \in Bookings : shown'[b] = IF b = id THEN updated ELSE shown[b]
      BY <3>4, <3>7 DEF BookingLists
    <3>9. updated.rev \in Nat /\ \A b \in Bookings : shown[b].rev \in Nat /\ stored[b].rev \in Nat
      <4>1. updated.rev \in 0..MaxChanges
        BY <3>4 DEF Booking
      <4> QED BY <1>0, <3>4, <4>1, RevsAre, BookingRevs
    <3>10. \A b \in Bookings : shown'[b].rev <= stored[b].rev /\ shown'[b].rev >= shown[b].rev
      BY <3>5, <3>6, <3>8, <3>9 DEF ShownInv
    <3>11. ASSUME NEW j \in DOMAIN net'.calls, Tells(net'.calls[j]) PROVE SoundBooking(net'.calls[j], stored, shown')
      <4>1. CASE net'.calls[j].op \notin List
        BY <4>1 DEF SoundBooking, List
      <4>2. ASSUME NEW k \in DOMAIN net.calls, Tells(net.calls[k]), Same(net.calls[k], net'.calls[j]) PROVE SoundBooking(net'.calls[j], stored, shown')
        <5>1. net.calls[k].op # "bookings"
          BY <3>1, <4>2, QuietLive DEF Tells
        <5>2. CASE net.calls[k].op = "mutate"
          <6>1. k = i
            BY <3>1, <4>2, <5>2, AloneLive DEF Tells
          <6>2. net'.calls[j].op = "mutate" /\ net'.calls[j].arg.id = id /\ net'.calls[j].answer = updated
            BY <3>1, <3>3, <4>2, <6>1 DEF Same
          <6>3. shown'[id].rev <= updated.rev
            BY <3>4, <3>8, <3>9
          <6> QED BY <3>6, <6>2, <6>3 DEF SoundBooking
        <5>3. CASE net.calls[k].op \notin {"bookings", "mutate"}
          BY <4>2, <5>3 DEF SoundBooking, Same
        <5> QED BY <5>1, <5>2, <5>3
      <4> QED BY <2>0, <3>11, <4>1, <4>2 DEF Brings
    <3> QED BY <3>1, <3>10, <3>11 DEF ShownInv, ShownGrows
  <2>5. ASSUME NEW i \in DOMAIN net.calls, BookingsAnswered(i) PROVE ShownInv' /\ ShownGrows
    <3>1. /\ net.calls[i].op = "bookings" /\ net.calls[i].status = "ok" /\ net.calls[i].standing = "live" /\ stored' = stored
      BY <2>5 DEF BookingsAnswered, Answered, Is
    <3>2. CASE Saving
      BY <2>1, <2>5, <3>1, <3>2 DEF BookingsAnswered
    <3>3. CASE ~Saving
      <4>1. Tells(net.calls[i])
        BY <3>1 DEF Tells
      <4>2. PICK answer : answer = net.calls[i].answer
        OBVIOUS
      <4>3. shown' = answer /\ answer \in BookingLists
        BY <2>5, <3>1, <3>3, <4>1, <4>2, BookingTold DEF BookingsAnswered
      <4>4. \A b \in Bookings : answer[b].rev <= stored[b].rev /\ (shown # None => shown[b].rev <= answer[b].rev)
        BY <3>1, <4>1, <4>2 DEF ShownInv, SoundBooking
      <4>5. \A b \in Bookings : answer[b].rev \in Nat /\ (shown # None => shown[b].rev \in Nat)
        BY <1>0, <4>3, BookingRevs
      <4>6. ASSUME NEW j \in DOMAIN net'.calls, Tells(net'.calls[j]) PROVE SoundBooking(net'.calls[j], stored, answer)
        <5>1. CASE net'.calls[j].op \notin List
          BY <5>1 DEF SoundBooking, List
        <5>2. ASSUME NEW k \in DOMAIN net.calls, Tells(net.calls[k]), Same(net.calls[k], net'.calls[j]) PROVE SoundBooking(net'.calls[j], stored, answer)
          <6>1. net.calls[k].op # "mutate"
            BY <3>3, <5>2, QuietLive DEF Tells
          <6>2. CASE net.calls[k].op = "bookings"
            <7>1. k = i
              BY <3>1, <5>2, <6>2, AloneLive DEF Tells
            <7>2. net'.calls[j].op = "bookings" /\ net'.calls[j].answer = answer
              BY <3>1, <4>2, <5>2, <7>1 DEF Same
            <7> QED BY <4>4, <4>5, <7>2 DEF SoundBooking
          <6>3. CASE net.calls[k].op \notin {"bookings", "mutate"}
            BY <5>2, <6>3 DEF SoundBooking, Same
          <6> QED BY <6>1, <6>2, <6>3
        <5> QED BY <2>0, <4>6, <5>1, <5>2 DEF Brings
      <4>7. ShownGrows
        BY <4>3, <4>4, <4>5 DEF ShownGrows
      <4>8. \A b \in Bookings : shown'[b].rev <= stored'[b].rev
        BY <3>1, <4>3, <4>4
      <4>9. \A j \in DOMAIN net'.calls : Tells(net'.calls[j]) => SoundBooking(net'.calls[j], stored', shown')
        BY <3>1, <4>3, <4>6
      <4> QED BY <4>7, <4>8, <4>9 DEF ShownInv
    <3> QED BY <3>2, <3>3
  <2>6. ASSUME NEW i \in DOMAIN net.calls, MutateFails(i) \/ BookingsFails(i) PROVE ShownInv' /\ ShownGrows
    BY <2>1, <2>6 DEF MutateFails, BookingsFails, bookingVars
  <2> QED BY <1>3, <2>2, <2>3, <2>4, <2>5, <2>6 DEF BookingsNext
<1> QED BY <1>1, <1>2, <1>3

LEMMA ShownFollows ==
  ASSUME BaseInv, ShownInv, Brings(List, {}), BookingsFollow
  PROVE ShownInv' /\ ShownGrows
<1>1. stored' = stored /\ (shown' = shown \/ shown' = None)
  BY DEF BookingsFollow
<1> QED BY <1>1, StoredStays, ShownBrings

-----------------------------------------------------------------------------
(* The emails are not shown as they were before                            *)

\* What a call says of the emails is not newer than what the server has, and not older than what is shown;
SoundMail(c, there, here) ==
  /\ c.op = "emails" => /\ c.answer.settings.rev <= there.settings.rev /\ c.answer.rest.rev <= there.rest.rev
                        /\ here # None => here.settings.rev <= c.answer.settings.rev /\ here.rest.rev <= c.answer.rest.rev
  /\ c.op = "emailSettings" /\ c.status = "ok" => c.answer.rev <= there.settings.rev /\ (here # None => here.settings.rev <= c.answer.rev)
\* what is shown is not newer either.
MailInv ==
  /\ email # None => email.settings.rev <= mail.settings.rev /\ email.rest.rev <= mail.rest.rev
  /\ \A i \in DOMAIN net.calls : Tells(net.calls[i]) => SoundMail(net.calls[i], mail, email)

Mails == [settings : Saved, rest : Rest]
NewerMail(there, then) == there.settings.rev <= then.settings.rev /\ there.rest.rev <= then.rest.rev
MailGrows == email # None /\ email' # None => NewerMail(email, email')
Letters == {"emails", "emailSettings"}

LEMMA MailRevs ==
  /\ \A s \in Saved : s.rev \in Nat
  /\ \A m \in Mails : m.settings \in Saved /\ m.settings.rev \in Nat /\ m.rest.rev \in Nat
  /\ \A e \in MailAnswers : e.settings \in Saved /\ e.settings.rev \in Nat /\ e.rest.rev \in Nat
<1>1. \A s \in Saved : s.rev \in 0..MaxChanges
  BY DEF Saved
<1>2. \A r \in Rest : r.rev \in 0..MaxChanges
  BY DEF Rest
<1>3. (\A s \in Saved : s.rev \in Nat) /\ (\A r \in Rest : r.rev \in Nat)
  BY <1>1, <1>2, RevsAre
<1> QED BY <1>3 DEF Mails, MailAnswers

LEMMA MailTyped ==
  ASSUME BaseInv
  PROVE mail \in Mails /\ (email = None \/ email \in MailAnswers)
BY DEF BaseInv, PortalInv, EmailsInv, Mails

LEMMA MailTypedNext ==
  ASSUME BaseInv'
  PROVE mail' \in Mails
BY DEF BaseInv, PortalInv, EmailsInv, Mails

\* A live answer about the emails, with its numbers.
LEMMA MailTold ==
  ASSUME BaseInv, NEW i \in DOMAIN net.calls, Tells(net.calls[i])
  PROVE /\ net.calls[i].op = "emails" => net.calls[i].answer \in MailAnswers
        /\ net.calls[i].op = "emailSettings" => email \in MailAnswers
        /\ net.calls[i].op = "emailSettings" /\ net.calls[i].status = "ok" => net.calls[i].answer \in Saved
<1>1. Asked(net.calls[i]) /\ Told(net.calls[i]) /\ net.calls[i].op \in AnyMay
  BY LiveBefore DEF BaseInv, PortalInv, Tells
<1>2. net.calls[i].op = "emails" => net.calls[i].status = "ok"
  BY DEF Tells, Orders
<1> QED BY <1>1, <1>2 DEF Told, AnyMay

\* What the server has gets newer, what is shown stays or is forgotten.
LEMMA SoundMailKept ==
  ASSUME NEW c, NEW d, Same(c, d), NEW there \in Mails, NEW then \in Mails, NewerMail(there, then), NEW here, NEW now, now = here \/ now = None,
         c.op = "emails" => c.answer \in MailAnswers,
         c.op = "emailSettings" /\ c.status = "ok" => c.answer \in Saved,
         SoundMail(c, there, here)
  PROVE SoundMail(d, then, now)
<1>1. there.settings.rev \in Nat /\ then.settings.rev \in Nat /\ there.rest.rev \in Nat /\ then.rest.rev \in Nat
  BY MailRevs
<1>2. ASSUME d.op = "emails"
      PROVE /\ d.answer.settings.rev <= then.settings.rev /\ d.answer.rest.rev <= then.rest.rev
            /\ now # None => now.settings.rev <= d.answer.settings.rev /\ now.rest.rev <= d.answer.rest.rev
  <2>1. d.answer.settings.rev \in Nat /\ d.answer.rest.rev \in Nat
    BY <1>2, MailRevs DEF Same
  <2>2. /\ d.answer.settings.rev <= there.settings.rev /\ d.answer.rest.rev <= there.rest.rev
        /\ here # None => here.settings.rev <= d.answer.settings.rev /\ here.rest.rev <= d.answer.rest.rev
    BY <1>2 DEF Same, SoundMail
  <2>3. d.answer.settings.rev <= then.settings.rev /\ d.answer.rest.rev <= then.rest.rev
    BY <1>1, <2>1, <2>2 DEF NewerMail
  <2> QED BY <2>2, <2>3
<1>3. ASSUME d.op = "emailSettings", d.status = "ok" PROVE d.answer.rev <= then.settings.rev /\ (now # None => now.settings.rev <= d.answer.rev)
  <2>1. d.answer.rev \in Nat
    BY <1>3, MailRevs DEF Same
  <2>2. d.answer.rev <= there.settings.rev /\ (here # None => here.settings.rev <= d.answer.rev)
    BY <1>3 DEF Same, SoundMail
  <2>3. d.answer.rev <= then.settings.rev
    BY <1>1, <2>1, <2>2 DEF NewerMail
  <2> QED BY <2>2, <2>3
<1> QED BY <1>2, <1>3 DEF SoundMail

LEMMA MailBrings ==
  ASSUME BaseInv, MailInv, NEW new, Brings(Letters, new), mail' \in Mails, NewerMail(mail, mail'), email' = email \/ email' = None,
         \A j \in DOMAIN net'.calls : Fact(net'.calls[j]) \in new /\ Tells(net'.calls[j]) => SoundMail(net'.calls[j], mail', email')
  PROVE MailInv' /\ MailGrows
<1>0. mail \in Mails /\ (email = None \/ email \in MailAnswers)
  BY MailTyped
<1>1. ASSUME NEW j \in DOMAIN net'.calls, Tells(net'.calls[j]) PROVE SoundMail(net'.calls[j], mail', email')
  <2>1. CASE net'.calls[j].op \notin Letters
    BY <2>1 DEF SoundMail, Letters
  <2>2. ASSUME NEW i \in DOMAIN net.calls, Tells(net.calls[i]), Same(net.calls[i], net'.calls[j]) PROVE SoundMail(net'.calls[j], mail', email')
    <3>1. SoundMail(net.calls[i], mail, email)
      BY <2>2 DEF MailInv
    <3>2. PICK c, d, there, then, here, now : /\ c = net.calls[i] /\ d = net'.calls[j] /\ there = mail /\ then = mail' /\ here = email /\ now = email'
      OBVIOUS
    <3>3. /\ c.op = "emails" => c.answer \in MailAnswers
          /\ c.op = "emailSettings" /\ c.status = "ok" => c.answer \in Saved
      BY <2>2, <3>2, MailTold
    <3>4. SoundMail(d, then, now)
      BY <1>0, <2>2, <3>1, <3>2, <3>3, SoundMailKept
    <3> QED BY <3>2, <3>4
  <2> QED BY <1>1, <2>1, <2>2 DEF Brings
<1>2. mail.settings.rev \in Nat /\ mail.rest.rev \in Nat /\ mail'.settings.rev \in Nat /\ mail'.rest.rev \in Nat
  BY <1>0, MailRevs
<1>3. email # None => email.settings.rev \in Nat /\ email.rest.rev \in Nat
  BY <1>0, MailRevs
<1>4. email' # None => email'.settings.rev <= mail'.settings.rev /\ email'.rest.rev <= mail'.rest.rev
  BY <1>2, <1>3 DEF MailInv, NewerMail
<1>5. MailGrows
  BY <1>3 DEF MailGrows, NewerMail
<1> QED BY <1>1, <1>4, <1>5 DEF MailInv

LEMMA MailStays ==
  ASSUME BaseInv, mail' = mail
  PROVE mail' \in Mails /\ NewerMail(mail, mail')
BY MailTyped, MailRevs DEF NewerMail

LEMMA SettingsNewer ==
  ASSUME BaseInv, BaseInv', NEW value, mail' = [mail EXCEPT !.settings = [rev |-> mail.settings.rev + 1, value |-> value]]
  PROVE NewerMail(mail, mail') /\ mail'.settings.rev = mail.settings.rev + 1 /\ mail' \in Mails
<1>1. mail \in Mails /\ mail' \in Mails
  BY MailTyped, MailTypedNext
<1>2. PICK s : s = [rev |-> mail.settings.rev + 1, value |-> value]
  OBVIOUS
<1>3. s.rev = mail.settings.rev + 1 /\ mail' = [mail EXCEPT !.settings = s]
  BY <1>2
<1>4. mail'.settings = s /\ mail'.rest = mail.rest
  BY <1>1, <1>3 DEF Mails
<1>5. mail.settings.rev \in Nat /\ mail.rest.rev \in Nat
  BY <1>1, MailRevs
<1> QED BY <1>1, <1>3, <1>4, <1>5 DEF NewerMail

LEMMA RestNewer ==
  ASSUME BaseInv, BaseInv', NEW connection, NEW message, mail' = [mail EXCEPT !.rest = RestChanges(connection, message)]
  PROVE NewerMail(mail, mail') /\ mail' \in Mails
<1>1. mail \in Mails /\ mail' \in Mails
  BY MailTyped, MailTypedNext
<1>2. PICK s : s = RestChanges(connection, message)
  OBVIOUS
<1>3. s.rev = mail.rest.rev + 1 /\ mail' = [mail EXCEPT !.rest = s]
  BY <1>2 DEF RestChanges
<1>4. mail'.settings = mail.settings /\ mail'.rest = s
  BY <1>1, <1>3 DEF Mails
<1>5. mail.settings.rev \in Nat /\ mail.rest.rev \in Nat
  BY <1>1, MailRevs
<1> QED BY <1>1, <1>3, <1>4, <1>5 DEF NewerMail

-----------------------------------------------------------------------------
LEMMA MailServed ==
  ASSUME BaseInv, BaseInv', MailInv, NEW i \in DOMAIN net.calls, ServeEmails(i)
  PROVE MailInv' /\ MailGrows
<1>0. CallsInv /\ email' = email /\ mail \in Mails /\ (email = None \/ email \in MailAnswers)
  BY MailTyped DEF BaseInv, ServeEmails
<1>1. mail.settings.rev \in Nat /\ mail.rest.rev \in Nat /\ (email # None => email.settings.rev \in Nat /\ email.rest.rev \in Nat)
  BY <1>0, MailRevs
<1>2. PICK op, arg : op = net.calls[i].op /\ arg = net.calls[i].arg
  OBVIOUS
<1>3. CASE Arrives(i, "emails") /\ Replies(i, [settings |-> mail.settings, rest |-> mail.rest, canConnect |-> granted.connects]) /\ UNCHANGED mail
  <2>1. op = "emails"
    BY <1>2, <1>3 DEF Arrives, Is
  <2>2. PICK answer : answer = [settings |-> mail.settings, rest |-> mail.rest, canConnect |-> granted.connects]
    OBVIOUS
  <2>3. Brings(Letters, {<<op, arg, "ok", answer>>})
    BY <1>0, <1>2, <1>3, <2>2, BringsReply
  <2>4. answer.settings = mail.settings /\ answer.rest = mail.rest
    BY <2>2
  <2>5. ASSUME NEW j \in DOMAIN net'.calls, Fact(net'.calls[j]) \in {<<op, arg, "ok", answer>>} PROVE SoundMail(net'.calls[j], mail', email')
    <3>1. net'.calls[j].op = "emails" /\ net'.calls[j].answer = answer
      BY <2>1, <2>5 DEF Fact
    <3> QED BY <1>0, <1>1, <1>3, <2>4, <3>1 DEF SoundMail, MailInv
  <2> QED BY <1>0, <1>3, <2>3, <2>5, MailStays, MailBrings
<1>4. CASE Arrives(i, "emailSettings") /\ mail' = [mail EXCEPT !.settings = [rev |-> mail.settings.rev + 1, value |-> arg]] /\ Replies(i, mail'.settings)
  <2>1. op = "emailSettings"
    BY <1>2, <1>4 DEF Arrives, Is
  <2>2. PICK answer : answer = mail'.settings
    OBVIOUS
  <2>3. Brings(Letters, {<<op, arg, "ok", answer>>})
    BY <1>0, <1>2, <1>4, <2>2, BringsReply
  <2>4. NewerMail(mail, mail') /\ mail'.settings.rev = mail.settings.rev + 1 /\ mail' \in Mails
    BY <1>4, SettingsNewer
  <2>5. ASSUME NEW j \in DOMAIN net'.calls, Fact(net'.calls[j]) \in {<<op, arg, "ok", answer>>} PROVE SoundMail(net'.calls[j], mail', email')
    <3>1. net'.calls[j].op = "emailSettings" /\ net'.calls[j].answer = answer
      BY <2>1, <2>5 DEF Fact
    <3>2. answer.rev = mail.settings.rev + 1
      BY <2>2, <2>4
    <3>3. email # None => email.settings.rev <= answer.rev
      BY <1>1, <3>2 DEF MailInv
    <3>4. answer.rev <= mail'.settings.rev
      BY <1>1, <2>4, <3>2
    <3> QED BY <1>0, <3>1, <3>3, <3>4 DEF SoundMail
  <2> QED BY <1>0, <2>3, <2>4, <2>5, MailBrings
<1>5. CASE Arrives(i, "emailSettings") /\ Refuses(i) /\ UNCHANGED mail
  <2>1. Brings(Letters, {})
    BY <1>0, <1>5, BringsReply
  <2> QED BY <1>0, <1>5, <2>1, MailStays, MailBrings
<1>6. ASSUME op \notin Letters, NEW answer, Replies(i, answer) \/ Refuses(i), NewerMail(mail, mail'), mail' \in Mails
      PROVE MailInv' /\ MailGrows
  <2>1. Brings(Letters, {<<op, arg, "ok", answer>>})
    BY <1>0, <1>2, <1>6, BringsReply
  <2>2. ASSUME NEW j \in DOMAIN net'.calls, Fact(net'.calls[j]) \in {<<op, arg, "ok", answer>>} PROVE SoundMail(net'.calls[j], mail', email')
    BY <1>6, <2>2 DEF SoundMail, Letters, Fact
  <2> QED BY <1>0, <1>6, <2>1, <2>2, MailBrings
<1>7. CASE Arrives(i, "emailConnect") /\ (IF granted.connects THEN Replies(i, None) ELSE Refuses(i)) /\ UNCHANGED mail
  <2>1. op \notin Letters
    BY <1>2, <1>7 DEF Arrives, Is, Letters
  <2>2. Replies(i, None) \/ Refuses(i)
    BY <1>7
  <2> QED BY <1>6, <1>7, <2>1, <2>2, MailStays
<1>8. CASE Arrives(i, "emailCommand")
  <2>1. op \notin Letters
    BY <1>2, <1>8 DEF Arrives, Is, Letters
  <2>2. CASE Refuses(i) /\ UNCHANGED mail
    BY <1>6, <2>1, <2>2, MailStays
  <2>3. ASSUME NEW connection, NEW message, mail' = [mail EXCEPT !.rest = RestChanges(connection, message)], Replies(i, None)
        PROVE MailInv' /\ MailGrows
    BY <1>6, <2>1, <2>3, RestNewer
  <2>4. (Refuses(i) /\ UNCHANGED mail) \/ (Replies(i, None) /\ \E connection, message : mail' = [mail EXCEPT !.rest = RestChanges(connection, message)])
    <3>1. ~Is(i, "emails") /\ ~Is(i, "emailSettings") /\ ~Is(i, "emailConnect")
      BY <1>8 DEF Arrives, Is
    <3>2. ~Arrives(i, "emails") /\ ~Arrives(i, "emailSettings") /\ ~Arrives(i, "emailConnect")
      BY <3>1 DEF Arrives
    <3>3. PICK command : /\ command = arg
                         /\ IF MayChange /\ Obeys(command)
                            THEN /\ mail' = [mail EXCEPT !.rest = CASE command = "disconnect" -> RestChanges("none", mail.rest.message)
                                                                    [] command = "test" -> RestChanges(mail.rest.connection, mail.rest.message)
                                                                    [] OTHER -> RestChanges(mail.rest.connection, "queued")]
                                 /\ Replies(i, None)
                            ELSE Refuses(i) /\ UNCHANGED mail
      BY <1>2, <3>2 DEF ServeEmails
    <3>4. CASE command = "disconnect"
      BY <3>3, <3>4
    <3>5. CASE command = "test"
      BY <3>3, <3>5
    <3>6. CASE command \notin {"disconnect", "test"}
      BY <3>3, <3>6
    <3> QED BY <3>4, <3>5, <3>6
  <2> QED BY <2>2, <2>3, <2>4
<1>9. CASE Arrives(i, "emailSettings")
  <2>1. ~Is(i, "emails") /\ ~Is(i, "emailCommand") /\ ~Is(i, "emailConnect")
    BY <1>9 DEF Arrives, Is
  <2>2. ~Arrives(i, "emails") /\ ~Arrives(i, "emailCommand") /\ ~Arrives(i, "emailConnect")
    BY <2>1 DEF Arrives
  <2>3. IF mail.settings.rev < MaxChanges
          THEN mail' = [mail EXCEPT !.settings = [rev |-> mail.settings.rev + 1, value |-> arg]] /\ Replies(i, mail'.settings)
          ELSE Refuses(i) /\ UNCHANGED mail
    BY <1>2, <2>2 DEF ServeEmails
  <2> QED BY <1>4, <1>5, <1>9, <2>3
<1> QED BY <1>3, <1>7, <1>8, <1>9 DEF ServeEmails

\* Of the operations on the emails one is waited for.
LEMMA OneLetter ==
  ASSUME BaseInv, NEW i \in DOMAIN net.calls, NEW j \in DOMAIN net.calls,
         net.calls[i].standing = "live", net.calls[j].standing = "live", net.calls[i].op \in Letters, net.calls[j].op \in Letters
  PROVE i = j
<1>1. Letters \subseteq EmailOps /\ EmailOps \in Rooms
  BY DEF Letters, EmailOps, EmailCommands, Rooms
<1> QED BY <1>1, ApartLive

\* What the page shows becomes what an answer says.
LEMMA MailShown ==
  ASSUME BaseInv, MailInv, Brings(Letters, {}), mail' = mail, NEW i \in DOMAIN net.calls, Tells(net.calls[i]), net.calls[i].op \in Letters,
         email # None => NewerMail(email, email'),
         email'.settings.rev <= mail.settings.rev, email'.rest.rev <= mail.rest.rev, email'.settings.rev \in Nat, email'.rest.rev \in Nat,
         net.calls[i].op = "emails" => email' = net.calls[i].answer,
         net.calls[i].op = "emailSettings" => email'.settings = net.calls[i].answer
  PROVE MailInv' /\ MailGrows
<1>1. ASSUME NEW j \in DOMAIN net'.calls, Tells(net'.calls[j]) PROVE SoundMail(net'.calls[j], mail, email')
  <2>1. CASE net'.calls[j].op \notin Letters
    BY <2>1 DEF SoundMail, Letters
  <2>2. ASSUME NEW k \in DOMAIN net.calls, Tells(net.calls[k]), Same(net.calls[k], net'.calls[j]), net'.calls[j].op \in Letters PROVE SoundMail(net'.calls[j], mail, email')
    <3>1. net.calls[k].op \in Letters /\ net.calls[k].standing = "live" /\ net.calls[i].standing = "live"
      BY <2>2 DEF Same, Tells
    <3>2. k = i
      BY <3>1, OneLetter
    <3>3. net'.calls[j].op = net.calls[i].op /\ net'.calls[j].answer = net.calls[i].answer
      BY <2>2, <3>2 DEF Same
    <3> QED BY <3>3 DEF SoundMail
  <2> QED BY <1>1, <2>1, <2>2 DEF Brings
<1>2. \A j \in DOMAIN net'.calls : Tells(net'.calls[j]) => SoundMail(net'.calls[j], mail', email')
  BY <1>1
<1> QED BY <1>2 DEF MailInv, MailGrows

LEMMA MailStep ==
  ASSUME BaseInv, BaseInv', MailInv, EmailsNext
  PROVE MailInv' /\ MailGrows
<1>0. CallsInv /\ CoreInv /\ mail \in Mails /\ (email = None \/ email \in MailAnswers)
  BY MailTyped DEF BaseInv, PortalInv
<1>1. CASE SaveEmail
  <2>1. PICK arg : arg = form
    OBVIOUS
  <2>2. Brings(Letters, {<<"emailSettings", arg, "sent", None>>})
    BY <1>0, <1>1, <2>1, OrderBrings
  <2>3. UNCHANGED <<mail, email>>
    BY <1>1 DEF SaveEmail, emailVars
  <2>4. ASSUME NEW j \in DOMAIN net'.calls, Fact(net'.calls[j]) \in {<<"emailSettings", arg, "sent", None>>} PROVE SoundMail(net'.calls[j], mail', email')
    BY <2>4 DEF SoundMail, Fact
  <2> QED BY <2>2, <2>3, <2>4, MailStays, MailBrings
<1>2. CASE EmailCommand
  <2>1. PICK arg : Brings(Letters, {<<"emailCommand", arg, "sent", None>>})
    BY <1>0, <1>2, OrderBrings
  <2>2. UNCHANGED <<mail, email>>
    BY <1>2 DEF EmailCommand, emailVars
  <2>3. ASSUME NEW j \in DOMAIN net'.calls, Fact(net'.calls[j]) \in {<<"emailCommand", arg, "sent", None>>} PROVE SoundMail(net'.calls[j], mail', email')
    BY <2>3 DEF SoundMail, Fact
  <2> QED BY <2>1, <2>2, <2>3, MailStays, MailBrings
<1>3. ASSUME NEW i \in DOMAIN net.calls, ServeEmails(i) PROVE MailInv' /\ MailGrows
  BY <1>3, MailServed
<1>4. ASSUME ~(SaveEmail \/ EmailCommand), ~\E i \in DOMAIN net.calls : ServeEmails(i) PROVE MailInv' /\ MailGrows
  <2>0. Brings(Letters, {})
    BY <1>0, <1>4, EmailsIn, BringsIn
  <2>1. ASSUME UNCHANGED <<mail, email>> PROVE MailInv' /\ MailGrows
    BY <2>0, <2>1, MailStays, MailBrings
  <2>2. CASE EditEmail \/ DiscardEmail \/ ConnectEmail \/ AskEmail
    BY <2>1, <2>2 DEF EditEmail, DiscardEmail, ConnectEmail, AskEmail, emailVars
  <2>3. CASE MailChanges
    <3>1. email' = email
      BY <2>3 DEF MailChanges
    <3>2. mail' \in Mails /\ NewerMail(mail, mail')
      <4>1. ASSUME NEW c, NEW m, mail' = [mail EXCEPT !.rest = RestChanges(c, m)] PROVE mail' \in Mails /\ NewerMail(mail, mail')
        BY <4>1, RestNewer
      <4>2. ASSUME NEW v, mail' = [mail EXCEPT !.settings = [rev |-> mail.settings.rev + 1, value |-> v]] PROVE mail' \in Mails /\ NewerMail(mail, mail')
        BY <4>2, SettingsNewer
      <4> QED BY <2>3, <4>1, <4>2 DEF MailChanges
    <3> QED BY <2>0, <3>1, <3>2, MailBrings
  <2>4. ASSUME NEW i \in DOMAIN net.calls, EmailSaved(i) PROVE MailInv' /\ MailGrows
    <3>1. /\ net.calls[i].op = "emailSettings" /\ net.calls[i].status = "ok" /\ net.calls[i].standing = "live" /\ mail' = mail
      BY <2>4 DEF EmailSaved, Answered, Is
    <3>2. Tells(net.calls[i])
      BY <3>1 DEF Tells
    <3>3. PICK answer : answer = net.calls[i].answer
      OBVIOUS
    <3>4. email \in MailAnswers /\ answer \in Saved
      BY <3>1, <3>2, <3>3, MailTold
    <3>5. email # None
      BY <3>4, EmailsAssumption DEF MailAnswers
    <3>6. answer.rev <= mail.settings.rev /\ email.settings.rev <= answer.rev
      BY <3>1, <3>2, <3>3, <3>5 DEF MailInv, SoundMail
    <3>7. email' = [email EXCEPT !.settings = answer]
      BY <2>4, <3>3 DEF EmailSaved
    <3>8. email'.settings = answer /\ email'.rest = email.rest
      BY <3>4, <3>7 DEF MailAnswers
    <3>9. answer.rev \in Nat /\ email.rest.rev \in Nat
      BY <3>4, MailRevs
    <3>10. NewerMail(email, email')
      BY <3>6, <3>8, <3>9 DEF NewerMail
    <3>11. email'.settings.rev <= mail.settings.rev /\ email'.rest.rev <= mail.rest.rev /\ email'.settings.rev \in Nat /\ email'.rest.rev \in Nat
      BY <3>5, <3>6, <3>8, <3>9 DEF MailInv
    <3>12. net.calls[i].op \in Letters /\ net.calls[i].op # "emails" /\ email'.settings = net.calls[i].answer
      BY <3>1, <3>3, <3>8 DEF Letters
    <3> QED BY <2>0, <3>1, <3>2, <3>10, <3>11, <3>12, MailShown
  <2>5. ASSUME NEW i \in DOMAIN net.calls, EmailsAnswered(i) PROVE MailInv' /\ MailGrows
    <3>1. /\ net.calls[i].op = "emails" /\ net.calls[i].status = "ok" /\ net.calls[i].standing = "live" /\ mail' = mail
          /\ email' = net.calls[i].answer
      BY <2>5 DEF EmailsAnswered, Answered, Is
    <3>2. Tells(net.calls[i])
      BY <3>1 DEF Tells
    <3>3. email' \in MailAnswers
      BY <3>1, <3>2, MailTold
    <3>4. email'.settings.rev \in Nat /\ email'.rest.rev \in Nat
      BY <3>3, MailRevs
    <3>5. SoundMail(net.calls[i], mail, email)
      BY <3>2 DEF MailInv
    <3>6. email'.settings.rev <= mail.settings.rev /\ email'.rest.rev <= mail.rest.rev /\ (email # None => NewerMail(email, email'))
      BY <3>1, <3>5 DEF SoundMail, NewerMail
    <3>7. net.calls[i].op \in Letters /\ net.calls[i].op # "emailSettings"
      BY <3>1 DEF Letters
    <3> QED BY <2>0, <3>1, <3>2, <3>4, <3>6, <3>7, MailShown
  <2>6. ASSUME NEW i \in DOMAIN net.calls, NEW op, EmailConsentOpened(i) \/ EmailCommanded(i) \/ EmailFails(i, op) PROVE MailInv' /\ MailGrows
    BY <2>1, <2>6 DEF EmailConsentOpened, EmailCommanded, EmailFails, emailVars
  <2> QED BY <1>4, <2>2, <2>3, <2>4, <2>5, <2>6 DEF EmailsNext
<1> QED BY <1>1, <1>2, <1>3, <1>4

LEMMA MailFollows ==
  ASSUME BaseInv, MailInv, Brings(Letters, {}), EmailsFollow
  PROVE MailInv' /\ MailGrows
<1>1. mail' = mail /\ (email' = email \/ email' = None)
  BY DEF EmailsFollow
<1> QED BY <1>1, MailStays, MailBrings

-----------------------------------------------------------------------------
(* The Google connection is not shown as it was before                     *)

Asks == {"start", "session", "configure", "disconnect"}
\* What a call says of the connection is not newer than the connection, and not older than what is shown,
\* unless the page was started again while it had a session;
SoundSession(c, there, here, again) == AsksSession(c) => c.answer.google.version <= there /\ (~again => here <= c.answer.google.version)
\* what is shown is not newer either, and while the page starts it has no session.
GoogleInv ==
  /\ session.google.version <= google.version
  /\ view = "loading" /\ ~entry.again => session.role = "out"
  /\ \A i \in DOMAIN net.calls : Tells(net.calls[i]) => SoundSession(net.calls[i], google.version, session.google.version, entry.again)
GoogleGrows == session'.google.version >= session.google.version \/ entry'.again
StartsOut == view' = "loading" /\ ~entry'.again => session'.role = "out"

LEMMA GoogleRevs ==
  ASSUME BaseInv
  PROVE session \in Sessions /\ google.version \in Nat /\ session.google.version \in Nat
<1>1. session \in Sessions /\ google.version \in 0..MaxChanges
  BY DEF BaseInv, PortalInv, CoreInv, SideInv
<1>2. session.google.version \in 0..MaxChanges
  BY <1>1 DEF Sessions
<1> QED BY <1>1, <1>2, PortalAssumption

\* A live call that was answered with a session.
LEMMA SessionTold ==
  ASSUME BaseInv, NEW i \in DOMAIN net.calls, Tells(net.calls[i]), AsksSession(net.calls[i])
  PROVE net.calls[i].answer \in Sessions /\ net.calls[i].answer.google.version \in Nat /\ net.calls[i].op \in Asks
<1>1. Told(net.calls[i])
  BY LiveBefore DEF BaseInv, PortalInv, Tells
<1>2. net.calls[i].op \in Asks /\ net.calls[i].op \notin Orders
  BY DEF AsksSession, Asks, Orders
<1>3. net.calls[i].answer \in Sessions
  BY <1>1, <1>2 DEF Tells, Told
<1>4. net.calls[i].answer.google.version \in 0..MaxChanges
  BY <1>3 DEF Sessions
<1> QED BY <1>2, <1>3, <1>4, PortalAssumption

\* A session is waited for once; the exception is told in the property.
LEMMA OneSession ==
  ASSUME BaseInv, GoogleInv, ~entry.again, NEW i \in DOMAIN net.calls, NEW j \in DOMAIN net.calls,
         net.calls[i].standing = "live", net.calls[j].standing = "live", net.calls[i].op \in Asks, net.calls[j].op \in Asks
  PROVE i = j
<1>1. ASSUME NEW k \in DOMAIN net.calls, net.calls[k].standing = "live", net.calls[k].op = "start" PROVE session.role = "out"
  <2>1. "start" \in Special
    BY DEF Special
  <2>2. "start" \in MayWait
    BY <1>1, <2>1, LiveBefore DEF BaseInv, PortalInv
  <2>3. view = "loading"
    BY <2>2 DEF MayWait
  <2> QED BY <2>3 DEF GoogleInv
<1>2. ASSUME session.role = "out", NEW k \in DOMAIN net.calls, net.calls[k].standing = "live", net.calls[k].op \in Asks PROVE net.calls[k].op = "start"
  <2>1. net.calls[k].op \in {"start", "google"}
    BY <1>2, LiveBefore DEF BaseInv, PortalInv
  <2> QED BY <1>2, <2>1 DEF Asks
<1>3. CASE session.role = "out"
  <2>1. net.calls[i].op = "start" /\ net.calls[j].op = "start"
    BY <1>2, <1>3
  <2> QED BY <2>1, AloneLive
<1>4. CASE session.role # "out"
  <2>1. net.calls[i].op \in GoogleOps \cup {"session"} /\ net.calls[j].op \in GoogleOps \cup {"session"}
    BY <1>1, <1>4 DEF Asks, GoogleOps
  <2>2. GoogleOps \cup {"session"} \in Rooms
    BY DEF Rooms
  <2> QED BY <2>1, <2>2, ApartLive
<1> QED BY <1>3, <1>4

\* The connection gets newer, what is shown of it stays.
LEMMA SoundSessionKept ==
  ASSUME NEW c, NEW d, Same(c, d), NEW there \in Nat, NEW then \in Nat, there <= then, NEW here, NEW again, NEW anew, again => anew,
         AsksSession(c) => c.answer.google.version \in Nat,
         SoundSession(c, there, here, again)
  PROVE SoundSession(d, then, here, anew)
<1>1. ASSUME AsksSession(d) PROVE d.answer.google.version <= then /\ (~anew => here <= d.answer.google.version)
  <2>1. AsksSession(c) /\ c.answer = d.answer
    BY <1>1 DEF Same, AsksSession
  <2>2. c.answer.google.version \in Nat /\ c.answer.google.version <= there /\ (~again => here <= c.answer.google.version)
    BY <2>1 DEF SoundSession
  <2>3. c.answer.google.version <= then
    BY <2>2
  <2> QED BY <2>1, <2>2, <2>3
<1> QED BY <1>1 DEF SoundSession

LEMMA GoogleBrings ==
  ASSUME BaseInv, GoogleInv, NEW new, Brings(Asks, new), session'.google = session.google, google.version <= google'.version, google'.version \in Nat,
         entry.again => entry'.again, StartsOut,
         \A j \in DOMAIN net'.calls : Fact(net'.calls[j]) \in new /\ Tells(net'.calls[j]) =>
            SoundSession(net'.calls[j], google'.version, session'.google.version, entry'.again)
  PROVE GoogleInv' /\ GoogleGrows
<1>0. google.version \in Nat /\ session.google.version \in Nat
  BY GoogleRevs
<1>1. ASSUME NEW j \in DOMAIN net'.calls, Tells(net'.calls[j]) PROVE SoundSession(net'.calls[j], google'.version, session'.google.version, entry'.again)
  <2>1. CASE net'.calls[j].op \notin Asks
    BY <2>1 DEF SoundSession, AsksSession, Asks
  <2>2. ASSUME NEW i \in DOMAIN net.calls, Tells(net.calls[i]), Same(net.calls[i], net'.calls[j])
        PROVE SoundSession(net'.calls[j], google'.version, session'.google.version, entry'.again)
    <3>1. SoundSession(net.calls[i], google.version, session.google.version, entry.again)
      BY <2>2 DEF GoogleInv
    <3>2. PICK c, d, there, then, here, again, anew :
            /\ c = net.calls[i] /\ d = net'.calls[j] /\ there = google.version /\ then = google'.version
            /\ here = session.google.version /\ again = entry.again /\ anew = entry'.again
      OBVIOUS
    <3>3. AsksSession(c) => c.answer.google.version \in Nat
      BY <2>2, <3>2, SessionTold
    <3>4. there \in Nat /\ then \in Nat /\ there <= then /\ (again => anew)
      BY <1>0, <3>2
    <3>5. Same(c, d) /\ SoundSession(c, there, here, again)
      BY <2>2, <3>1, <3>2
    <3>6. SoundSession(d, then, here, anew)
      BY <3>3, <3>4, <3>5, SoundSessionKept
    <3>7. session'.google.version = here
      BY <3>2
    <3> QED BY <3>2, <3>6, <3>7
  <2> QED BY <1>1, <2>1, <2>2 DEF Brings
<1>2. session'.google.version <= google'.version
  BY <1>0 DEF GoogleInv
<1>3. GoogleGrows
  BY <1>0 DEF GoogleGrows
<1> QED BY <1>1, <1>2, <1>3 DEF GoogleInv, StartsOut

\* What the page shows becomes what an answer says.
LEMMA GoogleShown ==
  ASSUME BaseInv, GoogleInv, Brings(Asks, {}), UNCHANGED <<google, entry>>, StartsOut,
         NEW i \in DOMAIN net.calls, Tells(net.calls[i]), AsksSession(net.calls[i]), session'.google = net.calls[i].answer.google
  PROVE GoogleInv' /\ GoogleGrows
<1>1. PICK answer : answer = net.calls[i].answer
  OBVIOUS
<1>2. answer.google.version \in Nat /\ session.google.version \in Nat /\ google.version \in Nat /\ net.calls[i].op \in Asks /\ session'.google = answer.google
  BY <1>1, SessionTold, GoogleRevs
<1>3. answer.google.version <= google.version /\ (~entry.again => session.google.version <= answer.google.version)
  BY <1>1 DEF GoogleInv, SoundSession
<1>4. ASSUME NEW j \in DOMAIN net'.calls, Tells(net'.calls[j]) PROVE SoundSession(net'.calls[j], google.version, answer.google.version, entry.again)
  <2>1. CASE net'.calls[j].op \notin Asks
    BY <2>1 DEF SoundSession, AsksSession, Asks
  <2>2. ASSUME NEW k \in DOMAIN net.calls, Tells(net.calls[k]), Same(net.calls[k], net'.calls[j]), net'.calls[j].op \in Asks, AsksSession(net'.calls[j])
        PROVE net'.calls[j].answer.google.version <= google.version /\ (~entry.again => answer.google.version <= net'.calls[j].answer.google.version)
    <3>1. SoundSession(net.calls[k], google.version, session.google.version, entry.again) /\ AsksSession(net.calls[k]) /\ net'.calls[j].answer = net.calls[k].answer
      BY <2>2 DEF GoogleInv, Same, AsksSession
    <3>2. net.calls[k].answer.google.version <= google.version
      BY <3>1 DEF SoundSession
    <3>3. CASE ~entry.again
      <4>1. net.calls[k].op \in Asks /\ net.calls[k].standing = "live" /\ net.calls[i].standing = "live"
        BY <2>2 DEF Same, Tells
      <4>2. k = i
        BY <1>2, <3>3, <4>1, OneSession
      <4> QED BY <1>1, <1>2, <3>1, <3>2, <4>2
    <3> QED BY <3>1, <3>2, <3>3
  <2> QED BY <1>4, <2>1, <2>2 DEF Brings, SoundSession
<1>5. \A j \in DOMAIN net'.calls : Tells(net'.calls[j]) => SoundSession(net'.calls[j], google'.version, session'.google.version, entry'.again)
  BY <1>2, <1>4
<1>6. session'.google.version <= google'.version
  BY <1>2, <1>3
<1>7. GoogleGrows
  BY <1>2, <1>3 DEF GoogleGrows
<1> QED BY <1>5, <1>6, <1>7 DEF GoogleInv, StartsOut

\* After the page has started again, its start is waited for and nothing else has been told.
LEMMA StartSilent ==
  ASSUME NEW V, NEW calls \in Seq(KnownCalls(V, {}, {})), NEW busy, NEW token, NEW n, n = Started([calls |-> calls, busy |-> busy], token)
  PROVE \A j \in DOMAIN n.calls : ~Tells(n.calls[j])
<1> DEFINE S == KnownCalls(V, {}, {})
<1>1. PICK old : old = Stale(calls)
  OBVIOUS
<1>2. old \in Seq(S) /\ \A k \in DOMAIN old : old[k].standing = "stale"
  BY <1>1, KnownStale
<1>3. PICK rest : rest = Superseded(old, Supersedes["start"])
  OBVIOUS
<1>4. rest \in Seq(S) /\ \A k \in DOMAIN rest : k \in DOMAIN old /\ (rest[k].standing = "live" => old[k].standing = "live")
  BY <1>2, <1>3, KnownSuperseded
<1>5. PICK c : c = Call("start", IF token = "setup" THEN "bootstrap" ELSE "session", "")
  OBVIOUS
<1>6. n.calls = Append(rest, c)
  BY <1>1, <1>3, <1>5 DEF Started, Begin
<1>7. ~Tells(c)
  BY <1>5 DEF Call, Tells, Orders
<1>8. \A k \in DOMAIN rest : ~Tells(rest[k])
  BY <1>2, <1>4 DEF Tells
<1> HIDE DEF S
<1>9. \A j \in DOMAIN Append(rest, c) : Append(rest, c)[j] = c \/ (j \in DOMAIN rest /\ Append(rest, c)[j] = rest[j])
  BY <1>4
<1> QED BY <1>6, <1>7, <1>8, <1>9

\* Signing out keeps what is known of the connection.
LEMMA EndedIs ==
  ASSUME BaseInv
  PROVE Ended(session).google = session.google /\ Ended(session).role = "out"
BY GoogleRevs DEF Sessions, Ended

LEMMA EntryIs ==
  ASSUME BaseInv
  PROVE /\ entry \in [token : {"none", "setup", "invite"}, landing : Panels, again : BOOLEAN]
        /\ view \in {"loading", "entry", "portal"}
BY DEF BaseInv, PortalInv, SideInv

LEMMA LeavesGoogle ==
  ASSUME BaseInv, BaseInv', GoogleInv, LeaveAndReturn
  PROVE GoogleInv' /\ GoogleGrows
<1>1. session' = Ended(session) /\ google' = google
  BY DEF LeaveAndReturn, server
<1>2. session'.google = session.google /\ session'.role = "out"
  BY <1>1, EndedIs
<1>3. session.google.version \in Nat
  BY GoogleRevs
<1>4. PICK e \in Entries : net' = Started([calls |-> net.calls, busy |-> {}], e.token)
  BY DEF LeaveAndReturn
<1>5. PICK V : net \in KnownNets(V, {}, {})
  <2>1. PICK n : n = net
    OBVIOUS
  <2>2. Known(n, {}, {})
    BY <2>1 DEF BaseInv, CallsInv
  <2> QED BY <2>1, <2>2 DEF Known
<1>6. net.calls \in Seq(KnownCalls(V, {}, {}))
  BY <1>5, KnownCall
<1>7. PICK n, calls, token : n = net' /\ calls = net.calls /\ token = e.token
  OBVIOUS
<1>8. \A j \in DOMAIN n.calls : ~Tells(n.calls[j])
  BY <1>4, <1>6, <1>7, StartSilent
<1>9. \A j \in DOMAIN net'.calls : ~Tells(net'.calls[j])
  BY <1>7, <1>8
<1>10. session'.google.version <= google'.version /\ GoogleGrows
  BY <1>1, <1>2, <1>3 DEF GoogleInv, GoogleGrows
<1> QED BY <1>2, <1>9, <1>10 DEF GoogleInv

-----------------------------------------------------------------------------
\* Steps that neither bring a session nor an answer.
LEMMA GoogleStays ==
  ASSUME BaseInv, GoogleInv, Brings(Asks, {}), session'.google = session.google, google' = google, entry'.again = entry.again,
         view' = "entry" \/ (view' = view /\ session'.role = session.role)
  PROVE GoogleInv' /\ GoogleGrows
<1>1. google.version \in Nat
  BY GoogleRevs
<1>2. google.version <= google'.version /\ google'.version \in Nat
  BY <1>1
<1>3. StartsOut
  BY DEF StartsOut, GoogleInv
<1>4. entry.again => entry'.again
  OBVIOUS
<1> QED BY <1>2, <1>3, <1>4, GoogleBrings

LEMMA GoogleQuiet ==
  ASSUME BaseInv, GoogleInv, Brings(Asks, {}), NEW i, NEW op,
         \/ OpenGoogle \/ Configure \/ Disconnect \/ Logout \/ Switch \/ Refresh \/ Focus \/ Hide \/ Show \/ PollFires \/ Regranted
         \/ StartFails(i) \/ SessionFails(i) \/ Denied(i) \/ Dropped(i) \/ GoogleOpened(i) \/ GoogleGoesOn(i, op)
         \/ LogoutAnswered(i) \/ ActionFails(i, op)
  PROVE GoogleInv' /\ GoogleGrows
<1>1. CASE OpenGoogle \/ Configure \/ Disconnect \/ Logout \/ Switch \/ Refresh \/ Focus \/ Hide \/ Show \/ PollFires \/ Regranted
  <2>1. UNCHANGED <<session, google, entry, view>>
    BY <1>1 DEF OpenGoogle, Configure, Disconnect, Logout, Switch, Refresh, Focus, Hide, Show, PollFires, Regranted, server
  <2> QED BY <2>1, GoogleStays
<1>2. CASE SessionFails(i) \/ Dropped(i) \/ GoogleGoesOn(i, op) \/ ActionFails(i, op)
  <2>1. UNCHANGED <<session, google, entry, view>>
    BY <1>2 DEF SessionFails, Dropped, GoogleGoesOn, ActionFails, server
  <2> QED BY <2>1, GoogleStays
<1>3. CASE GoogleOpened(i)
  <2>1. UNCHANGED <<session, google, view>> /\ entry' = [entry EXCEPT !.token = "none"]
    BY <1>3 DEF GoogleOpened, server
  <2>2. entry'.again = entry.again
    BY <2>1, EntryIs
  <2> QED BY <2>1, <2>2, GoogleStays
<1>4. CASE StartFails(i) \/ Denied(i) \/ LogoutAnswered(i)
  <2>1. UNCHANGED <<google, entry>> /\ session' = Ended(session) /\ view' = "entry"
    BY <1>4 DEF StartFails, Denied, LogoutAnswered, SignsOut, server
  <2> QED BY <2>1, EndedIs, GoogleStays
<1> QED BY <1>1, <1>2, <1>3, <1>4

LEMMA GoogleAnswered ==
  ASSUME BaseInv, GoogleInv, Brings(Asks, {}), NEW i, NEW op \in {"configure", "disconnect"}, NEW loaded,
         StartAnswered(i) \/ SessionAnswered(i) \/ GoogleChecked(i, op, loaded)
  PROVE GoogleInv' /\ GoogleGrows
<1>1. /\ i \in DOMAIN net.calls /\ Tells(net.calls[i]) /\ AsksSession(net.calls[i]) /\ UNCHANGED <<google, entry>>
  BY DEF StartAnswered, SessionAnswered, GoogleChecked, Answered, Is, Tells, AsksSession, server
<1>2. PICK s : s = net.calls[i].answer
  OBVIOUS
<1>3. s \in Sessions
  BY <1>1, <1>2, SessionTold
<1>4. CASE StartAnswered(i)
  <2>1. view' # "loading" /\ (session' = s \/ session' = Ended(s))
    BY <1>2, <1>4 DEF StartAnswered, SignsOut, Shows
  <2>2. session'.google = s.google
    BY <1>3, <2>1 DEF Ended, Sessions
  <2> QED BY <1>1, <1>2, <2>1, <2>2, GoogleShown DEF StartsOut
<1>5. CASE SessionAnswered(i) \/ GoogleChecked(i, op, loaded)
  <2>1. \/ session' = Ended(session) /\ view' = "entry"
        \/ session' = s /\ view' = view
    BY <1>2, <1>5 DEF SessionAnswered, GoogleChecked, SignsOut, Shows
  <2>2. CASE session' = Ended(session) /\ view' = "entry"
    BY <1>1, <2>2, EndedIs, GoogleStays
  <2>3. CASE session' = s /\ view' = view
    <3>1. net.calls[i].op \in {"session", "configure", "disconnect"} /\ net.calls[i].standing = "live"
      BY <1>5 DEF SessionAnswered, GoogleChecked, Answered, Is
    <3>2. session.role # "out"
      BY <1>1, <3>1, LiveBefore DEF BaseInv, PortalInv
    <3>3. StartsOut
      BY <1>1, <2>3, <3>2 DEF StartsOut, GoogleInv
    <3>4. session'.google = net.calls[i].answer.google
      BY <1>2, <2>3
    <3> QED BY <1>1, <3>3, <3>4, GoogleShown
  <2> QED BY <2>1, <2>2, <2>3
<1> QED BY <1>4, <1>5

LEMMA GoogleServed ==
  ASSUME BaseInv, BaseInv', GoogleInv, NEW i \in DOMAIN net.calls, SessionServes(i)
  PROVE GoogleInv' /\ GoogleGrows
<1>0. CallsInv /\ google.version \in Nat /\ session.google.version \in Nat
  BY GoogleRevs DEF BaseInv
<1>1. UNCHANGED <<session, view, entry>>
  BY DEF SessionServes, ServeDenied, ServeForbidden, ServeSession, ServeBootstrap, ServeGoogle
<1>2. google.version <= google'.version /\ google'.version \in Nat
  <2>1. CASE ServeDenied(i) \/ ServeForbidden(i) \/ ServeSession(i) \/ ServeBootstrap(i)
    <3>1. google' = google
      BY <2>1 DEF ServeDenied, ServeForbidden, ServeSession, ServeBootstrap, server
    <3> QED BY <1>0, <3>1
  <2>2. CASE ServeGoogle(i)
    <3>1. PICK call : call = net.calls[i]
      OBVIOUS
    <3>2. \/ google' = google
          \/ google' = [version |-> google.version + 1, needs |-> FALSE]
          \/ google' = [google EXCEPT !.version = google.version + 1]
      <4>1. CASE ~Allowed(call)
        BY <2>2, <3>1, <4>1 DEF ServeGoogle, server
      <4>2. CASE Allowed(call)
        <5>1. google' = CASE call.op = "configure" /\ call.arg = "post" -> [version |-> google.version + 1, needs |-> FALSE]
                          [] call.op = "disconnect" -> [google EXCEPT !.version = google.version + 1]
                          [] OTHER -> google
          BY <2>2, <3>1, <4>2 DEF ServeGoogle
        <5> QED BY <5>1
      <4> QED BY <4>1, <4>2
    <3>3. google \in [version : 0..MaxChanges, needs : BOOLEAN]
      BY DEF BaseInv, PortalInv, SideInv
    <3>4. PICK x : x = google.version + 1
      OBVIOUS
    <3>5. google' = google \/ google'.version = x
      BY <3>2, <3>3, <3>4
    <3> QED BY <1>0, <3>4, <3>5
  <2> QED BY <2>1, <2>2 DEF SessionServes
<1>3. StartsOut
  BY <1>1 DEF StartsOut, GoogleInv
<1>4. PICK status \in {"ok", "denied", "refused"} : \E answer :
        /\ Handled(i, status, answer)
        /\ status = "ok" /\ AsksSession(net.calls[i]) => answer = Says \/ answer = [role |-> Setup.role, connects |-> Setup.connects, google |-> google]
  BY ShellServes
<1>5. PICK answer :
        /\ Handled(i, status, answer)
        /\ status = "ok" /\ AsksSession(net.calls[i]) => answer = Says \/ answer = [role |-> Setup.role, connects |-> Setup.connects, google |-> google]
  BY <1>4
<1>6. PICK op, arg, old : op = net.calls[i].op /\ arg = net.calls[i].arg /\ old = net.calls[i]
  OBVIOUS
<1>7. session'.google = session.google /\ (entry.again => entry'.again)
  BY <1>1
<1>8. CASE status = "ok"
  <2>1. Brings(Asks, {<<op, arg, "ok", answer>>})
    BY <1>0, <1>5, <1>6, <1>8, BringsReply DEF Replies
  <2>2. ASSUME NEW j \in DOMAIN net'.calls, Fact(net'.calls[j]) \in {<<op, arg, "ok", answer>>}, AsksSession(net'.calls[j])
        PROVE /\ net'.calls[j].answer.google.version <= google'.version
              /\ ~entry'.again => session'.google.version <= net'.calls[j].answer.google.version
    <3>1. net'.calls[j].op = op /\ net'.calls[j].arg = arg /\ net'.calls[j].answer = answer
      BY <2>2 DEF Fact
    <3>2. AsksSession(net.calls[i])
      BY <1>6, <2>2, <3>1 DEF AsksSession
    <3>3. answer.google = google
      BY <1>5, <1>8, <3>2 DEF Says
    <3> QED BY <1>0, <1>2, <1>7, <3>1, <3>3 DEF GoogleInv
  <2>3. \A j \in DOMAIN net'.calls : Fact(net'.calls[j]) \in {<<op, arg, "ok", answer>>} /\ Tells(net'.calls[j]) =>
            SoundSession(net'.calls[j], google'.version, session'.google.version, entry'.again)
    BY <2>2 DEF SoundSession
  <2> QED BY <1>2, <1>3, <1>7, <2>1, <2>3, GoogleBrings
<1>9. CASE status # "ok"
  <2>1. ASSUME NEW K, Known(net, Asks, K) PROVE Known(net', Asks, K)
    BY <1>5, <1>9, <2>1, KnownReply
  <2>2. \A K : K \cup {} = K
    OBVIOUS
  <2>3. \A K : Known(net, Asks, K) => Known(net', Asks, K \cup {})
    BY <2>1, <2>2
  <2>4. Brings(Asks, {})
    BY <1>0, <2>3, BringsOf
  <2> QED BY <1>2, <1>3, <1>7, <2>4, GoogleBrings
<1> QED BY <1>8, <1>9

LEMMA GoogleShell ==
  ASSUME BaseInv, BaseInv', GoogleInv, ShellStep
  PROVE GoogleInv' /\ GoogleGrows
<1>0. CallsInv /\ CoreInv /\ google.version \in Nat
  BY GoogleRevs DEF BaseInv, PortalInv
<1>1. ASSUME NEW i \in DOMAIN net.calls, SessionServes(i) PROVE GoogleInv' /\ GoogleGrows
  BY <1>1, GoogleServed
<1>2. CASE LeaveAndReturn
  BY <1>2, LeavesGoogle
<1>3. ASSUME ~LeaveAndReturn, ~\E i \in DOMAIN net.calls : SessionServes(i) PROVE GoogleInv' /\ GoogleGrows
  <2>0. Brings(Asks, {})
    BY <1>0, <1>3, ShellIn, BringsIn
  <2>1. CASE ConnectionChanges
    <3>1. UNCHANGED <<session, view, entry>>
      BY <2>1 DEF ConnectionChanges
    <3>2. PICK needs \in BOOLEAN : google' = [version |-> google.version + 1, needs |-> needs]
      BY <2>1 DEF ConnectionChanges
    <3>3. google.version <= google'.version /\ google'.version \in Nat
      BY <1>0, <3>2
    <3>4. StartsOut /\ (entry.again => entry'.again) /\ session'.google = session.google
      BY <3>1 DEF StartsOut, GoogleInv
    <3> QED BY <2>0, <3>3, <3>4, GoogleBrings
  <2>2. CASE TryAgain
    <3>1. UNCHANGED <<session, google>> /\ entry' = [Spent(entry) EXCEPT !.again = @ \/ Signed(session)]
      BY <2>2 DEF TryAgain, server
    <3>2. PICK b : b = (entry.again \/ Signed(session))
      OBVIOUS
    <3>3. PICK e : e = Spent(entry)
      OBVIOUS
    <3>4. e \in [token : {"none", "setup", "invite"}, landing : Panels, again : BOOLEAN] /\ e.again = entry.again
      BY <3>3, EntryIs DEF Spent
    <3>5. entry' = [e EXCEPT !.again = b]
      BY <3>1, <3>2, <3>3, <3>4
    <3>6. entry'.again = b
      BY <3>4, <3>5
    <3>7. entry.again => entry'.again
      BY <3>2, <3>6
    <3>8. StartsOut
      <4>1. ~entry'.again => ~Signed(session)
        BY <3>2, <3>6
      <4>2. session.role \in Authenticated \cup {"out"}
        BY GoogleRevs DEF Sessions
      <4> QED BY <3>1, <4>1, <4>2 DEF StartsOut, Signed
    <3>9. google.version <= google'.version /\ google'.version \in Nat /\ session'.google = session.google
      BY <1>0, <3>1
    <3> QED BY <2>0, <3>7, <3>8, <3>9, GoogleBrings
  <2>3. ASSUME NEW i \in DOMAIN net.calls, StartAnswered(i) \/ SessionAnswered(i) PROVE GoogleInv' /\ GoogleGrows
    BY <2>0, <2>3, GoogleAnswered
  <2>4. ASSUME NEW i \in DOMAIN net.calls, NEW op \in {"configure", "disconnect"}, GoogleChecked(i, op, email # None) PROVE GoogleInv' /\ GoogleGrows
    BY <2>0, <2>4, GoogleAnswered
  <2>5. CASE OpenGoogle \/ Configure \/ Disconnect \/ Logout \/ Switch \/ Refresh \/ Focus \/ Hide \/ Show \/ PollFires \/ Regranted
    BY <2>0, <2>5, GoogleQuiet
  <2>6. ASSUME NEW i \in DOMAIN net.calls, NEW op,
               \/ StartFails(i) \/ SessionFails(i) \/ Denied(i) \/ Dropped(i) \/ GoogleOpened(i) \/ GoogleGoesOn(i, op)
               \/ LogoutAnswered(i) \/ ActionFails(i, op)
        PROVE GoogleInv' /\ GoogleGrows
    BY <2>0, <2>6, GoogleQuiet
  <2> QED BY <1>3, <2>1, <2>2, <2>3, <2>4, <2>5, <2>6 DEF ShellStep, SessionNext, SessionServes
<1> QED BY <1>1, <1>2, <1>3

\* The steps of the panels leave the session alone.
LEMMA PanelsLeave ==
  ASSUME BookingsNext \/ AccessNext \/ EmailsNext \/ SettingsNext
  PROVE UNCHANGED <<session, google, entry, view>>
<1>1. CASE BookingsNext
  BY <1>1 DEF BookingsNext, OpenBooking, CloseBooking, EditBooking, Mutate, BookingChanges, MutateAnswered, MutateFails, BookingsAnswered, BookingsFails,
              ServeBookings, ServeMutate, shellVars, notShell
<1>2. CASE AccessNext
  BY <1>2 DEF AccessNext, CreateInvitation, AskRevoke, RevokeInvitation, HideLink, AskRemove, RemoveMember, DirectoryChanges, InvitationCreated, InvitationRevoked,
              MemberRemoved, InvitationsAnswered, MembersAnswered, AccessFails, ServeInvitations, ServeMembers, shellVars, others, quiet
<1>3. CASE EmailsNext
  BY <1>3 DEF EmailsNext, EditEmail, DiscardEmail, SaveEmail, ConnectEmail, AskEmail, EmailCommand, MailChanges, EmailSaved, EmailConsentOpened, EmailCommanded,
              EmailsAnswered, EmailFails, ServeEmails, shellVars, otherVars
<1>4. CASE SettingsNext
  BY <1>4 DEF SettingsNext, EditSettings, DiscardSettings, ReloadSettings, SaveSettings, SettingsChange, SettingsAnswered, SettingsSaved, ServeSettings, SettingsFail,
              shellVars, beside
<1> QED BY <1>1, <1>2, <1>3, <1>4

LEMMA NewerStep ==
  ASSUME BaseInv, BaseInv', ShownInv, MailInv, GoogleInv, [Next]_vars
  PROVE (ShownInv' /\ ShownGrows) /\ (MailInv' /\ MailGrows) /\ (GoogleInv' /\ GoogleGrows)
<1>0. CallsInv /\ CoreInv
  BY DEF BaseInv, PortalInv
<1>1. /\ List \cap ShellOps = {} /\ List \cap AccessOps = {} /\ List \cap EmailOps = {} /\ List \cap {"settings", "saveSettings"} = {}
      /\ Letters \cap ShellOps = {} /\ Letters \cap AccessOps = {} /\ Letters \cap {"bookings", "mutate"} = {} /\ Letters \cap {"settings", "saveSettings"} = {}
      /\ Asks \cap AccessOps = {} /\ Asks \cap EmailOps = {} /\ Asks \cap {"bookings", "mutate"} = {} /\ Asks \cap {"settings", "saveSettings"} = {}
  BY DEF List, Letters, Asks, ShellOps, GoogleOps, AccessOps, EmailOps, EmailCommands
<1>2. ShownInv' /\ ShownGrows
  <2>1. CASE BookingsFollow /\ (ShellStep \/ AccessNext \/ EmailsNext \/ SettingsNext)
    <3>1. Brings(List, {})
      BY <1>0, <1>1, <2>1, ShellBrings, AccessBrings, EmailsBrings, SettingsBrings
    <3> QED BY <2>1, <3>1, ShownFollows
  <2>2. CASE BookingsNext
    BY <2>2, ShownStep
  <2>3. CASE UNCHANGED vars
    <3>1. net' = net /\ UNCHANGED <<stored, shown>>
      BY <2>3 DEF vars, shellVars, bookingVars
    <3>2. Brings(List, {})
      BY <3>1, SameBrings
    <3> QED BY <3>1, <3>2, StoredStays, ShownBrings
  <2> QED BY <2>1, <2>2, <2>3 DEF Next, PanelsFollow
<1>3. MailInv' /\ MailGrows
  <2>1. CASE EmailsFollow /\ (ShellStep \/ BookingsNext \/ AccessNext \/ SettingsNext)
    <3>1. Brings(Letters, {})
      BY <1>0, <1>1, <2>1, ShellBrings, BookingsBrings, AccessBrings, SettingsBrings
    <3> QED BY <2>1, <3>1, MailFollows
  <2>2. CASE EmailsNext
    BY <2>2, MailStep
  <2>3. CASE UNCHANGED vars
    <3>1. net' = net /\ UNCHANGED <<mail, email>>
      BY <2>3 DEF vars, shellVars, emailVars
    <3>2. Brings(Letters, {})
      BY <3>1, SameBrings
    <3> QED BY <3>1, <3>2, MailStays, MailBrings
  <2> QED BY <2>1, <2>2, <2>3 DEF Next, PanelsFollow, OthersFollow
<1>4. GoogleInv' /\ GoogleGrows
  <2>1. CASE ShellStep
    BY <2>1, GoogleShell
  <2>2. CASE BookingsNext \/ AccessNext \/ EmailsNext \/ SettingsNext
    <3>1. Brings(Asks, {})
      BY <1>0, <1>1, <2>2, BookingsBrings, AccessBrings, EmailsBrings, SettingsBrings
    <3>2. UNCHANGED <<session, google, entry, view>>
      BY <2>2, PanelsLeave
    <3> QED BY <3>1, <3>2, GoogleStays
  <2>3. CASE UNCHANGED vars
    <3>1. net' = net /\ UNCHANGED <<session, google, entry, view>>
      BY <2>3 DEF vars, shellVars
    <3>2. Brings(Asks, {})
      BY <3>1, SameBrings
    <3> QED BY <3>1, <3>2, GoogleStays
  <2> QED BY <2>1, <2>2, <2>3 DEF Next
<1> QED BY <1>2, <1>3, <1>4

\* NothingGoesBack: whichever load, refresh or answer of an order the page takes in, what it shows of the connection, of a booking and of
\* the emails is not replaced by an earlier state (the revisions that admin.js compares after each await, and the flags that exclude).
THEOREM NothingGoesBackHolds ==
  Spec => NothingGoesBack
<1> DEFINE Newer == ShownInv /\ MailInv /\ GoogleInv
<1>1. Init => Newer
  <2> SUFFICES ASSUME Init PROVE Newer
    OBVIOUS
  <2>1. PICK e \in Entries : entry = Spent(e) /\ net = Started(Empty, e.token)
    BY DEF Init, ShellInit
  <2>2. \A i \in DOMAIN net.calls : ~Tells(net.calls[i])
    <3>1. PICK calls, busy, token, n : calls = <<>> /\ busy = {} /\ token = e.token /\ n = Started([calls |-> calls, busy |-> busy], token)
      OBVIOUS
    <3>2. calls \in Seq(KnownCalls({}, {}, {}))
      BY <3>1
    <3>3. \A j \in DOMAIN n.calls : ~Tells(n.calls[j])
      BY <3>1, <3>2, StartSilent
    <3>4. net = n
      BY <2>1, <3>1 DEF Empty
    <3> QED BY <3>3, <3>4
  <2>3. shown = None /\ email = None /\ google.version = 0 /\ session.google.version = 0 /\ session.role = "out"
    BY DEF Init, ShellInit, BookingsInit, EmailsInit
  <2> QED BY <2>2, <2>3 DEF ShownInv, MailInv, GoogleInv
<1>2. BaseInv /\ BaseInv' /\ Newer /\ [Next]_vars => Newer' /\ ShownGrows /\ MailGrows /\ GoogleGrows
  BY NewerStep
<1>3. ShownGrows /\ MailGrows /\ GoogleGrows =>
        [/\ session'.google.version >= session.google.version \/ entry'.again
         /\ shown # None /\ shown' # None => \A b \in Bookings : shown'[b].rev >= shown[b].rev
         /\ email # None /\ email' # None => email'.settings.rev >= email.settings.rev /\ email'.rest.rev >= email.rest.rev]_vars
  BY DEF ShownGrows, MailGrows, NewerMail, GoogleGrows
<1>4. BaseInv /\ BaseInv' /\ Newer /\ [Next]_vars =>
        [/\ session'.google.version >= session.google.version \/ entry'.again
         /\ shown # None /\ shown' # None => \A b \in Bookings : shown'[b].rev >= shown[b].rev
         /\ email # None /\ email' # None => email'.settings.rev >= email.settings.rev /\ email'.rest.rev >= email.rest.rev]_vars
  BY <1>2, <1>3
<1> HIDE DEF Newer
<1>5. BaseInv /\ BaseInv' /\ Newer /\ [Next]_vars => Newer'
  BY <1>2
<1> QED BY <1>1, <1>4, <1>5, BaseHolds, PTL DEF Spec, NothingGoesBack

-----------------------------------------------------------------------------
(* The availability form: sequences in the order of a relation             *)

\* A relation that puts the members of a set in one order, and the members it puts before one of them.
OrderOf(before, S) ==
  /\ \A x \in S : <<x, x>> \notin before
  /\ \A x, y \in S : x # y => <<x, y>> \in before \/ <<y, x>> \in before
  /\ \A x, y, z \in S : <<x, y>> \in before /\ <<y, z>> \in before => <<x, z>> \in before
Below(x, S, before) == {y \in S : <<y, x>> \in before}
\* A sequence that lists a set in that order.
Enumerates(p, S, before) ==
  /\ p \in Seq(S) /\ \A x \in S : \E n \in DOMAIN p : p[n] = x
  /\ \A m, n \in DOMAIN p : m < n => <<p[m], p[n]>> \in before

\* The form counts as the library does.
LEMMA SameCount == \A S : F!Cardinality(S) = Cardinality(S)
  BY DEF F!Cardinality, Cardinality

\* As many members come before a member as its place says, and no two have the same place.
LEMMA Ranks ==
  ASSUME NEW S, NEW before, IsFiniteSet(S), OrderOf(before, S)
  PROVE /\ \A x \in S : Cardinality(Below(x, S, before)) \in 0..(Cardinality(S) - 1)
        /\ \A x, y \in S : <<x, y>> \in before => Cardinality(Below(x, S, before)) < Cardinality(Below(y, S, before))
        /\ Cardinality(S) \in Nat
<1> DEFINE B(x) == Below(x, S, before)
<1>1. \A x \in S : B(x) \in SUBSET S /\ x \notin B(x)
  BY DEF Below, OrderOf
<1>2. \A x \in S : IsFiniteSet(B(x)) /\ Cardinality(B(x)) <= Cardinality(S) /\ (Cardinality(S) = Cardinality(B(x)) => S = B(x))
  BY <1>1, FS_Subset
<1>3. Cardinality(S) \in Nat /\ \A x \in S : Cardinality(B(x)) \in Nat
  BY <1>2, FS_CardinalityType
<1>4. \A x \in S : Cardinality(B(x)) \in 0..(Cardinality(S) - 1)
  <2> TAKE x \in S
  <2>1. S # B(x)
    BY <1>1
  <2> HIDE DEF B
  <2>2. Cardinality(B(x)) # Cardinality(S)
    BY <1>2, <2>1
  <2> QED BY <1>2, <1>3, <2>2
<1>5. ASSUME NEW x \in S, NEW y \in S, <<x, y>> \in before PROVE Cardinality(B(x)) < Cardinality(B(y))
  <2>1. B(x) \in SUBSET B(y) /\ x \in B(y) /\ x \notin B(x)
    BY <1>5 DEF Below, OrderOf
  <2>2. Cardinality(B(x)) <= Cardinality(B(y)) /\ (Cardinality(B(y)) = Cardinality(B(x)) => B(y) = B(x))
    BY <1>2, <2>1, FS_Subset
  <2> HIDE DEF B
  <2>3. Cardinality(B(y)) # Cardinality(B(x))
    BY <2>1, <2>2
  <2> QED BY <1>3, <2>2, <2>3
<1> QED BY <1>3, <1>4, <1>5

\* Every place is taken.
LEMMA EveryRank ==
  ASSUME NEW S, NEW before, IsFiniteSet(S), OrderOf(before, S)
  PROVE \A n \in 0..(Cardinality(S) - 1) : \E x \in S : Cardinality(Below(x, S, before)) = n
<1> DEFINE T == 0..(Cardinality(S) - 1)
           f == [x \in S |-> Cardinality(Below(x, S, before))]
<1>1. Cardinality(S) \in Nat /\ f \in [S -> T]
  BY Ranks DEF f, T
<1>2. \A x, y \in S : x # y => f[x] # f[y]
  <2> TAKE x, y \in S
  <2> HAVE x # y
  <2>1. <<x, y>> \in before \/ <<y, x>> \in before
    BY DEF OrderOf
  <2>2. f[x] < f[y] \/ f[y] < f[x]
    BY <2>1, Ranks
  <2>3. f[x] \in Nat /\ f[y] \in Nat
    BY <1>1
  <2> HIDE DEF f
  <2> QED BY <2>2, <2>3
<1>3. IsFiniteSet(T) /\ Cardinality(T) = Cardinality(S)
  <2>1. IsFiniteSet(T) /\ Cardinality(T) = IF 0 > Cardinality(S) - 1 THEN 0 ELSE Cardinality(S) - 1 - 0 + 1
    BY <1>1, FS_Interval
  <2> QED BY <1>1, <2>1
<1> HIDE DEF f, T
<1>4. f \in Injection(S, T)
  BY <1>1, <1>2 DEF Injection, IsInjective
<1>5. f \in Surjection(S, T)
  BY <1>3, <1>4, FS_Injection
<1>6. \A n \in T : \E x \in S : f[x] = n
  BY <1>5 DEF Surjection
<1> QED BY <1>6 DEF f, T

\* InOrder lists the set.
LEMMA InOrderIs ==
  ASSUME NEW S, NEW before, IsFiniteSet(S), OrderOf(before, S)
  PROVE Enumerates(F!InOrder(S, before), S, before) /\ Len(F!InOrder(S, before)) = Cardinality(S) /\ Cardinality(S) \in Nat
        /\ \A n \in DOMAIN F!InOrder(S, before) : Cardinality(Below(F!InOrder(S, before)[n], S, before)) = n - 1
<1> DEFINE p == F!InOrder(S, before)
           r(x) == Cardinality(Below(x, S, before))
<1>1. Cardinality(S) \in Nat
  BY FS_CardinalityType
<1> DEFINE k(x) == F!Cardinality({y \in S : <<y, x>> \in before})
<1>2. p = [n \in 1..Cardinality(S) |-> CHOOSE x \in S : k(x) = n - 1]
  <2>1. p = [n \in 1..F!Cardinality(S) |-> CHOOSE x \in S : k(x) = n - 1]
    BY DEF F!InOrder
  <2> HIDE DEF p, k
  <2> QED BY <2>1, SameCount
<1>3. \A x \in S : k(x) = r(x)
  BY SameCount DEF Below
<1> HIDE DEF k
<1>4. \A n \in 1..Cardinality(S) : \E x \in S : r(x) = n - 1
  <2> TAKE n \in 1..Cardinality(S)
  <2>1. n - 1 \in 0..(Cardinality(S) - 1)
    BY <1>1
  <2> QED BY <2>1, EveryRank
<1> HIDE DEF p
<1>5. \A n \in 1..Cardinality(S) : p[n] \in S /\ r(p[n]) = n - 1
  <2> TAKE n \in 1..Cardinality(S)
  <2>1. p[n] = CHOOSE x \in S : k(x) = n - 1
    BY <1>2
  <2>2. \E x \in S : k(x) = n - 1
    BY <1>4, <1>3
  <2> HIDE DEF r
  <2> QED BY <1>3, <2>1, <2>2
<1>6. p \in Seq(S) /\ Len(p) = Cardinality(S) /\ DOMAIN p = 1..Cardinality(S)
  <2>1. p \in [1..Cardinality(S) -> S]
    BY <1>2, <1>5
  <2> QED BY <1>1, <2>1
<1>7. ASSUME NEW x \in S PROVE \E n \in DOMAIN p : p[n] = x
  <2>1. r(x) \in 0..(Cardinality(S) - 1)
    BY Ranks
  <2>2. r(x) + 1 \in 1..Cardinality(S)
    BY <1>1, <2>1
  <2>3. p[r(x) + 1] \in S /\ r(p[r(x) + 1]) = r(x)
    BY <1>5, <2>1, <2>2
  <2>4. p[r(x) + 1] = x
    <3>1. ASSUME NEW y \in S, r(y) = r(x), y # x PROVE FALSE
      <4>1. <<x, y>> \in before \/ <<y, x>> \in before
        BY <3>1 DEF OrderOf
      <4>2. r(x) < r(y) \/ r(y) < r(x)
        BY <4>1, Ranks
      <4> HIDE DEF r
      <4> QED BY <2>1, <3>1, <4>2
    <3> QED BY <2>3, <3>1
  <2> QED BY <1>6, <2>2, <2>4
<1>8. ASSUME NEW m \in DOMAIN p, NEW n \in DOMAIN p, m < n PROVE <<p[m], p[n]>> \in before
  <2>1. r(p[m]) = m - 1 /\ r(p[n]) = n - 1 /\ p[m] \in S /\ p[n] \in S
    BY <1>5, <1>6
  <2>2. p[m] # p[n]
    BY <1>6, <1>8, <2>1
  <2>3. CASE <<p[n], p[m]>> \in before
    <3>1. r(p[n]) < r(p[m])
      BY <2>1, <2>3, Ranks
    <3> HIDE DEF r
    <3> QED BY <1>6, <1>8, <2>1, <3>1
  <2> QED BY <2>1, <2>2, <2>3 DEF OrderOf
<1> HIDE DEF r
<1>9. \A n \in DOMAIN p : r(p[n]) = n - 1
  BY <1>5, <1>6
<1> QED BY <1>1, <1>6, <1>7, <1>8, <1>9 DEF Enumerates, p, r

\* There is one such sequence.
LEMMA InOrderOnly ==
  ASSUME NEW S, NEW before, IsFiniteSet(S), OrderOf(before, S), NEW q, Enumerates(q, S, before)
  PROVE F!InOrder(S, before) = q
<1> DEFINE p == F!InOrder(S, before)
           r(x) == Cardinality(Below(x, S, before))
<1>1. q \in Seq(S) /\ Len(q) \in Nat /\ DOMAIN q = 1..Len(q) /\ \A n \in DOMAIN q : q[n] \in S
  BY DEF Enumerates
<1>2. \A m, n \in DOMAIN q : m # n => q[m] # q[n]
  <2> TAKE m, n \in DOMAIN q
  <2> HAVE m # n
  <2>1. m < n \/ n < m
    BY <1>1
  <2> QED BY <1>1, <2>1 DEF Enumerates, OrderOf
<1>3. \A n \in DOMAIN q : r(q[n]) = n - 1
  <2> TAKE n \in DOMAIN q
  <2> DEFINE T == 1..(n - 1)
             B == Below(q[n], S, before)
             f == [m \in T |-> q[m]]
  <2>1. T \subseteq DOMAIN q /\ n \in Nat /\ n \notin T
    BY <1>1
  <2>2. \A m \in T : q[m] \in B
    <3> TAKE m \in T
    <3>1. m \in DOMAIN q /\ m < n
      BY <1>1, <2>1
    <3> QED BY <1>1, <3>1 DEF Below, Enumerates
  <2>3. \A x \in B : \E m \in T : q[m] = x
    <3> TAKE x \in B
    <3>1. x \in S /\ <<x, q[n]>> \in before
      BY DEF Below
    <3>2. PICK m \in DOMAIN q : q[m] = x
      BY <3>1 DEF Enumerates
    <3>3. ~(n < m) /\ n # m
      BY <1>1, <3>1, <3>2 DEF Enumerates, OrderOf
    <3> QED BY <1>1, <3>2, <3>3
  <2>4. f \in Bijection(T, B)
    <3>1. f \in [T -> B]
      BY <2>2
    <3>2. f \in Injection(T, B)
      BY <1>2, <2>1, <3>1 DEF Injection, IsInjective
    <3>3. f \in Surjection(T, B)
      BY <2>3, <3>1 DEF Surjection
    <3> QED BY <3>2, <3>3 DEF Bijection
  <2>5. IsFiniteSet(T) /\ Cardinality(T) = n - 1
    <3>1. IsFiniteSet(T) /\ Cardinality(T) = IF 1 > n - 1 THEN 0 ELSE n - 1 - 1 + 1
      BY <2>1, FS_Interval
    <3> QED BY <1>1, <3>1
  <2>6. Cardinality(B) = n - 1
    <3> HIDE DEF T, B, f
    <3> QED BY <2>4, <2>5, FS_Bijection DEF ExistsBijection
  <2> QED BY <2>6
<1>4. Enumerates(p, S, before) /\ \A n \in DOMAIN p : r(p[n]) = n - 1
  BY InOrderIs
<1> HIDE DEF p
<1>5. p \in Seq(S) /\ Len(p) \in Nat /\ DOMAIN p = 1..Len(p) /\ \A n \in DOMAIN p : p[n] \in S
  BY <1>4 DEF Enumerates
<1>6. \A x, y \in S : r(x) = r(y) => x = y
  <2> TAKE x, y \in S
  <2> HAVE r(x) = r(y)
  <2>1. r(x) \in 0..(Cardinality(S) - 1)
    BY Ranks
  <2>2. <<x, y>> \notin before /\ <<y, x>> \notin before
    <3>1. ~(r(x) < r(y)) /\ ~(r(y) < r(x))
      <4> HIDE DEF r
      <4> QED BY <2>1
    <3> QED BY <3>1, Ranks
  <2> QED BY <2>2 DEF OrderOf
<1> HIDE DEF r
<1>7. \A n \in DOMAIN q : n \in DOMAIN p /\ p[n] = q[n]
  <2> TAKE n \in DOMAIN q
  <2>1. PICK m \in DOMAIN p : p[m] = q[n]
    BY <1>1, <1>4 DEF Enumerates
  <2>2. m = n
    BY <1>1, <1>3, <1>4, <1>5, <2>1
  <2> QED BY <2>1, <2>2
<1>8. \A n \in DOMAIN p : n \in DOMAIN q
  <2> TAKE n \in DOMAIN p
  <2>1. PICK m \in DOMAIN q : q[m] = p[n]
    BY <1>5 DEF Enumerates
  <2>2. m = n
    BY <1>1, <1>3, <1>4, <1>5, <2>1
  <2> QED BY <2>2
<1>9. DOMAIN p = DOMAIN q
  BY <1>7, <1>8
<1>10. p = [n \in 1..Len(p) |-> p[n]] /\ q = [n \in 1..Len(q) |-> q[n]]
  BY <1>1, <1>5
<1>11. p = q
  BY <1>1, <1>5, <1>7, <1>9, <1>10
<1> QED BY <1>11 DEF p

\* Positions in their own order,
Upward(p, P) ==
  p \in Seq(P) /\ (\A x \in P : \E n \in DOMAIN p : p[n] = x) /\ \A m, n \in DOMAIN p : m < n => p[m] < p[n]
LEMMA LessOrders ==
  ASSUME NEW P \in SUBSET Nat
  PROVE /\ OrderOf(F!Less(P), P)
        /\ \A p : Enumerates(p, P, F!Less(P)) <=> Upward(p, P)
<1>1. \A x, y \in P : <<x, y>> \in F!Less(P) <=> x < y
  BY DEF F!Less
<1>2. OrderOf(F!Less(P), P)
  BY <1>1 DEF OrderOf
<1>3. ASSUME NEW p PROVE Enumerates(p, P, F!Less(P)) <=> Upward(p, P)
  <2> SUFFICES ASSUME p \in Seq(P) PROVE \A m, n \in DOMAIN p : <<p[m], p[n]>> \in F!Less(P) <=> p[m] < p[n]
    BY DEF Enumerates, Upward
  <2>1. \A m \in DOMAIN p : p[m] \in P
    OBVIOUS
  <2> QED BY <1>1, <2>1
<1> QED BY <1>2, <1>3

LEMMA Positions ==
  ASSUME NEW X, NEW s \in Seq(X), NEW P \in SUBSET DOMAIN s
  PROVE IsFiniteSet(P) /\ P \in SUBSET Nat
<1>1. DOMAIN s = 1..Len(s) /\ Len(s) \in Nat
  OBVIOUS
<1>2. IsFiniteSet(DOMAIN s) /\ DOMAIN s \in SUBSET Nat
  BY <1>1, FS_Interval
<1> QED BY <1>2, FS_Subset

\* and what stands at them.
LEMMA AtIs ==
  ASSUME NEW X, NEW s \in Seq(X), NEW P \in SUBSET DOMAIN s
  PROVE /\ F!At(s, P) \in Seq(X) /\ Len(F!At(s, P)) = Cardinality(P) /\ Cardinality(P) \in Nat
        /\ \E p : /\ Upward(p, P) /\ DOMAIN p = DOMAIN F!At(s, P)
                  /\ \A n \in DOMAIN p : p[n] \in P /\ F!At(s, P)[n] = s[p[n]]
<1>1. IsFiniteSet(P) /\ P \in SUBSET Nat
  BY Positions
<1> DEFINE p == F!InOrder(P, F!Less(P))
<1>2. Enumerates(p, P, F!Less(P)) /\ Len(p) = Cardinality(P) /\ Cardinality(P) \in Nat
  BY <1>1, LessOrders, InOrderIs
<1>3. F!At(s, P) = [n \in DOMAIN p |-> s[p[n]]]
  BY DEF F!At
<1> HIDE DEF p
<1>4. p \in Seq(P) /\ DOMAIN p = 1..Len(p) /\ \A n \in DOMAIN p : p[n] \in P
  BY <1>2 DEF Enumerates
<1>5. \A n \in DOMAIN p : s[p[n]] \in X
  BY <1>4
<1>6. F!At(s, P) \in Seq(X) /\ Len(F!At(s, P)) = Cardinality(P)
  <2>1. F!At(s, P) \in [1..Cardinality(P) -> X]
    BY <1>2, <1>3, <1>4, <1>5
  <2> QED BY <1>2, <2>1
<1>7. DOMAIN p = DOMAIN F!At(s, P) /\ \A n \in DOMAIN p : F!At(s, P)[n] = s[p[n]]
  BY <1>3
<1> QED BY <1>1, <1>2, <1>4, <1>6, <1>7, LessOrders

LEMMA AtOnly ==
  ASSUME NEW s, NEW P \in SUBSET Nat, IsFiniteSet(P),
         NEW p, Upward(p, P)
  PROVE F!At(s, P) = [n \in DOMAIN p |-> s[p[n]]]
<1>1. Enumerates(p, P, F!Less(P)) /\ OrderOf(F!Less(P), P)
  BY LessOrders
<1>2. F!InOrder(P, F!Less(P)) = p
  BY <1>1, InOrderOnly
<1> QED BY <1>2 DEF F!At

LEMMA AtAll ==
  ASSUME NEW X, NEW s \in Seq(X)
  PROVE F!At(s, DOMAIN s) = s
<1> DEFINE p == [n \in 1..Len(s) |-> n]
<1>1. Len(s) \in Nat /\ DOMAIN s = 1..Len(s) /\ p \in Seq(DOMAIN s) /\ DOMAIN p = DOMAIN s /\ \A n \in DOMAIN s : p[n] = n
  OBVIOUS
<1>2. Upward(p, DOMAIN s)
  BY <1>1 DEF Upward
<1> HIDE DEF p
<1>3. F!At(s, DOMAIN s) = [n \in DOMAIN p |-> s[p[n]]]
  <2>1. DOMAIN s \in SUBSET Nat /\ IsFiniteSet(DOMAIN s)
    BY Positions
  <2> QED BY <1>2, <2>1, AtOnly
<1>4. [n \in DOMAIN p |-> s[p[n]]] = [n \in DOMAIN s |-> s[n]]
  BY <1>1
<1> QED BY <1>3, <1>4

LEMMA AtJoins ==
  ASSUME NEW X, NEW s \in Seq(X), NEW P \in SUBSET DOMAIN s, NEW Q \in SUBSET DOMAIN s, \A p \in P, q \in Q : p < q
  PROVE F!At(s, P) \o F!At(s, Q) = F!At(s, P \cup Q)
<1>1. PICK p : Upward(p, P) /\ DOMAIN p = DOMAIN F!At(s, P) /\ \A n \in DOMAIN p : p[n] \in P /\ F!At(s, P)[n] = s[p[n]]
  BY AtIs
<1>2. PICK q : Upward(q, Q) /\ DOMAIN q = DOMAIN F!At(s, Q) /\ \A n \in DOMAIN q : q[n] \in Q /\ F!At(s, Q)[n] = s[q[n]]
  BY AtIs
<1>3. P \in SUBSET Nat /\ Q \in SUBSET Nat
  OBVIOUS
<1>4. p \in Seq(P) /\ (\A x \in P : \E n \in DOMAIN p : p[n] = x) /\ \A m, n \in DOMAIN p : m < n => p[m] < p[n]
  BY <1>1 DEF Upward
<1>5. q \in Seq(Q) /\ (\A x \in Q : \E n \in DOMAIN q : q[n] = x) /\ \A m, n \in DOMAIN q : m < n => q[m] < q[n]
  BY <1>2 DEF Upward
<1> DEFINE r == p \o q
<1>6. Len(p) \in Nat /\ DOMAIN p = 1..Len(p) /\ Len(q) \in Nat /\ DOMAIN q = 1..Len(q)
  BY <1>4, <1>5
<1>7. r \in Seq(P \cup Q) /\ DOMAIN r = 1..(Len(p) + Len(q)) /\ Len(r) = Len(p) + Len(q)
      /\ \A n \in DOMAIN r : r[n] = IF n <= Len(p) THEN p[n] ELSE q[n - Len(p)]
  <2>1. p \in Seq(P \cup Q) /\ q \in Seq(P \cup Q)
    BY <1>4, <1>5
  <2> QED BY <2>1
<1> HIDE DEF r
<1>8. \A x \in P \cup Q : \E n \in DOMAIN r : r[n] = x
  <2> TAKE x \in P \cup Q
  <2>1. CASE x \in P
    <3>1. PICK n \in DOMAIN p : p[n] = x
      BY <1>4, <2>1
    <3>2. n \in DOMAIN r /\ n <= Len(p)
      BY <1>6, <1>7
    <3> QED BY <1>7, <3>1, <3>2
  <2>2. CASE x \in Q
    <3>1. PICK n \in DOMAIN q : q[n] = x
      BY <1>5, <2>2
    <3>2. n + Len(p) \in DOMAIN r /\ ~(n + Len(p) <= Len(p)) /\ (n + Len(p)) - Len(p) = n
      BY <1>6, <1>7
    <3> QED BY <1>7, <3>1, <3>2
  <2> QED BY <2>1, <2>2
<1>9. \A m, n \in DOMAIN r : m < n => r[m] < r[n]
  <2> TAKE m, n \in DOMAIN r
  <2> HAVE m < n
  <2>1. CASE n <= Len(p)
    BY <1>4, <1>6, <1>7, <2>1
  <2>2. CASE m <= Len(p) /\ ~(n <= Len(p))
    <3>1. m \in DOMAIN p /\ n - Len(p) \in DOMAIN q
      BY <1>6, <1>7, <2>2
    <3>2. p[m] \in P /\ q[n - Len(p)] \in Q
      BY <1>4, <1>5, <3>1
    <3> QED BY <1>7, <2>2, <3>2
  <2>3. CASE ~(m <= Len(p))
    <3>1. m - Len(p) \in DOMAIN q /\ n - Len(p) \in DOMAIN q /\ m - Len(p) < n - Len(p) /\ ~(n <= Len(p))
      BY <1>6, <1>7, <2>3
    <3> QED BY <1>5, <1>7, <2>3, <3>1
  <2> QED BY <1>6, <1>7, <2>1, <2>2, <2>3
<1>10. F!At(s, P \cup Q) = [n \in DOMAIN r |-> s[r[n]]]
  <2>1. P \cup Q \in SUBSET Nat /\ IsFiniteSet(P \cup Q)
    <3>1. P \cup Q \in SUBSET DOMAIN s
      OBVIOUS
    <3> QED BY <3>1, Positions
  <2>2. Upward(r, P \cup Q)
    BY <1>7, <1>8, <1>9 DEF Upward
  <2> QED BY <2>1, <2>2, AtOnly
<1> DEFINE a == F!At(s, P)
           b == F!At(s, Q)
           u == F!At(s, P \cup Q)
<1>11. a \in Seq(X) /\ b \in Seq(X) /\ Len(a) = Len(p) /\ Len(b) = Len(q)
  BY <1>1, <1>2, <1>4, <1>5, AtIs
<1>12. (\A n \in DOMAIN p : a[n] = s[p[n]]) /\ (\A n \in DOMAIN q : b[n] = s[q[n]]) /\ u = [n \in DOMAIN r |-> s[r[n]]]
  BY <1>1, <1>2, <1>10
<1> HIDE DEF a, b, u
<1>13. DOMAIN (a \o b) = DOMAIN r
  BY <1>6, <1>7, <1>11
<1>14. ASSUME NEW n \in DOMAIN r PROVE (a \o b)[n] = s[r[n]]
  <2>1. CASE n <= Len(p)
    <3>1. n \in DOMAIN p /\ n \in DOMAIN a /\ (a \o b)[n] = a[n]
      BY <1>6, <1>7, <1>11, <2>1
    <3> QED BY <1>7, <1>12, <2>1, <3>1
  <2>2. CASE ~(n <= Len(p))
    <3>1. n - Len(p) \in DOMAIN q /\ (a \o b)[n] = b[n - Len(p)]
      BY <1>6, <1>7, <1>11, <2>2
    <3> QED BY <1>7, <1>12, <2>2, <3>1
  <2> QED BY <2>1, <2>2
<1>15. a \o b = [n \in DOMAIN r |-> (a \o b)[n]]
  <2>1. a \o b \in Seq(X)
    BY <1>11
  <2> DEFINE c == a \o b
  <2>2. c = [n \in DOMAIN c |-> c[n]]
    <3> HIDE DEF c
    <3>1. c \in Seq(X)
      BY <2>1 DEF c
    <3> QED BY <3>1
  <2> QED BY <1>13, <2>2
<1>16. [n \in DOMAIN r |-> (a \o b)[n]] = [n \in DOMAIN r |-> s[r[n]]]
  BY <1>14
<1>17. a \o b = u
  BY <1>12, <1>15, <1>16
<1> QED BY <1>17 DEF a, b, u

\* The windows of a day by their start: all of them, in order; windows in order stay as they are.
LEMMA StartsOrder ==
  ASSUME NEW w \in Seq(F!Windows), \A k \in DOMAIN w : w[k].start \in Nat
  PROVE IsFiniteSet(DOMAIN w) /\ OrderOf(F!StartsFirst(w), DOMAIN w)
<1>1. DOMAIN w = 1..Len(w) /\ Len(w) \in Nat
  OBVIOUS
<1>2. IsFiniteSet(DOMAIN w)
  BY <1>1, FS_Interval
<1>3. \A j, k \in DOMAIN w : <<j, k>> \in F!StartsFirst(w) <=> w[j].start < w[k].start \/ (w[j].start = w[k].start /\ j < k)
  BY DEF F!StartsFirst
<1>4. OrderOf(F!StartsFirst(w), DOMAIN w)
  <2>1. \A k \in DOMAIN w : k \in Nat /\ w[k].start \in Nat
    BY <1>1
  <2>2. \A x, y, z \in DOMAIN w :
          /\ ~(w[x].start < w[x].start \/ (w[x].start = w[x].start /\ x < x))
          /\ x # y => \/ w[x].start < w[y].start \/ (w[x].start = w[y].start /\ x < y)
                      \/ w[y].start < w[x].start \/ (w[y].start = w[x].start /\ y < x)
          /\ (w[x].start < w[y].start \/ (w[x].start = w[y].start /\ x < y)) /\ (w[y].start < w[z].start \/ (w[y].start = w[z].start /\ y < z))
             => w[x].start < w[z].start \/ (w[x].start = w[z].start /\ x < z)
    BY <2>1
  <2> QED BY <1>3, <2>2 DEF OrderOf
<1> QED BY <1>2, <1>4

LEMMA ByStartIs ==
  ASSUME NEW w \in Seq(F!Windows), \A k \in DOMAIN w : w[k].start \in Nat
  PROVE /\ F!ByStart(w) \in Seq(F!Windows) /\ DOMAIN F!ByStart(w) = DOMAIN w
        /\ \A n \in DOMAIN w : \E k \in DOMAIN w : F!ByStart(w)[n] = w[k]
        /\ \A m, n \in DOMAIN w : m < n => F!ByStart(w)[m].start <= F!ByStart(w)[n].start
<1> DEFINE p == F!InOrder(DOMAIN w, F!StartsFirst(w))
           b == F!ByStart(w)
<1>1. Enumerates(p, DOMAIN w, F!StartsFirst(w)) /\ Len(p) = Cardinality(DOMAIN w)
  BY StartsOrder, InOrderIs
<1>2. b = [n \in DOMAIN p |-> w[p[n]]]
  BY DEF F!ByStart
<1>3. DOMAIN w = 1..Len(w) /\ Len(w) \in Nat
  OBVIOUS
<1>4. Cardinality(DOMAIN w) = Len(w)
  <2>1. Cardinality(DOMAIN w) = IF 1 > Len(w) THEN 0 ELSE Len(w) - 1 + 1
    BY <1>3, FS_Interval
  <2> QED BY <1>3, <2>1
<1> HIDE DEF p, b
<1>5. p \in Seq(DOMAIN w) /\ DOMAIN p = DOMAIN w /\ \A n \in DOMAIN p : p[n] \in DOMAIN w
  BY <1>1, <1>3, <1>4 DEF Enumerates
<1>6. b \in Seq(F!Windows)
  <2>1. b \in [1..Len(w) -> F!Windows]
    BY <1>2, <1>3, <1>5
  <2> QED BY <1>3, <2>1
<1>7. ASSUME NEW m \in DOMAIN w, NEW n \in DOMAIN w, m < n PROVE b[m].start <= b[n].start
  <2>1. <<p[m], p[n]>> \in F!StartsFirst(w)
    BY <1>1, <1>5, <1>7 DEF Enumerates
  <2>2. w[p[m]].start < w[p[n]].start \/ w[p[m]].start = w[p[n]].start
    BY <2>1 DEF F!StartsFirst
  <2>3. w[p[m]].start \in Nat /\ w[p[n]].start \in Nat
    BY <1>5
  <2>4. b[m] = w[p[m]] /\ b[n] = w[p[n]]
    BY <1>2, <1>5
  <2> QED BY <2>2, <2>3, <2>4
<1>8. \A n \in DOMAIN w : b[n] = w[p[n]] /\ p[n] \in DOMAIN w
  BY <1>2, <1>5
<1>9. DOMAIN b = DOMAIN w
  BY <1>2, <1>5
<1> QED BY <1>6, <1>7, <1>8, <1>9 DEF b

LEMMA ByStartSame ==
  ASSUME NEW w \in Seq(F!Windows), \A k \in DOMAIN w : w[k].start \in Nat,
         \A m, n \in DOMAIN w : m < n => w[m].start < w[n].start
  PROVE F!ByStart(w) = w
<1> DEFINE p == [n \in 1..Len(w) |-> n]
<1>1. Len(w) \in Nat /\ DOMAIN w = 1..Len(w) /\ p \in Seq(DOMAIN w) /\ DOMAIN p = DOMAIN w /\ \A n \in DOMAIN w : p[n] = n
  OBVIOUS
<1>2. \A m, n \in DOMAIN w : m < n => <<m, n>> \in F!StartsFirst(w)
  BY DEF F!StartsFirst
<1> HIDE DEF p
<1>3. Enumerates(p, DOMAIN w, F!StartsFirst(w))
  BY <1>1, <1>2 DEF Enumerates
<1>4. F!InOrder(DOMAIN w, F!StartsFirst(w)) = p
  BY <1>3, StartsOrder, InOrderOnly
<1>5. F!ByStart(w) = [n \in DOMAIN p |-> w[p[n]]]
  BY <1>4 DEF F!ByStart
<1>6. [n \in DOMAIN p |-> w[p[n]]] = [n \in DOMAIN w |-> w[n]]
  BY <1>1
<1> QED BY <1>5, <1>6

-----------------------------------------------------------------------------
(* What the form finds no problem with                                     *)

\* Hours of the days before m, in the order of the days and of their starts, none of which overlap.
Daily(q, m) ==
  /\ q \in Seq(F!Entries)
  /\ \A k \in DOMAIN q : q[k].weekday < m /\ q[k].start < q[k].end
  /\ \A j, k \in DOMAIN q : j < k => F!Before(q[j], q[k]) /\ (q[j].weekday = q[k].weekday => q[j].end <= q[k].start)
DayRows == [F!Weekdays -> [enabled : BOOLEAN, windows : Seq(F!Windows)]]

LEMMA OrderedTimes ==
  ASSUME NEW s \in F!Times, NEW e \in F!Times, F!Ordered(s, e)
  PROVE s \in F!Clock /\ e \in F!Clock /\ s \in Nat /\ e \in Nat /\ s < e
BY DEF F!Ordered, F!Has, F!Times, F!Clock

LEMMA DayIsDaily ==
  ASSUME NEW days \in DayRows, ~F!WeeklyProblem(days), NEW d \in F!Weekdays
  PROVE Daily(F!ReadDay(days, d), d + 1) /\ \A k \in DOMAIN F!ReadDay(days, d) : F!ReadDay(days, d)[k].weekday = d
<1> DEFINE q == F!ReadDay(days, d)
           w == days[d].windows
           b == F!ByStart(w)
<1>1. days[d] \in [enabled : BOOLEAN, windows : Seq(F!Windows)] /\ w \in Seq(F!Windows) /\ d \in 0..6
  BY DEF DayRows, F!Weekdays
<1>2. CASE ~days[d].enabled
  <2>1. q = <<>>
    BY <1>2 DEF F!ReadDay
  <2> QED BY <2>1 DEF Daily
<1>3. CASE days[d].enabled
  <2>1. (\A k \in DOMAIN w : F!Ordered(w[k].start, w[k].end)) /\ \A k \in DOMAIN b : ~(k > 1 /\ b[k - 1].end > b[k].start)
    BY <1>3 DEF F!WeeklyProblem
  <2>2. \A k \in DOMAIN w : w[k] \in F!Windows /\ w[k].start \in F!Clock /\ w[k].end \in F!Clock /\ w[k].start \in Nat /\ w[k].end \in Nat /\ w[k].start < w[k].end
    <3> TAKE k \in DOMAIN w
    <3>1. w[k] \in F!Windows
      BY <1>1
    <3>2. w[k].start \in F!Times /\ w[k].end \in F!Times
      BY <3>1 DEF F!Windows
    <3> QED BY <2>1, <3>1, <3>2, OrderedTimes
  <2>3. /\ b \in Seq(F!Windows) /\ DOMAIN b = DOMAIN w
        /\ \A n \in DOMAIN w : \E k \in DOMAIN w : b[n] = w[k]
        /\ \A m, n \in DOMAIN w : m < n => b[m].start <= b[n].start
    <3> HIDE DEF w
    <3> QED BY <1>1, <2>2, ByStartIs
  <2>4. q = [k \in DOMAIN b |-> [weekday |-> d, start |-> b[k].start, end |-> b[k].end]]
    BY <1>3 DEF F!ReadDay
  <2> HIDE DEF q, b, w
  <2>5. \A k \in DOMAIN b : b[k].start \in F!Clock /\ b[k].end \in F!Clock /\ b[k].start \in Nat /\ b[k].end \in Nat /\ b[k].start < b[k].end
    BY <2>2, <2>3
  <2>6. DOMAIN b = 1..Len(b) /\ Len(b) \in Nat
    BY <2>3
  <2>7. ASSUME NEW j \in DOMAIN b, NEW k \in DOMAIN b, j < k PROVE b[j].end <= b[k].start
    <3>1. j + 1 \in DOMAIN b /\ j + 1 > 1 /\ (j + 1) - 1 = j /\ (j + 1 = k \/ j + 1 < k)
      BY <2>6, <2>7
    <3>2. PICK n \in DOMAIN b : n = j + 1
      BY <3>1
    <3>3. ~(b[j].end > b[n].start)
      BY <2>1, <3>1, <3>2
    <3>4. b[n].start <= b[k].start
      <4>1. CASE n = k
        BY <2>5, <4>1
      <4>2. CASE n # k
        BY <2>3, <3>1, <3>2, <4>2
      <4> QED BY <4>1, <4>2
    <3>5. b[j].end \in Nat /\ b[n].start \in Nat /\ b[k].start \in Nat
      BY <2>5
    <3> QED BY <3>3, <3>4, <3>5
  <2>8. q \in Seq(F!Entries)
    <3>1. \A k \in DOMAIN b : q[k] \in F!Entries
      BY <1>1, <2>4, <2>5 DEF F!Entries, F!Weekdays
    <3>2. q \in [1..Len(b) -> F!Entries]
      BY <2>4, <2>6, <3>1
    <3> QED BY <2>6, <3>2
  <2>9. DOMAIN q = DOMAIN b /\ \A k \in DOMAIN b : q[k].weekday = d /\ q[k].start = b[k].start /\ q[k].end = b[k].end
    BY <2>4
  <2>10. \A j, k \in DOMAIN q : j < k => F!Before(q[j], q[k]) /\ q[j].end <= q[k].start
    <3> TAKE j, k \in DOMAIN q
    <3> HAVE j < k
    <3>1. b[j].end <= b[k].start /\ b[j].start < b[j].end /\ b[j].start \in Nat /\ b[j].end \in Nat /\ b[k].start \in Nat
      BY <2>5, <2>7, <2>9
    <3>2. b[j].start < b[k].start
      BY <3>1
    <3> QED BY <2>9, <3>1, <3>2 DEF F!Before
  <2> QED BY <1>1, <2>5, <2>8, <2>9, <2>10 DEF Daily, q
<1> QED BY <1>2, <1>3

LEMMA DailyJoins ==
  ASSUME NEW m \in Nat, NEW a, NEW b, Daily(a, m), Daily(b, m + 1), \A k \in DOMAIN b : b[k].weekday = m
  PROVE Daily(a \o b, m + 1)
<1> DEFINE c == a \o b
<1>1. a \in Seq(F!Entries) /\ b \in Seq(F!Entries)
  BY DEF Daily
<1>2. /\ c \in Seq(F!Entries) /\ DOMAIN c = 1..(Len(a) + Len(b))
      /\ \A k \in DOMAIN c : c[k] = IF k <= Len(a) THEN a[k] ELSE b[k - Len(a)]
      /\ Len(a) \in Nat /\ Len(b) \in Nat /\ DOMAIN a = 1..Len(a) /\ DOMAIN b = 1..Len(b)
  BY <1>1
<1> HIDE DEF c
<1>3. ASSUME NEW k \in DOMAIN c
      PROVE /\ k <= Len(a) => k \in DOMAIN a /\ c[k] = a[k]
            /\ ~(k <= Len(a)) => k - Len(a) \in DOMAIN b /\ c[k] = b[k - Len(a)]
            /\ c[k] \in F!Entries /\ k \in Nat
  BY <1>2
<1>4. \A k \in DOMAIN a : a[k] \in F!Entries /\ a[k].weekday < m /\ a[k].weekday \in Nat
  <2> TAKE k \in DOMAIN a
  <2>1. a[k] \in F!Entries
    BY <1>1
  <2> QED BY <2>1 DEF Daily, F!Entries, F!Weekdays
<1>5. \A k \in DOMAIN c : c[k].weekday < m + 1 /\ c[k].start < c[k].end
  <2> TAKE k \in DOMAIN c
  <2>1. CASE k <= Len(a)
    BY <1>3, <1>4, <2>1 DEF Daily
  <2>2. CASE ~(k <= Len(a))
    BY <1>3, <2>2 DEF Daily
  <2> QED BY <2>1, <2>2
<1>6. ASSUME NEW j \in DOMAIN c, NEW k \in DOMAIN c, j < k
      PROVE F!Before(c[j], c[k]) /\ (c[j].weekday = c[k].weekday => c[j].end <= c[k].start)
  <2>1. CASE k <= Len(a)
    <3>1. j <= Len(a)
      BY <1>2, <1>3, <1>6, <2>1
    <3> QED BY <1>3, <1>6, <2>1, <3>1 DEF Daily
  <2>2. CASE j <= Len(a) /\ ~(k <= Len(a))
    <3>1. c[j].weekday < m /\ c[j].weekday \in Nat /\ c[k].weekday = m
      BY <1>3, <1>4, <2>2
    <3> QED BY <3>1 DEF F!Before
  <2>3. CASE ~(j <= Len(a))
    <3>1. ~(k <= Len(a)) /\ j - Len(a) < k - Len(a)
      BY <1>2, <1>3, <1>6, <2>3
    <3> QED BY <1>3, <2>3, <3>1 DEF Daily
  <2> QED BY <2>1, <2>2, <2>3
<1> QED BY <1>2, <1>5, <1>6 DEF Daily, c

LEMMA WeekIsDaily ==
  ASSUME NEW days \in DayRows, ~F!WeeklyProblem(days)
  PROVE Daily(F!ReadWeekly(days), 7)
<1> DEFINE q(d) == F!ReadDay(days, d)
<1>1. \A d \in 0..6 : Daily(q(d), d + 1) /\ \A k \in DOMAIN q(d) : q(d)[k].weekday = d
  BY DayIsDaily DEF F!Weekdays
<1>2. Daily(q(0), 1)
  BY <1>1
<1> HIDE DEF q
<1>3. \A d \in 0..6 : \A a : Daily(a, d) => Daily(a \o q(d), d + 1)
  <2> TAKE d \in 0..6
  <2> SUFFICES ASSUME NEW a, Daily(a, d)
               PROVE Daily(a \o q(d), d + 1)
    OBVIOUS
  <2>1. d \in Nat /\ Daily(q(d), d + 1) /\ \A k \in DOMAIN q(d) : q(d)[k].weekday = d
    BY <1>1
  <2> QED BY <2>1, DailyJoins
<1>4. Daily(q(0) \o q(1), 2)
  BY <1>3, <1>2
<1>5. Daily(q(0) \o q(1) \o q(2), 3)
  BY <1>3, <1>4
<1>6. Daily(q(0) \o q(1) \o q(2) \o q(3), 4)
  BY <1>3, <1>5
<1>7. Daily(q(0) \o q(1) \o q(2) \o q(3) \o q(4), 5)
  BY <1>3, <1>6
<1>8. Daily(q(0) \o q(1) \o q(2) \o q(3) \o q(4) \o q(5), 6)
  BY <1>3, <1>7
<1>9. Daily(q(0) \o q(1) \o q(2) \o q(3) \o q(4) \o q(5) \o q(6), 7)
  BY <1>3, <1>8
<1> QED BY <1>9 DEF F!ReadWeekly, q

\* The dates, and the blocks of time off of one kind.
LEMMA ExceptionsRead ==
  ASSUME NEW lines \in Seq(F!ExceptionLines), ~F!ExceptionProblem(lines)
  PROVE LET e == F!ReadExceptions(lines)
        IN /\ e \in Seq(F!ExceptionLines) /\ \A k \in DOMAIN e : F!NoHours(e[k], e[k].closed)
           /\ \A j, k \in DOMAIN e : e[j].date = e[k].date => j = k
           /\ \A k \in DOMAIN e : F!Has(e[k].date) /\ (~e[k].closed => F!Ordered(e[k].start, e[k].end))
<1> DEFINE e == F!ReadExceptions(lines)
<1>1. DOMAIN lines = 1..Len(lines) /\ Len(lines) \in Nat /\ \A k \in DOMAIN lines : lines[k] \in F!ExceptionLines
  OBVIOUS
<1>2. DOMAIN e = DOMAIN lines /\ \A k \in DOMAIN lines : e[k] =
        [date |-> lines[k].date, closed |-> lines[k].closed, start |-> F!Hours(lines[k], lines[k].closed).start, end |-> F!Hours(lines[k], lines[k].closed).end]
  BY DEF F!ReadExceptions
<1> HIDE DEF e
<1>4. \A k \in DOMAIN lines :
        /\ e[k] \in F!ExceptionLines /\ F!NoHours(e[k], e[k].closed)
        /\ e[k].date = lines[k].date /\ e[k].closed = lines[k].closed
        /\ ~lines[k].closed => e[k].start = lines[k].start /\ e[k].end = lines[k].end
  <2> TAKE k \in DOMAIN lines
  <2>1. lines[k] \in [date : F!Dates, closed : BOOLEAN, start : F!Times, end : F!Times] /\ None \in F!Times
    BY <1>1 DEF F!ExceptionLines, F!Times
  <2>2. CASE lines[k].closed
    <3>1. e[k] = [date |-> lines[k].date, closed |-> lines[k].closed, start |-> None, end |-> None]
      BY <1>2, <2>2 DEF F!Hours, F!Window
    <3> QED BY <2>1, <2>2, <3>1 DEF F!ExceptionLines, F!NoHours
  <2>3. CASE ~lines[k].closed
    <3>1. e[k] = [date |-> lines[k].date, closed |-> lines[k].closed, start |-> lines[k].start, end |-> lines[k].end]
      BY <1>2, <2>3 DEF F!Hours, F!Window
    <3> QED BY <2>1, <2>3, <3>1 DEF F!ExceptionLines, F!NoHours
  <2> QED BY <2>2, <2>3
<1>5. \A k \in DOMAIN lines :
        F!Has(lines[k].date) /\ (\A j \in DOMAIN lines : j < k => lines[j].date # lines[k].date) /\ (~lines[k].closed => F!Ordered(lines[k].start, lines[k].end))
  BY DEF F!ExceptionProblem
<1>6. e \in Seq(F!ExceptionLines)
  <2>1. e \in [1..Len(lines) -> F!ExceptionLines]
    <3>1. e = [k \in 1..Len(lines) |-> e[k]]
      BY <1>1 DEF e, F!ReadExceptions
    <3> QED BY <1>1, <1>4, <3>1
  <2> QED BY <1>1, <2>1
<1>7. \A j, k \in DOMAIN e : e[j].date = e[k].date => j = k
  <2> TAKE j, k \in DOMAIN e
  <2>1. j \in Nat /\ k \in Nat
    BY <1>1, <1>2
  <2>2. ~(j < k /\ lines[j].date = lines[k].date) /\ ~(k < j /\ lines[k].date = lines[j].date)
    BY <1>2, <1>5
  <2> QED BY <1>2, <1>4, <2>1, <2>2
<1>8. \A k \in DOMAIN e : F!Has(e[k].date) /\ (~e[k].closed => F!Ordered(e[k].start, e[k].end))
  BY <1>2, <1>4, <1>5
<1> QED BY <1>2, <1>4, <1>6, <1>7, <1>8 DEF e

BlocksOf(b, weekdays, dates, most) ==
  /\ b \in Seq(F!Blocks(weekdays, dates)) /\ Len(b) <= most
  /\ \A k \in DOMAIN b : F!NoHours(b[k], b[k].allDay) /\ (b[k].allDay \/ F!Ordered(b[k].start, b[k].end))
LEMMA TimeOffRead ==
  ASSUME NEW lines \in Seq(F!TimeOffLines), ~F!TimeOffProblem(lines), NEW kind \in {"weekly", "date"}
  PROVE /\ kind = "weekly" => BlocksOf(F!ReadTimeOff(lines, kind), F!Weekdays, {None}, 70)
        /\ kind = "date" => BlocksOf(F!ReadTimeOff(lines, kind), {None}, F!PlainDates, 365)
<1> DEFINE P == F!OfKind(lines, kind)
           a == F!At(lines, P)
           b == F!ReadTimeOff(lines, kind)
           B == F!Blocks(IF kind = "weekly" THEN F!Weekdays ELSE {None}, IF kind = "date" THEN F!PlainDates ELSE {None})
<1>1. P \in SUBSET DOMAIN lines /\ \A k \in P : lines[k].kind = kind
  BY DEF F!OfKind
<1>2. Cardinality(P) <= IF kind = "weekly" THEN 70 ELSE 365
  <2>1. Cardinality(P) \in Nat
    BY <1>1, AtIs
  <2>2. ~(Cardinality(F!OfKind(lines, "weekly")) > 70) /\ ~(Cardinality(F!OfKind(lines, "date")) > 365)
    BY SameCount DEF F!TimeOffProblem, F!Most
  <2> HIDE DEF P
  <2>3. CASE kind = "weekly"
    BY <2>1, <2>2, <2>3 DEF P
  <2>4. CASE kind = "date"
    BY <2>1, <2>2, <2>4 DEF P
  <2> QED BY <2>3, <2>4
<1>3. a \in Seq(F!TimeOffLines) /\ Len(a) = Cardinality(P) /\ \A n \in DOMAIN a : \E k \in P : a[n] = lines[k]
  <2> HIDE DEF P
  <2> QED BY <1>1, AtIs
<1>4. DOMAIN b = DOMAIN a /\ \A k \in DOMAIN a : b[k] =
        [weekday |-> IF kind = "weekly" THEN a[k].weekday ELSE None, date |-> IF kind = "date" THEN a[k].date ELSE None,
         allDay |-> a[k].allDay, start |-> F!Hours(a[k], a[k].allDay).start, end |-> F!Hours(a[k], a[k].allDay).end]
  BY DEF F!ReadTimeOff
<1>5. b = [k \in DOMAIN a |-> b[k]]
  BY DEF F!ReadTimeOff
<1>6. \A k \in DOMAIN lines : ~(lines[k].kind = "date" /\ lines[k].date \notin F!PlainDates) /\ (lines[k].allDay \/ F!Ordered(lines[k].start, lines[k].end))
  BY DEF F!TimeOffProblem
<1> HIDE DEF a, b, P
<1>7. \A n \in DOMAIN a : /\ a[n] \in F!TimeOffLines /\ a[n].kind = kind /\ (kind = "date" => a[n].date \in F!PlainDates)
                          /\ a[n].allDay \/ F!Ordered(a[n].start, a[n].end)
  BY <1>1, <1>3, <1>6
<1>8. ASSUME NEW k \in DOMAIN a PROVE b[k] \in B /\ F!NoHours(b[k], b[k].allDay) /\ (b[k].allDay \/ F!Ordered(b[k].start, b[k].end))
  <2>1. a[k] \in [kind : {"weekly", "date"}, weekday : F!Weekdays, date : F!Dates, allDay : BOOLEAN, start : F!Times, end : F!Times]
        /\ None \in F!Times
    BY <1>7 DEF F!TimeOffLines, F!Times
  <2>2. kind = "date" => a[k].date \in F!PlainDates
    BY <1>7
  <2>3. PICK w, d : w = (IF kind = "weekly" THEN a[k].weekday ELSE None) /\ d = (IF kind = "date" THEN a[k].date ELSE None)
    OBVIOUS
  <2>4. w \in (IF kind = "weekly" THEN F!Weekdays ELSE {None}) /\ d \in (IF kind = "date" THEN F!PlainDates ELSE {None})
    BY <2>1, <2>2, <2>3
  <2>5. CASE a[k].allDay
    <3>1. b[k] = [weekday |-> w, date |-> d, allDay |-> a[k].allDay, start |-> None, end |-> None]
      BY <1>4, <2>3, <2>5 DEF F!Hours, F!Window
    <3> QED BY <2>1, <2>4, <2>5, <3>1 DEF F!Blocks, F!NoHours
  <2>6. CASE ~a[k].allDay
    <3>1. b[k] = [weekday |-> w, date |-> d, allDay |-> a[k].allDay, start |-> a[k].start, end |-> a[k].end]
      BY <1>4, <2>3, <2>6 DEF F!Hours, F!Window
    <3> QED BY <1>7, <2>1, <2>4, <2>6, <3>1 DEF F!Blocks, F!NoHours
  <2> QED BY <2>5, <2>6
<1> HIDE DEF B
<1>9. b \in Seq(B) /\ Len(b) = Len(a)
  <2>1. DOMAIN a = 1..Len(a) /\ Len(a) \in Nat
    BY <1>3
  <2>2. b \in [1..Len(a) -> B]
    BY <1>5, <1>8, <2>1
  <2> QED BY <2>1, <2>2
<1>10. kind = "weekly" => b \in Seq(F!Blocks(F!Weekdays, {None})) /\ Len(b) <= 70
  BY <1>2, <1>3, <1>9 DEF B
<1>11. kind = "date" => b \in Seq(F!Blocks({None}, F!PlainDates)) /\ Len(b) <= 365
  BY <1>2, <1>3, <1>9 DEF B
<1> QED BY <1>4, <1>8, <1>10, <1>11 DEF b, BlocksOf

\* What the form reads is as it is stored, and the server accepts it unless for what the form does not look for.
LEMMA ReadAccepted ==
  ASSUME NEW sheet \in F!Sheets, ~F!Problem(sheet)
  PROVE F!Written(F!Read(sheet)) /\ (F!Accepts(F!Read(sheet)) \/ F!Unseen(F!Read(sheet)))
<1> DEFINE v == F!Read(sheet)
<1>1. sheet.days \in DayRows /\ sheet.exceptions \in Seq(F!ExceptionLines) /\ sheet.timeOff \in Seq(F!TimeOffLines)
  BY DEF F!Sheets, DayRows
<1>2. ~F!WeeklyProblem(sheet.days) /\ ~F!ExceptionProblem(sheet.exceptions) /\ ~F!TimeOffProblem(sheet.timeOff)
  BY DEF F!Problem
<1>3. v = [zone |-> sheet.zone, weekly |-> F!ReadWeekly(sheet.days), exceptions |-> F!ReadExceptions(sheet.exceptions),
           blockedWeekly |-> F!ReadTimeOff(sheet.timeOff, "weekly"), blockedDates |-> F!ReadTimeOff(sheet.timeOff, "date")]
  BY DEF F!Read
<1> HIDE DEF v
<1>4. Daily(v.weekly, 7)
  BY <1>1, <1>2, <1>3, WeekIsDaily
<1>5. /\ v.exceptions \in Seq(F!ExceptionLines) /\ \A k \in DOMAIN v.exceptions : F!NoHours(v.exceptions[k], v.exceptions[k].closed)
      /\ \A j, k \in DOMAIN v.exceptions : v.exceptions[j].date = v.exceptions[k].date => j = k
      /\ \A k \in DOMAIN v.exceptions : F!Has(v.exceptions[k].date) /\ (~v.exceptions[k].closed => F!Ordered(v.exceptions[k].start, v.exceptions[k].end))
  BY <1>1, <1>2, <1>3, ExceptionsRead
<1>6. BlocksOf(v.blockedWeekly, F!Weekdays, {None}, 70)
  <2>1. v.blockedWeekly = F!ReadTimeOff(sheet.timeOff, "weekly")
    BY <1>3
  <2>2. BlocksOf(F!ReadTimeOff(sheet.timeOff, "weekly"), F!Weekdays, {None}, 70)
    BY <1>1, <1>2, TimeOffRead
  <2> QED BY <2>1, <2>2
<1>7. BlocksOf(v.blockedDates, {None}, F!PlainDates, 365)
  <2>1. v.blockedDates = F!ReadTimeOff(sheet.timeOff, "date")
    BY <1>3
  <2>2. BlocksOf(F!ReadTimeOff(sheet.timeOff, "date"), {None}, F!PlainDates, 365)
    BY <1>1, <1>2, TimeOffRead
  <2> QED BY <2>1, <2>2
<1>8. v \in F!Plans
  <2>1. sheet.zone \in TimeZones
    BY DEF F!Sheets
  <2> QED BY <1>3, <1>4, <1>5, <1>6, <1>7, <2>1 DEF F!Plans, Daily, BlocksOf
<1>9. \A blocks \in {v.blockedWeekly, v.blockedDates} : \A k \in DOMAIN blocks :
        F!NoHours(blocks[k], blocks[k].allDay) /\ (blocks[k].allDay \/ F!Ordered(blocks[k].start, blocks[k].end))
  BY <1>6, <1>7 DEF BlocksOf
<1>10. \A j, k \in DOMAIN v.weekly : j < k => F!Before(v.weekly[j], v.weekly[k])
  BY <1>4 DEF Daily
<1>11. F!Written(v)
  BY <1>5, <1>8, <1>9, <1>10 DEF F!Written
<1>12. ASSUME ~F!Unseen(v) PROVE F!Accepts(v)
  <2>0. F!Kept(v) /\ v.zone \in ServiceZones /\ \A k \in DOMAIN v.exceptions : ~(v.exceptions[k].date > LastDate)
    BY <1>12 DEF F!Unseen
  <2>1. \A k \in DOMAIN v.weekly : v.weekly[k] \in F!Entries /\ k \in Nat
    BY <1>4 DEF Daily
  <2>2. \A k \in DOMAIN v.weekly : F!Ordered(v.weekly[k].start, v.weekly[k].end)
    BY <1>4, <2>1, SettingsAssumption DEF Daily, F!Ordered, F!Has, F!Entries, F!Clock
  <2>3. ASSUME NEW j \in DOMAIN v.weekly, NEW k \in DOMAIN v.weekly, j # k PROVE ~F!Overlap(v.weekly[j], v.weekly[k])
    <3>1. j < k \/ k < j
      BY <2>1, <2>3
    <3>2. v.weekly[j].start \in Nat /\ v.weekly[j].end \in Nat /\ v.weekly[k].start \in Nat /\ v.weekly[k].end \in Nat
      BY <2>1 DEF F!Entries, F!Clock
    <3>3. v.weekly[j].weekday = v.weekly[k].weekday => v.weekly[j].end <= v.weekly[k].start \/ v.weekly[k].end <= v.weekly[j].start
      BY <1>4, <3>1 DEF Daily
    <3> QED BY <3>2, <3>3 DEF F!Overlap
  <2>4. \A k \in DOMAIN v.blockedWeekly : v.blockedWeekly[k].weekday \in F!Weekdays
    <3>1. \A k \in DOMAIN v.blockedWeekly : v.blockedWeekly[k] \in F!Blocks(F!Weekdays, {None})
      BY <1>6 DEF BlocksOf
    <3> QED BY <3>1 DEF F!Blocks
  <2>5. \A k \in DOMAIN v.blockedDates : v.blockedDates[k].date \in F!PlainDates
    <3>1. \A k \in DOMAIN v.blockedDates : v.blockedDates[k] \in F!Blocks({None}, F!PlainDates)
      BY <1>7 DEF BlocksOf
    <3> QED BY <3>1 DEF F!Blocks
  <2>6. Len(v.blockedWeekly) <= F!Most.blockedWeekly /\ Len(v.blockedDates) <= F!Most.blockedDates
    BY <1>6, <1>7 DEF F!Most, BlocksOf
  <2>7. \A k \in DOMAIN v.exceptions : v.exceptions[k].date \in F!PlainDates
    <3> TAKE k \in DOMAIN v.exceptions
    <3>1. v.exceptions[k] \in F!ExceptionLines /\ F!Has(v.exceptions[k].date)
      BY <1>5
    <3>2. v.exceptions[k].date \in Nat
      BY <3>1 DEF F!ExceptionLines, F!Dates, F!Has
    <3> QED BY <2>0, <3>2, SettingsAssumption DEF F!PlainDates
  <2> QED BY <1>5, <1>9, <2>0, <2>2, <2>3, <2>4, <2>5, <2>6, <2>7 DEF F!Accepts
<1> QED BY <1>11, <1>12 DEF v

-----------------------------------------------------------------------------
(* What the form shows of settings                                         *)

\* The hours of a day come back from its rows.
LEMMA DayAgain ==
  ASSUME NEW weekly \in Seq(F!Entries), NEW d \in F!Weekdays,
         \A j, k \in DOMAIN weekly : j < k => F!Before(weekly[j], weekly[k]),
         \A k \in DOMAIN weekly : F!Ordered(weekly[k].start, weekly[k].end),
         \A j, k \in DOMAIN weekly : j # k => ~F!Overlap(weekly[j], weekly[k])
  PROVE LET day == F!WeeklyRows(weekly)[d]
        IN /\ day \in [enabled : BOOLEAN, windows : Seq(F!Windows)]
           /\ F!ReadDay(F!WeeklyRows(weekly), d) = F!At(weekly, {k \in DOMAIN weekly : weekly[k].weekday = d})
           /\ \A k \in DOMAIN day.windows : F!Ordered(day.windows[k].start, day.windows[k].end)
           /\ \A k \in DOMAIN F!ByStart(day.windows) : ~(k > 1 /\ F!ByStart(day.windows)[k - 1].end > F!ByStart(day.windows)[k].start)
<1> DEFINE P == {k \in DOMAIN weekly : weekly[k].weekday = d}
           a == F!At(weekly, P)
           w == [k \in DOMAIN a |-> F!Window(a[k].start, a[k].end)]
           days == F!WeeklyRows(weekly)
<1>1. days[d] = [enabled |-> a # <<>>, windows |-> w]
  BY DEF F!WeeklyRows
<1>2. DOMAIN weekly = 1..Len(weekly) /\ \A k \in DOMAIN weekly : weekly[k] \in F!Entries /\ k \in Nat
  OBVIOUS
<1>3. \A k \in DOMAIN weekly : weekly[k].weekday \in 0..6 /\ weekly[k].start \in F!Clock /\ weekly[k].end \in F!Clock
  BY <1>2 DEF F!Entries, F!Weekdays
<1>4. \A k \in P : k \in DOMAIN weekly /\ weekly[k].weekday = d
  OBVIOUS
<1>5. P \in SUBSET DOMAIN weekly
  OBVIOUS
<1> HIDE DEF P
<1>6. a \in Seq(F!Entries) /\ \E p : /\ Upward(p, P) /\ DOMAIN p = DOMAIN a
                                    /\ \A n \in DOMAIN p : p[n] \in P /\ a[n] = weekly[p[n]]
  BY <1>5, AtIs
<1>7. PICK p : Upward(p, P) /\ DOMAIN p = DOMAIN a /\ \A n \in DOMAIN p : p[n] \in P /\ a[n] = weekly[p[n]]
  BY <1>6
<1>8. DOMAIN w = DOMAIN a /\ \A k \in DOMAIN a : w[k] = [start |-> a[k].start, end |-> a[k].end]
  BY DEF F!Window
<1>9. w = [k \in DOMAIN a |-> w[k]]
  OBVIOUS
<1> HIDE DEF a, w, days
<1>10. \A k \in DOMAIN a : /\ a[k] \in F!Entries /\ a[k].weekday = d /\ F!Ordered(a[k].start, a[k].end)
                            /\ a[k].start \in F!Clock /\ a[k].end \in F!Clock /\ a[k].start \in Nat /\ a[k].end \in Nat
  <2> TAKE k \in DOMAIN a
  <2>1. F!Clock \subseteq Nat
    BY DEF F!Clock
  <2>2. p[k] \in P /\ a[k] = weekly[p[k]]
    BY <1>7
  <2>3. p[k] \in DOMAIN weekly /\ weekly[p[k]].weekday = d
    BY <1>4, <2>2
  <2>4. weekly[p[k]] \in F!Entries /\ weekly[p[k]].start \in F!Clock /\ weekly[p[k]].end \in F!Clock
    BY <1>2, <1>3, <2>3
  <2>5. F!Ordered(weekly[p[k]].start, weekly[p[k]].end)
    BY <2>3
  <2> QED BY <2>1, <2>2, <2>3, <2>4, <2>5
<1>11. DOMAIN a = 1..Len(a) /\ Len(a) \in Nat
  BY <1>6
<1>12. w \in Seq(F!Windows) /\ \A k \in DOMAIN w : w[k].start = a[k].start /\ w[k].end = a[k].end
  <2>1. \A k \in DOMAIN a : w[k] \in F!Windows
    BY <1>8, <1>10 DEF F!Windows, F!Times
  <2>2. w \in [1..Len(a) -> F!Windows]
    BY <1>9, <1>11, <2>1
  <2> QED BY <1>8, <1>11, <2>2
<1>13. ASSUME NEW m \in DOMAIN w, NEW n \in DOMAIN w, m < n PROVE w[m].start < w[n].start /\ w[m].end <= w[n].start
  <2>1. p[m] < p[n] /\ p[m] \in P /\ p[n] \in P /\ a[m] = weekly[p[m]] /\ a[n] = weekly[p[n]]
    BY <1>7, <1>8, <1>13 DEF Upward
  <2>2. F!Before(a[m], a[n]) /\ ~F!Overlap(a[m], a[n])
    BY <1>2, <1>4, <2>1
  <2>3. a[m].weekday = a[n].weekday /\ d \in Nat
    BY <1>8, <1>10 DEF F!Weekdays
  <2>4. a[m].start < a[n].start /\ a[n].start < a[n].end
    BY <1>8, <1>10, <2>2, <2>3 DEF F!Before, F!Ordered, F!Weekdays
  <2>5. ~(a[n].start < a[m].end)
    BY <1>8, <1>10, <2>2, <2>3, <2>4 DEF F!Overlap
  <2> QED BY <1>8, <1>10, <1>12, <2>4, <2>5
<1>14. F!ByStart(w) = w
  BY <1>8, <1>10, <1>12, <1>13, ByStartSame
<1>15. days[d] \in [enabled : BOOLEAN, windows : Seq(F!Windows)] /\ days[d].windows = w
  BY <1>1, <1>12
<1>16. F!ReadDay(days, d) = a
  <2>1. CASE ~days[d].enabled
    <3>1. days[d].enabled = (a # <<>>)
      BY <1>1
    <3>2. a = <<>>
      BY <2>1, <3>1
    <3> QED BY <2>1, <3>2 DEF F!ReadDay
  <2>2. CASE days[d].enabled
    <3>1. F!ReadDay(days, d) = [k \in DOMAIN w |-> [weekday |-> d, start |-> w[k].start, end |-> w[k].end]]
      BY <1>14, <1>15, <2>2 DEF F!ReadDay
    <3>2. \A k \in DOMAIN a : a[k] = [weekday |-> d, start |-> w[k].start, end |-> w[k].end]
      BY <1>8, <1>10, <1>12 DEF F!Entries
    <3>3. a = [k \in DOMAIN a |-> a[k]]
      BY <1>6
    <3> QED BY <1>8, <3>1, <3>2, <3>3
  <2> QED BY <2>1, <2>2
<1>17. \A k \in DOMAIN w : F!Ordered(w[k].start, w[k].end)
  BY <1>8, <1>10, <1>12
<1>18. \A k \in DOMAIN w : ~(k > 1 /\ w[k - 1].end > w[k].start)
  <2> TAKE k \in DOMAIN w
  <2> SUFFICES ASSUME k > 1 PROVE ~(w[k - 1].end > w[k].start)
    OBVIOUS
  <2>1. PICK j : j = k - 1
    OBVIOUS
  <2>2. j \in DOMAIN w /\ j < k
    BY <1>8, <1>11, <2>1
  <2>3. w[j].end <= w[k].start /\ w[j].end \in Nat /\ w[k].start \in Nat
    BY <1>8, <1>10, <1>12, <1>13, <2>2
  <2> QED BY <2>1, <2>3
<1> QED BY <1>14, <1>15, <1>16, <1>17, <1>18 DEF days, a, P

LEMMA WeekAgain ==
  ASSUME NEW weekly \in Seq(F!Entries),
         \A j, k \in DOMAIN weekly : j < k => F!Before(weekly[j], weekly[k]),
         \A k \in DOMAIN weekly : F!Ordered(weekly[k].start, weekly[k].end),
         \A j, k \in DOMAIN weekly : j # k => ~F!Overlap(weekly[j], weekly[k])
  PROVE F!WeeklyRows(weekly) \in DayRows /\ ~F!WeeklyProblem(F!WeeklyRows(weekly)) /\ F!ReadWeekly(F!WeeklyRows(weekly)) = weekly
<1> DEFINE days == F!WeeklyRows(weekly)
           On(d) == {k \in DOMAIN weekly : weekly[k].weekday = d}
           Till(d) == {k \in DOMAIN weekly : weekly[k].weekday < d}
           q(d) == F!ReadDay(days, d)
<1>1. \A d \in F!Weekdays :
        /\ days[d] \in [enabled : BOOLEAN, windows : Seq(F!Windows)] /\ q(d) = F!At(weekly, On(d))
        /\ \A k \in DOMAIN days[d].windows : F!Ordered(days[d].windows[k].start, days[d].windows[k].end)
        /\ \A k \in DOMAIN F!ByStart(days[d].windows) : ~(k > 1 /\ F!ByStart(days[d].windows)[k - 1].end > F!ByStart(days[d].windows)[k].start)
  BY DayAgain
<1>2. days = [d \in F!Weekdays |-> days[d]]
  BY DEF F!WeeklyRows
<1>3. days \in DayRows
  <2> HIDE DEF days
  <2> QED BY <1>1, <1>2 DEF DayRows
<1>4. ~F!WeeklyProblem(days)
  <2> HIDE DEF days
  <2> QED BY <1>1 DEF F!WeeklyProblem
<1>5. \A k \in DOMAIN weekly : weekly[k].weekday \in 0..6 /\ k \in Nat
  <2>1. \A k \in DOMAIN weekly : weekly[k] \in F!Entries /\ k \in Nat
    OBVIOUS
  <2> QED BY <2>1 DEF F!Entries, F!Weekdays
<1>6. ASSUME NEW d \in 0..6 PROVE F!At(weekly, Till(d)) \o F!At(weekly, On(d)) = F!At(weekly, Till(d + 1))
  <2>1. Till(d + 1) = Till(d) \cup On(d)
    BY <1>5
  <2>2. \A x \in Till(d), y \in On(d) : x < y
    <3> TAKE x \in Till(d), y \in On(d)
    <3>1. x # y /\ ~F!Before(weekly[y], weekly[x])
      BY <1>5 DEF F!Before
    <3>2. ~(y < x)
      BY <3>1
    <3> QED BY <1>5, <3>1, <3>2
  <2>3. Till(d) \in SUBSET DOMAIN weekly /\ On(d) \in SUBSET DOMAIN weekly
    OBVIOUS
  <2> DEFINE P == Till(d)
             Q == On(d)
  <2>4. P \in SUBSET DOMAIN weekly /\ Q \in SUBSET DOMAIN weekly /\ \A x \in P, y \in Q : x < y
    BY <2>2, <2>3
  <2> HIDE DEF P, Q
  <2>5. F!At(weekly, P) \o F!At(weekly, Q) = F!At(weekly, P \cup Q)
    BY <2>4, AtJoins
  <2> QED BY <2>1, <2>5 DEF P, Q
<1>7. Till(0) = {} /\ Till(7) = DOMAIN weekly /\ Till(1) = On(0)
  <2>1. Till(0) = {}
    BY <1>5
  <2>2. Till(7) = DOMAIN weekly
    <3>1. \A k \in DOMAIN weekly : weekly[k].weekday < 7
      BY <1>5
    <3> QED BY <3>1
  <2>3. Till(1) = On(0)
    BY <1>5
  <2> QED BY <2>1, <2>2, <2>3
<1> DEFINE t(d) == F!At(weekly, Till(d))
<1>8. t(7) = weekly
  <2> HIDE DEF Till
  <2> QED BY <1>7, AtAll
<1>9. q(0) = t(1)
  <2>1. q(0) = F!At(weekly, On(0))
    BY <1>1 DEF F!Weekdays
  <2> HIDE DEF q, Till, On
  <2> QED BY <1>7, <2>1
<1>10. ASSUME NEW d \in 0..6 PROVE t(d) \o q(d) = t(d + 1)
  <2>1. q(d) = F!At(weekly, On(d))
    BY <1>1 DEF F!Weekdays
  <2> HIDE DEF q, Till, On
  <2> QED BY <1>6, <2>1
<1> HIDE DEF t, q, Till, On
<1>11. t(1) \o q(1) = t(1 + 1) /\ t(2) \o q(2) = t(2 + 1) /\ t(3) \o q(3) = t(3 + 1)
       /\ t(4) \o q(4) = t(4 + 1) /\ t(5) \o q(5) = t(5 + 1) /\ t(6) \o q(6) = t(6 + 1)
  <2>1. \A d \in 0..6 : t(d) \o q(d) = t(d + 1)
    BY <1>10
  <2>2. 1 \in 0..6 /\ 2 \in 0..6 /\ 3 \in 0..6 /\ 4 \in 0..6 /\ 5 \in 0..6 /\ 6 \in 0..6
    OBVIOUS
  <2> QED BY <2>1, <2>2, Zenon
<1>12. q(0) \o q(1) \o q(2) \o q(3) \o q(4) \o q(5) \o q(6) = weekly
  <2>1. 1 + 1 = 2 /\ 2 + 1 = 3 /\ 3 + 1 = 4 /\ 4 + 1 = 5 /\ 5 + 1 = 6 /\ 6 + 1 = 7
    OBVIOUS
  <2> QED BY <1>8, <1>9, <1>11, <2>1, Zenon
<1> QED BY <1>3, <1>4, <1>12 DEF days, q, F!ReadWeekly

LEMMA ExceptionsAgain ==
  ASSUME NEW e \in Seq(F!ExceptionLines), \A k \in DOMAIN e : F!NoHours(e[k], e[k].closed),
         \A j, k \in DOMAIN e : e[j].date = e[k].date => j = k,
         \A k \in DOMAIN e : F!Has(e[k].date) /\ (~e[k].closed => F!Ordered(e[k].start, e[k].end))
  PROVE F!ExceptionRows(e) \in Seq(F!ExceptionLines) /\ ~F!ExceptionProblem(F!ExceptionRows(e)) /\ F!ReadExceptions(F!ExceptionRows(e)) = e
<1> DEFINE r == F!ExceptionRows(e)
           back == F!ReadExceptions(r)
<1>1. DOMAIN e = 1..Len(e) /\ Len(e) \in Nat /\ \A k \in DOMAIN e : e[k] \in F!ExceptionLines /\ k \in Nat
  OBVIOUS
<1>2. DOMAIN r = DOMAIN e /\ r = [k \in DOMAIN e |-> r[k]] /\ \A k \in DOMAIN e : r[k] =
        [date |-> e[k].date, closed |-> e[k].closed, start |-> F!Default(e[k].start, Nine), end |-> F!Default(e[k].end, Five)]
  BY DEF F!ExceptionRows, F!ExceptionRow
<1>3. back = [k \in DOMAIN r |-> back[k]] /\ \A k \in DOMAIN r : back[k] =
        [date |-> r[k].date, closed |-> r[k].closed, start |-> F!Hours(r[k], r[k].closed).start, end |-> F!Hours(r[k], r[k].closed).end]
  BY DEF F!ReadExceptions
<1> HIDE DEF r, back
<1>4. ASSUME NEW k \in DOMAIN e
      PROVE /\ r[k] \in F!ExceptionLines /\ back[k] = e[k] /\ r[k].date = e[k].date /\ r[k].closed = e[k].closed
            /\ ~r[k].closed => F!Ordered(r[k].start, r[k].end)
  <2>1. e[k] \in [date : F!Dates, closed : BOOLEAN, start : F!Times, end : F!Times]
    BY <1>1 DEF F!ExceptionLines
  <2>2. F!Default(e[k].start, Nine) \in F!Times /\ F!Default(e[k].end, Five) \in F!Times
    BY <2>1, SettingsAssumption DEF F!Default, F!Times
  <2>3. r[k] \in F!ExceptionLines /\ r[k].date = e[k].date /\ r[k].closed = e[k].closed
    BY <1>2, <2>1, <2>2 DEF F!ExceptionLines
  <2>4. CASE e[k].closed
    <3>1. back[k] = [date |-> e[k].date, closed |-> e[k].closed, start |-> None, end |-> None]
      BY <1>2, <1>3, <2>3, <2>4 DEF F!Hours, F!Window
    <3>2. e[k].start = None /\ e[k].end = None
      BY <2>4 DEF F!NoHours
    <3>3. back[k] = e[k]
      BY <2>1, <3>1, <3>2
    <3> QED BY <2>3, <2>4, <3>3
  <2>5. CASE ~e[k].closed
    <3>1. F!Ordered(e[k].start, e[k].end)
      BY <2>5
    <3>2. r[k].start = e[k].start /\ r[k].end = e[k].end
      BY <1>2, <3>1 DEF F!Default, F!Ordered
    <3>3. back[k] = [date |-> e[k].date, closed |-> e[k].closed, start |-> e[k].start, end |-> e[k].end]
      BY <1>2, <1>3, <2>3, <2>5, <3>2 DEF F!Hours, F!Window
    <3>4. back[k] = e[k]
      BY <2>1, <3>3
    <3> QED BY <2>3, <3>1, <3>2, <3>4
  <2> QED BY <2>4, <2>5
<1>5. r \in Seq(F!ExceptionLines)
  <2>1. r \in [1..Len(e) -> F!ExceptionLines]
    BY <1>1, <1>2, <1>4
  <2> QED BY <1>1, <2>1
<1>6. back = e
  <2>1. e = [k \in DOMAIN e |-> e[k]]
    OBVIOUS
  <2> QED BY <1>2, <1>3, <1>4, <2>1
<1>7. ~F!ExceptionProblem(r)
  <2>1. ASSUME NEW k \in DOMAIN r
        PROVE F!Has(r[k].date) /\ ~(\E j \in DOMAIN r : j < k /\ r[j].date = r[k].date) /\ ~(~r[k].closed /\ ~F!Ordered(r[k].start, r[k].end))
    <3>1. \A j \in DOMAIN r : r[j].date = r[k].date => j = k
      BY <1>2, <1>4
    <3>2. \A j \in DOMAIN r : ~(j < k /\ r[j].date = r[k].date)
      BY <1>1, <1>2, <3>1
    <3> QED BY <1>2, <1>4, <3>2
  <2> QED BY <2>1 DEF F!ExceptionProblem
<1> QED BY <1>5, <1>6, <1>7 DEF r, back

\* A row of time off, and the block that is read from it.
RowOf(row, kind, weekday, date, block, start, end) ==
  row = [kind |-> kind, weekday |-> weekday, date |-> date, allDay |-> block.allDay, start |-> F!Default(block.start, start), end |-> F!Default(block.end, end)]
LEMMA TimeOffRow ==
  ASSUME NEW kind \in {"weekly", "date"}, NEW weekdays, NEW dates, NEW block \in F!Blocks(weekdays, dates),
         F!NoHours(block, block.allDay), block.allDay \/ F!Ordered(block.start, block.end),
         NEW weekday \in F!Weekdays, NEW date \in F!Dates, NEW start \in F!Clock, NEW end \in F!Clock, NEW row,
         RowOf(row, kind, weekday, date, block, start, end),
         block.weekday = IF kind = "weekly" THEN weekday ELSE None, block.date = IF kind = "date" THEN date ELSE None
  PROVE /\ row \in F!TimeOffLines /\ row.kind = kind /\ row.date = date /\ (row.allDay \/ F!Ordered(row.start, row.end))
        /\ block = [weekday |-> IF kind = "weekly" THEN row.weekday ELSE None, date |-> IF kind = "date" THEN row.date ELSE None,
                    allDay |-> row.allDay, start |-> F!Hours(row, row.allDay).start, end |-> F!Hours(row, row.allDay).end]
<1>1. block \in [weekday : weekdays, date : dates, allDay : BOOLEAN, start : F!Times, end : F!Times]
  BY DEF F!Blocks
<1>2. F!Default(block.start, start) \in F!Times /\ F!Default(block.end, end) \in F!Times
  BY <1>1 DEF F!Default, F!Times
<1>3. row = [kind |-> kind, weekday |-> weekday, date |-> date, allDay |-> block.allDay, start |-> F!Default(block.start, start), end |-> F!Default(block.end, end)]
  BY DEF RowOf
<1>4. row \in F!TimeOffLines /\ row.kind = kind /\ row.date = date /\ row.weekday = weekday /\ row.allDay = block.allDay
  BY <1>1, <1>2, <1>3 DEF F!TimeOffLines
<1>5. block = [weekday |-> block.weekday, date |-> block.date, allDay |-> block.allDay, start |-> block.start, end |-> block.end]
  BY <1>1
<1>6. F!Hours(row, row.allDay).start = block.start /\ F!Hours(row, row.allDay).end = block.end /\ (row.allDay \/ F!Ordered(row.start, row.end))
  <2>1. CASE block.allDay
    <3>1. block.start = None /\ block.end = None
      BY <2>1 DEF F!NoHours
    <3> QED BY <1>4, <2>1, <3>1 DEF F!Hours, F!Window
  <2>2. CASE ~block.allDay
    <3>1. F!Ordered(block.start, block.end)
      BY <2>2
    <3>2. row.start = block.start /\ row.end = block.end
      BY <1>3, <3>1 DEF F!Default, F!Ordered
    <3> QED BY <1>4, <2>2, <3>1, <3>2 DEF F!Hours, F!Window
  <2> QED BY <2>1, <2>2
<1> QED BY <1>4, <1>5, <1>6

LEMMA BlocksAre ==
  ASSUME NEW b, NEW weekdays, NEW dates, NEW most, BlocksOf(b, weekdays, dates, most)
  PROVE /\ b \in Seq(F!Blocks(weekdays, dates)) /\ Len(b) <= most /\ Len(b) \in Nat /\ DOMAIN b = 1..Len(b)
        /\ \A k \in DOMAIN b : b[k] \in F!Blocks(weekdays, dates) /\ F!NoHours(b[k], b[k].allDay) /\ (b[k].allDay \/ F!Ordered(b[k].start, b[k].end))
<1>1. b \in Seq(F!Blocks(weekdays, dates)) /\ Len(b) <= most
  BY DEF BlocksOf
<1>2. Len(b) \in Nat /\ DOMAIN b = 1..Len(b) /\ \A k \in DOMAIN b : b[k] \in F!Blocks(weekdays, dates)
  BY <1>1
<1> QED BY <1>1, <1>2 DEF BlocksOf

LEMMA TimeOffAgain ==
  ASSUME NEW v, NEW d, BlocksOf(v, F!Weekdays, {None}, 70), BlocksOf(d, {None}, F!PlainDates, 365)
  PROVE LET r == F!TimeOffRows(v, d)
        IN r \in Seq(F!TimeOffLines) /\ ~F!TimeOffProblem(r) /\ F!ReadTimeOff(r, "weekly") = v /\ F!ReadTimeOff(r, "date") = d
<1> DEFINE a == [k \in DOMAIN v |-> F!TimeOffRow("weekly", v[k].weekday, None, v[k].allDay, F!Default(v[k].start, Noon), F!Default(v[k].end, One))]
           b == [k \in DOMAIN d |-> F!TimeOffRow("date", 1, d[k].date, d[k].allDay, F!Default(d[k].start, Noon), F!Default(d[k].end, One))]
           r == F!TimeOffRows(v, d)
           Back(row, kind) == [weekday |-> IF kind = "weekly" THEN row.weekday ELSE None, date |-> IF kind = "date" THEN row.date ELSE None,
                               allDay |-> row.allDay, start |-> F!Hours(row, row.allDay).start, end |-> F!Hours(row, row.allDay).end]
<1>1. /\ v \in Seq(F!Blocks(F!Weekdays, {None})) /\ Len(v) <= 70 /\ Len(v) \in Nat /\ DOMAIN v = 1..Len(v)
      /\ \A k \in DOMAIN v : v[k] \in F!Blocks(F!Weekdays, {None}) /\ F!NoHours(v[k], v[k].allDay) /\ (v[k].allDay \/ F!Ordered(v[k].start, v[k].end))
  BY BlocksAre
<1>2. /\ d \in Seq(F!Blocks({None}, F!PlainDates)) /\ Len(d) <= 365 /\ Len(d) \in Nat /\ DOMAIN d = 1..Len(d)
      /\ \A k \in DOMAIN d : d[k] \in F!Blocks({None}, F!PlainDates) /\ F!NoHours(d[k], d[k].allDay) /\ (d[k].allDay \/ F!Ordered(d[k].start, d[k].end))
  BY BlocksAre
<1>3. r = a \o b
  BY DEF F!TimeOffRows
<1>4. \A k \in DOMAIN v : RowOf(a[k], "weekly", v[k].weekday, None, v[k], Noon, One)
  BY DEF RowOf, F!TimeOffRow
<1>5. \A k \in DOMAIN d : RowOf(b[k], "date", 1, d[k].date, d[k], Noon, One)
  BY DEF RowOf, F!TimeOffRow
<1>6. DOMAIN a = DOMAIN v /\ a = [k \in DOMAIN v |-> a[k]] /\ DOMAIN b = DOMAIN d /\ b = [k \in DOMAIN d |-> b[k]]
  OBVIOUS
<1> HIDE DEF a, b, r
<1>7. ASSUME NEW k \in DOMAIN v
      PROVE a[k] \in F!TimeOffLines /\ a[k].kind = "weekly" /\ (a[k].allDay \/ F!Ordered(a[k].start, a[k].end)) /\ v[k] = Back(a[k], "weekly")
  <2>1. v[k] \in F!Blocks(F!Weekdays, {None}) /\ F!NoHours(v[k], v[k].allDay) /\ (v[k].allDay \/ F!Ordered(v[k].start, v[k].end))
    BY <1>1
  <2>2. v[k].weekday \in F!Weekdays /\ v[k].date = None /\ None \in F!Dates /\ Noon \in F!Clock /\ One \in F!Clock
    BY <2>1, SettingsAssumption DEF F!Blocks, F!Dates
  <2>3. RowOf(a[k], "weekly", v[k].weekday, None, v[k], Noon, One)
    BY <1>4
  <2> QED BY <2>1, <2>2, <2>3, TimeOffRow
<1>8. ASSUME NEW k \in DOMAIN d
      PROVE /\ b[k] \in F!TimeOffLines /\ b[k].kind = "date" /\ (b[k].allDay \/ F!Ordered(b[k].start, b[k].end)) /\ d[k] = Back(b[k], "date")
            /\ b[k].date \in F!PlainDates
  <2>1. d[k] \in F!Blocks({None}, F!PlainDates) /\ F!NoHours(d[k], d[k].allDay) /\ (d[k].allDay \/ F!Ordered(d[k].start, d[k].end))
    BY <1>2
  <2>2. d[k].weekday = None /\ d[k].date \in F!PlainDates /\ d[k].date \in F!Dates /\ 1 \in F!Weekdays /\ Noon \in F!Clock /\ One \in F!Clock
    BY <2>1, SettingsAssumption DEF F!Blocks, F!Dates, F!Weekdays, F!PlainDates
  <2>3. RowOf(b[k], "date", 1, d[k].date, d[k], Noon, One)
    BY <1>5
  <2>4. b[k] \in F!TimeOffLines /\ b[k].kind = "date" /\ b[k].date = d[k].date /\ (b[k].allDay \/ F!Ordered(b[k].start, b[k].end)) /\ d[k] = Back(b[k], "date")
    BY <2>1, <2>2, <2>3, TimeOffRow
  <2>5. b[k].date \in F!PlainDates
    BY <2>2, <2>4
  <2> QED BY <2>4, <2>5
<1>9. a \in Seq(F!TimeOffLines) /\ Len(a) = Len(v) /\ b \in Seq(F!TimeOffLines) /\ Len(b) = Len(d)
  <2>1. a \in [1..Len(v) -> F!TimeOffLines]
    BY <1>1, <1>6, <1>7
  <2>2. b \in [1..Len(d) -> F!TimeOffLines]
    BY <1>2, <1>6, <1>8
  <2> QED BY <1>1, <1>2, <2>1, <2>2
<1>10. /\ r \in Seq(F!TimeOffLines) /\ DOMAIN r = 1..(Len(v) + Len(d))
       /\ \A k \in DOMAIN v : k \in DOMAIN r /\ r[k] = a[k]
       /\ \A k \in DOMAIN d : Len(v) + k \in DOMAIN r /\ r[Len(v) + k] = b[k]
       /\ \A n \in DOMAIN r : n \in DOMAIN v \/ n - Len(v) \in DOMAIN d
  <2>1. r \in Seq(F!TimeOffLines) /\ DOMAIN r = 1..(Len(v) + Len(d))
    <3>1. r \in Seq(F!TimeOffLines) /\ Len(r) = Len(a) + Len(b)
      BY <1>3, <1>9
    <3> QED BY <1>9, <3>1
  <2>2. \A n \in 1..(Len(v) + Len(d)) : r[n] = IF n <= Len(v) THEN a[n] ELSE b[n - Len(v)]
    BY <1>3, <1>9
  <2>3. \A k \in DOMAIN v : k \in DOMAIN r /\ r[k] = a[k]
    BY <1>1, <1>2, <2>1, <2>2
  <2>4. ASSUME NEW k \in DOMAIN d PROVE Len(v) + k \in DOMAIN r /\ r[Len(v) + k] = b[k]
    <3>1. Len(v) + k \in DOMAIN r /\ ~(Len(v) + k <= Len(v)) /\ (Len(v) + k) - Len(v) = k
      BY <1>1, <1>2, <2>1
    <3> QED BY <2>1, <2>2, <3>1
  <2>5. \A n \in DOMAIN r : n \in DOMAIN v \/ n - Len(v) \in DOMAIN d
    BY <1>1, <1>2, <2>1
  <2> QED BY <2>1, <2>3, <2>4, <2>5
<1> DEFINE W == F!OfKind(r, "weekly")
           D == F!OfKind(r, "date")
           p == [k \in 1..Len(v) |-> k]
           q == [k \in 1..Len(d) |-> Len(v) + k]
<1>11. W = DOMAIN v
  <2>1. \A n \in DOMAIN r : r[n].kind = "weekly" <=> n \in DOMAIN v
    <3> TAKE n \in DOMAIN r
    <3>1. CASE n \in DOMAIN v
      BY <1>7, <1>10, <3>1
    <3>2. CASE n \notin DOMAIN v
      <4>1. PICK k \in DOMAIN d : k = n - Len(v)
        BY <1>10, <3>2
      <4>2. n = Len(v) + k
        BY <1>1, <1>2, <1>10, <4>1
      <4>3. r[n].kind = "date"
        BY <1>8, <1>10, <4>2
      <4> QED BY <3>2, <4>3
    <3> QED BY <3>1, <3>2
  <2> QED BY <1>10, <2>1 DEF F!OfKind
<1>12. D = {Len(v) + k : k \in DOMAIN d}
  <2>1. \A n \in DOMAIN r : r[n].kind = "date" <=> \E k \in DOMAIN d : n = Len(v) + k
    <3> TAKE n \in DOMAIN r
    <3>1. CASE n \in DOMAIN v
      <4>1. r[n].kind = "weekly"
        BY <1>7, <1>10, <3>1
      <4> QED BY <1>1, <1>2, <3>1, <4>1
    <3>2. CASE n \notin DOMAIN v
      <4>1. PICK k \in DOMAIN d : k = n - Len(v)
        BY <1>10, <3>2
      <4>2. n = Len(v) + k
        BY <1>1, <1>2, <1>10, <4>1
      <4>3. r[n].kind = "date"
        BY <1>8, <1>10, <4>2
      <4> QED BY <4>2, <4>3
    <3> QED BY <3>1, <3>2
  <2>2. D = {n \in DOMAIN r : r[n].kind = "date"}
    BY DEF F!OfKind
  <2> HIDE DEF D
  <2> QED BY <1>10, <2>1, <2>2
<1>13. p \in Seq(W) /\ DOMAIN p = DOMAIN v /\ Upward(p, W)
  <2> HIDE DEF W
  <2>1. p \in Seq(W) /\ DOMAIN p = DOMAIN v
    BY <1>1, <1>11
  <2> QED BY <1>1, <1>11, <2>1 DEF Upward
<1>14. q \in Seq(D) /\ DOMAIN q = DOMAIN d /\ Upward(q, D)
  <2> HIDE DEF D
  <2>1. q \in [1..Len(d) -> D] /\ DOMAIN q = DOMAIN d
    BY <1>2, <1>12
  <2>2. q \in Seq(D)
    BY <1>2, <2>1
  <2>3. \A x \in D : \E n \in DOMAIN q : q[n] = x
    BY <1>2, <1>12
  <2>4. \A m, n \in DOMAIN q : m < n => q[m] < q[n]
    BY <1>1, <1>2
  <2> QED BY <2>1, <2>2, <2>3, <2>4 DEF Upward
<1>15. \A n \in DOMAIN v : p[n] = n
  BY <1>1
<1>16. \A n \in DOMAIN d : q[n] = Len(v) + n
  BY <1>2
<1>17. W \in SUBSET DOMAIN r /\ D \in SUBSET DOMAIN r
  BY DEF F!OfKind
<1> HIDE DEF W, D, p, q
<1>18. IsFiniteSet(W) /\ W \in SUBSET Nat /\ IsFiniteSet(D) /\ D \in SUBSET Nat
  BY <1>10, <1>17, Positions
<1>19. F!At(r, W) = [n \in DOMAIN p |-> r[p[n]]] /\ F!At(r, D) = [n \in DOMAIN q |-> r[q[n]]]
  BY <1>13, <1>14, <1>18, AtOnly
<1>20. F!At(r, W) = a
  <2>1. \A n \in DOMAIN p : r[p[n]] = a[n]
    BY <1>10, <1>13, <1>15
  <2> QED BY <1>6, <1>13, <1>19, <2>1
<1>21. F!At(r, D) = b
  <2>1. \A n \in DOMAIN q : r[q[n]] = b[n]
    BY <1>10, <1>14, <1>16
  <2> QED BY <1>6, <1>14, <1>19, <2>1
<1>22. Cardinality(W) = Len(v) /\ Cardinality(D) = Len(d)
  <2>1. Len(F!At(r, W)) = Cardinality(W) /\ Len(F!At(r, D)) = Cardinality(D)
    BY <1>10, <1>17, AtIs
  <2> QED BY <1>9, <1>20, <1>21, <2>1
<1>23. ~F!TimeOffProblem(r)
  <2>1. ~(F!Cardinality(W) > F!Most.blockedWeekly) /\ ~(F!Cardinality(D) > F!Most.blockedDates)
    <3>1. F!Most.blockedWeekly = 70 /\ F!Most.blockedDates = 365
      BY DEF F!Most
    <3> QED BY <1>1, <1>2, <1>22, <3>1, SameCount
  <2>2. ASSUME NEW n \in DOMAIN r PROVE ~(r[n].kind = "date" /\ r[n].date \notin F!PlainDates) /\ ~(~r[n].allDay /\ ~F!Ordered(r[n].start, r[n].end))
    <3>1. CASE n \in DOMAIN v
      <4>1. r[n] = a[n] /\ a[n].kind = "weekly" /\ (a[n].allDay \/ F!Ordered(a[n].start, a[n].end))
        BY <1>7, <1>10, <3>1
      <4> QED BY <4>1
    <3>2. CASE n \notin DOMAIN v
      <4>1. PICK k \in DOMAIN d : k = n - Len(v)
        BY <1>10, <3>2
      <4>2. n = Len(v) + k
        BY <1>1, <1>2, <1>10, <4>1
      <4> QED BY <1>8, <1>10, <4>2
    <3> QED BY <3>1, <3>2
  <2> QED BY <2>1, <2>2 DEF F!TimeOffProblem, W, D
<1>24. F!ReadTimeOff(r, "weekly") = v
  <2>1. F!ReadTimeOff(r, "weekly") = [k \in DOMAIN a |-> Back(a[k], "weekly")]
    BY <1>20 DEF F!ReadTimeOff, W
  <2>2. v = [k \in DOMAIN v |-> v[k]]
    BY <1>1
  <2> HIDE DEF Back
  <2> QED BY <1>6, <1>7, <2>1, <2>2
<1>25. F!ReadTimeOff(r, "date") = d
  <2>1. F!ReadTimeOff(r, "date") = [k \in DOMAIN b |-> Back(b[k], "date")]
    BY <1>21 DEF F!ReadTimeOff, D
  <2>2. d = [k \in DOMAIN d |-> d[k]]
    BY <1>2
  <2> HIDE DEF Back
  <2> QED BY <1>6, <1>8, <2>1, <2>2
<1> QED BY <1>10, <1>23, <1>24, <1>25 DEF r

\* Settings as they are stored have rows without a problem but for the time zone, and come back from them.
LEMMA RenderedAgain ==
  ASSUME NEW v, F!Written(v), F!Accepts(v)
  PROVE F!Rendered(v) \in F!Sheets /\ (F!Problem(F!Rendered(v)) => v.zone \notin PageZones) /\ F!Read(F!Rendered(v)) = v
<1>1. /\ v.weekly \in Seq(F!Entries) /\ v.exceptions \in Seq(F!ExceptionLines)
      /\ v.blockedWeekly \in Seq(F!Blocks(F!Weekdays, {None})) /\ v.blockedDates \in Seq(F!Blocks({None}, F!PlainDates))
      /\ v.zone \in TimeZones
      /\ v = [zone |-> v.zone, weekly |-> v.weekly, exceptions |-> v.exceptions, blockedWeekly |-> v.blockedWeekly, blockedDates |-> v.blockedDates]
  <2>1. v \in F!Plans
    BY DEF F!Written
  <2> QED BY <2>1 DEF F!Plans
<1>2. F!WeeklyRows(v.weekly) \in DayRows /\ ~F!WeeklyProblem(F!WeeklyRows(v.weekly)) /\ F!ReadWeekly(F!WeeklyRows(v.weekly)) = v.weekly
  <2>1. \A j, k \in DOMAIN v.weekly : j < k => F!Before(v.weekly[j], v.weekly[k])
    BY DEF F!Written
  <2>2. /\ \A k \in DOMAIN v.weekly : F!Ordered(v.weekly[k].start, v.weekly[k].end)
        /\ \A j, k \in DOMAIN v.weekly : j # k => ~F!Overlap(v.weekly[j], v.weekly[k])
    BY DEF F!Accepts
  <2> QED BY <1>1, <2>1, <2>2, WeekAgain
<1>3. /\ F!ExceptionRows(v.exceptions) \in Seq(F!ExceptionLines) /\ ~F!ExceptionProblem(F!ExceptionRows(v.exceptions))
      /\ F!ReadExceptions(F!ExceptionRows(v.exceptions)) = v.exceptions
  <2>1. \A k \in DOMAIN v.exceptions : F!NoHours(v.exceptions[k], v.exceptions[k].closed)
    BY DEF F!Written
  <2>2. /\ \A j, k \in DOMAIN v.exceptions : v.exceptions[j].date = v.exceptions[k].date => j = k
        /\ \A k \in DOMAIN v.exceptions : F!Has(v.exceptions[k].date) /\ (~v.exceptions[k].closed => F!Ordered(v.exceptions[k].start, v.exceptions[k].end))
    BY SettingsAssumption DEF F!Accepts, F!PlainDates, F!Has
  <2> QED BY <1>1, <2>1, <2>2, ExceptionsAgain
<1>4. \A blocks \in {v.blockedWeekly, v.blockedDates} : \A k \in DOMAIN blocks :
        F!NoHours(blocks[k], blocks[k].allDay) /\ (blocks[k].allDay \/ F!Ordered(blocks[k].start, blocks[k].end))
  BY DEF F!Written, F!Accepts
<1>5. Len(v.blockedWeekly) <= 70 /\ Len(v.blockedDates) <= 365
  BY DEF F!Accepts, F!Most
<1> DEFINE t == F!TimeOffRows(v.blockedWeekly, v.blockedDates)
<1>6. t \in Seq(F!TimeOffLines) /\ ~F!TimeOffProblem(t) /\ F!ReadTimeOff(t, "weekly") = v.blockedWeekly /\ F!ReadTimeOff(t, "date") = v.blockedDates
  <2>1. BlocksOf(v.blockedWeekly, F!Weekdays, {None}, 70)
    BY <1>1, <1>4, <1>5 DEF BlocksOf
  <2>2. BlocksOf(v.blockedDates, {None}, F!PlainDates, 365)
    BY <1>1, <1>4, <1>5 DEF BlocksOf
  <2> QED BY <2>1, <2>2, TimeOffAgain
<1> HIDE DEF t
<1>7. F!Rendered(v) = [zone |-> v.zone, days |-> F!WeeklyRows(v.weekly), exceptions |-> F!ExceptionRows(v.exceptions), timeOff |-> t]
  BY DEF F!Rendered, t
<1>8. F!Rendered(v) \in F!Sheets
  BY <1>1, <1>2, <1>3, <1>6, <1>7 DEF F!Sheets, DayRows
<1>9. F!Problem(F!Rendered(v)) => v.zone \notin PageZones
  BY <1>2, <1>3, <1>6, <1>7 DEF F!Problem
<1>10. F!Read(F!Rendered(v)) = v
  BY <1>1, <1>2, <1>3, <1>6, <1>7 DEF F!Read
<1> QED BY <1>8, <1>9, <1>10

-----------------------------------------------------------------------------
(* The form and the server                                                 *)

\* Settings as the page writes them and the server accepts them.
Agreed(v) == F!Written(v) /\ F!Accepts(v)
\* A call, whether it is still waited for or not, saves what the form has written and is answered with what was accepted.
Saves(c) ==
  /\ c.op = "saveSettings" => F!Written(c.arg)
  /\ c.op \in {"settings", "saveSettings"} /\ c.status = "ok" => Agreed(c.answer.value)
SavingCalls(V) == {c \in Records(V) : Saves(c)}
SavesOnly(n) == \E V : ShellArgs \subseteq V /\ n \in Nets(SavingCalls(V))

FormInv ==
  /\ Agreed(saved.value) /\ SavesOnly(net)
  /\ settings # None \/ rows # None => rows \in F!Sheets
  /\ settings # None => Agreed(settings.value) /\ (~dirty => rows = F!Rendered(settings.value))

-----------------------------------------------------------------------------
\* What is known of such a net, and what makes one.
LEMMA SavingNet ==
  ASSUME NEW V, NEW n \in Nets(SavingCalls(V))
  PROVE /\ n.calls \in Seq(SavingCalls(V)) /\ n.busy \subseteq Flags /\ n = [calls |-> n.calls, busy |-> n.busy]
        /\ \A i \in DOMAIN n.calls : n.calls[i] \in SavingCalls(V)
        /\ \A calls \in Seq(SavingCalls(V)) : \A b : [calls |-> calls, busy |-> n.busy \ b] \in Nets(SavingCalls(V))
<1> DEFINE S == SavingCalls(V)
<1> HIDE DEF S
<1>1. n.calls \in Seq(S) /\ n.busy \subseteq Flags /\ n = [calls |-> n.calls, busy |-> n.busy]
  BY DEF Nets, S
<1>2. \A i \in DOMAIN n.calls : n.calls[i] \in S
  BY <1>1
<1>3. \A calls \in Seq(S) : \A b : [calls |-> calls, busy |-> n.busy \ b] \in Nets(S)
  BY <1>1 DEF Nets
<1> QED BY <1>1, <1>2, <1>3 DEF S

\* Whether it is waited for does not matter to what a call saves.
LEMMA SavingLower ==
  ASSUME NEW V, NEW c \in SavingCalls(V), NEW s \in Standings
  PROVE [c EXCEPT !.standing = s] \in SavingCalls(V)
<1>1. PICK d : d = [c EXCEPT !.standing = s]
  OBVIOUS
<1>2. c \in Records(V) /\ Saves(c)
  BY DEF SavingCalls
<1>3. d \in Records(V) /\ d.op = c.op /\ d.arg = c.arg /\ d.status = c.status /\ d.answer = c.answer
  BY <1>1, <1>2 DEF Records
<1>4. Saves(d)
  BY <1>2, <1>3 DEF Saves
<1> QED BY <1>1, <1>3, <1>4 DEF SavingCalls

\* A call that begins is not answered yet.
LEMMA SavingNew ==
  ASSUME NEW V, None \in V, NEW op \in Ops, NEW arg \in V, NEW then \in Thens, op = "saveSettings" => F!Written(arg)
  PROVE Call(op, arg, then) \in SavingCalls(V)
<1>1. PICK c : c = Call(op, arg, then)
  OBVIOUS
<1>2. c.op = op /\ c.arg = arg /\ c.status = "sent" /\ c.answer = None /\ c \in Records(V)
  BY <1>1 DEF Call, Records, Standings, Outcomes
<1>3. Saves(c)
  BY <1>2 DEF Saves
<1> QED BY <1>1, <1>2, <1>3 DEF SavingCalls

LEMMA SavingBegin ==
  ASSUME NEW V, NEW n \in Nets(SavingCalls(V)), NEW op \in Ops, NEW arg, NEW then, Call(op, arg, then) \in SavingCalls(V)
  PROVE Begin(n, op, arg, then) \in Nets(SavingCalls(V))
<1> DEFINE S == SavingCalls(V)
<1>1. ASSUME NEW ops PROVE \A c \in S : (IF c.op \in ops /\ c.standing = "live" THEN [c EXCEPT !.standing = "superseded"] ELSE c) \in S
  BY SavingLower DEF Standings
<1>2. n.calls \in Seq(S) /\ n.busy \subseteq Flags /\ Call(op, arg, then) \in S
  BY SavingNet
<1> HIDE DEF S
<1>3. PICK old : old = Superseded(n.calls, Supersedes[op])
  OBVIOUS
<1>4. old \in Seq(S)
  BY <1>1, <1>2, <1>3, SupersededIn
<1>5. Append(old, Call(op, arg, then)) \in Seq(S)
  BY <1>2, <1>4
<1>6. (n.busy \ (Supersedes[op] \ {"bookings"})) \cup ({op} \cap Flags) \subseteq Flags
  BY <1>2
<1>7. Begin(n, op, arg, then) \in Nets(S)
  BY <1>3, <1>5, <1>6 DEF Begin, Nets
<1> QED BY <1>7 DEF S

\* What the page does with its calls leaves what they save.
LEMMA SavingClosed ==
  ASSUME NEW V, ShellArgs \subseteq V
  PROVE Closed(Nets(SavingCalls(V)))
<1> DEFINE S == SavingCalls(V)
           Q == Nets(SavingCalls(V))
<1>1. \A n \in Q : n.calls \in Seq(S) /\ n.busy \ {} = n.busy /\ \A i \in DOMAIN n.calls : n.calls[i] \in S
  BY SavingNet
<1>2. \A n \in Q, calls \in Seq(S) : \A b : [calls |-> calls, busy |-> n.busy \ b] \in Q
  BY SavingNet
<1>3. \A c \in S : [c EXCEPT !.standing = "stale"] \in S
  BY SavingLower DEF Standings
<1>4. \A ops : \A c \in S : (IF c.op \in ops /\ c.standing = "live" THEN [c EXCEPT !.standing = "superseded"] ELSE c) \in S
  BY SavingLower DEF Standings
<1>5. ASSUME NEW op \in Ops \ Orders, NEW arg \in ShellArgs, NEW then \in Thens PROVE Call(op, arg, then) \in S
  <2>1. None \in V /\ arg \in V /\ op # "saveSettings"
    BY DEF ShellArgs, Orders
  <2> QED BY <2>1, SavingNew
<1>6. ASSUME NEW n \in Q, NEW op \in Ops \ Orders, NEW arg \in ShellArgs, NEW then \in Thens PROVE Begin(n, op, arg, then) \in Q
  BY <1>5, SavingBegin
<1>7. {"configure", "disconnect"} \subseteq Ops \ Orders /\ "" \in Thens
  BY DEF Ops, GoogleOps, Orders, Thens
<1> HIDE DEF S, Q
<1>8. ASSUME NEW n \in Q, NEW b PROVE [calls |-> n.calls, busy |-> n.busy \ b] \in Q
  BY <1>1, <1>2
<1>9. ASSUME NEW n \in Q, NEW b, NEW ops PROVE [calls |-> Superseded(n.calls, ops), busy |-> n.busy \ b] \in Q
  <2>1. Superseded(n.calls, ops) \in Seq(S)
    BY <1>1, <1>4, SupersededIn
  <2> QED BY <1>2, <2>1
<1>10. ASSUME NEW n \in Q, NEW b PROVE [calls |-> Stale(n.calls), busy |-> n.busy \ b] \in Q
  <2>1. Stale(n.calls) \in Seq(S)
    BY <1>1, <1>3, StaleIn
  <2> QED BY <1>2, <2>1
<1>11. ASSUME NEW n \in Q, NEW i \in DOMAIN n.calls, NEW b PROVE [calls |-> RemoveAt(n.calls, i), busy |-> n.busy \ b] \in Q
  <2>1. RemoveAt(n.calls, i) \in Seq(S)
    BY <1>1, RemoveAtIn
  <2> QED BY <1>2, <2>1
<1>12. ASSUME NEW n \in Q, NEW i \in DOMAIN n.calls, NEW d \in S, NEW b PROVE [calls |-> [n.calls EXCEPT ![i] = d], busy |-> n.busy \ b] \in Q
  <2>1. [n.calls EXCEPT ![i] = d] \in Seq(S)
    BY <1>1, SetIn
  <2> QED BY <1>2, <2>1
<1>13. ASSUME NEW n \in Q, NEW i \in DOMAIN n.calls, NEW b
       PROVE [calls |-> [n.calls EXCEPT ![i] = [n.calls[i] EXCEPT !.standing = "stale"]], busy |-> n.busy \ b] \in Q
  <2>1. [n.calls[i] EXCEPT !.standing = "stale"] \in S
    BY <1>1, <1>3
  <2> QED BY <1>12, <2>1
<1>14. ASSUME NEW n \in Q, NEW op \in {"configure", "disconnect"}, NEW arg \in ShellArgs, NEW i \in DOMAIN n.calls
       PROVE [calls |-> [n.calls EXCEPT ![i] = Call(op, arg, "")], busy |-> n.busy] \in Q
  <2>1. Call(op, arg, "") \in S
    BY <1>5, <1>7
  <2>2. [calls |-> [n.calls EXCEPT ![i] = Call(op, arg, "")], busy |-> n.busy \ {}] \in Q
    BY <1>12, <2>1
  <2> QED BY <1>1, <2>2
<1>15. Closed(Q)
  BY <1>6, <1>8, <1>9, <1>10, <1>11, <1>13, <1>14 DEF Closed
<1> QED BY <1>15 DEF Q

\* More values do no harm.
LEMMA SavingGrows ==
  ASSUME NEW V, NEW W, V \subseteq W
  PROVE Nets(SavingCalls(V)) \subseteq Nets(SavingCalls(W))
<1>1. SavingCalls(V) \subseteq SavingCalls(W)
  BY DEF SavingCalls, Records
<1> QED BY <1>1, NetsGrow

\* An order of the owner saves what the form has written,
LEMMA SavingOrder ==
  ASSUME SavesOnly(net), NEW op \in Ops, NEW arg, op = "saveSettings" => F!Written(arg)
  PROVE SavesOnly(Begin(net, op, arg, ""))
<1>1. PICK V : ShellArgs \subseteq V /\ net \in Nets(SavingCalls(V))
  BY DEF SavesOnly
<1>2. PICK W : W = V \cup {arg}
  OBVIOUS
<1>3. net \in Nets(SavingCalls(W)) /\ ShellArgs \subseteq W /\ None \in W /\ arg \in W /\ "" \in Thens
  BY <1>1, <1>2, SavingGrows DEF ShellArgs, Thens
<1>4. Call(op, arg, "") \in SavingCalls(W)
  BY <1>3, SavingNew
<1> QED BY <1>3, <1>4, SavingBegin DEF SavesOnly

\* and a reply of the server brings what was accepted.
LEMMA SavingReply ==
  ASSUME SavesOnly(net), NEW i \in DOMAIN net.calls, NEW status \in {"ok", "denied", "refused"}, NEW answer, Handled(i, status, answer),
         status = "ok" /\ net.calls[i].op \in {"settings", "saveSettings"} => Agreed(answer.value)
  PROVE SavesOnly(net')
<1>1. PICK V : ShellArgs \subseteq V /\ net \in Nets(SavingCalls(V))
  BY DEF SavesOnly
<1>2. PICK W : W = V \cup {answer}
  OBVIOUS
<1>3. net \in Nets(SavingCalls(W)) /\ ShellArgs \subseteq W /\ answer \in W
  BY <1>1, <1>2, SavingGrows
<1>4. PICK c : c = net.calls[i]
  OBVIOUS
<1>5. net.calls \in Seq(SavingCalls(W)) /\ c \in SavingCalls(W) /\ net = [calls |-> net.calls, busy |-> net.busy]
  BY <1>3, <1>4, SavingNet
<1>6. PICK d : d = [c EXCEPT !.status = status, !.answer = answer]
  OBVIOUS
<1>7. c \in Records(W) /\ Saves(c)
  BY <1>5 DEF SavingCalls
<1>8. d \in Records(W) /\ d.op = c.op /\ d.arg = c.arg /\ d.status = status /\ d.answer = answer
  BY <1>3, <1>6, <1>7 DEF Records, Outcomes
<1>9. d \in SavingCalls(W)
  BY <1>4, <1>7, <1>8 DEF Saves, SavingCalls
<1>10. PICK calls : calls = [net.calls EXCEPT ![i] = d]
  OBVIOUS
<1>11. calls \in Seq(SavingCalls(W))
  BY <1>5, <1>9, <1>10, SetIn
<1>12. [calls |-> calls, busy |-> net.busy \ {}] \in Nets(SavingCalls(W))
  BY <1>3, <1>11, SavingNet
<1>13. net' = [calls |-> calls, busy |-> net.busy \ {}]
  <2>1. net' = [net EXCEPT !.calls[i] = d]
    BY <1>4, <1>6 DEF Handled
  <2>2. [net EXCEPT !.calls[i] = d] = [calls |-> [net.calls EXCEPT ![i] = d], busy |-> net.busy]
    BY <1>5
  <2>3. net.busy \ {} = net.busy
    OBVIOUS
  <2> QED BY <1>10, <2>1, <2>2, <2>3
<1> QED BY <1>3, <1>12, <1>13 DEF SavesOnly

LEMMA SavingIs ==
  ASSUME SavesOnly(net)
  PROVE /\ \E Q : Closed(Q) /\ net \in Q /\ \A n \in Q : SavesOnly(n)
        /\ \A i \in DOMAIN net.calls : Saves(net.calls[i])
<1>1. PICK V : ShellArgs \subseteq V /\ net \in Nets(SavingCalls(V))
  BY DEF SavesOnly
<1>2. Closed(Nets(SavingCalls(V))) /\ \A n \in Nets(SavingCalls(V)) : SavesOnly(n)
  BY <1>1, SavingClosed DEF SavesOnly
<1>3. \A i \in DOMAIN net.calls : net.calls[i] \in SavingCalls(V)
  BY <1>1, SavingNet
<1> QED BY <1>1, <1>2, <1>3 DEF SavingCalls

\* Every step leaves the calls so.
LEMMA SavingStep ==
  ASSUME CoreInv, FormInv, [Next]_vars
  PROVE SavesOnly(net')
<1>0. SavesOnly(net)
  BY DEF FormInv
<1>1. PICK Q : Closed(Q) /\ net \in Q /\ \A n \in Q : SavesOnly(n)
  BY <1>0, SavingIs
<1>2. CASE net' \in Q
  BY <1>1, <1>2
<1>3. ASSUME NEW i \in DOMAIN net.calls, net.calls[i].op \notin {"settings", "saveSettings"}, NEW answer, Replies(i, answer) \/ Refuses(i)
      PROVE SavesOnly(net')
  <2>1. PICK status \in {"ok", "refused"} : \E told : Handled(i, status, told)
    BY <1>3 DEF Replies, Refuses
  <2> QED BY <1>0, <1>3, <2>1, SavingReply
<1>4. ASSUME NEW op \in Ops, NEW arg, op = "saveSettings" => F!Written(arg), net' = Begin(net, op, arg, "") PROVE SavesOnly(net')
  <2>1. SavesOnly(Begin(net, op, arg, ""))
    BY <1>0, <1>4, SavingOrder
  <2> QED BY <1>4, <2>1
<1>5. {"mutate", "invite", "revoke", "remove", "emailSettings", "emailCommand", "saveSettings"} \subseteq Ops
  BY DEF Ops, AccessOps, EmailOps, EmailCommands
<1>6. CASE ShellStep
  <2>1. ASSUME NEW i \in DOMAIN net.calls, SessionServes(i) PROVE SavesOnly(net')
    <3>1. PICK status \in {"ok", "denied", "refused"} : (\E answer : Handled(i, status, answer)) /\ (status = "ok" => net.calls[i].op \in ShellOps)
      BY <2>1, ShellServes
    <3>2. ShellOps \cap {"settings", "saveSettings"} = {}
      BY DEF ShellOps, GoogleOps
    <3> QED BY <1>0, <3>1, <3>2, SavingReply
  <2> QED BY <1>1, <1>2, <1>6, <2>1, ShellIn
<1>7. CASE BookingsNext
  <2>1. ASSUME Mutate PROVE SavesOnly(net')
    BY <1>4, <1>5, <2>1 DEF Mutate
  <2>2. ASSUME NEW i \in DOMAIN net.calls, ServeBookings(i) \/ ServeMutate(i) PROVE SavesOnly(net')
    <3>1. net.calls[i].op \notin {"settings", "saveSettings"}
      BY <2>2 DEF ServeBookings, ServeMutate, Arrives, Is
    <3> QED BY <1>3, <2>2, <3>1 DEF ServeBookings, ServeMutate
  <2> QED BY <1>1, <1>2, <1>7, <2>1, <2>2, BookingsIn
<1>8. CASE AccessNext
  <2>1. ASSUME CreateInvitation \/ RevokeInvitation \/ RemoveMember PROVE SavesOnly(net')
    BY <1>4, <1>5, <2>1 DEF CreateInvitation, RevokeInvitation, RemoveMember
  <2>2. ASSUME NEW i \in DOMAIN net.calls, ServeInvitations(i) \/ ServeMembers(i) PROVE SavesOnly(net')
    <3>1. net.calls[i].op \notin {"settings", "saveSettings"}
      BY <2>2 DEF ServeInvitations, ServeMembers, Arrives, Is
    <3> QED BY <1>3, <2>2, <3>1 DEF ServeInvitations, ServeMembers
  <2> QED BY <1>1, <1>2, <1>8, <2>1, <2>2, AccessIn
<1>9. CASE EmailsNext
  <2>1. ASSUME SaveEmail \/ EmailCommand PROVE SavesOnly(net')
    BY <1>4, <1>5, <2>1 DEF SaveEmail, EmailCommand
  <2>2. ASSUME NEW i \in DOMAIN net.calls, ServeEmails(i) PROVE SavesOnly(net')
    <3>1. net.calls[i].op \notin {"settings", "saveSettings"}
      BY <2>2 DEF ServeEmails, Arrives, Is
    <3> QED BY <1>3, <2>2, <3>1 DEF ServeEmails
  <2> QED BY <1>1, <1>2, <1>9, <2>1, <2>2, EmailsIn
<1>10. CASE SettingsNext
  <2>1. ASSUME SaveSettings PROVE SavesOnly(net')
    <3>1. rows \in F!Sheets /\ ~F!Problem(rows)
      BY <2>1 DEF SaveSettings, Editable, FormInv
    <3>2. F!Written(F!Read(rows))
      BY <3>1, ReadAccepted
    <3> QED BY <1>4, <1>5, <2>1, <3>2 DEF SaveSettings
  <2>2. ASSUME NEW i \in DOMAIN net.calls, ServeSettings(i) PROVE SavesOnly(net')
    <3>1. Saves(net.calls[i]) /\ Agreed(saved.value)
      BY <1>0, SavingIs DEF FormInv
    <3>2. CASE Arrives(i, "settings") /\ Replies(i, saved)
      BY <1>0, <3>1, <3>2, SavingReply DEF Replies
    <3>3. CASE Arrives(i, "saveSettings") /\ F!Accepts(net.calls[i].arg) /\ saved' = [rev |-> saved.rev + 1, value |-> net.calls[i].arg] /\ Replies(i, saved')
      <4>1. saved'.value = net.calls[i].arg
        BY <3>3
      <4>2. Agreed(saved'.value)
        BY <3>1, <3>3, <4>1 DEF Saves, Agreed, Arrives, Is
      <4> QED BY <1>0, <3>3, <4>2, SavingReply DEF Replies
    <3>4. CASE Refuses(i)
      BY <1>0, <3>4, SavingReply DEF Refuses
    <3> QED BY <2>2, <3>2, <3>3, <3>4 DEF ServeSettings
  <2> QED BY <1>1, <1>2, <1>10, <2>1, <2>2, SettingsIn
<1>11. CASE UNCHANGED vars
  BY <1>1, <1>2, <1>11 DEF vars, shellVars
<1> QED BY <1>6, <1>7, <1>8, <1>9, <1>10, <1>11 DEF Next

\* What is shown of settings is a form, and reads as those settings.
LEMMA RendersForm ==
  ASSUME NEW STATE s, Agreed(s.value), Renders(s)
  PROVE rows' \in F!Sheets /\ Agreed(settings'.value) /\ rows' = F!Rendered(settings'.value)
<1>1. settings' = s /\ rows' = F!Rendered(s.value)
  BY DEF Renders
<1>2. F!Rendered(s.value) \in F!Sheets
  BY RenderedAgain DEF Agreed
<1> QED BY <1>1, <1>2

\* The panel's own steps,
LEMMA SettingsForms ==
  ASSUME FormInv, SavesOnly(net'), SettingsNext
  PROVE FormInv'
<1>1. (Agreed(saved.value))' /\ UNCHANGED <<settings, rows, dirty>> => FormInv'
  BY DEF FormInv
<1>2. UNCHANGED saved => (Agreed(saved.value))'
  BY DEF FormInv
<1>3. ASSUME NEW STATE s, Agreed(s.value), Renders(s), UNCHANGED saved PROVE FormInv'
  <2>1. rows' \in F!Sheets /\ Agreed(settings'.value) /\ rows' = F!Rendered(settings'.value)
    BY <1>3, RendersForm
  <2> QED BY <1>2, <1>3, <2>1 DEF FormInv
<1>4. \A i \in DOMAIN net.calls : Saves(net.calls[i])
  BY SavingIs DEF FormInv
<1>5. CASE EditSettings
  <2>1. rows' \in F!Sheets
    BY <1>5, SettingsAssumption DEF EditSettings
  <2>2. dirty' /\ UNCHANGED <<saved, settings>>
    BY <1>5 DEF EditSettings
  <2> QED BY <1>2, <2>1, <2>2 DEF FormInv
<1>6. CASE DiscardSettings
  <2>1. settings # None /\ Renders(settings) /\ UNCHANGED saved
    BY <1>6 DEF DiscardSettings, Editable
  <2>2. Agreed(settings.value)
    BY <2>1 DEF FormInv
  <2> QED BY <1>3, <2>1, <2>2
<1>7. CASE ReloadSettings \/ SaveSettings
  BY <1>1, <1>2, <1>7 DEF ReloadSettings, SaveSettings
<1>8. CASE SettingsChange
  <2>1. PICK value \in FirstSettings : saved' = [rev |-> saved.rev + 1, value |-> value]
    BY <1>8 DEF SettingsChange
  <2>2. saved'.value = value /\ Agreed(value)
    BY <2>1, SettingsAssumption DEF Agreed
  <2>3. Agreed(saved'.value)
    BY <2>2
  <2> QED BY <1>1, <1>8, <2>3 DEF SettingsChange
<1>9. ASSUME NEW i \in DOMAIN net.calls, SettingsAnswered(i) \/ SettingsSaved(i) PROVE FormInv'
  <2>1. Renders(net.calls[i].answer) /\ UNCHANGED saved
    BY <1>9 DEF SettingsAnswered, SettingsSaved
  <2>2. net.calls[i].op \in {"settings", "saveSettings"} /\ net.calls[i].status = "ok"
    BY <1>9 DEF SettingsAnswered, SettingsSaved, Answered, Is
  <2>3. Agreed(net.calls[i].answer.value)
    BY <1>4, <2>2 DEF Saves
  <2> QED BY <1>3, <2>1, <2>3
<1>10. ASSUME NEW i \in DOMAIN net.calls, ServeSettings(i) PROVE FormInv'
  <2>1. UNCHANGED <<settings, rows, dirty>>
    BY <1>10 DEF ServeSettings
  <2>2. CASE UNCHANGED saved
    BY <1>1, <1>2, <2>1, <2>2
  <2>3. CASE Arrives(i, "saveSettings") /\ F!Accepts(net.calls[i].arg) /\ saved' = [rev |-> saved.rev + 1, value |-> net.calls[i].arg]
    <3>1. saved'.value = net.calls[i].arg /\ F!Written(net.calls[i].arg)
      BY <1>4, <2>3 DEF Saves, Arrives, Is
    <3>2. Agreed(saved'.value)
      BY <2>3, <3>1 DEF Agreed
    <3> QED BY <1>1, <2>1, <3>2
  <2> QED BY <1>10, <2>2, <2>3 DEF ServeSettings
<1>11. ASSUME NEW i \in DOMAIN net.calls, NEW op, SettingsFail(i, op) PROVE FormInv'
  BY <1>1, <1>2, <1>11 DEF SettingsFail
<1> QED BY <1>5, <1>6, <1>7, <1>8, <1>9, <1>10, <1>11 DEF SettingsNext

\* and the steps of the others, which leave the form alone or forget it.
LEMMA FormsFollow ==
  ASSUME FormInv, SavesOnly(net'), SettingsFollow
  PROVE FormInv'
<1>1. UNCHANGED saved
  BY DEF SettingsFollow
<1>2. CASE session'.role \in Authenticated
  <2>1. UNCHANGED <<settings, rows, dirty>>
    BY <1>2 DEF SettingsFollow
  <2> QED BY <1>1, <2>1 DEF FormInv
<1>3. CASE session'.role \notin Authenticated
  <2>1. settings' = None /\ rows' = None
    BY <1>3 DEF SettingsFollow
  <2> QED BY <1>1, <2>1 DEF FormInv
<1> QED BY <1>2, <1>3

LEMMA FormsStep ==
  ASSUME CoreInv, FormInv, [Next]_vars
  PROVE FormInv'
<1>1. SavesOnly(net')
  BY SavingStep
<1>2. CASE UNCHANGED vars
  <2>1. UNCHANGED <<saved, settings, rows, dirty>>
    BY <1>2 DEF vars, settingsVars
  <2> QED BY <1>1, <2>1 DEF FormInv
<1>3. CASE SettingsNext
  BY <1>1, <1>3, SettingsForms
<1>4. CASE SettingsFollow
  BY <1>1, <1>4, FormsFollow
<1> QED BY <1>2, <1>3, <1>4 DEF Next, PanelsFollow, OthersFollow

LEMMA FormsStart ==
  Init => FormInv
<1> SUFFICES ASSUME Init PROVE FormInv
  OBVIOUS
<1>1. PICK e \in Entries : net = Started(Empty, e.token)
  BY DEF Init, ShellInit
<1>2. PICK Q : Q = Nets(SavingCalls(ShellArgs))
  OBVIOUS
<1>3. Closed(Q)
  BY <1>2, SavingClosed
<1>4. PICK n : n = Empty
  OBVIOUS
<1>5. n \in Q
  <2>1. PICK S : S = SavingCalls(ShellArgs)
    OBVIOUS
  <2>2. <<>> \in Seq(S) /\ {} \subseteq Flags
    OBVIOUS
  <2> QED BY <1>2, <1>4, <2>1, <2>2 DEF Nets, Empty
<1>6. Started(n, e.token) \in Q
  BY <1>3, <1>5, ClosedStarted
<1>7. SavesOnly(net)
  BY <1>1, <1>2, <1>4, <1>6 DEF SavesOnly
<1>8. saved \in [rev : {0}, value : FirstSettings] /\ settings = None /\ rows = None
  BY DEF Init, SettingsInit
<1>9. Agreed(saved.value)
  BY <1>8, SettingsAssumption DEF Agreed
<1> QED BY <1>7, <1>8, <1>9 DEF FormInv

\* FormAgrees: settings that are shown as they were loaded are read back as the same settings, without a problem but
\* for a time zone that this browser does not know, and what the form finds no problem with the server accepts, but for
\* what only it looks for (renderSettings, readSettings, validateSettings): for every form, time zone, date and number of rows.
THEOREM FormAgreesHolds ==
  Spec => []FormAgrees
<1>1. Init => FormInv
  BY FormsStart
<1>2. BaseInv /\ FormInv /\ [Next]_vars => FormInv'
  BY FormsStep DEF BaseInv, PortalInv
<1>3. FormInv => FormAgrees
  <2> SUFFICES ASSUME FormInv PROVE FormAgrees
    OBVIOUS
  <2>1. ASSUME settings # None, ~dirty
        PROVE F!Read(rows) = settings.value /\ (F!Problem(rows) => settings.value.zone \notin PageZones)
    <3>1. rows = F!Rendered(settings.value) /\ Agreed(settings.value)
      BY <2>1 DEF FormInv
    <3>2. /\ F!Read(F!Rendered(settings.value)) = settings.value
          /\ F!Problem(F!Rendered(settings.value)) => settings.value.zone \notin PageZones
      BY <3>1, RenderedAgain DEF Agreed
    <3> QED BY <3>1, <3>2
  <2>2. ASSUME rows # None, ~F!Problem(rows) PROVE F!Accepts(F!Read(rows)) \/ F!Unseen(F!Read(rows))
    <3>1. rows \in F!Sheets
      BY <2>2 DEF FormInv
    <3> QED BY <2>2, <3>1, ReadAccepted
  <2> QED BY <2>1, <2>2 DEF FormAgrees
<1> QED BY <1>1, <1>2, <1>3, BaseHolds, PTL DEF Spec

-----------------------------------------------------------------------------
(* The saved hours and what is offered                                     *)

\* The hours of a row that is in order are hours of the clock, and rows that do not overlap are apart.
LEMMA RowHours ==
  ASSUME NEW row, row.start \in F!Times, row.end \in F!Times, F!Ordered(row.start, row.end), DayMinutes = Midnight
  PROVE OpeningOf(row) \in Openings
<1>1. row.start \in F!Clock /\ row.end \in F!Clock /\ row.start < row.end
  BY OrderedTimes
<1>2. row.start \in 0..(DayMinutes - 1) /\ row.end \in 0..(DayMinutes - 1)
  BY <1>1, ScaleAssumption DEF F!Clock
<1> QED BY <1>1, <1>2 DEF Openings, OpeningOf

\* What the page writes and the server accepts are settings by which the times are found (validateSettings and
\* scheduledSlotsWithBusy).
LEMMA AgreedAreReal ==
  ASSUME NEW plan, Agreed(plan), NEW rule \in Rule
  PROVE RealSettings(With(rule, plan))
<1> DEFINE v == With(rule, plan)
<1>1. v.slot \in Nat \ {0} /\ v.buffer \in Nat /\ v.external \in Nat /\ v.notice \in Nat /\ v.horizon \in Nat
  BY DEF With, Rule
<1>2. v.weekly = plan.weekly /\ v.exceptions = plan.exceptions
  BY DEF With
<1> HIDE DEF v
<1>3. plan.weekly \in Seq(F!Entries) /\ plan.exceptions \in Seq(F!ExceptionLines)
  BY DEF Agreed, F!Written, F!Plans
<1>4. /\ \A k \in DOMAIN plan.weekly : F!Ordered(plan.weekly[k].start, plan.weekly[k].end)
      /\ \A j, k \in DOMAIN plan.weekly : j # k => ~F!Overlap(plan.weekly[j], plan.weekly[k])
      /\ \A k \in DOMAIN plan.exceptions : ~plan.exceptions[k].closed => F!Ordered(plan.exceptions[k].start, plan.exceptions[k].end)
  BY DEF Agreed, F!Accepts
<1>5. DayMinutes = Midnight
  BY HoursAssumption
<1>6. \A k \in DOMAIN plan.weekly : plan.weekly[k] \in F!Entries
  BY <1>3
<1>7. ASSUME NEW k \in DOMAIN plan.weekly
      PROVE OpeningOf(plan.weekly[k]) \in Openings /\ plan.weekly[k].start \in Nat /\ plan.weekly[k].end \in Nat
  <2>1. plan.weekly[k].start \in F!Clock /\ plan.weekly[k].end \in F!Clock
    BY <1>6 DEF F!Entries
  <2>2. plan.weekly[k].start \in F!Times /\ plan.weekly[k].end \in F!Times
    BY <2>1 DEF F!Times
  <2>3. plan.weekly[k].start \in Nat /\ plan.weekly[k].end \in Nat
    BY <2>1 DEF F!Clock
  <2> QED BY <1>4, <1>5, <2>2, <2>3, RowHours
<1>8. ASSUME NEW i \in DOMAIN plan.weekly, NEW j \in DOMAIN plan.weekly, i # j, plan.weekly[i].weekday = plan.weekly[j].weekday
      PROVE Off(OpeningOf(plan.weekly[i]), OpeningOf(plan.weekly[j]))
  <2>1. ~(plan.weekly[i].start < plan.weekly[j].end /\ plan.weekly[j].start < plan.weekly[i].end)
    BY <1>4, <1>8 DEF F!Overlap
  <2>2. plan.weekly[j].end <= plan.weekly[i].start \/ plan.weekly[i].end <= plan.weekly[j].start
    BY <1>7, <2>1
  <2> QED BY <2>2 DEF Off, OpeningOf
<1>9. ASSUME NEW k \in DOMAIN plan.exceptions PROVE plan.exceptions[k].closed \/ OpeningOf(plan.exceptions[k]) \in Openings
  <2>1. plan.exceptions[k] \in F!ExceptionLines
    BY <1>3
  <2>2. plan.exceptions[k].start \in F!Times /\ plan.exceptions[k].end \in F!Times
    BY <2>1 DEF F!ExceptionLines
  <2> QED BY <1>4, <1>5, <2>2, RowHours
<1>10. (\E n \in Nat : DOMAIN plan.weekly = 1..n) /\ DOMAIN plan.exceptions \subseteq Nat
  BY <1>3
<1>11. RealSettings(v)
  BY <1>1, <1>2, <1>7, <1>8, <1>9, <1>10 DEF RealSettings
<1> QED BY <1>11 DEF v

\* SavedHoursAreServed: whatever hours the owners save in the portal, the times that are offered by them are right
\* (saveSettings, validateSettings and scheduledSlotsWithBusy), for any settings the server begins with, any forms and
\* rules, in any zones, and for any dates, calendars and requests.
THEOREM SavedHoursAreServedHolds ==
  Spec => []SavedHoursAreServed
<1>1. Init => FormInv
  BY FormsStart
<1>2. BaseInv /\ FormInv /\ [Next]_vars => FormInv'
  BY FormsStep DEF BaseInv, PortalInv
<1>3. FormInv => SavedHoursAreServed
  <2> SUFFICES ASSUME FormInv PROVE Served(saved.value)
    BY DEF SavedHoursAreServed
  <2>1. PICK plan : plan = saved.value
    OBVIOUS
  <2>2. Agreed(plan)
    BY <2>1 DEF FormInv
  <2>3. ASSUME NEW date \in Days, NEW rule \in Rules, NEW zone \in Zones(date), NEW calendar \in Calendars(date), NEW now \in Nows(date)
        PROVE Right(With(rule, plan), zone, date, now, calendar.external, calendar.business)
    <3>1. RealSettings(With(rule, plan))
      BY <2>2, AgreedAreReal, HoursAssumption
    <3>2. RealZone(zone) /\ date \in Int /\ now \in Int /\ Intervals(calendar.external) /\ Intervals(calendar.business)
      BY HoursAssumption
    <3> QED BY <3>1, <3>2, OffersAreRight
  <2> QED BY <2>1, <2>3 DEF Served
<1> QED BY <1>1, <1>2, <1>3, BaseHolds, PTL DEF Spec

=============================================================================
