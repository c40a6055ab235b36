----------------------------- MODULE PortalAccess -----------------------------
(***************************************************************************)
(* The access panel: invitations and their private links, and the people   *)
(* with access.  A link is shown once, for an invitation that must still   *)
(* be good; a list that was asked for before a revocation or a removal     *)
(* must not bring back what the operator has ended.                        *)
(***************************************************************************)
EXTENDS PortalShell

CONSTANTS
  Addresses,  \* addresses that are invited
  People,     \* members that can be removed
  MaxInvites  \* bound: invitations made

ASSUME AccessAssumption == MaxInvites \in Nat

VARIABLES
  issued,        \* server: invitations in the order they were made
  roster,        \* server: how often each of the people joined, and whether they are members
  lapsed,        \* invitations whose time has run out, by the clock everybody shares
  invitations,   \* state.invitations, by number
  link,          \* state.invitationLink, the number of its invitation
  pendingRevoke, \* state.pendingRevokeId
  members,       \* state.members, each with the join it stands for
  pendingRemove, \* state.pendingRemoveId
  settled        \* history: revocations and removals this page has confirmed

directory == <<issued, roster, lapsed>>
invitationVars == <<invitations, link, pendingRevoke>>
memberVars == <<members, pendingRemove>>
accessVars == <<directory, invitationVars, memberVars, settled>>
others == <<part, granted, google, session, view, entry, hidden, leaving, orphaned>>
quiet == <<others, activePanel, poll, faults>>

Ids == 1..MaxInvites
Nothing == <<>>  \* no invitations, no members
Settled == [revoked |-> {}, removed |-> [p \in People |-> 0]]

AccessInit ==
  /\ issued = <<>> /\ lapsed = {}
  /\ roster \in [People -> [joins : {1}, in : IF "members" \in part.does THEN BOOLEAN ELSE {FALSE}]]
  /\ invitations = Nothing /\ link = None /\ pendingRevoke = None
  /\ members = Nothing /\ pendingRemove = None /\ settled = Settled

InPanel == view = "portal" /\ activePanel = "access" /\ session.role = "operator"
Pending(list, id) == id \in DOMAIN list /\ list[id].status = "pending"
Good(list, id) == Pending(list, id) /\ id \notin lapsed
\* Mutant: an offer outlives what it is for.
KeepAlways(x, holds) == x
Keep(x, holds) == IF x # None /\ holds THEN x ELSE None

-----------------------------------------------------------------------------
(* Invitations.                                                            *)
CreateInvitation ==
  /\ InPanel /\ MayBegin(net, session.role, "invite")
  /\ \E address \in Addresses : net' = Begin(net, "invite", address, "")
  /\ link' = None /\ pendingRevoke' = None
  /\ UNCHANGED <<quiet, directory, invitations, memberVars, settled>>

InvitationCreated(i) ==
  /\ Answered(i, "invite")
  /\ LET new == net.calls[i].answer
         old == [id \in DOMAIN invitations |->
                   IF invitations[id].status = "pending" /\ invitations[id].address = new.address
                   THEN [invitations[id] EXCEPT !.status = "revoked"] ELSE invitations[id]]
     IN /\ invitations' = [id \in DOMAIN old \cup {new.id} |->
                             IF id = new.id THEN [address |-> new.address, status |-> "pending"] ELSE old[id]]
        /\ link' = IF activePanel = "access" THEN new.id ELSE link
  /\ net' = Released(i)
  /\ UNCHANGED <<quiet, directory, pendingRevoke, memberVars, settled>>

\* "Revoke", "Keep invitation" and "Hide" of the private link.
AskRevoke ==
  /\ InPanel /\ net.busy \cap Excludes["revoke"] = {}
  /\ \/ \E id \in DOMAIN invitations : Pending(invitations, id) /\ pendingRevoke' = id
     \/ pendingRevoke # None /\ pendingRevoke' = None
  /\ UNCHANGED <<shellVars, directory, invitations, link, memberVars, settled>>

HideLink ==
  /\ link # None /\ link' = None
  /\ UNCHANGED <<shellVars, directory, invitations, pendingRevoke, memberVars, settled>>

RevokeInvitation ==
  /\ InPanel /\ MayBegin(net, session.role, "revoke")
  /\ pendingRevoke # None /\ Pending(invitations, pendingRevoke)
  /\ net' = Begin(net, "revoke", pendingRevoke, "")
  /\ UNCHANGED <<quiet, accessVars>>

InvitationRevoked(i) ==
  /\ Answered(i, "revoke")
  /\ LET id == net.calls[i].arg
     IN /\ invitations' = [k \in DOMAIN invitations |-> IF k = id THEN [invitations[k] EXCEPT !.status = "revoked"] ELSE invitations[k]]
        /\ link' = Keep(link, link # id)
        /\ pendingRevoke' = Keep(pendingRevoke, ~\E k \in DOMAIN invitations' : k = id /\ invitations'[k].status = "revoked")
        /\ settled' = [settled EXCEPT !.revoked = @ \cup {id}]
  /\ net' = Released(i)
  /\ UNCHANGED <<quiet, directory, memberVars>>

InvitationsAnswered(i) ==
  /\ Answered(i, "invitations")
  /\ invitations' = net.calls[i].answer
  /\ link' = Keep(link, Good(invitations', link))
  /\ pendingRevoke' = Keep(pendingRevoke, Good(invitations', pendingRevoke))
  /\ Ends(Released(i), session.role, activePanel, net.calls[i])
  /\ UNCHANGED <<others, faults, directory, memberVars, settled>>

-----------------------------------------------------------------------------
(* People with access.                                                     *)
AskRemove ==
  /\ InPanel /\ "remove" \notin net.busy
  /\ \/ pendingRemove' \in DOMAIN members
     \/ pendingRemove # None /\ pendingRemove' = None
  /\ UNCHANGED <<shellVars, directory, invitationVars, members, settled>>

RemoveMember ==
  /\ InPanel /\ MayBegin(net, session.role, "remove")
  /\ pendingRemove # None /\ pendingRemove \in DOMAIN members
  /\ net' = Begin(net, "remove", pendingRemove, "")
  /\ UNCHANGED <<quiet, accessVars>>

MemberRemoved(i) ==
  /\ Answered(i, "remove")
  /\ LET p == net.calls[i].arg
     IN /\ members' = [q \in DOMAIN members \ {p} |-> members[q]]
        /\ settled' = [settled EXCEPT !.removed = [@ EXCEPT ![p] = net.calls[i].answer]]
  /\ pendingRemove' = None /\ net' = Released(i)
  /\ UNCHANGED <<quiet, directory, invitationVars>>

MembersAnswered(i) ==
  /\ Answered(i, "members")
  /\ members' = net.calls[i].answer
  /\ pendingRemove' = Keep(pendingRemove, pendingRemove \in DOMAIN members')
  /\ Ends(Released(i), session.role, activePanel, net.calls[i])
  /\ UNCHANGED <<others, faults, directory, invitationVars, settled>>

\* A failure leaves the lists, the link and the confirmation that was asked for.
AccessFails(i, op) ==
  /\ Failing(i, op) /\ \E n \in Remains(i) : Ends(n, session.role, activePanel, net.calls[i])
  /\ UNCHANGED <<others, accessVars>>

-----------------------------------------------------------------------------
(* The server.                                                             *)
Reported == [id \in DOMAIN issued |-> IF issued[id].status = "pending" /\ id \in lapsed THEN [issued[id] EXCEPT !.status = "expired"] ELSE issued[id]]
RevokePending(list, address) ==
  [id \in DOMAIN list |-> IF list[id].status = "pending" /\ list[id].address = address THEN [list[id] EXCEPT !.status = "revoked"] ELSE list[id]]

ServeInvitations(i) ==
  /\ granted.role = "operator"
  /\ \/ Arrives(i, "invitations") /\ Replies(i, Reported) /\ UNCHANGED directory
     \/ /\ Arrives(i, "invite") /\ UNCHANGED <<roster, lapsed>>
        /\ IF Len(issued) < MaxInvites
             THEN /\ issued' = Append(RevokePending(issued, net.calls[i].arg), [address |-> net.calls[i].arg, status |-> "pending"])
                  /\ Replies(i, [id |-> Len(issued'), address |-> net.calls[i].arg])
             ELSE Refuses(i) /\ UNCHANGED issued
     \/ /\ Arrives(i, "revoke") /\ UNCHANGED <<roster, lapsed>>
        /\ IF issued[net.calls[i].arg].status # "used"
             THEN issued' = [issued EXCEPT ![net.calls[i].arg] = [@ EXCEPT !.status = "revoked"]] /\ Replies(i, None)
             ELSE Refuses(i) /\ UNCHANGED issued
  /\ UNCHANGED <<quiet, invitationVars, memberVars, settled>>

Present == {p \in People : roster[p].in}
ServeMembers(i) ==
  /\ granted.role = "operator"
  /\ \/ Arrives(i, "members") /\ Replies(i, [p \in Present |-> roster[p].joins]) /\ UNCHANGED directory
     \/ /\ Arrives(i, "remove") /\ UNCHANGED <<issued, lapsed>>
        /\ IF net.calls[i].arg \in Present
             THEN roster' = [roster EXCEPT ![net.calls[i].arg] = [@ EXCEPT !.in = FALSE]] /\ Replies(i, roster[net.calls[i].arg].joins)
             ELSE Refuses(i) /\ UNCHANGED roster
  /\ UNCHANGED <<quiet, invitationVars, memberVars, settled>>

\* Invitations are used or run out; people join, and are removed from another device.
DirectoryChanges ==
  /\ "change" \in part.does
  /\ \/ \E id \in DOMAIN issued : /\ issued[id].status = "pending" /\ id \notin lapsed
                                  /\ issued' = [issued EXCEPT ![id] = [@ EXCEPT !.status = "used"]]
        /\ UNCHANGED <<roster, lapsed>>
     \/ lapsed' \in {lapsed \cup {id} : id \in DOMAIN issued \ lapsed} /\ UNCHANGED <<issued, roster>>
     \/ \E p \in People : /\ "members" \in part.does
                          /\ roster' = [roster EXCEPT ![p] = IF @.in THEN [@ EXCEPT !.in = FALSE] ELSE [in |-> TRUE, joins |-> @.joins + 1]]
                          /\ roster'[p].joins <= MaxChanges
        /\ UNCHANGED <<issued, lapsed>>
  /\ UNCHANGED <<shellVars, invitationVars, memberVars, settled>>

AccessNext ==
  \/ CreateInvitation \/ AskRevoke \/ HideLink \/ RevokeInvitation \/ AskRemove \/ RemoveMember \/ DirectoryChanges
  \/ \E i \in DOMAIN net.calls :
       \/ InvitationCreated(i) \/ InvitationRevoked(i) \/ InvitationsAnswered(i) \/ MemberRemoved(i) \/ MembersAnswered(i)
       \/ (\E op \in AccessOps : AccessFails(i, op)) \/ ServeInvitations(i) \/ ServeMembers(i)

\* What the shell's steps do to the panel: leaving it ends the link and the confirmations,
\* a session that may not manage access ends the lists too.
AccessFollow ==
  LET may == session'.role = "operator"
      stays == may /\ ~(activePanel = "access" /\ activePanel' # "access")
  IN /\ UNCHANGED directory /\ settled' = IF view' = "loading" THEN Settled ELSE settled
     /\ invitations' = IF may THEN invitations ELSE Nothing
     /\ members' = IF may THEN members ELSE Nothing
     /\ link' = Keep(link, stays) /\ pendingRevoke' = Keep(pendingRevoke, stays) /\ pendingRemove' = Keep(pendingRemove, stays)
=============================================================================
