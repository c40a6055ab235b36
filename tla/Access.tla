-------------------------------- MODULE Access --------------------------------
(***************************************************************************)
(* Who may use the owner portal and who may connect Google: the operator,  *)
(* invited members and the account that owns the calendar; their sessions; *)
(* invitations; and the consent flows through Google that establish an     *)
(* operator, admit a member, sign in, or connect the calendar and Gmail.   *)
(*                                                                         *)
(* A consent flow takes several requests.  Everything it checked when it   *)
(* began may have changed when Google answers, and again while it waits    *)
(* for the calendar: members are removed, sessions end, invitations are    *)
(* revoked, grants withdrawn, and an operator is imported by another       *)
(* process.  The flow's last transaction must notice.                      *)
(***************************************************************************)
EXTENDS Naturals

CONSTANTS
  Accounts,       \* Google accounts [sub, email]; sub and email need not be one to one
  Imports,        \* operator policies that may be imported, sub may be None
  Sessions,       \* names of rows of sessions
  Flows,          \* names of rows of oauth_states and of the callbacks that took them
  Invites,        \* names of rows of invitations
  None,           \* the empty string
  MaxJoins,       \* bound: how often one account joins
  MaxWithdrawals, \* bound: disconnections
  GrantsEnd       \* bound: whether Google ends grants by itself

Subjects == {a.sub : a \in Accounts}
Emails == {a.email : a \in Accounts} \cup {p.email : p \in Imports}

Nobody == [sub |-> None, email |-> None]

ASSUME AccessAssumption ==
  /\ \A a \in Accounts : a = [sub |-> a.sub, email |-> a.email]
  /\ \A p \in Imports : p = [sub |-> p.sub, email |-> p.email]
  /\ \A p \in Imports : p.sub \in Subjects \cup {None}
  /\ None \notin Subjects \cup Emails \cup Sessions \cup Invites
  /\ Sessions \cap Flows = {}
  /\ MaxJoins \in Nat /\ MaxWithdrawals \in Nat /\ GrantsEnd \in BOOLEAN

VARIABLES
  operator,    \* operator_identity; its sub is None until the first sign-in binds it
  owner,       \* the account that owns the calendar
  disabled,    \* bootstrap_disabled
  connected,   \* google_tokens are stored
  mail,        \* the account of google_mail_tokens
  mailVersion, \* mail_authorization_version, counted
  members,     \* workspace_members by google_sub
  invitations, \* invitations
  sessions,    \* sessions
  flows,       \* oauth_states, and the callbacks under way
  waiting,     \* requests that passed the check of the session's rights and wait for ops; it is not asked again
  outdated,    \* history: sessions, and flows about to open one, of a member removed since
  withdrawn    \* history: flows begun before the mail grant was last withdrawn

vars == <<operator, owner, disabled, connected, mail, mailVersion, members, invitations, sessions, flows, waiting, outdated, withdrawn>>
google == <<owner, connected, mail, mailVersion>>
history == <<outdated, withdrawn>>

-----------------------------------------------------------------------------
Member == [email : Emails \cup {None}, status : {"none", "active", "revoked"}, version : 0..MaxJoins]
NoMember == [email |-> None, status |-> "none", version |-> 0]

\* A pending invitation past its expiry reads as "expired".
Invitation == [email : Emails, issuer : Subjects, status : {"pending", "expired", "used", "revoked"}]
NoInvitation == [email |-> None, issuer |-> None, status |-> "none"]

Identity == Accounts \cup {Nobody}

\* The stored roles owner and operator are one kind: every use asks again which.
Session == [kind : {"none", "bootstrap", "identity"}, account : Identity, version : 0..MaxJoins]
NoSession == [kind |-> "none", account |-> Nobody, version |-> 0]

\* open: the state is stored and the person is at Google; asked: the callback of
\* a connection took it and asks Google; establishing, connecting: before the transaction that may change
\* the operator or the calendar, the latter holding ops; granted: before
\* newSession; entering: newSession has read the access of actor.
Stages == {"none", "open", "asked", "establishing", "connecting", "granted", "entering"}

Flow == [stage : Stages, purpose : {"none", "signin", "invite", "calendar", "gmail"},
         session : Sessions \cup {None}, actor : Identity, invite : Invites \cup {None},
         mailVersion : 0..MaxWithdrawals, version : 0..MaxJoins]
NoFlow == [stage |-> "none", purpose |-> "none", session |-> None, actor |-> Nobody,
           invite |-> None, mailVersion |-> 0, version |-> 0]

\* The requests that wait for ops: to disconnect the calendar or the mail, and to remove a member.
Requests == [op : {"disconnect", "mailDisconnect", "remove"}, member : Subjects \cup {None}]
ToDisconnect == [op |-> "disconnect", member |-> None]
ToMailDisconnect == [op |-> "mailDisconnect", member |-> None]
ToRemove(m) == [op |-> "remove", member |-> m]

TypeOK ==
  /\ operator \in Accounts \cup Imports \cup {Nobody}
  /\ owner \in Identity
  /\ disabled \in BOOLEAN /\ connected \in BOOLEAN
  /\ mail \in Identity
  /\ mailVersion \in 0..MaxWithdrawals
  /\ members \in [Subjects -> Member]
  /\ invitations \in [Invites -> Invitation \cup {NoInvitation}]
  /\ sessions \in [Sessions -> Session]
  /\ flows \in [Flows -> Flow]
  /\ waiting \subseteq Requests
  /\ outdated \subseteq Sessions \cup Flows
  /\ withdrawn \subseteq Flows

Init ==
  /\ operator = Nobody /\ owner = Nobody
  /\ disabled = FALSE /\ connected = FALSE
  /\ mail = Nobody /\ mailVersion = 0
  /\ members = [s \in Subjects |-> NoMember]
  /\ invitations = [i \in Invites |-> NoInvitation]
  /\ sessions = [s \in Sessions |-> NoSession]
  /\ flows = [f \in Flows |-> NoFlow]
  /\ waiting = {} /\ outdated = {} /\ withdrawn = {}

-----------------------------------------------------------------------------
(* Who has access *)

NoAccess == [role |-> "none", version |-> 0]

\* identityAccess: the role of an account, and the session version that goes with it.
IdentityAccess(a) ==
  IF a = Nobody THEN NoAccess
  ELSE IF a = operator THEN [role |-> "operator", version |-> 0]
  ELSE IF members[a.sub].status # "none"
    THEN IF members[a.sub].status = "active" /\ members[a.sub].email = a.email
           THEN [role |-> "owner", version |-> members[a.sub].version]
           ELSE NoAccess
  ELSE IF a = owner THEN [role |-> "owner", version |-> 0]
  ELSE NoAccess

BootstrapAllowed == ~disabled /\ operator = Nobody /\ owner = Nobody

\* sessionByID finds the session and still accepts it.
Live(s) ==
  \/ sessions[s].kind = "bootstrap" /\ BootstrapAllowed
  \/ /\ sessions[s].kind = "identity"
     /\ IdentityAccess(sessions[s].account).role # "none"
     /\ IdentityAccess(sessions[s].account).version = sessions[s].version

IsOperator(s) ==
  Live(s) /\ sessions[s].kind = "identity" /\ IdentityAccess(sessions[s].account).role = "operator"

CanConnectCalendar(s) ==
  Live(s) /\ (sessions[s].kind = "bootstrap" \/ owner \in {Nobody, sessions[s].account})

CanConnectMail(s) == owner # Nobody /\ sessions[s].account.sub = owner.sub /\ CanConnectCalendar(s)

HasWorkspaceEmail(e) ==
  \/ operator.email = e
  \/ owner.email = e
  \/ \E m \in Subjects : members[m].status = "active" /\ members[m].email = e

\* Mutant: only the operator is protected.
OperatorProtected(m) == m = operator.sub \/ members[m].email = operator.email

\* The operator and the calendar's account, by subject or by address.
MemberProtected(m) ==
  \/ m \in {operator.sub, owner.sub}
  \/ members[m].email \in {operator.email, owner.email}

\* Only Google.connectAuthorized lets go of the processor while it holds ops.
OpsFree == \A f \in Flows : flows[f].stage # "connecting"

\* Mutant: what the callback checked when it was called is enough.
AuthorizedBefore(f) == TRUE

\* authorizeCalendarTx, in the transaction that connects.  A session's row never
\* changes, so it is the flow's actor's while it is there.
AuthorizeCalendarTx(f) ==
  LET session == sessions[flows[f].session]
      account == session.account
      member == members[account.sub]
      isOperator == account = operator
      isMember == member.status = "active" /\ member.email = account.email /\ member.version = session.version
  IN \/ session.kind = "bootstrap" /\ BootstrapAllowed
     \/ session.kind = "identity" /\ owner = Nobody /\ (isOperator \/ isMember)
     \/ /\ session.kind = "identity" /\ owner = account
        /\ IF isOperator \/ member.status = "none" THEN session.version = 0 ELSE isMember

ValidMailVersion(f) == flows[f].mailVersion = mailVersion

-----------------------------------------------------------------------------
(* Sessions and the beginning of a consent flow *)

\* Identifiers are random: a name is used again only when nothing refers to it.
FreshSession(s) == sessions[s].kind = "none" /\ \A f \in Flows : flows[f].session # s

FreshInvite(i) ==
  /\ invitations[i].status \in {"none", "used", "revoked"}
  /\ \A f \in Flows : flows[f].invite # i

Bootstrap(s) ==
  /\ FreshSession(s)
  /\ BootstrapAllowed
  /\ sessions' = [sessions EXCEPT ![s] = [NoSession EXCEPT !.kind = "bootstrap"]]
  /\ UNCHANGED <<operator, google, disabled, members, invitations, flows, waiting, history>>

\* Logging out, and a session reaching its expiry.
EndSession(s) ==
  /\ sessions[s].kind # "none"
  /\ sessions' = [sessions EXCEPT ![s] = NoSession]
  /\ outdated' = outdated \ {s}
  /\ UNCHANGED <<operator, google, disabled, members, invitations, flows, waiting, withdrawn>>

\* beginOAuth
Begin(f, flow) ==
  /\ flows[f] = NoFlow
  /\ flows' = [flows EXCEPT ![f] = flow]
  /\ UNCHANGED <<operator, google, disabled, members, invitations, sessions, waiting, history>>

BeginSignIn(f) ==
  \/ Begin(f, [NoFlow EXCEPT !.stage = "open", !.purpose = "signin"])
  \/ \E s \in Sessions :
       /\ sessions[s].kind = "bootstrap" /\ Live(s)
       /\ Begin(f, [NoFlow EXCEPT !.stage = "open", !.purpose = "signin", !.session = s])

\* handleConnect and handleMailConnect
BeginConnect(f, s) ==
  /\ CanConnectCalendar(s)
  /\ Begin(f, [NoFlow EXCEPT !.stage = "open", !.purpose = "calendar", !.session = s,
                             !.actor = sessions[s].account, !.mailVersion = mailVersion])

BeginMailConnect(f, s) ==
  /\ CanConnectMail(s) /\ connected
  /\ Begin(f, [NoFlow EXCEPT !.stage = "open", !.purpose = "gmail", !.session = s,
                             !.actor = sessions[s].account, !.mailVersion = mailVersion])

\* Mutant: the callback does not look for a revocation.
CheckExpiryAndUse(i) == invitations[i].status \in {"pending", "revoked"}

CheckInvitation(i) == invitations[i].status = "pending"

\* handleInvitationAccept
BeginInvite(f, i) ==
  /\ CheckInvitation(i)
  /\ Begin(f, [NoFlow EXCEPT !.stage = "open", !.purpose = "invite", !.invite = i])

-----------------------------------------------------------------------------
(* The callback *)

End(f) ==
  /\ flows' = [flows EXCEPT ![f] = NoFlow]
  /\ outdated' = outdated \ {f}
  /\ withdrawn' = withdrawn \ {f}

\* handleCallback takes the state out of the table, and before it asks Google
\* about a connection it asks whether the session may still make one.
Consume(f) ==
  /\ flows[f].stage = "open"
  /\ \/ flows[f].purpose = "calendar" /\ CanConnectCalendar(flows[f].session)
     \/ flows[f].purpose = "gmail" /\ CanConnectMail(flows[f].session)
  /\ flows' = [flows EXCEPT ![f].stage = "asked"]
  /\ UNCHANGED <<operator, google, disabled, members, invitations, sessions, waiting, history>>

\* The person declines or leaves, Google fails or does not grant everything,
\* the state expires, a check fails, or the process stops.
Fail(f) ==
  /\ flows[f].stage # "none"
  /\ End(f)
  /\ UNCHANGED <<operator, google, disabled, members, invitations, sessions, waiting>>

\* bindOperatorIdentity: the first sign-in with the policy's address.
Binds(a) == operator.email = a.email /\ operator.sub \in {None, a.sub}

\* Google answers a sign-in; handleCallback binds the policy, and an unknown
\* identity with a live set-up session goes on to establish the operator.
SignInAnswer(f, a) ==
  /\ flows[f].stage = "open" /\ flows[f].purpose = "signin"
  /\ operator.email = a.email => Binds(a)
  /\ operator' = IF Binds(a) THEN a ELSE operator
  /\ IF /\ IdentityAccess(a).role = "none" /\ ~Binds(a)
        /\ flows[f].session # None
     THEN /\ sessions[flows[f].session].kind = "bootstrap" /\ Live(flows[f].session)
          /\ flows' = [flows EXCEPT ![f].stage = "establishing", ![f].actor = a]
     ELSE flows' = [flows EXCEPT ![f].stage = "granted", ![f].actor = a]
  /\ UNCHANGED <<google, disabled, members, invitations, sessions, waiting, history>>

\* Mutant: the live set-up session is enough.
EstablishUnchecked(f) ==
  /\ flows[f].stage = "establishing"
  /\ OpsFree
  /\ sessions[flows[f].session].kind = "bootstrap"
  /\ operator' = flows[f].actor
  /\ disabled' = TRUE
  /\ flows' = [flows EXCEPT ![f].stage = "granted"]
  /\ UNCHANGED <<google, members, invitations, sessions, waiting, history>>

\* establishOperator
EstablishOperator(f) ==
  /\ flows[f].stage = "establishing"
  /\ OpsFree
  /\ BootstrapAllowed
  /\ sessions[flows[f].session].kind = "bootstrap"
  /\ operator' = flows[f].actor
  /\ disabled' = TRUE
  /\ flows' = [flows EXCEPT ![f].stage = "granted"]
  /\ UNCHANGED <<google, members, invitations, sessions, waiting, history>>

\* addWorkspaceMemberTx: a new row, or a revoked row with a new session version.
CanAddMember(a) ==
  \A m \in Subjects : members[m].status # "none" /\ (m = a.sub \/ members[m].email = a.email)
                        => m = a.sub /\ members[m].email = a.email /\ members[m].status = "revoked"

\* Mutant: a member who comes back keeps the session version.
AddMemberAsBefore(a) ==
  [members EXCEPT ![a.sub] = [email |-> a.email, status |-> "active",
                              version |-> IF @.status = "none" THEN @.version + 1 ELSE @.version]]

AddMember(a) ==
  [members EXCEPT ![a.sub] = [email |-> a.email, status |-> "active", version |-> @.version + 1]]

\* claimInvitation
ClaimInvitation(f, a) ==
  LET i == flows[f].invite IN
  /\ flows[f].stage = "open" /\ flows[f].purpose = "invite"
  /\ OpsFree
  /\ CheckInvitation(i)
  /\ operator.sub = invitations[i].issuer
  /\ a.email = invitations[i].email
  /\ ~HasWorkspaceEmail(a.email)
  /\ CanAddMember(a)
  /\ members[a.sub].version < MaxJoins
  /\ members' = AddMember(a)
  /\ invitations' = [invitations EXCEPT ![i].status = "used"]
  /\ disabled' = TRUE
  /\ flows' = [flows EXCEPT ![f].stage = "granted", ![f].actor = a]
  /\ UNCHANGED <<operator, google, sessions, waiting, history>>

\* connectAuthorized until it holds ops and looks for the calendar at Google.
\* Its reply has a refresh token, or one is stored: otherwise it fails.
ConnectAnswer(f, a) ==
  LET s == flows[f].session IN
  /\ flows[f].stage = "asked" /\ flows[f].purpose = "calendar"
  /\ flows[f].actor.sub \in {None, a.sub}
  /\ OpsFree
  /\ CanConnectCalendar(s) /\ sessions[s].account = flows[f].actor
  /\ owner.sub \in {None, a.sub}
  /\ flows' = [flows EXCEPT ![f].stage = "connecting", ![f].actor = a]
  /\ UNCHANGED <<operator, google, disabled, members, invitations, sessions, waiting, history>>

\* The transaction at the end of connectAuthorized.
ConnectCommit(f) ==
  /\ flows[f].stage = "connecting"
  /\ AuthorizeCalendarTx(f)
  /\ ValidMailVersion(f)
  /\ owner' = flows[f].actor
  /\ connected' = TRUE
  /\ mail' = flows[f].actor
  /\ disabled' = TRUE
  /\ flows' = [flows EXCEPT ![f].stage = "granted"]
  /\ UNCHANGED <<operator, mailVersion, members, invitations, sessions, waiting, history>>

\* connectMail
ConnectMail(f) ==
  /\ flows[f].stage = "asked" /\ flows[f].purpose = "gmail"
  /\ OpsFree
  /\ ValidMailVersion(f)
  /\ owner = flows[f].actor
  /\ AuthorizeCalendarTx(f)
  /\ connected
  /\ mail' = flows[f].actor
  /\ flows' = [flows EXCEPT ![f].stage = "granted"]
  /\ UNCHANGED <<operator, owner, connected, mailVersion, disabled, members, invitations, sessions, waiting, history>>

\* newSession reads the access of the actor (after a connection: of the account
\* that then owns the calendar), and then stores the session.
ReadAccess(f) ==
  LET actor == IF flows[f].purpose = "calendar" THEN owner ELSE flows[f].actor IN
  /\ flows[f].stage = "granted"
  /\ IdentityAccess(actor).role # "none"
  /\ flows' = [flows EXCEPT ![f].stage = "entering", ![f].actor = actor,
                            ![f].version = IdentityAccess(actor).version]
  /\ UNCHANGED <<operator, google, disabled, members, invitations, sessions, waiting, history>>

NewSession(f, s) ==
  /\ flows[f].stage = "entering"
  /\ FreshSession(s)
  /\ sessions' = [sessions EXCEPT ![s] = [kind |-> "identity", account |-> flows[f].actor,
                                          version |-> flows[f].version]]
  /\ flows' = [flows EXCEPT ![f] = NoFlow]
  /\ outdated' = (outdated \ {f}) \cup (IF f \in outdated THEN {s} ELSE {})
  /\ withdrawn' = withdrawn \ {f}
  /\ UNCHANGED <<operator, google, disabled, members, invitations, waiting>>

-----------------------------------------------------------------------------
(* The operator, the calendar's account, and the world *)

\* Mutant: earlier invitations stay as they are.
RevokeNone(e) == invitations

\* Every pending invitation for the address, expired or not, is superseded.
RevokePending(e) ==
  [i \in Invites |-> IF invitations[i].status \in {"pending", "expired"} /\ invitations[i].email = e
                     THEN [invitations[i] EXCEPT !.status = "revoked"] ELSE invitations[i]]

\* handleInvitationCreate
InviteCreate(s, i, e) ==
  /\ IsOperator(s)
  /\ FreshInvite(i)
  /\ ~HasWorkspaceEmail(e)
  /\ invitations' = [RevokePending(e) EXCEPT ![i] = [email |-> e, issuer |-> sessions[s].account.sub, status |-> "pending"]]
  /\ UNCHANGED <<operator, google, disabled, members, sessions, flows, waiting, history>>

\* handleInvitationRevoke
InviteRevoke(s, i) ==
  /\ IsOperator(s)
  /\ invitations[i].status \in {"pending", "expired"}
  /\ invitations' = [invitations EXCEPT ![i].status = "revoked"]
  /\ UNCHANGED <<operator, google, disabled, members, sessions, flows, waiting, history>>

InviteExpires(i) ==
  /\ invitations[i].status = "pending"
  /\ invitations' = [invitations EXCEPT ![i].status = "expired"]
  /\ UNCHANGED <<operator, google, disabled, members, sessions, flows, waiting, history>>

\* A request whose session has the right to it waits for ops; a member has a row, active or not.
Wait(s) ==
  /\ \/ CanConnectCalendar(s) /\ waiting' = waiting \cup {ToDisconnect}
     \/ CanConnectMail(s) /\ waiting' = waiting \cup {ToMailDisconnect}
     \/ IsOperator(s) /\ \E m \in Subjects : members[m].status # "none" /\ waiting' = waiting \cup {ToRemove(m)}
  /\ UNCHANGED <<operator, google, disabled, members, invitations, sessions, flows, history>>

\* It takes ops: at once, or after it has waited, when its session is not asked again.
Takes(request, right) ==
  /\ OpsFree
  /\ \/ right /\ UNCHANGED waiting
     \/ request \in waiting /\ waiting' = waiting \ {request}

\* The request is refused, fails, or the process stops.
GivesUp(request) ==
  /\ request \in waiting /\ waiting' = waiting \ {request}
  /\ UNCHANGED <<operator, google, disabled, members, invitations, sessions, flows, history>>

\* handleMemberRemove
MemberRemove(m) ==
  /\ Takes(ToRemove(m), \E s \in Sessions : IsOperator(s))
  /\ members[m].status = "active"
  /\ ~MemberProtected(m)
  /\ members' = [members EXCEPT ![m].status = "revoked"]
  /\ invitations' = RevokePending(members[m].email)
  /\ outdated' = outdated
       \cup {t \in Sessions : sessions[t].kind = "identity" /\ sessions[t].account.sub = m}
       \cup {f \in Flows : flows[f].stage = "entering" /\ flows[f].actor.sub = m}
  /\ UNCHANGED <<operator, google, disabled, sessions, flows, withdrawn>>

\* importOperatorIdentity, from the command line or when a process starts.
ImportOperator(p) ==
  /\ \/ operator = Nobody
     \/ operator.email = p.email /\ (None \in {operator.sub, p.sub} \/ operator.sub = p.sub)
  /\ operator' = [p EXCEPT !.sub = IF operator.sub # None THEN operator.sub ELSE p.sub]
  /\ disabled' = TRUE
  /\ UNCHANGED <<google, members, invitations, sessions, flows, waiting, history>>

\* Mutant: the grant goes, a consent under way stays good.
DropMailTokens ==
  /\ mail' = Nobody
  /\ UNCHANGED mailVersion

DropMailGrant ==
  /\ mail' = Nobody
  /\ mailVersion' = mailVersion + 1

\* Google.disconnect
Disconnect ==
  /\ Takes(ToDisconnect, \E s \in Sessions : CanConnectCalendar(s))
  /\ mailVersion < MaxWithdrawals
  /\ DropMailGrant
  /\ connected' = FALSE
  /\ withdrawn' = {f \in Flows : flows[f].purpose \in {"calendar", "gmail"}}
  /\ UNCHANGED <<operator, owner, disabled, members, invitations, sessions, flows, outdated>>

\* handleMailDisconnect
MailDisconnect ==
  /\ Takes(ToMailDisconnect, \E s \in Sessions : CanConnectMail(s))
  /\ mailVersion < MaxWithdrawals
  /\ DropMailGrant
  /\ withdrawn' = {f \in Flows : flows[f].purpose \in {"calendar", "gmail"}}
  /\ UNCHANGED <<operator, owner, connected, disabled, members, invitations, sessions, flows, outdated>>

\* Google ends a grant, and accessToken or mailAccessToken drops the tokens.
GrantEnds ==
  /\ GrantsEnd
  /\ \/ connected' = FALSE /\ UNCHANGED mail
     \/ mail' = Nobody /\ UNCHANGED connected
  /\ <<connected, mail>>' # <<connected, mail>>
  /\ UNCHANGED <<operator, owner, mailVersion, disabled, members, invitations, sessions, flows, waiting, history>>

Next ==
  \/ \E s \in Sessions : Bootstrap(s) \/ EndSession(s) \/ Wait(s)
  \/ \E f \in Flows : BeginSignIn(f) \/ Consume(f) \/ Fail(f) \/ EstablishOperator(f)
                        \/ ConnectCommit(f) \/ ConnectMail(f) \/ ReadAccess(f)
  \/ \E f \in Flows, s \in Sessions : BeginConnect(f, s) \/ BeginMailConnect(f, s) \/ NewSession(f, s)
  \/ \E f \in Flows, i \in Invites : BeginInvite(f, i)
  \/ \E f \in Flows, a \in Accounts : SignInAnswer(f, a) \/ ClaimInvitation(f, a) \/ ConnectAnswer(f, a)
  \/ \E s \in Sessions, i \in Invites : InviteRevoke(s, i) \/ \E e \in Emails : InviteCreate(s, i, e)
  \/ \E i \in Invites : InviteExpires(i)
  \/ Disconnect \/ MailDisconnect \/ \E m \in Subjects : MemberRemove(m)
  \/ \E request \in waiting : GivesUp(request)
  \/ \E p \in Imports : ImportOperator(p)
  \/ GrantEnds

Spec == Init /\ [][Next]_vars

-----------------------------------------------------------------------------
(* Safety *)

\* Nobody who was removed gets back in with a session from before: it stays
\* refused even after a new invitation is accepted, an operator is imported, or
\* the calendar changes hands (addWorkspaceMemberTx, sessionByID, newSession).
RemovedStaysOut == \A s \in Sessions : s \in outdated => ~Live(s)

\* The account that owns the calendar keeps its access to the portal: nobody
\* else may reconnect or disconnect the calendar (handleMemberRemove, connectAuthorized).
CalendarOwnerHasAccess == owner # Nobody => IdentityAccess(owner).role # "none"

\* At most one invitation for an address can still be accepted, whatever order
\* invitations are made, replaced, revoked and claimed in (handleInvitationCreate).
OneLiveInvitation ==
  \A i, j \in Invites : /\ invitations[i].status = "pending" /\ invitations[j].status = "pending"
                        /\ invitations[i].email = invitations[j].email
                        => i = j

\* An account becomes a member only by using up an invitation for its address that
\* was still good at that moment, not merely when the link was opened (claimInvitation).
JoinsByLiveInvitation ==
  [][\A m \in Subjects : members[m].status # "active" /\ members'[m].status = "active" =>
       \E i \in Invites : /\ invitations[i].status = "pending" /\ invitations'[i].status = "used"
                          /\ invitations[i].email = members'[m].email]_vars

\* The operator's address and the subjects bound to the operator and to the
\* calendar never change, however set-up, sign-ins, imports and first connections
\* race (establishOperator, bindOperatorIdentity, importOperatorIdentity, connectAuthorized).
IdentitiesPinned ==
  [][/\ operator # Nobody => operator'.email = operator.email
     /\ operator.sub # None => operator'.sub = operator.sub
     /\ owner # Nobody => owner'.sub = owner.sub]_vars

\* A calendar or mail connection is completed only while the session that asked
\* for it is there and its account still has access (connectAuthorized, connectMail).
ConnectsWhileAllowed ==
  [][\A f \in Flows : /\ flows[f].purpose \in {"calendar", "gmail"}
                      /\ flows[f].stage # "granted" /\ flows'[f].stage = "granted"
       => LET session == sessions[flows[f].session] IN
          \/ session.kind = "bootstrap" /\ BootstrapAllowed
          \/ session.kind = "identity" /\ IdentityAccess(session.account).role # "none"]_vars

\* A consent that began before the owner disconnected email never brings the
\* mail grant back, however late Google answers (dropMailGrant, validMailVersionTx).
WithdrawnStaysWithdrawn ==
  [][\A f \in withdrawn : flows[f].stage # "granted" => flows'[f].stage # "granted" \/ mail' = mail]_vars

=============================================================================
