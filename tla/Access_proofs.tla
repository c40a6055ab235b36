---------------------------- MODULE Access_proofs ----------------------------
(***************************************************************************)
(* Theorems about Access, for any accounts, sessions, flows, invitations   *)
(* and bounds.                                                             *)
(***************************************************************************)
EXTENDS Access, TLAPS

-----------------------------------------------------------------------------
(* Accounts and access *)

LEMMA AccountParts ==
  /\ \A a \in Accounts : a = [sub |-> a.sub, email |-> a.email] /\ a.sub \in Subjects /\ a.email \in Emails
  /\ \A a \in Accounts : a.sub # None /\ a # Nobody
  /\ \A p \in Imports : p = [sub |-> p.sub, email |-> p.email] /\ p.sub \in Subjects \cup {None} /\ p.email \in Emails
  /\ \A a, b \in Accounts \cup Imports \cup {Nobody} : a.sub = b.sub /\ a.email = b.email => a = b
  /\ Nobody.sub = None /\ Nobody.email = None /\ None \notin Emails /\ None \notin Subjects
<1>1. \A a \in Accounts : a = [sub |-> a.sub, email |-> a.email] /\ a.sub \in Subjects /\ a.email \in Emails
  BY AccessAssumption DEF Subjects, Emails
<1>2. Nobody.sub = None /\ Nobody.email = None /\ None \notin Emails /\ None \notin Subjects
  BY AccessAssumption DEF Nobody
<1>3. \A a \in Accounts : a.sub # None /\ a # Nobody
  BY <1>1, <1>2
<1>4. \A p \in Imports : p = [sub |-> p.sub, email |-> p.email] /\ p.sub \in Subjects \cup {None} /\ p.email \in Emails
  BY AccessAssumption DEF Emails
<1>5. \A a, b \in Accounts \cup Imports \cup {Nobody} : a.sub = b.sub /\ a.email = b.email => a = b
  BY <1>1, <1>4 DEF Nobody
<1> QED BY <1>1, <1>2, <1>3, <1>4, <1>5

LEMMA AccessType ==
  ASSUME TypeOK, NEW a \in Identity
  PROVE  /\ IdentityAccess(a).version \in 0..MaxJoins
         /\ IdentityAccess(a).role # "none" => a \in Accounts
<1>1. CASE a = Nobody
  BY <1>1, AccessAssumption DEF IdentityAccess, NoAccess
<1>2. CASE a \in Accounts
  <2>1. members[a.sub].version \in 0..MaxJoins
    BY <1>2, AccountParts DEF TypeOK, Member
  <2> QED BY <1>2, <2>1, AccessAssumption DEF IdentityAccess, NoAccess
<1> QED BY <1>1, <1>2 DEF Identity

LEMMA OperatorsAreAccounts ==
  ASSUME TypeOK, NEW s \in Sessions, IsOperator(s)
  PROVE  sessions[s].account \in Accounts /\ sessions[s].account.sub \in Subjects
<1>1. sessions[s].account \in Identity
  BY DEF TypeOK, Session
<1> QED BY <1>1, AccessType, AccountParts DEF IsOperator

-----------------------------------------------------------------------------
(* Type correctness *)

LEMMA EmptyTypes ==
  /\ NoMember \in Member
  /\ NoSession \in Session
  /\ NoFlow \in Flow
BY AccessAssumption DEF NoMember, Member, NoSession, Session, NoFlow, Flow, Identity, Stages

LEMMA EndType ==
  ASSUME TypeOK, NEW f \in Flows, End(f)
  PROVE  flows' \in [Flows -> Flow] /\ outdated' \subseteq Sessions \cup Flows /\ withdrawn' \subseteq Flows
BY EmptyTypes DEF End, TypeOK

LEMMA RevokeType ==
  ASSUME TypeOK, NEW e \in Emails
  PROVE  RevokePending(e) \in [Invites -> Invitation \cup {NoInvitation}]
<1> SUFFICES ASSUME NEW i \in Invites
             PROVE  RevokePending(e)[i] \in Invitation \cup {NoInvitation}
  BY DEF RevokePending
<1>1. CASE invitations[i].status \in {"pending", "expired"} /\ invitations[i].email = e
  <2>1. invitations[i] \in Invitation
    BY <1>1 DEF TypeOK, NoInvitation
  <2> QED BY <1>1, <2>1 DEF RevokePending, Invitation
<1>2. CASE ~(invitations[i].status \in {"pending", "expired"} /\ invitations[i].email = e)
  BY <1>2 DEF RevokePending, TypeOK
<1> QED BY <1>1, <1>2

LEMMA InitType == Init => TypeOK
<1> SUFFICES ASSUME Init PROVE TypeOK
  OBVIOUS
<1>1. /\ members \in [Subjects -> Member]
      /\ invitations \in [Invites -> Invitation \cup {NoInvitation}]
      /\ sessions \in [Sessions -> Session]
      /\ flows \in [Flows -> Flow]
  BY EmptyTypes DEF Init
<1>2. Nobody \in Identity /\ 0 \in 0..MaxWithdrawals
  BY AccessAssumption DEF Identity
<1> QED BY <1>1, <1>2 DEF Init, TypeOK

\* The steps of requests that need ops, but for a removal.
Requested == Disconnect \/ MailDisconnect \/ (\E s \in Sessions : Wait(s)) \/ \E request \in waiting : GivesUp(request)

LEMMA SessionStepsType ==
  ASSUME TypeOK, NEW s \in Sessions, Bootstrap(s) \/ EndSession(s) \/ Wait(s)
  PROVE  TypeOK'
<1>1. CASE Bootstrap(s)
  BY <1>1, EmptyTypes DEF Bootstrap, TypeOK, google, history, Session
<1>2. CASE EndSession(s)
  BY <1>2, EmptyTypes DEF EndSession, TypeOK, google
<1>3. CASE Wait(s)
  <2>1. ToDisconnect \in Requests /\ ToMailDisconnect \in Requests /\ \A m \in Subjects : ToRemove(m) \in Requests
    BY DEF ToDisconnect, ToMailDisconnect, ToRemove, Requests
  <2>2. waiting' \subseteq Requests
    BY <1>3, <2>1 DEF Wait, TypeOK
  <2> QED BY <1>3, <2>2 DEF Wait, TypeOK, google, history
<1> QED BY <1>1, <1>2, <1>3

LEMMA RequestStepsType ==
  ASSUME TypeOK, Disconnect \/ MailDisconnect \/ \E request \in waiting : GivesUp(request)
  PROVE  TypeOK'
<1>1. CASE Disconnect
  <2>1. mail' \in Identity /\ mailVersion' \in 0..MaxWithdrawals /\ waiting' \subseteq Requests
    BY <1>1, AccessAssumption DEF Disconnect, Takes, DropMailGrant, TypeOK, Identity
  <2> QED BY <1>1, <2>1 DEF Disconnect, TypeOK
<1>2. CASE MailDisconnect
  <2>1. mail' \in Identity /\ mailVersion' \in 0..MaxWithdrawals /\ waiting' \subseteq Requests
    BY <1>2, AccessAssumption DEF MailDisconnect, Takes, DropMailGrant, TypeOK, Identity
  <2> QED BY <1>2, <2>1 DEF MailDisconnect, TypeOK
<1>3. CASE \E request \in waiting : GivesUp(request)
  BY <1>3 DEF GivesUp, TypeOK, google, history
<1> QED BY <1>1, <1>2, <1>3

LEMMA BeginType ==
  ASSUME TypeOK, NEW f \in Flows, NEW flow \in Flow, Begin(f, flow)
  PROVE  TypeOK'
BY DEF Begin, TypeOK, google, history

LEMMA BeginningsType ==
  ASSUME TypeOK, NEW f \in Flows
  PROVE  /\ BeginSignIn(f) => TypeOK'
         /\ \A s \in Sessions : BeginConnect(f, s) \/ BeginMailConnect(f, s) => TypeOK'
         /\ \A i \in Invites : BeginInvite(f, i) => TypeOK'
<1>1. BeginSignIn(f) => TypeOK'
  <2>1. [NoFlow EXCEPT !.stage = "open", !.purpose = "signin"] \in Flow
    BY EmptyTypes DEF Flow, Stages
  <2>2. \A s \in Sessions : [NoFlow EXCEPT !.stage = "open", !.purpose = "signin", !.session = s] \in Flow
    BY EmptyTypes DEF Flow, Stages
  <2> QED BY <2>1, <2>2, BeginType DEF BeginSignIn
<1>2. ASSUME NEW s \in Sessions PROVE BeginConnect(f, s) \/ BeginMailConnect(f, s) => TypeOK'
  <2>1. sessions[s].account \in Identity /\ mailVersion \in 0..MaxWithdrawals
    BY DEF TypeOK, Session
  <2>2. \A p \in {"calendar", "gmail"} :
          [NoFlow EXCEPT !.stage = "open", !.purpose = p, !.session = s,
                         !.actor = sessions[s].account, !.mailVersion = mailVersion] \in Flow
    BY <2>1, EmptyTypes DEF Flow, Stages
  <2> QED BY <2>2, BeginType DEF BeginConnect, BeginMailConnect
<1>3. ASSUME NEW i \in Invites PROVE BeginInvite(f, i) => TypeOK'
  <2>1. [NoFlow EXCEPT !.stage = "open", !.purpose = "invite", !.invite = i] \in Flow
    BY EmptyTypes DEF Flow, Stages
  <2> QED BY <2>1, BeginType DEF BeginInvite
<1> QED BY <1>1, <1>2, <1>3

LEMMA FlowMoves ==
  ASSUME TypeOK, NEW f \in Flows, NEW st \in Stages
  PROVE  /\ [flows EXCEPT ![f].stage = st] \in [Flows -> Flow]
         /\ \A a \in Identity : [flows EXCEPT ![f].stage = st, ![f].actor = a] \in [Flows -> Flow]
         /\ \A a \in Identity, v \in 0..MaxJoins :
              [flows EXCEPT ![f].stage = st, ![f].actor = a, ![f].version = v] \in [Flows -> Flow]
<1>1. flows \in [Flows -> Flow]
  BY DEF TypeOK
<1>2. [flows EXCEPT ![f].stage = st] \in [Flows -> Flow]
  <2>1. [flows[f] EXCEPT !.stage = st] \in Flow
    BY <1>1 DEF Flow
  <2> QED BY <1>1, <2>1
<1>3. ASSUME NEW a \in Identity
      PROVE  [flows EXCEPT ![f].stage = st, ![f].actor = a] \in [Flows -> Flow]
  <2>1. [flows[f] EXCEPT !.stage = st, !.actor = a] \in Flow
    BY <1>1 DEF Flow
  <2>2. [flows EXCEPT ![f].stage = st, ![f].actor = a]
          = [flows EXCEPT ![f] = [flows[f] EXCEPT !.stage = st, !.actor = a]]
    BY <1>1 DEF Flow
  <2> QED BY <1>1, <2>1, <2>2
<1>4. ASSUME NEW a \in Identity, NEW v \in 0..MaxJoins
      PROVE  [flows EXCEPT ![f].stage = st, ![f].actor = a, ![f].version = v] \in [Flows -> Flow]
  <2>1. [flows[f] EXCEPT !.stage = st, !.actor = a, !.version = v] \in Flow
    BY <1>1 DEF Flow
  <2>2. [flows EXCEPT ![f].stage = st, ![f].actor = a, ![f].version = v]
          = [flows EXCEPT ![f] = [flows[f] EXCEPT !.stage = st, !.actor = a, !.version = v]]
    BY <1>1 DEF Flow
  <2> QED BY <1>1, <2>1, <2>2
<1> QED BY <1>2, <1>3, <1>4

LEMMA FlowStepsType ==
  ASSUME TypeOK, NEW f \in Flows,
         Consume(f) \/ Fail(f) \/ EstablishOperator(f) \/ ConnectCommit(f) \/ ConnectMail(f) \/ ReadAccess(f)
  PROVE  TypeOK'
<1>0. flows[f].actor \in Identity /\ owner \in Identity
  BY DEF TypeOK, Flow
<1>1. CASE Consume(f)
  <2>1. flows' \in [Flows -> Flow]
    BY <1>1, <1>0, FlowMoves, AccessAssumption DEF Consume, Stages
  <2> QED BY <1>1, <2>1 DEF Consume, TypeOK, google, history
<1>2. CASE Fail(f)
  BY <1>2, EndType DEF Fail, TypeOK, google
<1>3. CASE EstablishOperator(f)
  <2>1. flows' \in [Flows -> Flow]
    BY <1>3, <1>0, FlowMoves, AccessAssumption DEF EstablishOperator, Stages
  <2> QED BY <1>3, <1>0, <2>1 DEF EstablishOperator, TypeOK, google, history, Identity
<1>4. CASE ConnectCommit(f)
  <2>1. flows' \in [Flows -> Flow]
    BY <1>4, <1>0, FlowMoves, AccessAssumption DEF ConnectCommit, Stages
  <2> QED BY <1>4, <1>0, <2>1 DEF ConnectCommit, TypeOK, google, history, Identity
<1>5. CASE ConnectMail(f)
  <2>1. flows' \in [Flows -> Flow]
    BY <1>5, <1>0, FlowMoves, AccessAssumption DEF ConnectMail, Stages
  <2> QED BY <1>5, <1>0, <2>1 DEF ConnectMail, TypeOK, google, history, Identity
<1>6. CASE ReadAccess(f)
  <2> DEFINE actor == IF flows[f].purpose = "calendar" THEN owner ELSE flows[f].actor
  <2>1. actor \in Identity
    BY <1>0
  <2>2. IdentityAccess(actor).version \in 0..MaxJoins
    BY <2>1, AccessType
  <2>3. flows' = [flows EXCEPT ![f].stage = "entering", ![f].actor = actor,
                               ![f].version = IdentityAccess(actor).version]
    BY <1>6 DEF ReadAccess
  <2>4. flows' \in [Flows -> Flow]
    <3> HIDE DEF actor
    <3> QED BY <2>1, <2>2, <2>3, FlowMoves DEF Stages
  <2> QED BY <1>6, <2>4 DEF ReadAccess, TypeOK, google, history
<1> QED BY <1>1, <1>2, <1>3, <1>4, <1>5, <1>6

LEMMA AnswersType ==
  ASSUME TypeOK, NEW f \in Flows, NEW a \in Accounts,
         SignInAnswer(f, a) \/ ClaimInvitation(f, a) \/ ConnectAnswer(f, a)
  PROVE  TypeOK'
<1>0. a \in Identity /\ 0 \in 0..MaxJoins
  BY AccessAssumption DEF Identity
<1>1. CASE SignInAnswer(f, a)
  <2>1. flows' \in [Flows -> Flow]
    <3>1. \E st \in {"establishing", "granted"} :
            flows' = [flows EXCEPT ![f].stage = st, ![f].actor = a]
      BY <1>1 DEF SignInAnswer
    <3>2. PICK st \in {"establishing", "granted"} :
            flows' = [flows EXCEPT ![f].stage = st, ![f].actor = a]
      BY <3>1
    <3>3. st \in Stages
      BY DEF Stages
    <3> QED BY <3>2, <3>3, <1>0, FlowMoves
  <2>2. operator' \in Accounts \cup Imports \cup {Nobody}
    BY <1>1 DEF SignInAnswer, TypeOK
  <2> QED BY <1>1, <2>1, <2>2 DEF SignInAnswer, TypeOK, google, history
<1>2. CASE ClaimInvitation(f, a)
  <2>1. flows' \in [Flows -> Flow]
    BY <1>2, <1>0, FlowMoves DEF ClaimInvitation, Stages
  <2>2. members' \in [Subjects -> Member]
    <3>1. a.sub \in Subjects /\ a.email \in Emails
      BY AccountParts
    <3>2. members[a.sub].version \in 0..MaxJoins /\ members[a.sub].version < MaxJoins
      BY <1>2, <3>1 DEF ClaimInvitation, TypeOK, Member
    <3>3. [email |-> a.email, status |-> "active", version |-> members[a.sub].version + 1] \in Member
      BY <3>1, <3>2, AccessAssumption DEF Member
    <3> QED BY <1>2, <3>1, <3>3 DEF ClaimInvitation, AddMember, TypeOK
  <2>3. invitations' \in [Invites -> Invitation \cup {NoInvitation}]
    <3> DEFINE i == flows[f].invite
    <3>1. i \in Invites \cup {None}
      BY DEF TypeOK, Flow
    <3>2. CASE i \in Invites
      <4>1. invitations[i] \in Invitation
        BY <1>2, <3>2 DEF ClaimInvitation, CheckInvitation, TypeOK, NoInvitation
      <4> QED BY <1>2, <3>2, <4>1 DEF ClaimInvitation, TypeOK, Invitation
    <3>3. CASE i = None
      BY <1>2, <3>3, AccessAssumption DEF ClaimInvitation, TypeOK
    <3> QED BY <3>1, <3>2, <3>3
  <2> QED BY <1>2, <2>1, <2>2, <2>3 DEF ClaimInvitation, TypeOK, google, history
<1>3. CASE ConnectAnswer(f, a)
  <2>1. flows' \in [Flows -> Flow]
    BY <1>3, <1>0, FlowMoves DEF ConnectAnswer, Stages
  <2> QED BY <1>3, <2>1 DEF ConnectAnswer, TypeOK, google, history
<1> QED BY <1>1, <1>2, <1>3

LEMMA NewSessionType ==
  ASSUME TypeOK, NEW f \in Flows, NEW s \in Sessions, NewSession(f, s)
  PROVE  TypeOK'
<1>1. [kind |-> "identity", account |-> flows[f].actor, version |-> flows[f].version] \in Session
  BY DEF TypeOK, Flow, Session
<1> QED BY <1>1, EmptyTypes DEF NewSession, TypeOK, google

LEMMA InvitationStepsType ==
  ASSUME TypeOK, NEW i \in Invites
  PROVE  /\ InviteExpires(i) => TypeOK'
         /\ \A s \in Sessions : InviteRevoke(s, i) => TypeOK'
         /\ \A s \in Sessions, e \in Emails : InviteCreate(s, i, e) => TypeOK'
<1>0. invitations[i].status \in {"pending", "expired"} => invitations[i] \in Invitation
  BY DEF TypeOK, NoInvitation
<1>1. InviteExpires(i) => TypeOK'
  BY <1>0 DEF InviteExpires, TypeOK, google, history, Invitation
<1>2. \A s \in Sessions : InviteRevoke(s, i) => TypeOK'
  BY <1>0 DEF InviteRevoke, TypeOK, google, history, Invitation
<1>3. ASSUME NEW s \in Sessions, NEW e \in Emails, InviteCreate(s, i, e) PROVE TypeOK'
  <2>1. [email |-> e, issuer |-> sessions[s].account.sub, status |-> "pending"] \in Invitation
    BY <1>3, OperatorsAreAccounts DEF InviteCreate, Invitation
  <2>2. invitations' \in [Invites -> Invitation \cup {NoInvitation}]
    BY <1>3, <2>1, RevokeType DEF InviteCreate
  <2> QED BY <1>3, <2>2 DEF InviteCreate, TypeOK, google, history
<1> QED BY <1>1, <1>2, <1>3

LEMMA RemovalAndImportType ==
  ASSUME TypeOK
  PROVE  /\ \A m \in Subjects : MemberRemove(m) => TypeOK'
         /\ \A p \in Imports : ImportOperator(p) => TypeOK'
         /\ GrantEnds => TypeOK'
<1>1. ASSUME NEW m \in Subjects, MemberRemove(m) PROVE TypeOK'
  <2>1. members' \in [Subjects -> Member]
    BY <1>1 DEF MemberRemove, TypeOK, Member
  <2>2. invitations' \in [Invites -> Invitation \cup {NoInvitation}]
    <3>1. CASE members[m].email \in Emails
      BY <1>1, <3>1, RevokeType DEF MemberRemove
    <3>2. CASE members[m].email = None
      <4>1. \A i \in Invites : invitations[i].status \in {"pending", "expired"} => invitations[i].email # None
        BY AccountParts DEF TypeOK, Invitation, NoInvitation
      <4>2. RevokePending(None) = invitations
        BY <4>1 DEF RevokePending, TypeOK
      <4> QED BY <1>1, <3>2, <4>2 DEF MemberRemove, TypeOK
    <3> QED BY <3>1, <3>2 DEF TypeOK, Member
  <2>3. waiting' \subseteq Requests
    BY <1>1 DEF MemberRemove, Takes, TypeOK
  <2> QED BY <1>1, <2>1, <2>2, <2>3 DEF MemberRemove, TypeOK, google
<1>2. ASSUME NEW p \in Imports, ImportOperator(p) PROVE TypeOK'
  <2>1. operator' \in Accounts \cup Imports \cup {Nobody}
    <3>1. CASE operator.sub = None
      BY <1>2, <3>1, AccountParts DEF ImportOperator
    <3>2. CASE operator.sub # None
      <4>1. operator # Nobody /\ operator.email = p.email
        BY <1>2, <3>2, AccountParts DEF ImportOperator
      <4>2. operator' = [sub |-> operator.sub, email |-> operator.email]
        BY <1>2, <3>2, <4>1, AccountParts DEF ImportOperator
      <4>3. operator = [sub |-> operator.sub, email |-> operator.email]
        BY <4>1, AccountParts DEF TypeOK
      <4> QED BY <4>2, <4>3 DEF TypeOK
    <3> QED BY <3>1, <3>2
  <2> QED BY <1>2, <2>1 DEF ImportOperator, TypeOK, google, history
<1>3. GrantEnds => TypeOK'
  BY DEF GrantEnds, TypeOK, history, Identity
<1> QED BY <1>1, <1>2, <1>3

LEMMA StepType == TypeOK /\ [Next]_vars => TypeOK'
<1> SUFFICES ASSUME TypeOK, [Next]_vars PROVE TypeOK'
  OBVIOUS
<1>1. CASE UNCHANGED vars
  BY <1>1 DEF vars, TypeOK
<1>2. CASE Next
  BY <1>2, SessionStepsType, RequestStepsType, BeginningsType, FlowStepsType, AnswersType, NewSessionType,
     InvitationStepsType, RemovalAndImportType DEF Next
<1> QED BY <1>1, <1>2

\* Every variable keeps its type: the rows of all tables, every flow in every
\* stage, whatever the accounts, policies and bounds.
THEOREM TypeCorrect == Spec => []TypeOK
BY InitType, StepType, PTL DEF Spec

-----------------------------------------------------------------------------
(* Who holds a session, and since when *)

\* x is a session of the account a, or a flow about to open one, with session version v.
Holds(x, a, v) ==
  \/ x \in Sessions /\ sessions[x].kind = "identity" /\ sessions[x].account = a /\ sessions[x].version = v
  \/ x \in Flows /\ flows[x].stage = "entering" /\ flows[x].actor = a /\ flows[x].version = v

\* Version 0 belongs to the operator and the calendar's account alone, and no
\* version is ahead of the member's.
Issued(a, v) ==
  /\ a \in Accounts
  /\ v <= members[a.sub].version
  /\ v = 0 => a.sub \in {operator.sub, owner.sub}

\* A member's version the account left behind, or leaves behind when it rejoins.
Spent(a, v) ==
  /\ v # 0
  /\ members[a.sub].status # "none"
  /\ members[a.sub].status = "active" => v < members[a.sub].version

HoldersInv ==
  /\ \A x \in Sessions \cup Flows, a \in Identity, v \in 0..MaxJoins :
       Holds(x, a, v) => Issued(a, v) /\ (x \in outdated => Spent(a, v))
  /\ \A x \in outdated : \E a \in Identity, v \in 0..MaxJoins : Holds(x, a, v)

\* One connection at a time holds ops, for the account the calendar has or will have.
ConnectingInv ==
  /\ \A f \in Flows : flows[f].stage = "connecting" => flows[f].actor \in Accounts /\ owner.sub \in {None, flows[f].actor.sub}
  /\ \A f, g \in Flows : flows[f].stage = "connecting" /\ flows[g].stage = "connecting" => f = g

\* Whoever joined has a version of its own.
MembersInv == \A m \in Subjects : members[m].status # "none" => members[m].version # 0

AccessInv == TypeOK /\ MembersInv /\ ConnectingInv /\ HoldersInv

-----------------------------------------------------------------------------
(* What a step leaves alone *)

\* The operator's address, and the subjects once they are known.
Pinned ==
  /\ operator # Nobody => operator'.email = operator.email
  /\ operator.sub # None => operator'.sub = operator.sub
  /\ owner # Nobody => owner'.sub = owner.sub

LEMMA StepPins == AccessInv /\ [Next]_vars => Pinned
<1> SUFFICES ASSUME TypeOK, ConnectingInv, [Next]_vars PROVE Pinned
  BY DEF AccessInv
<1>1. CASE UNCHANGED <<operator, owner>>
  BY <1>1 DEF Pinned
<1>2. ASSUME NEW f \in Flows, NEW a \in Accounts, SignInAnswer(f, a) PROVE Pinned
  BY <1>2 DEF SignInAnswer, Binds, Pinned, google
<1>3. ASSUME NEW f \in Flows, EstablishOperator(f) PROVE Pinned
  BY <1>3, AccountParts DEF EstablishOperator, BootstrapAllowed, Pinned, google
<1>4. ASSUME NEW f \in Flows, ConnectCommit(f) PROVE Pinned
  <2>1. owner.sub \in {None, flows[f].actor.sub}
    BY <1>4 DEF ConnectCommit, ConnectingInv
  <2>2. owner # Nobody => owner.sub # None
    BY AccountParts DEF TypeOK, Identity
  <2> QED BY <1>4, <2>1, <2>2 DEF ConnectCommit, Pinned
<1>5. ASSUME NEW p \in Imports, ImportOperator(p) PROVE Pinned
  <2>1. owner' = owner /\ operator' = [p EXCEPT !.sub = IF operator.sub # None THEN operator.sub ELSE p.sub]
    BY <1>5 DEF ImportOperator, google
  <2>2. operator'.email = p.email /\ (operator.sub # None => operator'.sub = operator.sub)
    BY <2>1, AccountParts
  <2>3. operator # Nobody => operator.email = p.email
    BY <1>5 DEF ImportOperator
  <2> QED BY <2>1, <2>2, <2>3 DEF Pinned
<1>6. CASE (\E s \in Sessions : Bootstrap(s) \/ EndSession(s)) \/ Requested
  BY <1>1, <1>6 DEF Requested, Bootstrap, EndSession, Disconnect, MailDisconnect, Wait, GivesUp, google
<1>7. CASE \E f \in Flows : BeginSignIn(f) \/ Consume(f) \/ Fail(f) \/ ConnectMail(f) \/ ReadAccess(f)
  BY <1>1, <1>7 DEF BeginSignIn, Begin, Consume, Fail, ConnectMail, ReadAccess, google
<1>8. CASE \E f \in Flows, s \in Sessions : BeginConnect(f, s) \/ BeginMailConnect(f, s) \/ NewSession(f, s)
  BY <1>1, <1>8 DEF BeginConnect, BeginMailConnect, Begin, NewSession, google
<1>9. CASE \E f \in Flows, i \in Invites : BeginInvite(f, i)
  BY <1>1, <1>9 DEF BeginInvite, Begin, google
<1>10. CASE \E f \in Flows, a \in Accounts : ClaimInvitation(f, a) \/ ConnectAnswer(f, a)
  BY <1>1, <1>10 DEF ClaimInvitation, ConnectAnswer, google
<1>11. CASE \E s \in Sessions, i \in Invites : InviteRevoke(s, i) \/ \E e \in Emails : InviteCreate(s, i, e)
  BY <1>1, <1>11 DEF InviteRevoke, InviteCreate, google
<1>12. CASE (\E i \in Invites : InviteExpires(i)) \/ (\E m \in Subjects : MemberRemove(m))
  BY <1>1, <1>12 DEF InviteExpires, MemberRemove, google
<1>13. CASE GrantEnds
  BY <1>1, <1>13 DEF GrantEnds
<1>14. CASE UNCHANGED vars
  BY <1>1, <1>14 DEF vars
<1> QED
  BY <1>2, <1>3, <1>4, <1>5, <1>6, <1>7, <1>8, <1>9, <1>10, <1>11, <1>12, <1>13, <1>14 DEF Next, Requested

\* No flow begins, ends or changes as one that opens a session or holds ops.
Settled == {"connecting", "entering"}

FlowsSettled ==
  \A g \in Flows :
    /\ flows'[g].stage \in Settled => flows'[g] = flows[g]
    /\ flows[g].stage = "entering" => flows'[g] = flows[g]

LEMMA FlowSettles ==
  ASSUME TypeOK, NEW f \in Flows, flows[f].stage # "entering",
         NEW st \in Stages \ Settled,
         \/ flows' = [flows EXCEPT ![f].stage = st]
         \/ \E a \in Accounts : flows' = [flows EXCEPT ![f].stage = st, ![f].actor = a]
  PROVE  FlowsSettled
<1>1. \A g \in Flows : g # f => flows'[g] = flows[g]
  BY DEF TypeOK
<1>2. flows'[f].stage = st
  BY DEF TypeOK, Flow
<1> QED BY <1>1, <1>2 DEF FlowsSettled, Settled

LEMMA BeginSettles ==
  ASSUME TypeOK, NEW f \in Flows, NEW flow, flow.stage = "open", Begin(f, flow)
  PROVE  FlowsSettled
BY DEF Begin, NoFlow, TypeOK, FlowsSettled, Settled

LEMMA BeginningsSettle ==
  ASSUME TypeOK, NEW f \in Flows,
         \/ BeginSignIn(f)
         \/ \E s \in Sessions : BeginConnect(f, s) \/ BeginMailConnect(f, s)
         \/ \E i \in Invites : BeginInvite(f, i)
  PROVE  FlowsSettled
<1>1. CASE BeginSignIn(f)
  BY <1>1, BeginSettles DEF BeginSignIn, NoFlow
<1>2. CASE \E s \in Sessions : BeginConnect(f, s) \/ BeginMailConnect(f, s)
  BY <1>2, BeginSettles DEF BeginConnect, BeginMailConnect, NoFlow
<1>3. CASE \E i \in Invites : BeginInvite(f, i)
  BY <1>3, BeginSettles DEF BeginInvite, NoFlow
<1> QED BY <1>1, <1>2, <1>3

LEMMA FlowStepsSettle ==
  ASSUME TypeOK, NEW f \in Flows,
         \/ Consume(f) \/ EstablishOperator(f) \/ ConnectCommit(f) \/ ConnectMail(f)
         \/ \E a \in Accounts : SignInAnswer(f, a) \/ ClaimInvitation(f, a)
  PROVE  FlowsSettled
<1>0. /\ "asked" \in Stages \ Settled /\ "granted" \in Stages \ Settled
      /\ "establishing" \in Stages \ Settled
  BY DEF Stages, Settled
<1>1. CASE Consume(f)
  BY <1>0, <1>1, FlowSettles DEF Consume
<1>2. CASE EstablishOperator(f)
  BY <1>0, <1>2, FlowSettles DEF EstablishOperator
<1>3. CASE ConnectCommit(f)
  BY <1>0, <1>3, FlowSettles DEF ConnectCommit
<1>4. CASE ConnectMail(f)
  BY <1>0, <1>4, FlowSettles DEF ConnectMail
<1>5. ASSUME NEW a \in Accounts, SignInAnswer(f, a) PROVE FlowsSettled
  <2>1. \/ flows' = [flows EXCEPT ![f].stage = "establishing", ![f].actor = a]
        \/ flows' = [flows EXCEPT ![f].stage = "granted", ![f].actor = a]
    BY <1>5 DEF SignInAnswer
  <2> QED BY <1>0, <1>5, <2>1, FlowSettles DEF SignInAnswer
<1>6. ASSUME NEW a \in Accounts, ClaimInvitation(f, a) PROVE FlowsSettled
  BY <1>0, <1>6, FlowSettles DEF ClaimInvitation
<1> QED BY <1>1, <1>2, <1>3, <1>4, <1>5, <1>6

\* The steps that open, end or pass on no session and remove nobody.
Quiet ==
  \/ Requested
  \/ \E f \in Flows : BeginSignIn(f) \/ Consume(f) \/ EstablishOperator(f) \/ ConnectCommit(f) \/ ConnectMail(f)
  \/ \E f \in Flows, s \in Sessions : BeginConnect(f, s) \/ BeginMailConnect(f, s)
  \/ \E f \in Flows, i \in Invites : BeginInvite(f, i)
  \/ \E f \in Flows, a \in Accounts : SignInAnswer(f, a) \/ ClaimInvitation(f, a)
  \/ \E s \in Sessions, i \in Invites : InviteRevoke(s, i) \/ \E e \in Emails : InviteCreate(s, i, e)
  \/ \E i \in Invites : InviteExpires(i)
  \/ \E p \in Imports : ImportOperator(p)
  \/ GrantEnds
  \/ UNCHANGED vars

LEMMA QuietSteps ==
  ASSUME TypeOK, Quiet
  PROVE  FlowsSettled /\ sessions' = sessions /\ outdated' = outdated
<1>0. flows' = flows => FlowsSettled
  BY DEF FlowsSettled
<1>1. CASE Requested
  BY <1>0, <1>1 DEF Requested, Disconnect, MailDisconnect, Wait, GivesUp, history
<1>2. CASE \E f \in Flows : Consume(f) \/ EstablishOperator(f) \/ ConnectCommit(f) \/ ConnectMail(f)
  BY <1>2, FlowStepsSettle DEF Consume, EstablishOperator, ConnectCommit, ConnectMail, history
<1>3. CASE \/ \E f \in Flows : BeginSignIn(f)
           \/ \E f \in Flows, s \in Sessions : BeginConnect(f, s) \/ BeginMailConnect(f, s)
           \/ \E f \in Flows, i \in Invites : BeginInvite(f, i)
  BY <1>3, BeginningsSettle DEF BeginSignIn, BeginConnect, BeginMailConnect, BeginInvite, Begin, history
<1>4. CASE \E f \in Flows, a \in Accounts : SignInAnswer(f, a) \/ ClaimInvitation(f, a)
  BY <1>4, FlowStepsSettle DEF SignInAnswer, ClaimInvitation, history
<1>5. CASE \E s \in Sessions, i \in Invites : InviteRevoke(s, i) \/ \E e \in Emails : InviteCreate(s, i, e)
  BY <1>0, <1>5 DEF InviteRevoke, InviteCreate, history
<1>6. CASE (\E i \in Invites : InviteExpires(i)) \/ (\E p \in Imports : ImportOperator(p)) \/ GrantEnds
  BY <1>0, <1>6 DEF InviteExpires, ImportOperator, GrantEnds, history
<1>7. CASE UNCHANGED vars
  BY <1>0, <1>7 DEF vars
<1> QED BY <1>1, <1>2, <1>3, <1>4, <1>5, <1>6, <1>7 DEF Quiet

LEMMA ConnectingStep == AccessInv /\ [Next]_vars => ConnectingInv'
<1> SUFFICES ASSUME TypeOK, ConnectingInv, [Next]_vars PROVE ConnectingInv'
  BY DEF AccessInv
<1>1. ASSUME UNCHANGED owner, \A g \in Flows : flows'[g].stage = "connecting" => flows'[g] = flows[g]
      PROVE  ConnectingInv'
  BY <1>1 DEF ConnectingInv
<1>2. CASE Quiet
  <2>1. \A g \in Flows : flows'[g].stage = "connecting" => flows'[g] = flows[g]
    BY <1>2, QuietSteps DEF FlowsSettled, Settled
  <2>2. ASSUME NEW f \in Flows, ConnectCommit(f) PROVE ConnectingInv'
    <3>1. \A g \in Flows : flows'[g].stage # "connecting"
      <4>1. flows'[f].stage = "granted"
        BY <2>2 DEF ConnectCommit, TypeOK, Flow
      <4>2. \A g \in Flows : g # f => flows[g].stage # "connecting"
        BY <2>2 DEF ConnectCommit, ConnectingInv
      <4> QED BY <2>1, <4>1, <4>2
    <3> QED BY <3>1 DEF ConnectingInv
  <2>3. CASE UNCHANGED owner
    BY <1>1, <2>1, <2>3
  <2>4. UNCHANGED owner \/ \E f \in Flows : ConnectCommit(f)
    BY <1>2 DEF Requested, Quiet, Disconnect, MailDisconnect, Wait, GivesUp, BeginSignIn, Consume, EstablishOperator, ConnectMail,
      BeginConnect, BeginMailConnect, BeginInvite, Begin, SignInAnswer, ClaimInvitation, InviteRevoke,
      InviteCreate, InviteExpires, ImportOperator, GrantEnds, vars, google
  <2> QED BY <2>2, <2>3, <2>4
<1>3. ASSUME NEW f \in Flows, NEW a \in Accounts, ConnectAnswer(f, a) PROVE ConnectingInv'
  <2>1. flows'[f].actor = a /\ owner' = owner /\ owner.sub \in {None, a.sub}
    BY <1>3 DEF ConnectAnswer, TypeOK, Flow, google
  <2>2. \A g \in Flows : g # f => flows'[g] = flows[g] /\ flows[g].stage # "connecting"
    BY <1>3 DEF ConnectAnswer, OpsFree, TypeOK
  <2> QED BY <2>1, <2>2 DEF ConnectingInv
<1>4. CASE \E f \in Flows : Fail(f)
  BY <1>1, <1>4 DEF Fail, End, NoFlow, TypeOK, google
<1>5. ASSUME NEW f \in Flows, ReadAccess(f) PROVE ConnectingInv'
  <2>1. flows'[f].stage = "entering"
    BY <1>5 DEF ReadAccess, TypeOK, Flow
  <2>2. \A g \in Flows : g # f => flows'[g] = flows[g]
    BY <1>5 DEF ReadAccess, TypeOK
  <2> QED BY <1>1, <1>5, <2>1, <2>2 DEF ReadAccess, google
<1>6. CASE \E f \in Flows, s \in Sessions : NewSession(f, s)
  BY <1>1, <1>6 DEF NewSession, NoFlow, TypeOK, google
<1>7. CASE (\E s \in Sessions : Bootstrap(s) \/ EndSession(s)) \/ \E m \in Subjects : MemberRemove(m)
  BY <1>1, <1>7 DEF Bootstrap, EndSession, MemberRemove, google
<1> QED BY <1>2, <1>3, <1>4, <1>5, <1>6, <1>7 DEF Next, Quiet, Requested

\* A member's version grows whenever the member returns, and is never taken back.
MembersStep ==
  \A m \in Subjects :
    \/ members'[m] = members[m]
    \/ members'[m].status = "active" /\ members'[m].version = members[m].version + 1
    \/ members[m].status = "active" /\ members'[m].status = "revoked" /\ members'[m].version = members[m].version

LEMMA MembersMove == TypeOK /\ [Next]_vars => MembersStep
<1> SUFFICES ASSUME TypeOK, [Next]_vars PROVE MembersStep
  OBVIOUS
<1>1. CASE UNCHANGED members
  BY <1>1 DEF MembersStep
<1>2. ASSUME NEW f \in Flows, NEW a \in Accounts, ClaimInvitation(f, a) PROVE MembersStep
  BY <1>2 DEF ClaimInvitation, AddMember, TypeOK, MembersStep
<1>3. ASSUME NEW m \in Subjects, MemberRemove(m) PROVE MembersStep
  BY <1>3 DEF MemberRemove, TypeOK, Member, MembersStep
<1>4. \/ UNCHANGED members
      \/ \E f \in Flows, a \in Accounts : ClaimInvitation(f, a)
      \/ \E m \in Subjects : MemberRemove(m)
  BY DEF Next, Bootstrap, EndSession, Disconnect, MailDisconnect, Wait, GivesUp, BeginSignIn, Consume, Fail, EstablishOperator,
    ConnectCommit, ConnectMail, ReadAccess, BeginConnect, BeginMailConnect, NewSession, BeginInvite, Begin,
    SignInAnswer, ConnectAnswer, InviteRevoke, InviteCreate, InviteExpires, ImportOperator, GrantEnds, vars
<1> QED BY <1>1, <1>2, <1>3, <1>4

-----------------------------------------------------------------------------
(* Where a session comes from *)

\* The member a is removed in this step, and is neither operator nor the calendar's account.
Removed(a) ==
  /\ members[a.sub].status = "active" /\ members'[a.sub].status = "revoked"
  /\ a.sub \notin {operator.sub, owner.sub}

\* x has what some holder had, and is outdated when that was, or when a is removed.
Inherits(x, a, v) ==
  \E y \in Sessions \cup Flows : Holds(y, a, v) /\ (x \in outdated' => y \in outdated \/ Removed(a))

Reads(x, a, v) ==
  x \notin outdated' /\ IdentityAccess(a).role # "none" /\ v = IdentityAccess(a).version

HoldersStep ==
  /\ \A x \in Sessions \cup Flows, a \in Identity, v \in 0..MaxJoins :
       Holds(x, a, v)' => Inherits(x, a, v) \/ Reads(x, a, v)
  /\ \A x \in outdated' : \E a \in Identity, v \in 0..MaxJoins : Holds(x, a, v)'

\* Nothing but what is outdated so far is outdated afterwards, and it holds what it held.
LEMMA HoldersKept ==
  ASSUME HoldersInv, outdated' \subseteq outdated, outdated \subseteq Sessions \cup Flows,
         \A x \in Sessions \cup Flows, a \in Identity, v \in 0..MaxJoins : Holds(x, a, v)' => Holds(x, a, v),
         \A x \in outdated', a \in Identity, v \in 0..MaxJoins : Holds(x, a, v) => Holds(x, a, v)'
  PROVE  HoldersStep
BY DEF HoldersInv, HoldersStep, Inherits

LEMMA HoldersMove == AccessInv /\ [Next]_vars => HoldersStep
<1> SUFFICES ASSUME TypeOK, HoldersInv, [Next]_vars PROVE HoldersStep
  BY DEF AccessInv
<1>0. /\ outdated \subseteq Sessions \cup Flows /\ Sessions \cap Flows = {}
      /\ \A f \in Flows : flows[f].actor \in Identity /\ flows[f].version \in 0..MaxJoins
      /\ \A s \in Sessions : sessions[s].account \in Identity /\ sessions[s].version \in 0..MaxJoins
  BY AccessAssumption DEF TypeOK, Flow, Session
<1>1. ASSUME Quiet \/ \E f \in Flows, a \in Accounts : ConnectAnswer(f, a) PROVE HoldersStep
  <2>1. /\ sessions' = sessions /\ outdated' = outdated
        /\ \A g \in Flows : flows[g].stage = "entering" \/ flows'[g].stage = "entering" => flows'[g] = flows[g]
    <3>1. CASE Quiet
      BY <3>1, QuietSteps DEF FlowsSettled, Settled
    <3>2. ASSUME NEW f \in Flows, NEW a \in Accounts, ConnectAnswer(f, a)
          PROVE  \A g \in Flows : flows[g].stage = "entering" \/ flows'[g].stage = "entering" => flows'[g] = flows[g]
      <4>1. flows'[f].stage = "connecting" /\ flows[f].stage = "asked"
        BY <3>2 DEF ConnectAnswer, TypeOK, Flow
      <4>2. \A g \in Flows : g # f => flows'[g] = flows[g]
        BY <3>2 DEF ConnectAnswer, TypeOK
      <4> QED BY <4>1, <4>2
    <3> QED BY <1>1, <3>1, <3>2 DEF ConnectAnswer, history
  <2>2. \A x, a, v : Holds(x, a, v)' <=> Holds(x, a, v)
    BY <2>1 DEF Holds
  <2> QED BY <1>0, <2>1, <2>2, HoldersKept
<1>2. ASSUME NEW f \in Flows, Fail(f) PROVE HoldersStep
  <2>1. /\ sessions' = sessions /\ outdated' = outdated \ {f}
        /\ flows'[f].stage = "none" /\ \A g \in Flows : g # f => flows'[g] = flows[g]
    BY <1>2 DEF Fail, End, NoFlow, TypeOK
  <2>2. \A x, a, v : (Holds(x, a, v)' => Holds(x, a, v)) /\ (x # f => (Holds(x, a, v) => Holds(x, a, v)'))
    BY <2>1 DEF Holds
  <2> QED BY <1>0, <2>1, <2>2, HoldersKept
<1>3. ASSUME NEW s \in Sessions, Bootstrap(s) PROVE HoldersStep
  <2>1. /\ flows' = flows /\ outdated' = outdated
        /\ sessions[s].kind = "none" /\ sessions'[s].kind = "bootstrap"
        /\ \A t \in Sessions : t # s => sessions'[t] = sessions[t]
    BY <1>3 DEF Bootstrap, FreshSession, NoSession, history, TypeOK
  <2>2. \A x, a, v : Holds(x, a, v)' <=> Holds(x, a, v)
    BY <2>1 DEF Holds
  <2> QED BY <1>0, <2>1, <2>2, HoldersKept
<1>4. ASSUME NEW s \in Sessions, EndSession(s) PROVE HoldersStep
  <2>1. /\ flows' = flows /\ outdated' = outdated \ {s} /\ sessions'[s].kind = "none"
        /\ \A t \in Sessions : t # s => sessions'[t] = sessions[t]
    BY <1>4 DEF EndSession, NoSession, TypeOK
  <2>2. \A x, a, v : (Holds(x, a, v)' => Holds(x, a, v)) /\ (x # s => (Holds(x, a, v) => Holds(x, a, v)'))
    BY <2>1 DEF Holds
  <2> QED BY <1>0, <2>1, <2>2, HoldersKept
<1>5. ASSUME NEW f \in Flows, ReadAccess(f) PROVE HoldersStep
  <2>1. PICK actor \in Identity :
          /\ IdentityAccess(actor).role # "none"
          /\ flows' = [flows EXCEPT ![f].stage = "entering", ![f].actor = actor,
                                    ![f].version = IdentityAccess(actor).version]
    BY <1>0, <1>5 DEF ReadAccess, TypeOK
  <2>2. /\ flows'[f].actor = actor /\ flows'[f].version = IdentityAccess(actor).version
        /\ flows[f].stage = "granted" /\ sessions' = sessions /\ outdated' = outdated
    BY <1>5, <2>1 DEF ReadAccess, TypeOK, Flow, history
  <2>3. \A g \in Flows : g # f => flows'[g] = flows[g]
    BY <2>1 DEF TypeOK
  <2>4. f \notin outdated
    BY <1>0, <2>2 DEF HoldersInv, Holds
  <2>5. \A x, a, v : Holds(x, a, v)' => Holds(x, a, v) \/ Reads(x, a, v)
    BY <1>0, <2>1, <2>2, <2>3, <2>4 DEF Holds, Reads
  <2>6. \A x, a, v : Holds(x, a, v) => Holds(x, a, v)'
    BY <2>2, <2>3 DEF Holds
  <2> QED BY <1>0, <2>2, <2>5, <2>6 DEF HoldersStep, HoldersInv, Inherits
<1>6. ASSUME NEW f \in Flows, NEW s \in Sessions, NewSession(f, s) PROVE HoldersStep
  <2>1. /\ flows[f].stage = "entering" /\ flows'[f].stage = "none"
        /\ \A g \in Flows : g # f => flows'[g] = flows[g]
    BY <1>6 DEF NewSession, NoFlow, TypeOK
  <2>2. /\ sessions[s].kind = "none"
        /\ sessions'[s] = [kind |-> "identity", account |-> flows[f].actor, version |-> flows[f].version]
        /\ \A t \in Sessions : t # s => sessions'[t] = sessions[t]
    BY <1>6 DEF NewSession, FreshSession, TypeOK
  <2>3. s \notin outdated
    BY <1>0, <2>2 DEF HoldersInv, Holds
  <2>4. outdated' = (outdated \ {f}) \cup (IF f \in outdated THEN {s} ELSE {})
    BY <1>6 DEF NewSession
  <2>5. \A x, a, v : Holds(x, a, v)' => (x # s /\ Holds(x, a, v)) \/ (x = s /\ Holds(f, a, v))
    BY <1>0, <2>1, <2>2 DEF Holds
  <2>6. \A x, a, v : x \notin {f, s} /\ Holds(x, a, v) => Holds(x, a, v)'
    BY <2>1, <2>2 DEF Holds
  <2>7. \A a, v : a = flows[f].actor /\ v = flows[f].version => Holds(s, a, v)'
    BY <2>2 DEF Holds
  <2>8. \A x \in Sessions \cup Flows, a \in Identity, v \in 0..MaxJoins : Holds(x, a, v)' => Inherits(x, a, v)
    BY <1>0, <2>3, <2>4, <2>5 DEF Inherits
  <2>9. ASSUME NEW x \in outdated' PROVE \E a \in Identity, v \in 0..MaxJoins : Holds(x, a, v)'
    <3>1. CASE x = s
      BY <1>0, <2>7, <3>1
    <3>2. CASE x # s
      BY <2>4, <2>6, <3>2 DEF HoldersInv
    <3> QED BY <3>1, <3>2
  <2> QED BY <2>8, <2>9 DEF HoldersStep
<1>7. ASSUME NEW m \in Subjects, MemberRemove(m) PROVE HoldersStep
  <2>1. /\ sessions' = sessions /\ flows' = flows
        /\ \A x \in outdated' :
             \/ x \in outdated
             \/ x \in Sessions /\ sessions[x].kind = "identity" /\ sessions[x].account.sub = m
             \/ x \in Flows /\ flows[x].stage = "entering" /\ flows[x].actor.sub = m
    BY <1>7 DEF MemberRemove
  <2>2. \A a : a.sub = m => Removed(a)
    <3>1. members[m].status = "active" /\ members'[m].status = "revoked"
      BY <1>7 DEF MemberRemove, TypeOK, Member
    <3> QED BY <1>7, <3>1 DEF MemberRemove, MemberProtected, Removed
  <2>3. \A x, a, v : Holds(x, a, v)' <=> Holds(x, a, v)
    BY <2>1 DEF Holds
  <2>4. \A x \in Sessions \cup Flows, a \in Identity, v \in 0..MaxJoins : Holds(x, a, v)' => Inherits(x, a, v)
    BY <1>0, <2>1, <2>2, <2>3 DEF Holds, Inherits
  <2>5. ASSUME NEW x \in outdated' PROVE \E a \in Identity, v \in 0..MaxJoins : Holds(x, a, v)'
    BY <1>0, <2>1, <2>3 DEF HoldersInv, Holds
  <2> QED BY <2>4, <2>5 DEF HoldersStep
<1> QED BY <1>1, <1>2, <1>3, <1>4, <1>5, <1>6, <1>7 DEF Next, Quiet, Requested

-----------------------------------------------------------------------------
(* Removed members stay out *)

LEMMA IssuedStays ==
  ASSUME AccessInv, TypeOK', Pinned, MembersStep, NEW a \in Accounts, NEW v \in 0..MaxJoins, Issued(a, v)
  PROVE  Issued(a, v)'
<1>1. a.sub \in Subjects /\ a.sub # None
  BY AccountParts
<1>2. members[a.sub].version \in 0..MaxJoins /\ members'[a.sub].version \in 0..MaxJoins
  BY <1>1 DEF AccessInv, TypeOK, Member
<1>3. v <= members'[a.sub].version
  BY <1>1, <1>2, AccessAssumption DEF Issued, MembersStep
<1>4. v = 0 => a.sub \in {operator'.sub, owner'.sub}
  BY <1>1, AccountParts DEF Issued, Pinned
<1> QED BY <1>3, <1>4 DEF Issued

LEMMA SpentStays ==
  ASSUME AccessInv, MembersStep, NEW a \in Accounts, NEW v \in 0..MaxJoins, Issued(a, v),
         Spent(a, v) \/ Removed(a)
  PROVE  Spent(a, v)'
<1>1. a.sub \in Subjects /\ members[a.sub].version \in 0..MaxJoins
  BY AccountParts DEF AccessInv, TypeOK, Member
<1>2. v # 0
  BY DEF Spent, Removed, Issued
<1>3. CASE members'[a.sub] = members[a.sub]
  BY <1>3 DEF Spent, Removed
<1>4. CASE members'[a.sub].status = "active" /\ members'[a.sub].version = members[a.sub].version + 1
  BY <1>1, <1>2, <1>4, AccessAssumption DEF Spent, Issued
<1>5. CASE members'[a.sub].status = "revoked"
  BY <1>2, <1>5 DEF Spent
<1> QED BY <1>1, <1>3, <1>4, <1>5 DEF MembersStep

\* Access read now is issued to the account that has it.
LEMMA ReadsAreIssued ==
  ASSUME AccessInv, NEW a \in Identity, IdentityAccess(a).role # "none"
  PROVE  Issued(a, IdentityAccess(a).version)
<1>1. a \in Accounts
  BY AccessType DEF AccessInv
<1>2. members[a.sub].version \in 0..MaxJoins
  BY <1>1, AccountParts DEF AccessInv, TypeOK, Member
<1>3. CASE a = operator
  BY <1>1, <1>2, <1>3, AccountParts DEF IdentityAccess, Issued
<1>4. CASE a # operator /\ members[a.sub].status # "none"
  <2>1. IdentityAccess(a).version = members[a.sub].version
    BY <1>1, <1>4, AccountParts DEF IdentityAccess, NoAccess
  <2>2. members[a.sub].version # 0
    BY <1>1, <1>4, AccountParts DEF AccessInv, MembersInv
  <2> QED BY <1>1, <1>2, <2>1, <2>2 DEF Issued
<1>5. CASE a # operator /\ members[a.sub].status = "none"
  BY <1>1, <1>2, <1>5, AccountParts DEF IdentityAccess, NoAccess, Issued
<1> QED BY <1>3, <1>4, <1>5

LEMMA HoldersInvStep ==
  ASSUME AccessInv, TypeOK', Pinned, MembersStep, HoldersStep
  PROVE  HoldersInv'
<1>1. ASSUME NEW x \in Sessions \cup Flows, NEW a \in Identity, NEW v \in 0..MaxJoins, Holds(x, a, v)'
      PROVE  Issued(a, v)' /\ (x \in outdated' => Spent(a, v)')
  <2>1. CASE Inherits(x, a, v)
    <3>1. PICK y \in Sessions \cup Flows : Holds(y, a, v) /\ (x \in outdated' => y \in outdated \/ Removed(a))
      BY <2>1 DEF Inherits
    <3>2. Issued(a, v) /\ (y \in outdated => Spent(a, v))
      BY <3>1 DEF AccessInv, HoldersInv
    <3>3. a \in Accounts
      BY <3>2 DEF Issued
    <3>4. Issued(a, v)'
      BY <3>2, <3>3, IssuedStays
    <3>5. ASSUME x \in outdated' PROVE Spent(a, v)'
      BY <3>1, <3>2, <3>3, <3>5, SpentStays
    <3> QED BY <3>4, <3>5
  <2>2. CASE Reads(x, a, v)
    <3>1. Issued(a, v) /\ a \in Accounts
      BY <2>2, ReadsAreIssued DEF Reads, Issued
    <3>2. Issued(a, v)'
      BY <3>1, IssuedStays
    <3> QED BY <2>2, <3>2 DEF Reads
  <2> QED BY <1>1, <2>1, <2>2 DEF HoldersStep
<1>2. \A x \in outdated' : \E a \in Identity, v \in 0..MaxJoins : Holds(x, a, v)'
  BY DEF HoldersStep
<1> QED BY <1>1, <1>2 DEF HoldersInv

LEMMA MembersInvStep ==
  ASSUME AccessInv, MembersStep
  PROVE  MembersInv'
<1> SUFFICES ASSUME NEW m \in Subjects, members'[m].status # "none" PROVE members'[m].version # 0
  BY DEF MembersInv
<1>1. members[m].version \in 0..MaxJoins
  BY DEF AccessInv, TypeOK, Member
<1> QED BY <1>1, AccessAssumption DEF MembersStep, AccessInv, MembersInv

LEMMA InitInv == Init => AccessInv
<1> SUFFICES ASSUME Init PROVE AccessInv
  OBVIOUS
<1>1. TypeOK
  BY InitType
<1>2. MembersInv
  BY DEF Init, MembersInv, NoMember
<1>3. ConnectingInv
  BY DEF Init, ConnectingInv, NoFlow
<1>4. HoldersInv
  BY DEF Init, HoldersInv, Holds, NoFlow, NoSession
<1> QED BY <1>1, <1>2, <1>3, <1>4 DEF AccessInv

LEMMA StepInv == AccessInv /\ [Next]_vars => AccessInv'
<1> SUFFICES ASSUME AccessInv, [Next]_vars PROVE AccessInv'
  OBVIOUS
<1>1. TypeOK'
  BY StepType DEF AccessInv
<1>2. Pinned /\ MembersStep /\ HoldersStep
  BY StepPins, MembersMove, HoldersMove DEF AccessInv
<1>3. MembersInv'
  BY <1>2, MembersInvStep
<1>4. ConnectingInv'
  BY ConnectingStep
<1>5. HoldersInv'
  BY <1>1, <1>2, HoldersInvStep
<1> QED BY <1>1, <1>3, <1>4, <1>5 DEF AccessInv

LEMMA InvIsEnough == AccessInv => RemovedStaysOut
<1> SUFFICES ASSUME AccessInv, NEW s \in Sessions, s \in outdated, Live(s) PROVE FALSE
  BY DEF RemovedStaysOut
<1>0. s \notin Flows
  BY AccessAssumption
<1>1. PICK a \in Identity, v \in 0..MaxJoins : Holds(s, a, v)
  BY DEF AccessInv, HoldersInv
<1>2. Issued(a, v) /\ Spent(a, v)
  BY <1>1 DEF AccessInv, HoldersInv
<1>3. sessions[s].kind = "identity" /\ sessions[s].account = a /\ sessions[s].version = v
  BY <1>0, <1>1 DEF Holds
<1>4. IdentityAccess(a).role # "none" /\ IdentityAccess(a).version = v
  BY <1>3 DEF Live
<1>5. a # Nobody /\ members[a.sub].version \in 0..MaxJoins
  BY <1>2, AccountParts DEF Issued, AccessInv, TypeOK, Member
<1>6. v # 0 /\ members[a.sub].status # "none" /\ (members[a.sub].status = "active" => v < members[a.sub].version)
  BY <1>2 DEF Spent
<1>7. a # operator
  BY <1>4, <1>5, <1>6 DEF IdentityAccess
<1>8. members[a.sub].status = "active" /\ v = members[a.sub].version
  BY <1>4, <1>5, <1>6, <1>7 DEF IdentityAccess, NoAccess
<1> QED BY <1>5, <1>6, <1>8

\* No session from before a removal is accepted again: not when the member is
\* invited back, not when an operator is bound or imported, not when the calendar
\* is connected, and not when newSession stores it after the removal.
THEOREM RemovedMembersStayOut == Spec => []RemovedStaysOut
BY InitInv, StepInv, InvIsEnough, PTL DEF Spec

\* The operator's address, and the operator's and the calendar's subjects once
\* bound, never change, whatever flows and imports race.
THEOREM IdentitiesStayPinned == Spec => IdentitiesPinned
<1>1. AccessInv /\ [Next]_vars
        => [/\ operator # Nobody => operator'.email = operator.email
            /\ operator.sub # None => operator'.sub = operator.sub
            /\ owner # Nobody => owner'.sub = owner.sub]_vars
  BY StepPins DEF Pinned
<1> QED BY <1>1, InitInv, StepInv, PTL DEF Spec, IdentitiesPinned

-----------------------------------------------------------------------------
(* One live invitation for an address *)

\* Nothing becomes pending.
NoneRenewed ==
  \A i \in Invites : invitations'[i].status = "pending"
                      => invitations[i].status = "pending" /\ invitations'[i].email = invitations[i].email

LEMMA InvitationsMove ==
  ASSUME TypeOK, [Next]_vars, ~\E s \in Sessions, i \in Invites, e \in Emails : InviteCreate(s, i, e)
  PROVE  NoneRenewed
<1>1. CASE UNCHANGED invitations
  BY <1>1 DEF NoneRenewed
<1>2. ASSUME NEW f \in Flows, NEW a \in Accounts, ClaimInvitation(f, a) PROVE NoneRenewed
  BY <1>2 DEF ClaimInvitation, TypeOK, Invitation, NoInvitation, NoneRenewed
<1>3. ASSUME NEW i \in Invites, InviteExpires(i) \/ \E s \in Sessions : InviteRevoke(s, i) PROVE NoneRenewed
  BY <1>3 DEF InviteExpires, InviteRevoke, TypeOK, Invitation, NoInvitation, NoneRenewed
<1>4. ASSUME NEW m \in Subjects, MemberRemove(m) PROVE NoneRenewed
  BY <1>4 DEF MemberRemove, RevokePending, TypeOK, Invitation, NoInvitation, NoneRenewed
<1>5. \/ UNCHANGED invitations
      \/ \E f \in Flows, a \in Accounts : ClaimInvitation(f, a)
      \/ \E i \in Invites : InviteExpires(i) \/ \E s \in Sessions : InviteRevoke(s, i)
      \/ \E m \in Subjects : MemberRemove(m)
  BY DEF Next, Bootstrap, EndSession, Disconnect, MailDisconnect, Wait, GivesUp, BeginSignIn, Consume, Fail, EstablishOperator,
    ConnectCommit, ConnectMail, ReadAccess, BeginConnect, BeginMailConnect, NewSession, BeginInvite, Begin,
    SignInAnswer, ConnectAnswer, ImportOperator, GrantEnds, vars
<1> QED BY <1>1, <1>2, <1>3, <1>4, <1>5

LEMMA OneLiveStep == TypeOK /\ OneLiveInvitation /\ [Next]_vars => OneLiveInvitation'
<1> SUFFICES ASSUME TypeOK, OneLiveInvitation, [Next]_vars PROVE OneLiveInvitation'
  OBVIOUS
<1>1. CASE NoneRenewed
  BY <1>1 DEF NoneRenewed, OneLiveInvitation
<1>2. ASSUME NEW s \in Sessions, NEW i \in Invites, NEW e \in Emails, InviteCreate(s, i, e)
      PROVE  OneLiveInvitation'
  <2>1. invitations'[i].email = e
    BY <1>2 DEF InviteCreate, RevokePending
  <2>2. ASSUME NEW j \in Invites, j # i, invitations'[j].status = "pending"
        PROVE  invitations[j].status = "pending" /\ invitations'[j].email = invitations[j].email /\ invitations[j].email # e
    <3>1. invitations'[j] = RevokePending(e)[j]
      BY <1>2, <2>2 DEF InviteCreate, RevokePending
    <3>2. CASE invitations[j].status \in {"pending", "expired"} /\ invitations[j].email = e
      <4>1. invitations[j] \in Invitation
        BY <3>2 DEF TypeOK, NoInvitation
      <4> QED BY <2>2, <3>1, <3>2, <4>1 DEF RevokePending, Invitation
    <3>3. CASE ~(invitations[j].status \in {"pending", "expired"} /\ invitations[j].email = e)
      BY <2>2, <3>1, <3>3 DEF RevokePending
    <3> QED BY <3>2, <3>3
  <2> QED BY <2>1, <2>2 DEF OneLiveInvitation
<1> QED BY <1>1, <1>2, InvitationsMove

\* Two invitations for one address are never both good, however they are made,
\* replaced, revoked, claimed and left to expire.
THEOREM OneInvitationPerAddress == Spec => []OneLiveInvitation
<1>1. Init => OneLiveInvitation
  BY DEF Init, OneLiveInvitation, NoInvitation
<1> QED BY <1>1, InitType, StepType, OneLiveStep, PTL DEF Spec

-----------------------------------------------------------------------------
(* What a consent flow keeps *)

Consents == {"calendar", "gmail"}

SameConsent(g) ==
  /\ flows'[g].purpose = flows[g].purpose /\ flows'[g].session = flows[g].session
  /\ flows'[g].invite = flows[g].invite /\ flows'[g].mailVersion = flows[g].mailVersion

Begun(flow) ==
  /\ flow.stage = "open"
  /\ flow.purpose = "invite" => flow.invite \in Invites
  /\ flow.purpose \in Consents => flow.session \in Sessions
  /\ flow.mailVersion \in {0, mailVersion}

FlowMove(g) ==
  \/ flows'[g] = flows[g]
  \/ flows'[g] = NoFlow /\ g \notin withdrawn'
  \/ flows[g] = NoFlow /\ Begun(flows'[g])
  \/ /\ SameConsent(g)
     /\ flows'[g].stage = "establishing" => flows[g].purpose = "signin"
     /\ flows'[g].stage = "connecting" => \E a \in Accounts : ConnectAnswer(g, a) /\ flows'[g].actor = a

LEMMA OneFlowMoves ==
  ASSUME TypeOK, NEW f \in Flows, NEW flow \in Flow, flows' = [flows EXCEPT ![f] = flow]
  PROVE  flows'[f] = flow /\ \A g \in Flows : g # f => flows'[g] = flows[g]
BY DEF TypeOK

LEMMA BeginMoves ==
  ASSUME TypeOK, NEW f \in Flows
  PROVE  /\ BeginSignIn(f) => FlowMove(f)
         /\ \A s \in Sessions : BeginConnect(f, s) \/ BeginMailConnect(f, s) => FlowMove(f)
         /\ \A i \in Invites : BeginInvite(f, i) => FlowMove(f)
<1>1. ASSUME NEW flow, Begin(f, flow), Begun(flow) PROVE FlowMove(f)
  BY <1>1 DEF Begin, TypeOK, FlowMove
<1>2. BeginSignIn(f) => FlowMove(f)
  BY <1>1 DEF BeginSignIn, NoFlow, Begun, Consents
<1>3. \A s \in Sessions : BeginConnect(f, s) \/ BeginMailConnect(f, s) => FlowMove(f)
  BY <1>1 DEF BeginConnect, BeginMailConnect, NoFlow, Begun, Consents
<1>4. \A i \in Invites : BeginInvite(f, i) => FlowMove(f)
  BY <1>1 DEF BeginInvite, NoFlow, Begun, Consents
<1> QED BY <1>2, <1>3, <1>4

\* A flow keeps what it is for, whose it is and the version it began with.
LEMMA FlowsMove ==
  ASSUME TypeOK, [Next]_vars, NEW g \in Flows
  PROVE  FlowMove(g)
<1>0. flows[g] \in Flow
  BY DEF TypeOK
<1>1. CASE flows' = flows
  BY <1>1 DEF FlowMove
<1>2. ASSUME NEW f \in Flows, BeginSignIn(f) PROVE FlowMove(g)
  BY <1>2, BeginMoves DEF BeginSignIn, Begin, TypeOK, FlowMove
<1>3. ASSUME NEW f \in Flows, NEW s \in Sessions, BeginConnect(f, s) \/ BeginMailConnect(f, s) PROVE FlowMove(g)
  BY <1>3, BeginMoves DEF BeginConnect, BeginMailConnect, Begin, TypeOK, FlowMove
<1>4. ASSUME NEW f \in Flows, NEW i \in Invites, BeginInvite(f, i) PROVE FlowMove(g)
  BY <1>4, BeginMoves DEF BeginInvite, Begin, TypeOK, FlowMove
<1>5. ASSUME NEW f \in Flows, Consume(f) \/ EstablishOperator(f) \/ ConnectCommit(f) \/ ConnectMail(f) \/ ReadAccess(f)
      PROVE  FlowMove(g)
  <2>1. /\ f # g => flows'[g] = flows[g]
        /\ SameConsent(f) /\ flows'[f].stage \in {"asked", "granted", "entering"}
    BY <1>0, <1>5 DEF Consume, EstablishOperator, ConnectCommit, ConnectMail, ReadAccess, TypeOK, Flow, SameConsent
  <2> QED BY <2>1 DEF FlowMove
<1>6. ASSUME NEW f \in Flows, NEW a \in Accounts, SignInAnswer(f, a) \/ ClaimInvitation(f, a)
      PROVE  FlowMove(g)
  <2>1. /\ f # g => flows'[g] = flows[g]
        /\ SameConsent(f) /\ flows'[f].stage \in {"establishing", "granted"}
        /\ flows'[f].stage = "establishing" => flows[f].purpose = "signin"
    BY <1>6 DEF SignInAnswer, ClaimInvitation, TypeOK, Flow, SameConsent
  <2> QED BY <2>1 DEF FlowMove
<1>7. ASSUME NEW f \in Flows, NEW a \in Accounts, ConnectAnswer(f, a) PROVE FlowMove(g)
  <2>1. /\ f # g => flows'[g] = flows[g]
        /\ SameConsent(f) /\ flows'[f].stage = "connecting" /\ flows'[f].actor = a
    BY <1>7 DEF ConnectAnswer, TypeOK, Flow, SameConsent
  <2> QED BY <1>7, <2>1 DEF FlowMove
<1>8. ASSUME NEW f \in Flows, Fail(f) \/ \E s \in Sessions : NewSession(f, s) PROVE FlowMove(g)
  BY <1>8 DEF Fail, End, NewSession, TypeOK, FlowMove
<1>9. \/ flows' = flows
      \/ \E f \in Flows : BeginSignIn(f)
      \/ \E f \in Flows, s \in Sessions : BeginConnect(f, s) \/ BeginMailConnect(f, s)
      \/ \E f \in Flows, i \in Invites : BeginInvite(f, i)
      \/ \E f \in Flows : Consume(f) \/ EstablishOperator(f) \/ ConnectCommit(f) \/ ConnectMail(f) \/ ReadAccess(f)
      \/ \E f \in Flows, a \in Accounts : SignInAnswer(f, a) \/ ClaimInvitation(f, a)
      \/ \E f \in Flows, a \in Accounts : ConnectAnswer(f, a)
      \/ \E f \in Flows : Fail(f) \/ \E s \in Sessions : NewSession(f, s)
  BY DEF Next, Bootstrap, EndSession, Disconnect, MailDisconnect, Wait, GivesUp, InviteRevoke, InviteCreate, InviteExpires,
    MemberRemove, ImportOperator, GrantEnds, vars
<1> QED BY <1>1, <1>2, <1>3, <1>4, <1>5, <1>6, <1>7, <1>8, <1>9

\* Only a withdrawal moves the version on, and it moves nothing else.
LEMMA VersionMoves ==
  ASSUME [Next]_vars
  PROVE  \/ mailVersion' = mailVersion /\ withdrawn' \subseteq withdrawn
         \/ /\ mailVersion' = mailVersion + 1 /\ UNCHANGED flows
            /\ withdrawn' = {f \in Flows : flows[f].purpose \in Consents}
<1>1. ASSUME Disconnect \/ MailDisconnect
      PROVE  /\ mailVersion' = mailVersion + 1 /\ UNCHANGED flows
             /\ withdrawn' = {f \in Flows : flows[f].purpose \in Consents}
  BY <1>1 DEF Disconnect, MailDisconnect, DropMailGrant, Consents
<1>2. CASE \/ \E s \in Sessions : Bootstrap(s) \/ EndSession(s) \/ Wait(s)
           \/ \E request \in waiting : GivesUp(request)
           \/ \E f \in Flows, s \in Sessions : NewSession(f, s)
           \/ \E f \in Flows : Fail(f)
           \/ \E m \in Subjects : MemberRemove(m)
  BY <1>2 DEF Bootstrap, EndSession, Wait, GivesUp, NewSession, Fail, End, MemberRemove, google, history
<1>3. CASE \/ \E f \in Flows : BeginSignIn(f)
           \/ \E f \in Flows, s \in Sessions : BeginConnect(f, s) \/ BeginMailConnect(f, s)
           \/ \E f \in Flows, i \in Invites : BeginInvite(f, i)
  BY <1>3 DEF BeginSignIn, BeginConnect, BeginMailConnect, BeginInvite, Begin, google, history
<1>4. CASE \E f \in Flows : \/ Consume(f) \/ EstablishOperator(f) \/ ConnectCommit(f) \/ ConnectMail(f)
                            \/ ReadAccess(f)
                            \/ \E a \in Accounts : SignInAnswer(f, a) \/ ClaimInvitation(f, a) \/ ConnectAnswer(f, a)
  BY <1>4 DEF Consume, EstablishOperator, ConnectCommit, ConnectMail, ReadAccess, SignInAnswer, ClaimInvitation,
    ConnectAnswer, google, history
<1>5. CASE \/ \E s \in Sessions, i \in Invites : InviteRevoke(s, i) \/ \E e \in Emails : InviteCreate(s, i, e)
           \/ \E i \in Invites : InviteExpires(i)
           \/ \E p \in Imports : ImportOperator(p)
           \/ GrantEnds \/ UNCHANGED vars
  BY <1>5 DEF InviteRevoke, InviteCreate, InviteExpires, ImportOperator, GrantEnds, vars, google, history
<1> QED BY <1>1, <1>2, <1>3, <1>4, <1>5 DEF Next

\* What a flow is for, and since when it may not bring the mail grant back.
ConsentInv ==
  \A f \in Flows :
    /\ flows[f].purpose = "invite" => flows[f].invite \in Invites
    /\ flows[f].purpose \in Consents => flows[f].session \in Sessions
    /\ flows[f].stage = "establishing" => flows[f].purpose = "signin"
    /\ flows[f].stage = "connecting" => flows[f].purpose = "calendar"
    /\ flows[f].mailVersion <= mailVersion
    /\ f \in withdrawn => flows[f].purpose \in Consents /\ flows[f].mailVersion < mailVersion

LEMMA ConsentStep == TypeOK /\ ConsentInv /\ [Next]_vars => ConsentInv'
<1> SUFFICES ASSUME TypeOK, ConsentInv, [Next]_vars, NEW f \in Flows
             PROVE  /\ flows'[f].purpose = "invite" => flows'[f].invite \in Invites
                    /\ flows'[f].purpose \in Consents => flows'[f].session \in Sessions
                    /\ flows'[f].stage = "establishing" => flows'[f].purpose = "signin"
                    /\ flows'[f].stage = "connecting" => flows'[f].purpose = "calendar"
                    /\ flows'[f].mailVersion <= mailVersion'
                    /\ f \in withdrawn' => flows'[f].purpose \in Consents /\ flows'[f].mailVersion < mailVersion'
  BY DEF ConsentInv
<1>1. /\ flows[f] \in Flow /\ mailVersion \in Nat /\ flows[f].mailVersion \in Nat
      /\ NoFlow.purpose = "none" /\ NoFlow.stage = "none" /\ NoFlow.mailVersion = 0
  BY AccessAssumption DEF TypeOK, Flow, NoFlow
<1>2. CASE mailVersion' = mailVersion + 1 /\ UNCHANGED flows
             /\ withdrawn' = {g \in Flows : flows[g].purpose \in Consents}
  BY <1>1, <1>2 DEF ConsentInv
<1>3. CASE mailVersion' = mailVersion /\ withdrawn' \subseteq withdrawn
  <2>1. CASE flows'[f] = flows[f]
    BY <1>3, <2>1 DEF ConsentInv
  <2>2. CASE flows'[f] = NoFlow /\ f \notin withdrawn'
    BY <1>1, <1>3, <2>2 DEF Consents
  <2>3. CASE flows[f] = NoFlow /\ Begun(flows'[f])
    <3>1. f \notin withdrawn
      BY <1>1, <2>3 DEF ConsentInv, Consents
    <3> QED BY <1>1, <1>3, <2>3, <3>1 DEF Begun
  <2>4. CASE /\ SameConsent(f)
             /\ flows'[f].stage = "establishing" => flows[f].purpose = "signin"
             /\ flows'[f].stage = "connecting" => \E a \in Accounts : ConnectAnswer(f, a) /\ flows'[f].actor = a
    BY <1>1, <1>3, <2>4 DEF ConsentInv, SameConsent, ConnectAnswer
  <2> QED BY <2>1, <2>2, <2>3, <2>4, FlowsMove DEF FlowMove
<1> QED BY <1>2, <1>3, VersionMoves

LEMMA InitConsent == Init => ConsentInv
<1> SUFFICES ASSUME Init PROVE ConsentInv
  OBVIOUS
<1>1. NoFlow.purpose = "none" /\ NoFlow.stage = "none" /\ NoFlow.mailVersion = 0
  BY DEF NoFlow
<1> QED BY <1>1 DEF Init, ConsentInv, Consents

\* A consent is granted by the step that stores what Google granted.
LEMMA GrantedBy ==
  ASSUME TypeOK, ConsentInv, [Next]_vars, NEW f \in Flows,
         flows[f].purpose \in Consents, flows[f].stage # "granted", flows'[f].stage = "granted"
  PROVE  ConnectCommit(f) \/ ConnectMail(f)
<1>0. flows'[f] # flows[f]
  OBVIOUS
<1>a. ASSUME NEW g \in Flows, NEW flow, Begin(g, flow), flow.stage = "open" PROVE FALSE
  BY <1>0, <1>a DEF Begin, TypeOK
<1>1. ASSUME NEW g \in Flows, BeginSignIn(g) PROVE FALSE
  BY <1>a, <1>1 DEF BeginSignIn, NoFlow
<1>2. ASSUME NEW g \in Flows, NEW s \in Sessions, BeginConnect(g, s) \/ BeginMailConnect(g, s) PROVE FALSE
  BY <1>a, <1>2 DEF BeginConnect, BeginMailConnect, NoFlow
<1>3. ASSUME NEW g \in Flows, NEW i \in Invites, BeginInvite(g, i) PROVE FALSE
  BY <1>0, <1>3 DEF BeginInvite, Begin, TypeOK, NoFlow
<1>4. ASSUME NEW g \in Flows, Consume(g) \/ EstablishOperator(g) \/ ReadAccess(g) PROVE FALSE
  BY <1>0, <1>4 DEF Consume, EstablishOperator, ReadAccess, TypeOK, Flow, ConsentInv, Consents
<1>5. ASSUME NEW g \in Flows, NEW a \in Accounts, SignInAnswer(g, a) \/ ClaimInvitation(g, a) \/ ConnectAnswer(g, a)
      PROVE  FALSE
  BY <1>0, <1>5 DEF SignInAnswer, ClaimInvitation, ConnectAnswer, TypeOK, Flow, Consents
<1>6. ASSUME NEW g \in Flows, Fail(g) \/ \E s \in Sessions : NewSession(g, s) PROVE FALSE
  BY <1>0, <1>6 DEF Fail, End, NewSession, TypeOK, NoFlow
<1>7. ASSUME NEW g \in Flows, ConnectCommit(g) \/ ConnectMail(g) PROVE g = f
  BY <1>0, <1>7 DEF ConnectCommit, ConnectMail, TypeOK
<1>9. \/ \E g \in Flows : BeginSignIn(g)
      \/ \E g \in Flows, s \in Sessions : BeginConnect(g, s) \/ BeginMailConnect(g, s)
      \/ \E g \in Flows, i \in Invites : BeginInvite(g, i)
      \/ \E g \in Flows : Consume(g) \/ EstablishOperator(g) \/ ReadAccess(g)
      \/ \E g \in Flows, a \in Accounts : SignInAnswer(g, a) \/ ClaimInvitation(g, a) \/ ConnectAnswer(g, a)
      \/ \E g \in Flows : Fail(g) \/ \E s \in Sessions : NewSession(g, s)
      \/ \E g \in Flows : ConnectCommit(g) \/ ConnectMail(g)
  BY <1>0 DEF Next, Bootstrap, EndSession, Disconnect, MailDisconnect, Wait, GivesUp, InviteRevoke, InviteCreate, InviteExpires,
    MemberRemove, ImportOperator, GrantEnds, vars
<1> QED BY <1>1, <1>2, <1>3, <1>4, <1>5, <1>6, <1>7, <1>9

\* What authorizeCalendarTx accepts has access.
LEMMA AuthorizedHasAccess ==
  ASSUME AccessInv, NEW f \in Flows, flows[f].session \in Sessions, AuthorizeCalendarTx(f)
  PROVE  LET session == sessions[flows[f].session] IN
         \/ session.kind = "bootstrap" /\ BootstrapAllowed
         \/ session.kind = "identity" /\ IdentityAccess(session.account).role # "none"
<1> DEFINE session == sessions[flows[f].session]
           account == session.account
<1>1. CASE session.kind # "identity"
  BY <1>1 DEF AuthorizeCalendarTx
<1>2. CASE session.kind = "identity"
  <2>1. session \in Session
    BY DEF AccessInv, TypeOK
  <2>2. account \in Accounts /\ account # Nobody
    <3>1. Holds(flows[f].session, account, session.version)
      BY <1>2 DEF Holds
    <3>2. account \in Identity /\ session.version \in 0..MaxJoins
      BY <2>1 DEF Session
    <3> QED BY <3>1, <3>2, AccountParts DEF AccessInv, HoldersInv, Issued
  <2> HIDE DEF account
  <2>3. \/ account = operator \/ (members[account.sub].status = "active" /\ members[account.sub].email = account.email)
        \/ owner = account /\ members[account.sub].status = "none"
    BY <1>2 DEF AuthorizeCalendarTx, account
  <2>4. IdentityAccess(account).role # "none"
    BY <2>2, <2>3 DEF IdentityAccess
  <2> QED BY <1>2, <2>4 DEF account
<1> QED BY <1>1, <1>2

\* A calendar or mail connection is stored only while the session that asked for
\* it is there and its account has access, whatever happened while the owner was
\* at Google (connectAuthorized, connectMail, authorizeCalendarTx).
THEOREM ConnectionsAreAllowed == Spec => ConnectsWhileAllowed
<1>1. AccessInv /\ ConsentInv /\ [Next]_vars
        => [\A f \in Flows : /\ flows[f].purpose \in {"calendar", "gmail"}
                             /\ flows[f].stage # "granted" /\ flows'[f].stage = "granted"
              => LET session == sessions[flows[f].session] IN
                 \/ session.kind = "bootstrap" /\ BootstrapAllowed
                 \/ session.kind = "identity" /\ IdentityAccess(session.account).role # "none"]_vars
  <2> SUFFICES ASSUME AccessInv, ConsentInv, [Next]_vars, NEW f \in Flows, flows[f].purpose \in Consents,
                      flows[f].stage # "granted", flows'[f].stage = "granted"
               PROVE  LET session == sessions[flows[f].session] IN
                      \/ session.kind = "bootstrap" /\ BootstrapAllowed
                      \/ session.kind = "identity" /\ IdentityAccess(session.account).role # "none"
    BY DEF Consents
  <2>1. AuthorizeCalendarTx(f) /\ flows[f].session \in Sessions
    BY GrantedBy DEF AccessInv, ConsentInv, ConnectCommit, ConnectMail
  <2> QED BY <2>1, AuthorizedHasAccess
<1>2. AccessInv => TypeOK
  BY DEF AccessInv
<1> QED BY <1>1, <1>2, InitInv, StepInv, InitConsent, ConsentStep, PTL DEF Spec, ConnectsWhileAllowed

\* A consent that began before the mail grant was withdrawn never brings it back:
\* the version it began with is behind (dropMailGrant, validMailVersionTx).
THEOREM WithdrawnGrantsStayOut == Spec => WithdrawnStaysWithdrawn
<1>1. TypeOK /\ ConsentInv /\ [Next]_vars
        => [\A f \in withdrawn : flows[f].stage # "granted" => flows'[f].stage # "granted" \/ mail' = mail]_vars
  <2> SUFFICES ASSUME TypeOK, ConsentInv, [Next]_vars, NEW f \in withdrawn,
                      flows[f].stage # "granted", flows'[f].stage = "granted"
               PROVE  FALSE
    OBVIOUS
  <2>1. f \in Flows /\ mailVersion \in Nat /\ flows[f].mailVersion \in Nat
    BY DEF TypeOK, Flow
  <2>2. flows[f].purpose \in Consents /\ flows[f].mailVersion < mailVersion
    BY <2>1 DEF ConsentInv
  <2>3. ConnectCommit(f) \/ ConnectMail(f)
    BY <2>1, <2>2, GrantedBy
  <2> QED BY <2>1, <2>2, <2>3 DEF ConnectCommit, ConnectMail, ValidMailVersion
<1> QED BY <1>1, InitType, StepType, InitConsent, ConsentStep, PTL DEF Spec, WithdrawnStaysWithdrawn

\* Every way into the workspace uses up an invitation for that address which is
\* still good at that moment (claimInvitation).
THEOREM MembersAreInvited == Spec => JoinsByLiveInvitation
<1>1. TypeOK /\ ConsentInv /\ [Next]_vars
        => [\A m \in Subjects : members[m].status # "active" /\ members'[m].status = "active" =>
              \E i \in Invites : /\ invitations[i].status = "pending" /\ invitations'[i].status = "used"
                                 /\ invitations[i].email = members'[m].email]_vars
  <2> SUFFICES ASSUME TypeOK, ConsentInv, [Next]_vars, NEW m \in Subjects,
                      members[m].status # "active", members'[m].status = "active"
               PROVE  \E i \in Invites : /\ invitations[i].status = "pending" /\ invitations'[i].status = "used"
                                         /\ invitations[i].email = members'[m].email
    OBVIOUS
  <2>1. members' # members
    OBVIOUS
  <2>2. ~\E c \in Subjects : MemberRemove(c)
    BY DEF MemberRemove, TypeOK, Member
  <2>3. PICK f \in Flows, a \in Accounts : ClaimInvitation(f, a)
    BY <2>1, <2>2 DEF Next, Bootstrap, EndSession, Disconnect, MailDisconnect, Wait, GivesUp, BeginSignIn, Consume, Fail,
      EstablishOperator, ConnectCommit, ConnectMail, ReadAccess, BeginConnect, BeginMailConnect, NewSession,
      BeginInvite, Begin, SignInAnswer, ConnectAnswer, InviteRevoke, InviteCreate, InviteExpires,
      ImportOperator, GrantEnds, vars
  <2>4. m = a.sub /\ members'[m].email = a.email
    BY <2>3 DEF ClaimInvitation, AddMember, TypeOK
  <2>5. flows[f].invite \in Invites
    BY <2>3 DEF ClaimInvitation, ConsentInv
  <2>6. /\ invitations[flows[f].invite].status = "pending"
        /\ invitations[flows[f].invite].email = a.email
        /\ invitations' = [invitations EXCEPT ![flows[f].invite].status = "used"]
    BY <2>3 DEF ClaimInvitation, CheckInvitation
  <2>7. invitations[flows[f].invite] \in Invitation
    BY <2>5, <2>6 DEF TypeOK, NoInvitation
  <2>8. invitations'[flows[f].invite].status = "used"
    BY <2>5, <2>6, <2>7 DEF TypeOK, Invitation
  <2> QED BY <2>4, <2>5, <2>6, <2>8
<1> QED BY <1>1, InitType, StepType, InitConsent, ConsentStep, PTL DEF Spec, JoinsByLiveInvitation

-----------------------------------------------------------------------------
(* The account that owns the calendar *)

\* Google accounts keep their addresses.  The run renamed_account has one that
\* does not, and shows that the calendar's account may then lose its access.
AddressesStay == \A a, b \in Accounts : a.sub = b.sub => a = b

\* A member's row has the address of an account of that subject.
MemberEmailsInv ==
  \A m \in Subjects : members[m].status # "none" =>
    \E a \in Accounts : a.sub = m /\ a.email = members[m].email

\* Nobody joins before the set-up sign-in is closed for good.
SetUpInv == ~disabled => \A m \in Subjects : members[m].status = "none"

\* A connection under way is for the account of the session that asked for it.
ConnectorInv ==
  \A f \in Flows : flows[f].stage = "connecting" /\ sessions[flows[f].session].kind = "identity"
                     => sessions[flows[f].session].account.sub = flows[f].actor.sub

OwnerInv == AccessInv /\ ConsentInv /\ MemberEmailsInv /\ SetUpInv /\ ConnectorInv

\* A session's row is only ever removed, or made under a name that nothing refers to.
LEMMA SessionsMove ==
  ASSUME TypeOK, [Next]_vars, NEW s \in Sessions
  PROVE  sessions'[s] = sessions[s] \/ sessions'[s].kind = "none" \/ FreshSession(s)
<1>1. ASSUME NEW t \in Sessions, Bootstrap(t) PROVE sessions'[s] = sessions[s] \/ FreshSession(s)
  BY <1>1 DEF Bootstrap, TypeOK
<1>2. ASSUME NEW t \in Sessions, EndSession(t) PROVE sessions'[s] = sessions[s] \/ sessions'[s].kind = "none"
  BY <1>2 DEF EndSession, NoSession, TypeOK
<1>3. ASSUME NEW f \in Flows, NEW t \in Sessions, NewSession(f, t)
      PROVE  sessions'[s] = sessions[s] \/ FreshSession(s)
  BY <1>3 DEF NewSession, TypeOK
<1>4. \/ sessions' = sessions
      \/ \E t \in Sessions : Bootstrap(t) \/ EndSession(t)
      \/ \E f \in Flows, t \in Sessions : NewSession(f, t)
  BY DEF Next, Disconnect, MailDisconnect, Wait, GivesUp, BeginSignIn, Consume, Fail, EstablishOperator, ConnectCommit, ConnectMail,
    ReadAccess, BeginConnect, BeginMailConnect, BeginInvite, Begin, SignInAnswer, ClaimInvitation, ConnectAnswer,
    InviteRevoke, InviteCreate, InviteExpires, MemberRemove, ImportOperator, GrantEnds, vars
<1> QED BY <1>1, <1>2, <1>3, <1>4

LEMMA ConnectorStep ==
  ASSUME OwnerInv, [Next]_vars
  PROVE  ConnectorInv'
<1> SUFFICES ASSUME NEW f \in Flows, flows'[f].stage = "connecting",
                    sessions'[flows'[f].session].kind = "identity"
             PROVE  sessions'[flows'[f].session].account.sub = flows'[f].actor.sub
  BY DEF ConnectorInv
<1>0. TypeOK /\ NoFlow.stage = "none"
  BY DEF OwnerInv, AccessInv, NoFlow
<1>1. CASE flows'[f] = flows[f]
  <2>1. flows[f].session \in Sessions
    BY <1>1 DEF OwnerInv, ConsentInv, Consents
  <2>2. ~FreshSession(flows[f].session)
    BY DEF FreshSession
  <2>3. sessions'[flows[f].session] = sessions[flows[f].session]
    BY <1>0, <1>1, <2>1, <2>2, SessionsMove
  <2> QED BY <1>1, <2>3 DEF OwnerInv, ConnectorInv
<1>2. ASSUME NEW a \in Accounts, ConnectAnswer(f, a), flows'[f].actor = a, SameConsent(f)
      PROVE  sessions'[flows'[f].session].account.sub = flows'[f].actor.sub
  <2> DEFINE s == flows[f].session
  <2>1. /\ s \in Sessions /\ flows'[f].session = s /\ sessions' = sessions
        /\ sessions[s].account = flows[f].actor /\ flows[f].actor.sub \in {None, a.sub}
        /\ sessions[s] \in Session /\ sessions[s].kind = "identity"
    BY <1>0, <1>2 DEF ConnectAnswer, SameConsent, OwnerInv, ConsentInv, Consents, TypeOK
  <2>2. Holds(s, sessions[s].account, sessions[s].version)
    BY <2>1 DEF Holds
  <2>3. sessions[s].account \in Identity /\ sessions[s].version \in 0..MaxJoins
    BY <2>1 DEF Session
  <2>4. sessions[s].account \in Accounts
    BY <2>1, <2>2, <2>3 DEF OwnerInv, AccessInv, HoldersInv, Issued
  <2> QED BY <1>2, <2>1, <2>4, AccountParts
<1> QED BY <1>0, <1>1, <1>2, FlowsMove DEF FlowMove, Begun

\* Members change where an invitation is claimed and where one is removed, whom
\* handleMemberRemove does not protect.
LEMMA MembersFollow ==
  ASSUME TypeOK, MemberEmailsInv, SetUpInv, [Next]_vars
  PROVE  /\ MemberEmailsInv' /\ SetUpInv'
         /\ \A m \in Subjects : members[m].status = "active" /\ members'[m].status = "revoked"
                                  => m \notin {operator.sub, owner.sub}
<1>1. CASE UNCHANGED members /\ (disabled => disabled')
  BY <1>1 DEF MemberEmailsInv, SetUpInv, TypeOK, Member
<1>2. ASSUME NEW f \in Flows, NEW a \in Accounts, ClaimInvitation(f, a)
      PROVE  /\ MemberEmailsInv' /\ SetUpInv'
             /\ \A m \in Subjects : members[m].status = "active" => members'[m].status = "active"
  <2>1. /\ disabled'
        /\ \A m \in Subjects : m # a.sub => members'[m] = members[m]
        /\ a.sub \in Subjects => members'[a.sub].status = "active" /\ members'[a.sub].email = a.email
    BY <1>2 DEF ClaimInvitation, AddMember, TypeOK
  <2> QED BY <2>1, AccountParts DEF MemberEmailsInv, SetUpInv
<1>3. ASSUME NEW c \in Subjects, MemberRemove(c)
      PROVE  /\ MemberEmailsInv' /\ SetUpInv'
             /\ \A m \in Subjects : members[m].status = "active" /\ members'[m].status = "revoked"
                                      => m \notin {operator.sub, owner.sub}
  <2>1. /\ members[c].status = "active" /\ c \notin {operator.sub, owner.sub} /\ disabled' = disabled
        /\ \A m \in Subjects : /\ m # c => members'[m] = members[m]
                               /\ members'[m].email = members[m].email
    BY <1>3 DEF MemberRemove, MemberProtected, TypeOK, Member
  <2> QED BY <2>1 DEF MemberEmailsInv, SetUpInv
<1>4. \/ UNCHANGED members /\ (disabled => disabled')
      \/ \E f \in Flows, a \in Accounts : ClaimInvitation(f, a)
      \/ \E c \in Subjects : MemberRemove(c)
  <2>1. CASE (\E s \in Sessions : Bootstrap(s) \/ EndSession(s)) \/ Requested
    BY <2>1 DEF Requested, Bootstrap, EndSession, Disconnect, MailDisconnect, Wait, GivesUp
  <2>2. CASE \E f \in Flows : BeginSignIn(f) \/ Consume(f) \/ Fail(f) \/ EstablishOperator(f)
                                \/ ConnectCommit(f) \/ ConnectMail(f) \/ ReadAccess(f)
    BY <2>2 DEF BeginSignIn, Begin, Consume, Fail, EstablishOperator, ConnectCommit, ConnectMail, ReadAccess
  <2>3. CASE \/ \E f \in Flows, s \in Sessions : BeginConnect(f, s) \/ BeginMailConnect(f, s) \/ NewSession(f, s)
             \/ \E f \in Flows, i \in Invites : BeginInvite(f, i)
             \/ \E f \in Flows, a \in Accounts : SignInAnswer(f, a) \/ ConnectAnswer(f, a)
    BY <2>3 DEF BeginConnect, BeginMailConnect, NewSession, BeginInvite, Begin, SignInAnswer, ConnectAnswer
  <2>4. CASE \/ \E s \in Sessions, i \in Invites : InviteRevoke(s, i) \/ \E e \in Emails : InviteCreate(s, i, e)
             \/ \E i \in Invites : InviteExpires(i)
             \/ \E p \in Imports : ImportOperator(p)
             \/ GrantEnds \/ UNCHANGED vars
    BY <2>4 DEF InviteRevoke, InviteCreate, InviteExpires, ImportOperator, GrantEnds, vars
  <2> QED BY <2>1, <2>2, <2>3, <2>4 DEF Next, Requested
<1>5. UNCHANGED members
        => \A m \in Subjects : ~(members[m].status = "active" /\ members'[m].status = "revoked")
  OBVIOUS
<1>6. ASSUME UNCHANGED members, disabled => disabled'
      PROVE  /\ MemberEmailsInv' /\ SetUpInv'
             /\ \A m \in Subjects : members[m].status = "active" /\ members'[m].status = "revoked"
                                      => m \notin {operator.sub, owner.sub}
  BY <1>1, <1>5, <1>6
<1>7. ASSUME NEW f \in Flows, NEW a \in Accounts, ClaimInvitation(f, a), NEW m \in Subjects,
             members[m].status = "active", members'[m].status = "revoked"
      PROVE  FALSE
  BY <1>2, <1>7
<1> QED BY <1>2, <1>3, <1>4, <1>6, <1>7

\* With one address to an account, access is kept unless its member is removed.
LEMMA OwnerRole ==
  ASSUME AddressesStay, TypeOK, MemberEmailsInv
  PROVE  CalendarOwnerHasAccess
           <=> (owner # Nobody => owner = operator \/ members[owner.sub].status # "revoked")
<1>1. CASE owner = Nobody
  BY <1>1 DEF CalendarOwnerHasAccess
<1>2. CASE owner # Nobody
  <2>1. owner \in Accounts /\ owner.sub \in Subjects
    BY <1>2, AccountParts DEF TypeOK, Identity
  <2>2. members[owner.sub].status # "none" => members[owner.sub].email = owner.email
    BY <2>1 DEF MemberEmailsInv, AddressesStay
  <2>3. members[owner.sub].status \in {"none", "active", "revoked"}
    BY <2>1 DEF TypeOK, Member
  <2> QED BY <1>2, <2>2, <2>3 DEF CalendarOwnerHasAccess, IdentityAccess, NoAccess
<1> QED BY <1>1, <1>2

LEMMA OwnerAccessStep ==
  ASSUME AddressesStay, OwnerInv, OwnerInv', CalendarOwnerHasAccess, [Next]_vars
  PROVE  CalendarOwnerHasAccess'
<1>0. TypeOK /\ TypeOK' /\ MemberEmailsInv /\ MemberEmailsInv' /\ SetUpInv /\ AccessInv
  BY DEF OwnerInv, AccessInv
<1>1. Pinned /\ MembersStep
  BY <1>0, StepPins, MembersMove
<1>2. SUFFICES ASSUME owner' # Nobody
               PROVE  owner' = operator' \/ members'[owner'.sub].status # "revoked"
  <2>1. (owner' # Nobody => owner' = operator' \/ members'[owner'.sub].status # "revoked")
          => CalendarOwnerHasAccess'
    <3>1. CASE owner' = Nobody
      BY <3>1 DEF CalendarOwnerHasAccess
    <3>2. CASE owner' # Nobody
      <4>1. owner' \in Accounts /\ owner'.sub \in Subjects
        BY <1>0, <3>2, AccountParts DEF TypeOK, Identity
      <4>2. members'[owner'.sub].status # "none" => members'[owner'.sub].email = owner'.email
        BY <1>0, <4>1 DEF MemberEmailsInv, AddressesStay
      <4>3. members'[owner'.sub].status \in {"none", "active", "revoked"}
        BY <1>0, <4>1 DEF TypeOK, Member
      <4> QED BY <3>2, <4>2, <4>3 DEF CalendarOwnerHasAccess, IdentityAccess, NoAccess
    <3> QED BY <3>1, <3>2
  <2> QED BY <2>1
<1>3. operator \in Accounts => operator' = operator
  <2>1. operator' \in Accounts \cup Imports \cup {Nobody} /\ operator \in Accounts \cup Imports \cup {Nobody}
    BY <1>0 DEF TypeOK
  <2> QED BY <1>1, <2>1, AccountParts DEF Pinned
<1>4. CASE owner' = owner
  <2>1. owner \in Accounts /\ owner.sub \in Subjects
    BY <1>0, <1>2, <1>4, AccountParts DEF TypeOK, Identity
  <2>2. owner = operator \/ members[owner.sub].status # "revoked"
    BY <1>0, <1>2, <1>4, OwnerRole
  <2>3. CASE owner = operator
    BY <1>3, <1>4, <2>1, <2>3
  <2>4. CASE members[owner.sub].status # "revoked"
    <3>1. members[owner.sub].status = "active" => members'[owner.sub].status # "revoked"
      BY <1>0, <2>1, MembersFollow
    <3> QED BY <1>1, <1>4, <2>1, <2>4, <3>1 DEF MembersStep
  <2> QED BY <2>2, <2>3, <2>4
<1>5. ASSUME NEW f \in Flows, ConnectCommit(f)
      PROVE  owner' = operator' \/ members'[owner'.sub].status # "revoked"
  <2> DEFINE session == sessions[flows[f].session]
             a == flows[f].actor
  <2>1. /\ owner' = a /\ operator' = operator /\ members' = members /\ AuthorizeCalendarTx(f)
        /\ flows[f].stage = "connecting"
    BY <1>5 DEF ConnectCommit
  <2>2. a \in Accounts /\ a.sub \in Subjects /\ flows[f].session \in Sessions
    BY <2>1, AccountParts DEF OwnerInv, AccessInv, ConnectingInv, ConsentInv, Consents
  <2>3. CASE session.kind = "bootstrap"
    BY <1>0, <2>1, <2>2, <2>3 DEF AuthorizeCalendarTx, BootstrapAllowed, SetUpInv
  <2>4. CASE session.kind = "identity"
    <3>1. session \in Session
      BY <1>0, <2>2 DEF TypeOK
    <3>2. Holds(flows[f].session, session.account, session.version)
      BY <2>2, <2>4 DEF Holds
    <3>3. session.account \in Identity /\ session.version \in 0..MaxJoins
      BY <3>1 DEF Session
    <3>4. session.account \in Accounts
      BY <2>2, <3>2, <3>3 DEF OwnerInv, AccessInv, HoldersInv, Issued
    <3>5. session.account = a
      BY <2>1, <2>2, <2>4, <3>4 DEF OwnerInv, ConnectorInv, AddressesStay
    <3>6. a = operator \/ members[a.sub].status \in {"active", "none"}
      BY <2>1, <2>4, <3>5 DEF AuthorizeCalendarTx
    <3> QED BY <2>1, <3>6
  <2> QED BY <2>1, <2>3, <2>4 DEF AuthorizeCalendarTx
<1>6. owner' = owner \/ \E f \in Flows : ConnectCommit(f)
  BY DEF Next, Bootstrap, EndSession, Disconnect, MailDisconnect, Wait, GivesUp, BeginSignIn, Consume, Fail, EstablishOperator,
    ConnectMail, ReadAccess, BeginConnect, BeginMailConnect, NewSession, BeginInvite, Begin, SignInAnswer,
    ClaimInvitation, ConnectAnswer, InviteRevoke, InviteCreate, InviteExpires, MemberRemove, ImportOperator,
    GrantEnds, vars, google
<1> QED BY <1>4, <1>5, <1>6

\* The account that owns the calendar keeps its access to the portal, whoever is
\* removed, invited, imported or connects meanwhile, if Google accounts keep
\* their addresses (handleMemberRemove, authorizeCalendarTx, identityAccess).
THEOREM CalendarOwnerKeepsAccess ==
  ASSUME AddressesStay
  PROVE  Spec => []CalendarOwnerHasAccess
<1>1. Init => MemberEmailsInv /\ SetUpInv /\ ConnectorInv /\ CalendarOwnerHasAccess
  BY DEF Init, MemberEmailsInv, SetUpInv, ConnectorInv, CalendarOwnerHasAccess, NoMember, NoFlow
<1>2. OwnerInv /\ [Next]_vars => MemberEmailsInv' /\ SetUpInv' /\ ConnectorInv'
  BY MembersFollow, ConnectorStep DEF OwnerInv, AccessInv
<1>3. OwnerInv /\ OwnerInv' /\ CalendarOwnerHasAccess /\ [Next]_vars => CalendarOwnerHasAccess'
  BY OwnerAccessStep
<1>4. OwnerInv <=> AccessInv /\ ConsentInv /\ MemberEmailsInv /\ SetUpInv /\ ConnectorInv
  BY DEF OwnerInv
<1>5. AccessInv => TypeOK
  BY DEF AccessInv
<1> QED BY <1>1, <1>2, <1>3, <1>4, <1>5, InitInv, StepInv, InitConsent, ConsentStep, PTL DEF Spec

=============================================================================
