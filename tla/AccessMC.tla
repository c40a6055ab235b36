------------------------------- MODULE AccessMC -------------------------------
(***************************************************************************)
(* Small workspaces for Access.                                            *)
(***************************************************************************)
EXTENDS Access, FiniteSets, TLC

CONSTANTS s1, s2, s3, e1, e2, e3

\* An operator's account, an invited one, and a later account with the same address.
SharedAddress == {[sub |-> s1, email |-> e1], [sub |-> s2, email |-> e2], [sub |-> s3, email |-> e2]}

\* An operator's account, and an invited one whose address changes at Google.
ChangedAddress == {[sub |-> s1, email |-> e1], [sub |-> s2, email |-> e2], [sub |-> s2, email |-> e3]}

TwoAccounts == {[sub |-> s1, email |-> e1], [sub |-> s2, email |-> e2]}

\* A policy that names only the address.
AddressOnly == {[sub |-> None, email |-> e1]}

Names == Permutations(Sessions) \cup Permutations(Flows) \cup Permutations(Invites)

\* Bound: a behaviour has a mail grant, or a second invitation and a member's return, but not both.
GrantOrReturn ==
  \/ mail = Nobody /\ mailVersion = 0
  \/ /\ \A sub \in Subjects : members[sub].version < MaxJoins
     /\ Cardinality({i \in Invites : invitations[i] # NoInvitation}) <= 1

\* Bound: one request waits at a time, in behaviours without a mail grant before it and with one invitation;
\* it begins to wait while a connection holds ops, and is the next when ops is free.
OneWaits ==
  /\ Cardinality(waiting) <= 1
  /\ waiting # {} => mail = Nobody /\ mailVersion = 0 /\ Cardinality({i \in Invites : invitations[i] # NoInvitation}) <= 1
WaitsForOps ==
  /\ waiting' \subseteq waiting \/ ~OpsFree
  /\ waiting # {} /\ OpsFree => waiting' # waiting
=============================================================================
