----------------------------- MODULE PortalShell -----------------------------
(***************************************************************************)
(* The shell of the owner portal (booking/web/admin.js): whose session the *)
(* page shows, which panel, which requests are under way, and what happens *)
(* to their answers.                                                       *)
(*                                                                         *)
(* The page numbers its sessions (sessionEpoch) and, for each kind of      *)
(* data, its changes (sessionRequest, bookingRevision, invitationRevision, *)
(* memberRevision, emailRevision).  A handler compares the numbers it      *)
(* started with only with the present ones, so a call carries the result   *)
(* of that comparison: it is "live", "superseded" by a change of the same  *)
(* data, or "stale" because the epoch has ended.                           *)
(*                                                                         *)
(* The panels are modelled in modules of their own, which extend this one; *)
(* OwnerPortal puts them together.                                         *)
(***************************************************************************)
EXTENDS Naturals, FiniteSets, SequencesExt

CONSTANTS
  Parts,      \* bound: parts of the portal an instance follows, one at a time
  MaxCalls,   \* bound: requests under way
  MaxFaults,  \* bound: requests that fail
  MaxChanges, \* bound: changes at the server
  None

Loads == {"session", "bookings", "invitations", "members", "emails"}
AccessOps == {"invitations", "invite", "revoke", "members", "remove"}
EmailCommands == {"emailSettings", "emailConnect", "emailCommand"}
EmailOps == EmailCommands \cup {"emails"}
GoogleOps == {"google", "configure", "disconnect"}
Ops == Loads \cup AccessOps \cup EmailOps \cup GoogleOps
         \cup {"start", "logout", "mutate", "settings", "saveSettings"}
Flags == Ops \ {"start", "settings"}  \* loadSettings and start raise no flag
Events == {"poll", "hide", "leave", "regrant", "change", "retry"}

Panels == {"bookings", "availability", "calendar", "emails", "access"}
Members == {"operator", "owner"}
Authenticated == Members \cup {"bootstrap"}
Grants == [role : Authenticated, connects : BOOLEAN]
Out == [role |-> "out", connects |-> FALSE]
Setup == [role |-> "bootstrap", connects |-> FALSE]

ASSUME PortalAssumption ==
  /\ Parts \subseteq [does : SUBSET (Ops \cup Events), grants : SUBSET Grants, panels : SUBSET Panels, tokens : SUBSET {"none", "setup", "invite"}]
  /\ MaxCalls \in Nat \ {0} /\ MaxFaults \in Nat /\ MaxChanges \in Nat

VARIABLES
  part,        \* the part of the portal this behaviour follows
  granted,     \* server: what the session cookie stands for
  google,      \* server: the Google connection, as the session's answer tells it
  session,     \* state.session
  view,        \* which of the page's views is visible
  activePanel, \* state.activePanel
  entry,       \* invitationToken or bootstrapToken, the outcome of a consent (?google=), and (history) whether
               \* the page was started again while it had a session
  net,         \* requests under way, and the flags that hold others back
  poll,        \* the refresh timer is set (state.poll)
  hidden,      \* document.hidden
  leaving,     \* the browser was asked to open Google
  orphaned,    \* history: flags whose call lost its epoch while they stay raised
  faults       \* bound: requests that failed

server == <<granted, google>>
shellVars == <<part, granted, google, session, view, activePanel, entry, net, poll, hidden, leaving, orphaned, faults>>

-----------------------------------------------------------------------------
\* The flags that keep each operation from starting: the first lines of refreshSession (99), loadBookings (212),
\* mutateBooking (257), the loads and orders of the access and emails panels (470-513, 582-597, 653, 672, 694),
\* openGoogle (707), configure (811) and disconnect (873); a disabled button holds back logout (884) and the save (864).
Excludes ==
  [session |-> GoogleOps \cup {"session"}, bookings |-> {"bookings", "mutate"}, mutate |-> {"mutate"},
   invitations |-> {"invitations", "invite", "revoke"}, invite |-> {"invite", "revoke"}, revoke |-> {"invite", "revoke"},
   members |-> {"members", "remove"}, remove |-> {"remove"},
   emails |-> EmailOps, emailSettings |-> EmailCommands, emailConnect |-> EmailCommands \cup GoogleOps, emailCommand |-> EmailCommands,
   google |-> GoogleOps, configure |-> GoogleOps, disconnect |-> GoogleOps,
   start |-> {}, logout |-> {"logout"}, settings |-> {}, saveSettings |-> {"saveSettings"}]

\* The loads whose answers an operation makes old: invalidateSessionRefresh (708, 817, 876) and the revisions that
\* the orders of the panels count up (258, 488, 500, 513, 597, 675, 695).
Supersedes ==
  [op \in Ops |->
     CASE op \in GoogleOps -> {"session"}
       [] op = "mutate" -> {"bookings"}
       [] op \in {"invite", "revoke"} -> {"invitations"}
       [] op = "remove" -> {"members"}
       [] op \in EmailCommands -> {"emails"}
       [] OTHER -> {}]

\* The rights an operation checks, in the same lines: canManageAccess, emailAllowed or authenticated.
MayDo(role, op) ==
  CASE op \in AccessOps -> role = "operator"
    [] op \in EmailOps -> role \in Members
    [] op \in {"start", "google"} -> TRUE
    [] OTHER -> role \in Authenticated

\* Mutant: the revisions are never compared.
NeverSuperseded(calls, ops) == calls
Superseded(calls, ops) ==
  [i \in DOMAIN calls |-> IF calls[i].op \in ops /\ calls[i].standing = "live" THEN [calls[i] EXCEPT !.standing = "superseded"] ELSE calls[i]]

\* Mutant: the epoch is never compared.
NeverStale(calls) == calls
Stale(calls) == [i \in DOMAIN calls |-> [calls[i] EXCEPT !.standing = "stale"]]

Call(op, arg, then) == [op |-> op, arg |-> arg, then |-> then, standing |-> "live", status |-> "sent", answer |-> None]

\* A change of bookings leaves loadingBookings raised; the others lower the flag of the load.
Begin(n, op, arg, then) ==
  [calls |-> Append(Superseded(n.calls, Supersedes[op]), Call(op, arg, then)),
   busy |-> (n.busy \ (Supersedes[op] \ {"bookings"})) \cup ({op} \cap Flags)]

\* Mutant: an operation is begun whatever its flags say.
BeginsAnyway(n, role, op) == op \in part.does /\ MayDo(role, op)
MayBegin(n, role, op) == op \in part.does /\ MayDo(role, op) /\ n.busy \cap Excludes[op] = {}

Load(n, role, op) == IF MayBegin(n, role, op) THEN Begin(n, op, None, "") ELSE n

\* renderConnection ends what the session may not do.
Rendered(n, role) ==
  LET lost == (IF role = "operator" THEN {} ELSE AccessOps) \cup (IF role \in Members THEN {} ELSE EmailOps)
  IN [calls |-> Superseded(n.calls, lost), busy |-> n.busy \ lost]

\* switchPanel: the loads of the panel it opens.
MayOpen(role, panel) == (panel = "access" => role = "operator") /\ (panel = "emails" => role \in Members)
PanelLoads(panel) ==
  CASE panel = "bookings" -> {"bookings"}
    [] panel = "access" -> {"invitations", "members"}
    [] panel = "emails" -> {"emails"}
    [] OTHER -> {}
LoadAll(n, role, ops) ==
  LET next(m, op) == IF op \in ops THEN Load(m, role, op) ELSE m
  IN next(next(next(next(n, "bookings"), "invitations"), "members"), "emails")
Opened(n, role, panel) ==
  LoadAll(IF panel \in {"bookings", "availability"} THEN n ELSE Load(n, role, "session"), role, PanelLoads(panel))

\* refreshVisibleBookings: a list that holds the focus is left alone.
Lists == {"invitations", "members", "emails"}
Visible(n, role, panel, held) ==
  LoadAll(Load(n, role, "session"), role, PanelLoads(panel) \ held)

-----------------------------------------------------------------------------
(* What awaits a call goes on when it has ended in its epoch: the callback *)
(* of the timer with the next load of its chain, start with the timer and  *)
(* the panel a consent asked for.                                          *)
Chain == <<"session", "bookings", "invitations", "members", "emails">>
PositionIn(chain, op) == CHOOSE k \in DOMAIN chain : chain[k] = op

\* Mutant: the timer is not set again.
PollsOnce(n, role, panel, op, held) == [net |-> n, poll |-> FALSE, panel |-> panel]
PollGoesOn(n, role, panel, op, held) ==
  LET next == {k \in DOMAIN Chain : /\ k > PositionIn(Chain, op) /\ Chain[k] \notin held
                                    /\ Chain[k] \in PanelLoads(panel) /\ MayBegin(n, role, Chain[k])}
      first == CHOOSE k \in next : \A l \in next : k <= l
  IN IF next = {} THEN [net |-> n, poll |-> role \in Members, panel |-> panel]
                  ELSE [net |-> Begin(n, Chain[first], None, "poll"), poll |-> poll, panel |-> panel]

Landed(n, role, panel) ==
  LET lands == entry.landing # "bookings" /\ MayOpen(role, entry.landing)
  IN [net |-> IF lands THEN Opened(n, role, entry.landing) ELSE n, poll |-> role \in Members,
      panel |-> IF lands THEN entry.landing ELSE panel]

GoesOn(n, role, panel, call, held) ==
  CASE call.then = "poll" -> PollGoesOn(n, role, panel, call.op, held)
    [] call.then = "start" /\ ~\E j \in DOMAIN n.calls : n.calls[j].then = "start" /\ n.calls[j].standing # "stale"
         -> Landed(n, role, panel)
    [] OTHER -> [net |-> n, poll |-> poll, panel |-> panel]

\* The end of a call's handler; n is what the handler leaves, call the one that ended.
Ends(n, role, panel, call) ==
  \E held \in SUBSET (Lists \cap part.does) :
    LET after == GoesOn(n, role, panel, call, held)
    IN /\ call.then = "poll" \/ held = {}
       /\ net' = after.net /\ poll' = after.poll /\ activePanel' = after.panel

Without(i) == [net EXCEPT !.calls = RemoveAt(@, i)]
\* Mutant: no finally lowers the flag.
StaysRaised(i) == [net EXCEPT !.calls = RemoveAt(@, i)]
Released(i) == [calls |-> RemoveAt(net.calls, i), busy |-> net.busy \ {net.calls[i].op}]

Is(i, op) == i \in DOMAIN net.calls /\ net.calls[i].op = op
Answered(i, op) == Is(i, op) /\ net.calls[i].standing = "live" /\ net.calls[i].status = "ok"
Arrives(i, op) == Is(i, op) /\ net.calls[i].status = "sent"

\* The server has handled a call.
Handled(i, status, answer) == net' = [net EXCEPT !.calls[i] = [net.calls[i] EXCEPT !.status = status, !.answer = answer]]
Replies(i, answer) == Handled(i, "ok", answer)
Refuses(i) == Handled(i, "refused", None)

\* A request that fails for the page may yet be handled by the server.
Writes == Flags \ (Loads \cup {"google", "emailConnect"})
Adrift(i) == [calls |-> [net.calls EXCEPT ![i] = [net.calls[i] EXCEPT !.standing = "stale"]], busy |-> net.busy \ {net.calls[i].op}]
Remains(i) ==
  {Released(i)} \cup IF net.calls[i].status = "sent" /\ (net.calls[i].op \in Writes \/ net.calls[i].arg = "bootstrap") THEN {Adrift(i)} ELSE {}
Failing(i, op) ==
  /\ Is(i, op) /\ net.calls[i].standing = "live"
  /\ \/ net.calls[i].status = "refused" /\ UNCHANGED faults
     \/ net.calls[i].status # "refused" /\ faults < MaxFaults /\ faults' = faults + 1
=============================================================================
