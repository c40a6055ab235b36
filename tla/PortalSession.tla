---------------------------- MODULE PortalSession ----------------------------
(***************************************************************************)
(* The page's session: start, refreshSession, sign-in, the Google          *)
(* connection, signing out, panels, and the timer, focus and visibility    *)
(* that refresh what the page shows.                                       *)
(***************************************************************************)
EXTENDS PortalShell

Empty == [calls |-> <<>>, busy |-> {}]
Started(n, token) == \* start, up to its first await
  Begin([calls |-> Stale(n.calls), busy |-> n.busy \ {"session"}], "start", IF token = "setup" THEN "bootstrap" ELSE "session", "")
Spent(e) == [e EXCEPT !.token = IF @ = "setup" THEN "none" ELSE @]

Entries == [token : part.tokens, landing : {"bookings"} \cup (part.panels \cap {"calendar", "emails"}), again : {FALSE}]

Signed(s) == s.role \in Authenticated
Says == [role |-> granted.role, connects |-> granted.connects, google |-> google]
Ended(s) == [s EXCEPT !.role = "out", !.connects = FALSE]

\* showSignedOut
SignsOut(s, calls) ==
  /\ session' = Ended(s) /\ view' = "entry" /\ activePanel' = "bookings"
  /\ net' = [calls |-> Stale(calls), busy |-> {}] /\ poll' = FALSE /\ orphaned' = {}

\* A session is shown (renderConnection), which may close the access panel; then call's handler ends.
Shows(s, n, call) ==
  LET closes == activePanel = "access" /\ s.role # "operator"
      m == Rendered(n, s.role)
  IN /\ session' = s
     /\ Ends(IF closes THEN Load(m, s.role, "bookings") ELSE m, s.role, IF closes THEN "bookings" ELSE activePanel, call)

-----------------------------------------------------------------------------
ShellInit ==
  /\ part \in Parts
  /\ granted \in part.grants \cup {Out}
  /\ google \in [version : {0}, needs : BOOLEAN] /\ (google.needs => "configure" \in part.does)
  /\ session = [role |-> "out", connects |-> FALSE, google |-> [version |-> 0, needs |-> FALSE]]
  /\ view = "loading" /\ activePanel = "bookings"
  /\ \E e \in Entries : entry = Spent(e) /\ net = Started(Empty, e.token)
  /\ poll = FALSE /\ hidden = FALSE /\ leaving = FALSE /\ orphaned = {} /\ faults = 0

\* "Try again"
TryAgain ==
  /\ "retry" \in part.does /\ view = "entry"
  /\ view' = "loading" /\ net' = Started(net, entry.token)
  /\ entry' = [Spent(entry) EXCEPT !.again = @ \/ Signed(session)]
  /\ orphaned' = orphaned \cup net'.busy
  /\ UNCHANGED <<part, server, session, activePanel, poll, hidden, leaving, faults>>

\* The page is left (pagehide) and is back: from the browser's cache (pageshow), or loaded anew.
LeaveAndReturn ==
  /\ "leave" \in part.does
  /\ \E e \in Entries :
       /\ entry' = Spent(e)
       /\ net' = Started([calls |-> net.calls, busy |-> {}], e.token)
  /\ session' = Ended(session) /\ view' = "loading" /\ activePanel' = "bookings"
  /\ poll' = FALSE /\ leaving' = FALSE /\ orphaned' = {} /\ hidden' = FALSE
  /\ UNCHANGED <<part, server, faults>>

StartAnswered(i) ==
  /\ Answered(i, "start")
  /\ LET s == net.calls[i].answer
         n == Without(i)
     IN \/ /\ ~Signed(s) \/ entry.token = "invite"
           /\ SignsOut(s, n.calls)
        \/ /\ s.role = "bootstrap" /\ entry.token # "invite"
           /\ view' = "entry" /\ Shows(s, n, [net.calls[i] EXCEPT !.then = "start"])
           /\ UNCHANGED orphaned
        \/ /\ s.role \in Members /\ entry.token # "invite"
           /\ view' = "portal"
           /\ LET starts(m, op) == IF MayBegin(n, s.role, op) THEN Begin(m, op, None, "start") ELSE m
              IN Shows(s, starts(starts(n, "bookings"), "settings"), [net.calls[i] EXCEPT !.then = "start"])
           /\ UNCHANGED orphaned
  /\ UNCHANGED <<part, server, entry, hidden, leaving, faults>>

StartFails(i) ==
  /\ Failing(i, "start") /\ \E n \in Remains(i) : SignsOut(session, n.calls)
  /\ UNCHANGED <<part, server, entry, hidden, leaving>>

\* refreshSession
SessionAnswered(i) ==
  /\ Answered(i, "session")
  /\ LET s == net.calls[i].answer
     IN \/ ~Signed(s) /\ SignsOut(session, Released(i).calls)
        \/ Signed(s) /\ Shows(s, Released(i), net.calls[i]) /\ UNCHANGED <<view, orphaned>>
  /\ UNCHANGED <<part, server, entry, hidden, leaving, faults>>

SessionFails(i) ==
  /\ Failing(i, "session") /\ Ends(Released(i), session.role, activePanel, net.calls[i])
  /\ UNCHANGED <<part, server, session, view, entry, hidden, leaving, orphaned>>

-----------------------------------------------------------------------------
(* Any call: a 401 in the present epoch, and an answer nobody waits for.   *)
Denied(i) ==
  /\ i \in DOMAIN net.calls
  /\ net.calls[i].status = "denied" /\ net.calls[i].standing # "stale" /\ Signed(session)
  /\ SignsOut(session, RemoveAt(net.calls, i))
  /\ UNCHANGED <<part, server, entry, hidden, leaving, faults>>

\* loadBookings lowers its flag whenever the epoch is the same.
Dropped(i) ==
  /\ i \in DOMAIN net.calls
  /\ \/ /\ net.calls[i].standing = "stale"
        /\ net' = Without(i) /\ UNCHANGED <<poll, activePanel>>
     \/ /\ net.calls[i].standing = "superseded"
        /\ Ends(IF net.calls[i].op = "bookings" THEN Released(i) ELSE Without(i), session.role, activePanel, net.calls[i])
  /\ UNCHANGED <<part, server, session, view, entry, hidden, leaving, orphaned, faults>>

-----------------------------------------------------------------------------
(* openGoogle, for connectGoogle and signInGoogle.                         *)
OpenGoogle ==
  /\ MayBegin(net, session.role, "google")
  /\ \E purpose \in {"connect", "signin", "accept"} :
       /\ purpose = "connect" => view = "portal" /\ session.role \in Members /\ session.connects /\ ~session.google.needs
       /\ purpose # "connect" => view = "entry" /\ ~session.google.needs /\ (purpose = "accept" <=> entry.token = "invite")
       /\ net' = Begin(net, "google", purpose, "")
  /\ UNCHANGED <<part, server, session, view, activePanel, entry, poll, hidden, leaving, orphaned, faults>>

GoogleOpened(i) ==
  /\ Answered(i, "google")
  /\ net' = Without(i) /\ leaving' = TRUE /\ entry' = [entry EXCEPT !.token = "none"]
  /\ UNCHANGED <<part, server, session, view, activePanel, poll, hidden, orphaned, faults>>

\* The private configuration: the file is read, posted, and the session asked for again.
Configure ==
  /\ MayBegin(net, session.role, "configure") /\ session.role \in {"operator", "bootstrap"} /\ view # "loading"
  /\ net' = Begin(net, "configure", "file", "")
  /\ UNCHANGED <<part, server, session, view, activePanel, entry, poll, hidden, leaving, orphaned, faults>>

Disconnect ==
  /\ MayBegin(net, session.role, "disconnect") /\ session.connects /\ view = "portal"
  /\ net' = Begin(net, "disconnect", "post", "")
  /\ UNCHANGED <<part, server, session, view, activePanel, entry, poll, hidden, leaving, orphaned, faults>>

NextStage == [file |-> "post", post |-> "check"]
GoogleGoesOn(i, op) ==
  /\ Answered(i, op) /\ net.calls[i].arg \in DOMAIN NextStage
  /\ net' = [net EXCEPT !.calls[i] = Call(op, NextStage[net.calls[i].arg], "")]
  /\ UNCHANGED <<part, server, session, view, activePanel, entry, poll, hidden, leaving, orphaned, faults>>

\* A disconnection reloads the emails when they were loaded.
GoogleChecked(i, op, emailsLoaded) ==
  /\ Answered(i, op) /\ net.calls[i].arg = "check"
  /\ LET s == net.calls[i].answer
         n == Released(i)
     IN \/ ~Signed(s) /\ SignsOut(session, n.calls)
        \/ /\ Signed(s)
           /\ Shows(s, IF op = "disconnect" /\ emailsLoaded THEN Load(n, s.role, "emails") ELSE n, net.calls[i])
           /\ UNCHANGED <<view, orphaned>>
  /\ UNCHANGED <<part, server, entry, hidden, leaving, faults>>

\* logout; its confirmation, when something is unsaved, is given.
Logout ==
  /\ MayBegin(net, session.role, "logout") /\ view # "loading"
  /\ net' = Begin(net, "logout", None, "")
  /\ UNCHANGED <<part, server, session, view, activePanel, entry, poll, hidden, leaving, orphaned, faults>>

LogoutAnswered(i) ==
  /\ Answered(i, "logout") /\ SignsOut(session, Released(i).calls)
  /\ UNCHANGED <<part, server, entry, hidden, leaving, faults>>

\* The page says so and offers the operation again.
ActionFails(i, op) ==
  /\ Failing(i, op) /\ net' \in Remains(i)
  /\ UNCHANGED <<part, server, session, view, activePanel, entry, poll, hidden, leaving, orphaned>>

-----------------------------------------------------------------------------
(* Panels and refreshing.                                                  *)
Switch ==
  /\ view = "portal"
  /\ \E panel \in part.panels :
       /\ MayOpen(session.role, panel)
       /\ activePanel' = panel /\ net' = Opened(net, session.role, panel)
  /\ UNCHANGED <<part, server, session, view, entry, poll, hidden, leaving, orphaned, faults>>

\* The refresh buttons of the panels.
Refresh ==
  /\ view = "portal"
  /\ \/ activePanel = "bookings" /\ net' = Load(Load(net, session.role, "bookings"), session.role, "session")
     \/ activePanel = "access" /\ \E op \in {"invitations", "members"} : net' = Load(net, session.role, op)
     \/ activePanel = "emails" /\ net' = Load(net, session.role, "emails")
  /\ UNCHANGED <<part, server, session, view, activePanel, entry, poll, hidden, leaving, orphaned, faults>>

RefreshVisible ==
  \E held \in SUBSET (Lists \cap part.does) :
    IF session.role \in Members
      THEN net' = Visible(net, session.role, activePanel, held) /\ poll' = TRUE
      ELSE UNCHANGED <<net, poll>>

Focus ==
  /\ "hide" \in part.does /\ ~hidden /\ RefreshVisible
  /\ UNCHANGED <<part, server, session, view, activePanel, entry, hidden, leaving, orphaned, faults>>

Hide ==
  /\ "hide" \in part.does /\ ~hidden
  /\ hidden' = TRUE /\ poll' = FALSE
  /\ UNCHANGED <<part, server, session, view, activePanel, entry, net, leaving, orphaned, faults>>

Show ==
  /\ hidden /\ hidden' = FALSE /\ RefreshVisible
  /\ UNCHANGED <<part, server, session, view, activePanel, entry, leaving, orphaned, faults>>

\* The timer of schedulePoll; while the page is hidden it is only set again.
PollFires ==
  /\ "poll" \in part.does /\ poll /\ ~hidden
  /\ \/ /\ MayBegin(net, session.role, "session")
        /\ net' = Begin(net, "session", None, "poll") /\ poll' = FALSE /\ UNCHANGED activePanel
     \/ /\ ~MayBegin(net, session.role, "session")
        /\ \E held \in SUBSET (Lists \cap part.does) :
             LET after == PollGoesOn(net, session.role, activePanel, "session", held)
             IN net' = after.net /\ poll' = (after.net = net /\ after.poll) /\ activePanel' = after.panel
  /\ UNCHANGED <<part, server, session, view, entry, hidden, leaving, orphaned, faults>>

-----------------------------------------------------------------------------
(* The server.                                                             *)
Regranted == \* sessions end, roles change, and another tab signs in
  /\ "regrant" \in part.does
  /\ granted' \in (part.grants \cup {Out}) \ {granted}
  /\ UNCHANGED <<part, google, session, view, activePanel, entry, net, poll, hidden, leaving, orphaned, faults>>

ConnectionChanges ==
  /\ "change" \in part.does /\ "session" \in part.does /\ google.version < MaxChanges
  /\ \E needs \in BOOLEAN : (needs => "configure" \in part.does) /\ google' = [version |-> google.version + 1, needs |-> needs]
  /\ UNCHANGED <<part, granted, session, view, activePanel, entry, net, poll, hidden, leaving, orphaned, faults>>

Public(call) == call.op \in {"start", "session"} \/ call.arg \in {"signin", "accept", "file", "check"}

ServeDenied(i) ==
  /\ i \in DOMAIN net.calls /\ net.calls[i].status = "sent"
  /\ granted.role = "out" /\ ~Public(net.calls[i])
  /\ Handled(i, "denied", None)
  /\ UNCHANGED <<part, server, session, view, activePanel, entry, poll, hidden, leaving, orphaned, faults>>

ServeForbidden(i) ==
  /\ i \in DOMAIN net.calls /\ net.calls[i].status = "sent"
  /\ granted.role # "out" /\ ~MayDo(granted.role, net.calls[i].op)
  /\ Refuses(i)
  /\ UNCHANGED <<part, server, session, view, activePanel, entry, poll, hidden, leaving, orphaned, faults>>

ServeSession(i) ==
  /\ \/ Arrives(i, "session") \/ (Arrives(i, "start") /\ net.calls[i].arg = "session")
     \/ \E op \in {"configure", "disconnect"} : Arrives(i, op) /\ net.calls[i].arg = "check"
  /\ Replies(i, Says)
  /\ UNCHANGED <<part, server, session, view, activePanel, entry, poll, hidden, leaving, orphaned, faults>>

ServeBootstrap(i) ==
  /\ Arrives(i, "start") /\ net.calls[i].arg = "bootstrap"
  /\ IF Setup \in part.grants
       THEN granted' = Setup /\ Replies(i, [role |-> Setup.role, connects |-> Setup.connects, google |-> google])
       ELSE UNCHANGED granted /\ Refuses(i)
  /\ UNCHANGED <<part, google, session, view, activePanel, entry, poll, hidden, leaving, orphaned, faults>>

\* The file of a configuration is read by the page itself; everything else needs the right to it.
Allowed(call) ==
  CASE call.op = "google" -> call.arg = "connect" => granted.connects
    [] call.op = "configure" -> call.arg = "post" => granted.role \in {"operator", "bootstrap"} /\ google.version < MaxChanges
    [] call.op = "disconnect" -> granted.connects /\ google.version < MaxChanges
    [] OTHER -> granted # Out

ServeGoogle(i) ==
  /\ i \in DOMAIN net.calls
  /\ net.calls[i].op \in GoogleOps \cup {"logout"} /\ net.calls[i].arg # "check" /\ net.calls[i].status = "sent"
  /\ granted.role # "out" \/ Public(net.calls[i])
  /\ LET call == net.calls[i]
     IN IF ~Allowed(call) THEN Refuses(i) /\ UNCHANGED server
        ELSE /\ Replies(i, None)
             /\ granted' = IF call.op = "logout" THEN Out ELSE granted
             /\ google' = CASE call.op = "configure" /\ call.arg = "post" -> [version |-> google.version + 1, needs |-> FALSE]
                            [] call.op = "disconnect" -> [google EXCEPT !.version = @ + 1]
                            [] OTHER -> google
  /\ UNCHANGED <<part, session, view, activePanel, entry, poll, hidden, leaving, orphaned, faults>>

SessionNext ==
  \/ TryAgain \/ LeaveAndReturn \/ OpenGoogle \/ Configure \/ Disconnect \/ Logout
  \/ Switch \/ Refresh \/ Focus \/ Hide \/ Show \/ PollFires \/ Regranted \/ ConnectionChanges
  \/ \E i \in DOMAIN net.calls :
       \/ StartAnswered(i) \/ StartFails(i) \/ SessionAnswered(i) \/ SessionFails(i) \/ Denied(i) \/ Dropped(i)
       \/ GoogleOpened(i) \/ (\E op \in {"configure", "disconnect"} : GoogleGoesOn(i, op))
       \/ LogoutAnswered(i) \/ (\E op \in GoogleOps \cup {"logout"} : ActionFails(i, op))
       \/ ServeDenied(i) \/ ServeForbidden(i) \/ ServeSession(i) \/ ServeBootstrap(i) \/ ServeGoogle(i)
=============================================================================
