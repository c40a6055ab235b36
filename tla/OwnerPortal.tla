----------------------------- MODULE OwnerPortal -----------------------------
(***************************************************************************)
(* The owner portal: the page's shell and its panels, one step at a time.  *)
(* A step of the shell may reset or close a panel, and the end of a        *)
(* panel's load may open the panel a Google consent asked for, so every    *)
(* module says how it follows the others' steps.                           *)
(***************************************************************************)
EXTENDS PortalSession, PortalBookings, PortalAccess, PortalEmails, PortalSettings

vars == <<shellVars, bookingVars, accessVars, emailVars, settingsVars>>

Init == ShellInit /\ BookingsInit /\ AccessInit /\ EmailsInit /\ SettingsInit

ShellStep ==
  \/ SessionNext
  \/ \E i \in DOMAIN net.calls, op \in {"configure", "disconnect"} : GoogleChecked(i, op, email # None)

\* The panels follow a step of the shell; a step of a panel is followed by the others.
PanelsFollow == BookingsFollow /\ AccessFollow /\ EmailsFollow /\ SettingsFollow
OthersFollow == AccessFollow /\ EmailsFollow /\ SettingsFollow
Bounded == Len(net'.calls) <= MaxCalls

Next ==
  \/ ShellStep /\ PanelsFollow /\ Bounded
  \/ BookingsNext /\ OthersFollow /\ Bounded
  \/ AccessNext /\ BookingsFollow /\ EmailsFollow /\ SettingsFollow /\ Bounded
  \/ EmailsNext /\ BookingsFollow /\ AccessFollow /\ SettingsFollow /\ Bounded
  \/ SettingsNext /\ BookingsFollow /\ AccessFollow /\ EmailsFollow /\ Bounded

Spec == Init /\ [][Next]_vars

\* What the browser and the server do without the owner: the timer fires, every request is
\* answered, and every answer reaches its handler. That requests fail is not fair.
FairPoll == PollFires /\ PanelsFollow /\ Bounded
FairSession ==
  /\ \E i \in DOMAIN net.calls :
       ServeSession(i) \/ StartAnswered(i) \/ SessionAnswered(i) \/ (net.calls[i].op \in {"start", "session"} /\ (Denied(i) \/ Dropped(i)))
  /\ PanelsFollow /\ Bounded
FairBookings ==
  \E i \in DOMAIN net.calls :
    /\ Is(i, "bookings")
    /\ \/ (ServeBookings(i) \/ BookingsAnswered(i)) /\ OthersFollow
       \/ (ServeDenied(i) \/ Denied(i) \/ Dropped(i)) /\ PanelsFollow
    /\ Bounded
FairMutate ==
  \E i \in DOMAIN net.calls :
    /\ Is(i, "mutate")
    /\ \/ (ServeMutate(i) \/ MutateAnswered(i) \/ (net.calls[i].status = "refused" /\ MutateFails(i))) /\ OthersFollow
       \/ (ServeDenied(i) \/ Denied(i) \/ Dropped(i)) /\ PanelsFollow
    /\ Bounded
Fair == WF_vars(FairPoll) /\ WF_vars(FairSession) /\ WF_vars(FairBookings) /\ WF_vars(FairMutate)
FairSpec == Spec /\ Fair

-----------------------------------------------------------------------------
OrNone(S) == S \cup {None}
CallRecord == [op : Ops, standing : {"live", "superseded", "stale"}, status : {"sent", "ok", "denied", "refused"}, then : {"", "poll", "start"}]

\* Every variable holds what the page or the server may hold.
TypeOK ==
  /\ part \in Parts /\ granted \in Grants \cup {Out}
  /\ google \in [version : 0..MaxChanges, needs : BOOLEAN]
  /\ session \in [role : Authenticated \cup {"out"}, connects : BOOLEAN, google : [version : 0..MaxChanges, needs : BOOLEAN]]
  /\ view \in {"loading", "entry", "portal"} /\ activePanel \in Panels
  /\ entry.token \in {"none", "setup", "invite"} /\ entry.landing \in Panels /\ entry.again \in BOOLEAN
  /\ net.busy \subseteq Flags /\ Len(net.calls) <= MaxCalls
  /\ \A i \in DOMAIN net.calls : [f \in {"op", "standing", "status", "then"} |-> net.calls[i][f]] \in CallRecord
  /\ poll \in BOOLEAN /\ hidden \in BOOLEAN /\ leaving \in BOOLEAN /\ orphaned \subseteq Flags /\ faults \in 0..MaxFaults
  /\ stored \in [Bookings -> Booking] /\ (shown = None \/ shown \in [Bookings -> Booking])
  /\ selected \in OrNone(Bookings) /\ fields \in [notes : Notes, status : Statuses]
  /\ lapsed \subseteq Ids /\ link \in OrNone(Ids) /\ pendingRevoke \in OrNone(Ids) /\ pendingRemove \in OrNone(People)
  /\ DOMAIN members \subseteq People /\ mail \in [settings : Saved, rest : Rest] /\ form \in Preferences
  /\ emailDirty \in BOOLEAN /\ dirty \in BOOLEAN /\ resettable \in BOOLEAN

\* The page keeps nothing that its session has no right to: signed out, no booking, setting, unsaved
\* edit, open dialog or timer (showSignedOut); invitations, members and the private link only for the
\* operator, emails only for members (renderConnection), whichever call ended the right and whatever
\* else was under way.
NothingBeyondRights ==
  /\ session.role = "out" => /\ shown = None /\ selected = None /\ settings = None /\ rows = None /\ ~dirty
                             /\ ~poll /\ activePanel = "bookings"
  /\ session.role # "operator" => invitations = Nothing /\ members = Nothing /\ link = None /\ activePanel # "access"
  /\ session.role \notin Members => email = None /\ ~emailDirty

\* A flag that keeps operations from starting has a call that will lower it, or the browser is on its
\* way to Google; otherwise the page would refuse the operation until it is reloaded. The exception,
\* "Try again" while such a call is under way, is recorded in orphaned.
BusyHasCause ==
  \A f \in net.busy \ orphaned :
    \/ \E i \in DOMAIN net.calls : net.calls[i].op = f /\ net.calls[i].standing # "stale"
    \/ f = "session" /\ \E i \in DOMAIN net.calls : net.calls[i].op = "start" /\ net.calls[i].standing # "stale"
    \/ leaving /\ f \in {"google", "emailConnect"}

\* Of each kind that raises a flag at most one call is waited for: neither two refreshes nor two orders
\* of the owner overlap. The exception: two reloads of the availability, of which the second
\* unlocks the form that is being saved.
NoOverlap ==
  \A i, j \in DOMAIN net.calls :
    /\ i # j /\ net.calls[i].op = net.calls[j].op /\ net.calls[i].op \in Flags
    /\ net.calls[i].standing = "live" /\ net.calls[j].standing = "live"
    => net.calls[i].op = "saveSettings" /\ overlapped

\* A private link, and a revocation or a removal that awaits its confirmation, stand in the open access
\* panel of the operator, for an invitation that the list shows as pending or a member that it shows.
OffersStand ==
  /\ link # None => InPanel /\ Pending(invitations, link)
  /\ pendingRevoke # None => InPanel /\ Pending(invitations, pendingRevoke)
  /\ pendingRemove # None => InPanel /\ pendingRemove \in DOMAIN members

\* What the operator has revoked or removed is never again shown as pending or present, whatever
\* lists were asked for before; a member who has joined again since is another one.
NothingRevived ==
  /\ \A id \in DOMAIN invitations : id \in settled.revoked => invitations[id].status # "pending"
  /\ \A p \in DOMAIN members : members[p] > settled.removed[p]

\* What the page shows never goes back to an earlier state, whether a load, a refresh or an order's answer
\* brings it: the Google connection, each booking, the email preferences, and the sender with its history.
\* The exception: "Try again" with a session, after which the answers of start and of a refresh are not told apart.
NothingGoesBack ==
  [][/\ session'.google.version >= session.google.version \/ entry'.again
     /\ shown # None /\ shown' # None => \A b \in Bookings : shown'[b].rev >= shown[b].rev
     /\ email # None /\ email' # None => email'.settings.rev >= email.settings.rev /\ email'.rest.rev >= email.rest.rev]_vars

\* A load of the list never loses what the owner is typing in the dialog: the unsaved note, and the
\* unsaved status unless the booking has been cancelled meanwhile.
DraftsKept ==
  [][(/\ selected # None /\ selected' = selected /\ shown' # shown
      /\ \E i \in DOMAIN net.calls : Answered(i, "bookings") /\ shown' = net.calls[i].answer /\ ~Saving)
     => /\ fields.notes # shown[selected].notes => fields'.notes = fields.notes
        /\ fields.status # shown[selected].status /\ shown'[selected].status # "cancelled" => fields'.status = fields.status]_vars

\* Unsaved email preferences stay as they are typed through loads, commands and failures, until
\* they are saved, discarded, or the session ends (docs/BOOKING_VALIDATION.md).
EmailDraftKept ==
  [][emailDirty /\ (form' # form \/ ~emailDirty') =>
       \/ session'.role \notin Members
       \/ emailDirty' /\ UNCHANGED net                                   \* the owner goes on typing
       \/ ~emailDirty' /\ form' = email'.settings.value /\ UNCHANGED <<net, email>>  \* and discards
       \/ ~emailDirty' /\ \E i \in DOMAIN net.calls : Answered(i, "emailSettings") /\ net.calls[i].arg = form]_vars

\* Unsaved availability is lost only when the owner discards it, when the settings just made of it come
\* back from the server, or when the session ends. The exception: reloads that overlapped.
EditsSurvive ==
  [][dirty /\ ~dirty' =>
       \/ session'.role \notin Authenticated \/ overlapped
       \/ settings' = settings
       \/ settings'.value = F!Read(rows)]_vars

\* The form and the server mean the same of hours, dates and time off: settings that are shown as they were loaded
\* are read back as the same settings, so that saving an untouched form changes nothing; and the server accepts
\* (validateSettings) what the form finds no problem with.  The exceptions: a stored time zone that this browser does
\* not know is a problem of an untouched form (readSettings asks Intl); and the server refuses what only it looks for
\* (Unseen), more periods or exceptions than it keeps, a time zone that Go does not know, and an exception on a date
\* after the year 9999.
FormAgrees ==
  /\ settings # None /\ ~dirty => F!Read(rows) = settings.value /\ (F!Problem(rows) => settings.value.zone \notin PageZones)
  /\ rows # None => F!Problem(rows) \/ F!Accepts(F!Read(rows)) \/ F!Unseen(F!Read(rows))

\* While the page stays visible with the list of bookings, and the owner does not for ever save, it comes
\* to show what the server has stored ("Calendar times refresh about every minute while this page is open",
\* index.html:21): a lost answer, a superseded load or a list that was not loaded at the start is made good by the timer.
CatchesUp ==
  <>[](view = "portal" /\ activePanel = "bookings" /\ ~hidden /\ ~Saving) => <>[](shown = stored)
=============================================================================
