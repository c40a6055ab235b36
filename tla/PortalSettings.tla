---------------------------- MODULE PortalSettings ----------------------------
(***************************************************************************)
(* The availability panel: one form for all settings, loaded once at the   *)
(* start and again when that failed, edited, discarded and saved.  Unlike  *)
(* the other panels' loads, loadSettings has neither a flag nor a revision.*)
(***************************************************************************)
EXTENDS PortalShell

CONSTANTS
  FirstSettings, \* what the server may have stored at first
  Forms,         \* what the owner may make of the form
  Nine, Noon, One, Five, \* the hours of new rows
  Midnight,      \* the end of the clock
  TimeZones, PageZones, ServiceZones,  \* time zones, and those that the browser and the server take
  LastDate       \* the last date that is written YYYY-MM-DD

VARIABLES
  saved,       \* server: the settings, rev counts their changes
  settings,    \* state.settings, None until loaded
  rows,        \* the form
  dirty,       \* state.dirty
  resettable,  \* "Discard changes", or "Reload availability" without settings, can be pressed
  overlapped   \* history: settings were asked for while a request for them was under way

F == INSTANCE SettingsForm

\* The settings that are stored at first, or by other owners, are those the server begins with (defaultSettings) or
\* were saved by this page, in whichever browser: its time zone need not be one that this browser knows.
ASSUME SettingsAssumption ==
  /\ None \notin Nat /\ {Nine, Noon, One, Five} \subseteq F!Clock /\ Nine < Five /\ Noon < One
  /\ FirstSettings # {} /\ \A v \in FirstSettings : F!Written(v) /\ F!Accepts(v)
  /\ PageZones \subseteq TimeZones /\ ServiceZones \subseteq TimeZones /\ LastDate \in Nat
  /\ Forms \subseteq F!Sheets

settingsVars == <<saved, settings, rows, dirty, resettable, overlapped>>
beside == <<part, granted, google, session, view, entry, hidden, leaving, orphaned>>

SettingsInit ==
  /\ saved \in [rev : {0}, value : FirstSettings]
  /\ "settings" \notin part.does => saved.value = CHOOSE v \in FirstSettings : TRUE
  /\ settings = None /\ rows = None /\ dirty = FALSE /\ resettable = FALSE /\ overlapped = FALSE

\* Mutant: the form can be edited while it is saved.
NeverLocked == FALSE
Locked == "saveSettings" \in net.busy
Editable == view = "portal" /\ activePanel = "availability" /\ settings # None

\* renderSettings, which also unlocks the form.
Renders(s) == settings' = s /\ rows' = F!Rendered(s.value) /\ dirty' = FALSE /\ resettable' = TRUE
Unlocked(n) == [n EXCEPT !.busy = @ \ {"saveSettings"}]

EditSettings ==
  /\ Editable /\ ~Locked
  /\ rows' \in Forms /\ dirty' = TRUE
  /\ UNCHANGED <<shellVars, saved, settings, resettable, overlapped>>

\* "Discard changes", confirmed when there are any, and "Reload availability".
DiscardSettings ==
  /\ Editable /\ resettable
  /\ Renders(settings) /\ net' = Unlocked(net)
  /\ UNCHANGED <<beside, activePanel, poll, faults, saved, overlapped>>

ReloadSettings ==
  /\ view = "portal" /\ activePanel = "availability" /\ settings = None /\ resettable
  /\ MayBegin(net, session.role, "settings")
  /\ overlapped' = (overlapped \/ \E i \in DOMAIN net.calls : net.calls[i].op = "settings" /\ net.calls[i].standing = "live")
  /\ net' = Begin(net, "settings", None, "")
  /\ UNCHANGED <<beside, activePanel, poll, faults, saved, settings, rows, dirty, resettable>>

SaveSettings ==
  /\ Editable /\ MayBegin(net, session.role, "saveSettings") /\ ~F!Problem(rows)
  /\ net' = Begin(net, "saveSettings", F!Read(rows), "") /\ resettable' = FALSE
  /\ UNCHANGED <<beside, activePanel, poll, faults, saved, settings, rows, dirty, overlapped>>

SettingsAnswered(i) ==
  /\ Answered(i, "settings")
  /\ Renders(net.calls[i].answer)
  /\ Ends(Unlocked(Released(i)), session.role, activePanel, net.calls[i])
  /\ UNCHANGED <<beside, faults, saved, overlapped>>

SettingsSaved(i) ==
  /\ Answered(i, "saveSettings")
  /\ Renders(net.calls[i].answer)
  /\ net' = Released(i)
  /\ UNCHANGED <<beside, activePanel, poll, faults, saved, overlapped>>

SettingsFail(i, op) ==
  /\ Failing(i, op) /\ \E n \in Remains(i) : Ends(n, session.role, activePanel, net.calls[i])
  /\ resettable' = TRUE
  /\ UNCHANGED <<beside, saved, settings, rows, dirty, overlapped>>

-----------------------------------------------------------------------------
(* The server: saveSettings, also for another owner.                       *)
ServeSettings(i) ==
  /\ \/ Arrives(i, "settings") /\ Replies(i, saved) /\ UNCHANGED saved
     \/ /\ Arrives(i, "saveSettings")
        /\ IF F!Accepts(net.calls[i].arg) /\ saved.rev < MaxChanges
             THEN saved' = [rev |-> saved.rev + 1, value |-> net.calls[i].arg] /\ Replies(i, saved')
             ELSE Refuses(i) /\ UNCHANGED saved
  /\ granted.role \in Authenticated
  /\ UNCHANGED <<beside, activePanel, poll, faults, settings, rows, dirty, resettable, overlapped>>

SettingsChange ==
  /\ "change" \in part.does /\ "settings" \in part.does /\ saved.rev < MaxChanges
  /\ \E value \in FirstSettings : saved' = [rev |-> saved.rev + 1, value |-> value]
  /\ UNCHANGED <<shellVars, settings, rows, dirty, resettable, overlapped>>

SettingsNext ==
  \/ EditSettings \/ DiscardSettings \/ ReloadSettings \/ SaveSettings \/ SettingsChange
  \/ \E i \in DOMAIN net.calls :
       \/ SettingsAnswered(i) \/ SettingsSaved(i) \/ ServeSettings(i)
       \/ \E op \in {"settings", "saveSettings"} : SettingsFail(i, op)

\* What the shell's steps do to the panel: showSignedOut forgets it.
SettingsFollow ==
  /\ UNCHANGED saved
  /\ overlapped' = (overlapped /\ view' # "loading")
  /\ IF session'.role \in Authenticated THEN UNCHANGED <<settings, rows, dirty, resettable>>
     ELSE settings' = None /\ rows' = None /\ dirty' = FALSE /\ resettable' = FALSE
=============================================================================
