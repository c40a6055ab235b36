----------------------------- MODULE PortalEmails -----------------------------
(***************************************************************************)
(* The emails panel: preferences with unsaved edits, the shared sender,    *)
(* and the history with its confirmed retries.  Loads race with commands;  *)
(* a command makes the loads begun before it old.                          *)
(***************************************************************************)
EXTENDS PortalShell

CONSTANT Preferences \* what an EmailSettings can say

VARIABLES
  mail,              \* server: preferences, and the rest of what GET /api/admin/email tells
  email,             \* state.email, None until loaded
  form,              \* the form's fields
  emailDirty,        \* state.emailDirty
  pendingRetry,      \* state.pendingEmailRetryId is the message
  pendingDisconnect  \* state.pendingEmailDisconnect

confirmations == <<pendingRetry, pendingDisconnect>>
emailVars == <<mail, email, form, emailDirty, confirmations>>
otherVars == <<part, granted, google, session, view, entry, hidden, orphaned>>

Connections == {"none", "connected", "error"}
Deliveries == {"queued", "failed", "uncertain"}  \* of the one message of the history; queued or sent is the same here
Retryable == {"failed", "uncertain"}
Rest == [rev : 0..MaxChanges, connection : Connections, message : Deliveries]
Saved == [rev : 0..MaxChanges, value : Preferences]

ASSUME EmailsAssumption == Preferences # {} /\ None \notin [settings : Saved, rest : Rest, canConnect : BOOLEAN]

DefaultForm == CHOOSE v \in Preferences : TRUE

EmailsInit ==
  /\ mail \in [settings : [rev : {0}, value : {DefaultForm}], rest : [rev : {0}, connection : Connections, message : Deliveries]]
  /\ "emailCommand" \notin part.does => mail.rest.connection = "none" /\ mail.rest.message = "queued"
  /\ email = None /\ form = DefaultForm /\ emailDirty = FALSE
  /\ pendingRetry = FALSE /\ pendingDisconnect = FALSE

Ready == view = "portal" /\ activePanel = "emails" /\ session.role \in Members /\ email # None
EmailBusy == net.busy \cap EmailCommands # {}
Connected == email.rest.connection # "none"

\* Mutants: unsaved preferences are overwritten; the fields take the whole answer.
FormOverwritten(e, unsaved) == e.settings.value
FormOfAnswer(e, unsaved) == IF unsaved THEN form ELSE e.settings
\* renderEmailSettings
FormShows(e, unsaved) == IF unsaved THEN form ELSE e.settings.value

-----------------------------------------------------------------------------
EditEmail == \* markEmailDirty
  /\ "emailSettings" \in part.does /\ Ready /\ ~EmailBusy
  /\ form' \in Preferences /\ emailDirty' = TRUE
  /\ UNCHANGED <<shellVars, mail, email, confirmations>>

DiscardEmail ==
  /\ Ready /\ ~EmailBusy /\ emailDirty
  /\ emailDirty' = FALSE /\ form' = email.settings.value
  /\ UNCHANGED <<shellVars, mail, email, confirmations>>

SaveEmail ==
  /\ Ready /\ emailDirty /\ MayBegin(net, session.role, "emailSettings")
  /\ net' = Begin(net, "emailSettings", form, "")
  /\ UNCHANGED <<otherVars, activePanel, poll, leaving, faults, emailVars>>

ConnectEmail ==
  /\ Ready /\ email.canConnect /\ email.rest.connection # "connected" /\ ~emailDirty
  /\ MayBegin(net, session.role, "emailConnect")
  /\ net' = Begin(net, "emailConnect", None, "")
  /\ UNCHANGED <<otherVars, activePanel, poll, leaving, faults, emailVars>>

\* Asking for the confirmation of a retry or a disconnection, and keeping things as they are.
AskEmail ==
  /\ Ready /\ ~EmailBusy
  /\ \/ email.rest.message = "uncertain" /\ email.rest.connection = "connected" /\ pendingRetry' = ~pendingRetry /\ UNCHANGED pendingDisconnect
     \/ email.canConnect /\ Connected /\ pendingDisconnect' = ~pendingDisconnect /\ UNCHANGED pendingRetry
  /\ UNCHANGED <<shellVars, mail, email, form, emailDirty>>

\* emailCommand; a retry says whether it acknowledges that the message may have been sent.
EmailCommand ==
  /\ Ready /\ Connected /\ MayBegin(net, session.role, "emailCommand")
  /\ \E command \in {"test", "disconnect", "retry", "retryUncertain"} :
       /\ command = "disconnect" => email.canConnect /\ pendingDisconnect
       /\ command # "disconnect" => email.rest.connection = "connected"
       /\ command = "retry" => email.rest.message = "failed"
       /\ command = "retryUncertain" => email.rest.message = "uncertain" /\ pendingRetry
       /\ net' = Begin(net, "emailCommand", command, "")
  /\ UNCHANGED <<otherVars, activePanel, poll, leaving, faults, emailVars>>

EmailSaved(i) ==
  /\ Answered(i, "emailSettings")
  /\ email' = [email EXCEPT !.settings = net.calls[i].answer]
  /\ emailDirty' = FALSE /\ form' = FormShows(email', FALSE)
  /\ net' = Released(i)
  /\ UNCHANGED <<otherVars, activePanel, poll, leaving, faults, mail, confirmations>>

EmailConsentOpened(i) ==
  /\ Answered(i, "emailConnect")
  /\ net' = Without(i) /\ leaving' = TRUE
  /\ UNCHANGED <<otherVars, activePanel, poll, faults, emailVars>>

EmailCommanded(i) ==
  /\ Answered(i, "emailCommand")
  /\ pendingRetry' = FALSE /\ pendingDisconnect' = FALSE
  /\ net' = Load(Released(i), session.role, "emails")
  /\ UNCHANGED <<otherVars, activePanel, poll, leaving, faults, mail, email, form, emailDirty>>

EmailsAnswered(i) ==
  /\ Answered(i, "emails")
  /\ email' = net.calls[i].answer
  /\ form' = FormShows(email', emailDirty)
  /\ pendingRetry' = (pendingRetry /\ email'.rest.message = "uncertain")
  /\ pendingDisconnect' = (pendingDisconnect /\ email'.canConnect /\ email'.rest.connection # "none")
  /\ Ends(Released(i), session.role, activePanel, net.calls[i])
  /\ UNCHANGED <<otherVars, leaving, faults, mail, emailDirty>>

EmailFails(i, op) ==
  /\ Failing(i, op) /\ \E n \in Remains(i) : Ends(n, session.role, activePanel, net.calls[i])
  /\ UNCHANGED <<otherVars, leaving, emailVars>>

-----------------------------------------------------------------------------
(* The server; the worker and other owners change the outbox too.          *)
RestChanges(connection, message) == [rev |-> mail.rest.rev + 1, connection |-> connection, message |-> message]
MayChange == mail.rest.rev < MaxChanges

Obeys(command) ==
  CASE command = "disconnect" -> granted.connects
    [] command = "test" -> mail.rest.connection # "none"
    [] command = "retry" -> mail.rest.connection # "none" /\ mail.rest.message = "failed"
    [] command = "retryUncertain" -> mail.rest.connection # "none" /\ mail.rest.message \in Retryable

ServeEmails(i) ==
  /\ granted.role \in Members
  /\ \/ Arrives(i, "emails") /\ Replies(i, [settings |-> mail.settings, rest |-> mail.rest, canConnect |-> granted.connects]) /\ UNCHANGED mail
     \/ /\ Arrives(i, "emailSettings")
        /\ IF mail.settings.rev < MaxChanges
             THEN mail' = [mail EXCEPT !.settings = [rev |-> @.rev + 1, value |-> net.calls[i].arg]] /\ Replies(i, mail'.settings)
             ELSE Refuses(i) /\ UNCHANGED mail
     \/ Arrives(i, "emailConnect") /\ (IF granted.connects THEN Replies(i, None) ELSE Refuses(i)) /\ UNCHANGED mail
     \/ /\ Arrives(i, "emailCommand")
        /\ LET command == net.calls[i].arg
           IN IF MayChange /\ Obeys(command)
                THEN /\ mail' = [mail EXCEPT !.rest = CASE command = "disconnect" -> RestChanges("none", @.message)
                                                        [] command = "test" -> RestChanges(@.connection, @.message)
                                                        [] OTHER -> RestChanges(@.connection, "queued")]
                     /\ Replies(i, None)
                ELSE Refuses(i) /\ UNCHANGED mail
  /\ UNCHANGED <<otherVars, activePanel, poll, leaving, faults, email, form, emailDirty, confirmations>>

MailChanges ==
  /\ "change" \in part.does
  /\ \/ "emailCommand" \in part.does /\ MayChange /\ \E c \in Connections, m \in Deliveries : mail' = [mail EXCEPT !.rest = RestChanges(c, m)]
     \/ "emailSettings" \in part.does /\ mail.settings.rev < MaxChanges /\ \E v \in Preferences : mail' = [mail EXCEPT !.settings = [rev |-> @.rev + 1, value |-> v]]
  /\ UNCHANGED <<shellVars, email, form, emailDirty, confirmations>>

EmailsNext ==
  \/ EditEmail \/ DiscardEmail \/ SaveEmail \/ ConnectEmail \/ AskEmail \/ EmailCommand \/ MailChanges
  \/ \E i \in DOMAIN net.calls :
       \/ EmailSaved(i) \/ EmailConsentOpened(i) \/ EmailCommanded(i) \/ EmailsAnswered(i)
       \/ (\E op \in EmailOps : EmailFails(i, op)) \/ ServeEmails(i)

\* What the shell's steps do to the panel: leaving it ends the confirmations,
\* a session that may not use emails forgets everything (resetEmails).
EmailsFollow ==
  LET may == session'.role \in Members
      stays == may /\ ~(activePanel = "emails" /\ activePanel' # "emails")
  IN /\ UNCHANGED mail
     /\ IF may THEN UNCHANGED <<email, form, emailDirty>> ELSE email' = None /\ form' = DefaultForm /\ emailDirty' = FALSE
     /\ pendingRetry' = (stays /\ pendingRetry) /\ pendingDisconnect' = (stays /\ pendingDisconnect)
=============================================================================
