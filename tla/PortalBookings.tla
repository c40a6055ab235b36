---------------------------- MODULE PortalBookings ----------------------------
(***************************************************************************)
(* The bookings panel: the list, the dialog of one booking with the        *)
(* owner's unsaved note and status, and the operations on it.  The list is *)
(* loaded again and again while the owner types, and an operation of the   *)
(* owner races with loads begun before it.                                 *)
(***************************************************************************)
EXTENDS PortalShell

CONSTANTS
  Bookings, \* bookings of the list
  Notes,    \* texts of adminNotes
  Statuses  \* values of status

VARIABLES
  stored,   \* server: the bookings, rev counts their changes
  shown,    \* state.bookings, None while empty
  selected, \* state.selectedId; the dialog is open when it is not None
  fields    \* the dialog's fields for notes and status

bookingVars == <<stored, shown, selected, fields>>
notShell == <<part, granted, google, session, view, entry, hidden, leaving, orphaned>>

Booking == [rev : 0..MaxChanges, notes : Notes, status : Statuses]

ASSUME BookingsAssumption == Notes # {} /\ {"needs_followup", "cancelled"} \subseteq Statuses /\ None \notin Booking /\ None \notin [Bookings -> Booking]

NoFields == [notes |-> CHOOSE n \in Notes : TRUE, status |-> "needs_followup"]

BookingsInit ==
  /\ stored \in [Bookings -> {[rev |-> 0, notes |-> n, status |-> "needs_followup"] : n \in {NoFields.notes}}]
  /\ shown = None /\ selected = None /\ fields = NoFields

Saving == "mutate" \in net.busy
Listed == IF shown = None THEN {} ELSE Bookings  \* the kind, the filter and the search pick among these

\* Mutant: the fields are always set to the booking's.
DetailAnew(booking, previous) == [notes |-> booking.notes, status |-> booking.status]
\* renderDetail: what differs from the booking shown before is a draft.
Detail(booking, previous) ==
  [notes |-> IF previous # None /\ fields.notes # previous.notes THEN fields.notes ELSE booking.notes,
   status |-> IF previous # None /\ fields.status # previous.status /\ booking.status # "cancelled" THEN fields.status ELSE booking.status]

-----------------------------------------------------------------------------
OpenBooking ==
  /\ view = "portal" /\ activePanel = "bookings" /\ selected = None
  /\ \E b \in Listed : selected' = b /\ fields' = Detail(shown[b], None)
  /\ UNCHANGED <<shellVars, stored, shown>>

CloseBooking ==
  /\ selected # None /\ selected' = None
  /\ UNCHANGED <<shellVars, stored, shown, fields>>

EditBooking ==
  /\ selected # None /\ ~Saving
  /\ \/ \E n \in Notes : fields' = [fields EXCEPT !.notes = n]
     \/ shown[selected].status # "cancelled" /\ \E s \in Statuses : fields' = [fields EXCEPT !.status = s]
  /\ UNCHANGED <<shellVars, stored, shown, selected>>

\* Save, cancel and retry: mutateBooking up to its request.
Mutate ==
  /\ selected # None /\ MayBegin(net, session.role, "mutate")
  /\ \E notes \in Notes \cup {None}, status \in Statuses \cup {None} :
       /\ \/ notes = fields.notes /\ status = (IF shown[selected].status = "cancelled" THEN None ELSE fields.status)
          \/ notes = None /\ status = "cancelled" /\ shown[selected].status # "cancelled"
          \/ notes = None /\ status = None
       /\ net' = Begin(net, "mutate", [id |-> selected, notes |-> notes, status |-> status], "")
  /\ UNCHANGED <<notShell, activePanel, poll, faults, bookingVars>>

\* Its end makes loads old once more.
MutationEnds(n) == [n EXCEPT !.calls = Superseded(@, {"bookings"})]

MutateAnswered(i) ==
  /\ Answered(i, "mutate")
  /\ LET id == net.calls[i].arg.id
         updated == net.calls[i].answer
     IN /\ shown' = [shown EXCEPT ![id] = updated]
        /\ fields' = IF selected = id THEN Detail(updated, None) ELSE fields
  /\ net' = MutationEnds(Released(i))
  /\ UNCHANGED <<notShell, activePanel, poll, faults, stored, selected>>

MutateFails(i) ==
  /\ Failing(i, "mutate") /\ \E n \in Remains(i) : net' = MutationEnds(n)
  /\ UNCHANGED <<notShell, activePanel, poll, bookingVars>>

\* loadBookings with an answer of the present revision.
BookingsAnswered(i) ==
  /\ Answered(i, "bookings")
  /\ IF Saving THEN UNCHANGED <<shown, fields>>
     ELSE /\ shown' = net.calls[i].answer
          /\ fields' = IF selected = None THEN fields ELSE Detail(shown'[selected], shown[selected])
  /\ Ends(Released(i), session.role, activePanel, net.calls[i])
  /\ UNCHANGED <<notShell, faults, stored, selected>>

BookingsFails(i) ==
  /\ Failing(i, "bookings") /\ Ends(Released(i), session.role, activePanel, net.calls[i])
  /\ UNCHANGED <<notShell, bookingVars>>

-----------------------------------------------------------------------------
(* The server: patchBooking and the retry of a calendar update, changes by *)
(* other owners and by Google Calendar, and the list.                      *)
Changed(b, notes, status) ==
  [rev |-> b.rev + 1, notes |-> IF notes = None THEN b.notes ELSE notes, status |-> IF status = None THEN b.status ELSE status]
\* A confirmation waits for the booking's event (CalendarSync), which the panel's model leaves open.
MayRefuse(status) == status = "confirmed"
MayPatch(b, status) == b.rev < MaxChanges /\ (b.status = "cancelled" => status \in {None, "cancelled"})

ServeBookings(i) ==
  /\ Arrives(i, "bookings") /\ granted.role \in Authenticated
  /\ Replies(i, stored)
  /\ UNCHANGED <<notShell, activePanel, poll, faults, bookingVars>>

ServeMutate(i) ==
  /\ Arrives(i, "mutate") /\ granted.role \in Authenticated
  /\ LET patch == net.calls[i].arg
         new == Changed(stored[patch.id], patch.notes, patch.status)
     IN \/ /\ MayPatch(stored[patch.id], patch.status)
           /\ stored' = [stored EXCEPT ![patch.id] = new] /\ Replies(i, new)
        \/ /\ ~MayPatch(stored[patch.id], patch.status) \/ MayRefuse(patch.status)
           /\ Refuses(i) /\ UNCHANGED stored
  /\ UNCHANGED <<notShell, activePanel, poll, faults, shown, selected, fields>>

BookingChanges ==
  /\ "change" \in part.does /\ "bookings" \in part.does
  /\ \E b \in Bookings, notes \in Notes \cup {None}, status \in Statuses \cup {None} :
       MayPatch(stored[b], status) /\ stored' = [stored EXCEPT ![b] = Changed(@, notes, status)]
  /\ UNCHANGED <<shellVars, shown, selected, fields>>

BookingsNext ==
  \/ OpenBooking \/ CloseBooking \/ EditBooking \/ Mutate \/ BookingChanges
  \/ \E i \in DOMAIN net.calls :
       MutateAnswered(i) \/ MutateFails(i) \/ BookingsAnswered(i) \/ BookingsFails(i) \/ ServeBookings(i) \/ ServeMutate(i)

\* What the shell's steps do to the panel: showSignedOut forgets it.
BookingsFollow ==
  /\ UNCHANGED stored
  /\ IF session'.role \in Authenticated THEN UNCHANGED <<shown, selected, fields>>
     ELSE shown' = None /\ selected' = None /\ fields' = NoFields
=============================================================================
