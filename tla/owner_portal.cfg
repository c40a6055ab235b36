SPECIFICATION Spec
CONSTANTS
  None = None
  Parts <- EveryPart
  MaxCalls = 2
  MaxFaults = 1
  MaxChanges = 1
  Bookings = {b1}
  Notes = {n1, n2}
  Statuses = {"needs_followup", "confirmed", "cancelled"}
  Addresses = {a1}
  People = {p1}
  MaxInvites = 2
  Preferences = {v1, v2}
  FirstSettings <- MCFirstSettings
  Forms <- MCForms
  Nine = 9
  Noon = 12
  One = 13
  Five = 17
  Midnight = 24
  TimeZones = {"both", "page", "service", "neither"}
  PageZones = {"both", "page"}
  ServiceZones = {"both", "service"}
  LastDate = 9
  Minute = 2
  DayMinutes = 24
  Reach = 3
  Days = {1, 3, 5, 8}
  Rules <- MCRules
  Zones <- MCZones
  Calendars <- MCCalendars
  Nows <- MCNows
INVARIANTS
  TypeOK
  NothingBeyondRights
  BusyHasCause
  NoOverlap
  OffersStand
  NothingRevived
  FormAgrees
  SavedHoursAreServed
PROPERTIES
  NothingGoesBack
  DraftsKept
  EmailDraftKept
  EditsSurvive
CHECK_DEADLOCK FALSE
