SPECIFICATION Spec
CONSTANTS
  N = 2
  Spans <- ThreeTimes
  Buffer = 1
  ExternalBuffer = 3
  Followups = {"needs_followup"}
  OwnerEdits = {"move", "delete", "restore", "calendar", "busy"}
  MaxEdits = 1
  MaxFaults = 0
INVARIANTS NoDoubleBooking
PROPERTIES NewBookingAvoidsCalendar ImplementsBook
CHECK_DEADLOCK FALSE
