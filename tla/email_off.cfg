SPECIFICATION Spec
CONSTANTS
  s1 = s1
  s2 = s2
  Bookings = {b1}
  Slots = {s1}
  Kinds = {"receipt"}
  Preferences <- OnOff
  MaxVersion = 1
  MaxAttempts = 1
  MaxRetries = 0
  MaxFaults = 0
INVARIANTS OffLeavesNothing
CHECK_DEADLOCK FALSE
