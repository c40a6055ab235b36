SPECIFICATION FairSpec
CONSTANTS
  s1 = s1
  s2 = s2
  Bookings = {b1}
  Slots = {s1}
  Kinds = {"reminder", "test"}
  Preferences <- OnOnly
  MaxVersion = 1
  MaxAttempts = 1
  MaxRetries = 0
  MaxFaults = 1
PROPERTIES Settles
CHECK_DEADLOCK FALSE
