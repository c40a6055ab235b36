SPECIFICATION Spec
CONSTANTS
  s1 = s1
  s2 = s2
  Bookings = {b1}
  Slots = {s1, s2}
  Kinds = {"receipt", "reminder"}
  Preferences <- Hours
  MaxVersion = 2
  MaxAttempts = 1
  MaxRetries = 1
  MaxFaults = 1
CONSTRAINT FarApart
CONSTRAINT OneTrouble
ACTION_CONSTRAINT HoursMatter
INVARIANTS TypeOK NoAutomaticResend
PROPERTIES ToldInOrder TrueWhenTaken
CHECK_DEADLOCK FALSE
