SPECIFICATION FairSpec
CONSTANTS
  MaxRelease = 3
  Broken = {2}
  Torn = Torn
  MaxBookings = 2
  MaxFaults = 4
INVARIANTS SettledIsWhole Recoverable
PROPERTIES NewestArrives
CHECK_DEADLOCK FALSE
