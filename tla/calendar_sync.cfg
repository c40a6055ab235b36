SPECIFICATION FairSpec
CONSTANTS
  N = 1
  Spans <- TwoTimes
  Buffer = 1
  ExternalBuffer = 1
  Followups = {"needs_followup", "confirmed"}
  OwnerEdits = {"move", "delete", "restore", "calendar", "series", "moveout", "disconnect", "busy"}
  MaxEdits = 2
  MaxFaults = 1
INVARIANTS TypeOK ForgottenOnlyInWindow
PROPERTIES CancelledForGood OnlyOwnersCancel ReleasedOnlyWhenGone Converges
CHECK_DEADLOCK FALSE
