SPECIFICATION Spec
CONSTANTS
  N = 1
  Spans <- TwoTimes
  Buffer = 1
  ExternalBuffer = 1
  Followups = {"needs_followup"}
  OwnerEdits = {"delete", "restore"}
  MaxEdits = 1
  MaxFaults = 0
INVARIANTS NoForgottenChange
CHECK_DEADLOCK FALSE
