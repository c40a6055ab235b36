SPECIFICATION Spec
CONSTANTS
  s1 = s1
  s2 = s2
  s3 = s3
  e1 = e1
  e2 = e2
  e3 = e3
  None = None
  Accounts <- ChangedAddress
  Imports <- AddressOnly
  Sessions = {t1, t2}
  Flows = {f1}
  Invites = {i1}
  MaxJoins = 1
  MaxWithdrawals = 0
  GrantsEnd = FALSE
SYMMETRY Names
CONSTRAINT OneWaits
ACTION_CONSTRAINT WaitsForOps
INVARIANTS
  CalendarOwnerHasAccess
