SPECIFICATION Spec
CONSTANTS
  s1 = s1
  s2 = s2
  s3 = s3
  e1 = e1
  e2 = e2
  e3 = e3
  None = None
  Accounts <- TwoAccounts
  Imports <- AddressOnly
  Sessions = {t1, t2}
  Flows = {f1, f2}
  Invites = {i1, i2}
  MaxJoins = 2
  MaxWithdrawals = 1
  GrantsEnd = TRUE
SYMMETRY Names
CONSTRAINT GrantOrReturn
CONSTRAINT OneWaits
ACTION_CONSTRAINT WaitsForOps
INVARIANTS
  RemovedStaysOut
  CalendarOwnerHasAccess
  OneLiveInvitation
PROPERTIES
  JoinsByLiveInvitation
  IdentitiesPinned
  ConnectsWhileAllowed
  WithdrawnStaysWithdrawn
