SPECIFICATION Spec
CONSTANTS
  None = None
  i1 = i1
  i2 = i2
  i3 = i3
  Users <- MCUsers
  Admins <- MCAdmins
  Permitted <- MCUsers
  Pubs = {"p", "q"}
  Contents <- OnlyBuy
  Usable <- OnlyBuy
  Sound <- OnlyBuy
  Keys <- MCKeys
  JoinedKeys <- MCJoinedKeys
  Join <- MCJoin
  DefaultKey <- MCDefaultKey
  Ids = {i1, i2, i3, i4}
  Requests = {r1, r2, r3}
  Offered <- TenantCalls
  InitialFile <- LegacyFile
  AuditWired = FALSE
  MaxCrashes = 2
  MaxFaults = 1
SYMMETRY LegacySymmetry
INVARIANTS OnePerPublication AmbiguousFailsClosed RepositoryInv
PROPERTIES EndedByOwnerOrAdmin
CHECK_DEADLOCK FALSE
