SPECIFICATION Spec
CONSTANTS
  None = None
  i1 = i1
  i2 = i2
  i3 = i3
  Users <- MCUsers
  Admins <- MCAdmins
  Permitted <- MCUsers
  Pubs = {"p"}
  Contents <- MCContents
  Usable <- MCUsable
  Sound <- MCUsable
  Keys <- MCKeys
  JoinedKeys <- MCJoinedKeys
  Join <- MCJoin
  DefaultKey <- MCDefaultKey
  Ids = {i1, i2, i3}
  Requests = {r1}
  Offered <- MixedCalls
  InitialFile = None
  AuditWired = TRUE
  MaxCrashes = 1
  MaxFaults = 0
SYMMETRY Symmetry
INVARIANTS StartupSucceeds
CHECK_DEADLOCK FALSE
