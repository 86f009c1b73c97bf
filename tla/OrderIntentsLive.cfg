SPECIFICATION FairSpec
CONSTANTS
  None = None
  i1 = i1
  i2 = i2
  i3 = i3
  Users <- MCUsers
  Admins <- MCAdmins
  Permitted <- OnlyAnn
  Pubs = {"p"}
  Contents <- OnlyBuy
  Usable <- OnlyBuy
  Sound <- OnlyBuy
  Keys <- MCKeys
  JoinedKeys <- MCJoinedKeys
  Join <- MCJoin
  DefaultKey <- MCDefaultKey
  Ids = {i1, i2, i3}
  Requests = {r1, r2, r3}
  Offered <- LiveRequests
  InitialFile = None
  AuditWired = FALSE
  MaxCrashes = 1
  MaxFaults = 1
PROPERTIES RequestsAnswered
CHECK_DEADLOCK FALSE
