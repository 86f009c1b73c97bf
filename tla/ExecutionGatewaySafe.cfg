SPECIFICATION GatewaySpec
CONSTANTS
  None = None
  i1 = i1
  i2 = i2
  i3 = i3
  i4 = i4
  Users <- GatewayUsers
  Admins <- MCAdmins
  Permitted <- GatewayUsers
  Pubs = {"p"}
  Contents <- OnlyBuy
  Usable <- OnlyBuy
  Sound <- OnlyBuy
  Keys <- MCKeys
  JoinedKeys <- MCJoinedKeys
  Join <- MCJoin
  DefaultKey <- MCDefaultKey
  Ids = {i1, i2, i3, i4}
  Requests = {r1}
  Offered <- Cancels
  InitialFile <- GatewayFile
  AuditWired = FALSE
  MaxCrashes = 1
  MaxFaults = 1
  Executions = {e1, e2}
  ExecOffered <- EveryExecCall
  PortStatuses <- MCPortStatuses
  Evidence <- MCEvidence
SYMMETRY EverySymmetry
INVARIANTS GatewayTypeOK SentOnBehalf NoResendOnceAnswered LogIsOfSends RecordIsOfIntent
PROPERTIES ResultIsOwn
CHECK_DEADLOCK FALSE
