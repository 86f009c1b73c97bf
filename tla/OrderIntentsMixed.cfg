SPECIFICATION Spec
CONSTANTS
  None = None
  i1 = i1
  i2 = i2
  i3 = i3
  Users <- MCUsers
  Admins <- MCAdmins
  Permitted <- MCUsers
  Pubs = {"p"}
  Contents <- MCContents
  Usable <- MCUsable
  Sound <- OnlyBuy
  Keys <- MCKeys
  JoinedKeys <- MCJoinedKeys
  Join <- MCJoin
  DefaultKey <- MCDefaultKey
  Ids = {i1, i2, i3}
  Requests = {r1, r2, r3}
  Offered <- MixedCalls
  InitialFile = None
  AuditWired = FALSE
  MaxCrashes = 1
  MaxFaults = 1
SYMMETRY Symmetry
INVARIANTS TypeOK IndexesAgree AnsweredIsDurable RestartIsTransparent
PROPERTIES CanonicalAnswers PersistedForGood RetriesCreateNothing
CHECK_DEADLOCK FALSE
