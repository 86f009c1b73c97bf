SPECIFICATION Spec
CONSTANTS
  None = None
  Empty = Empty
  Torn = Torn
  t1 = t1
  t2 = t2
  t3 = t3
  t4 = t4
  t5 = t5
  k = k
  Users <- MCUsers
  Owner = "root"
  Fallback = "admin_owner"
  Demo = "demo_user"
  Production = FALSE
  Passwords = {"p", "q", "w"}
  Weak = {}
  Emails = {"e", "o"}
  Tokens = {t1, t2, t3, t4, t5}
  RecoveryTokens = {k, k1}
  Requests = {r1, r2}
  Offered <- FileCalls
  InitialFiles <- FirstFiles
  InitialPassword = None
  DevPassword = "w"
  DemoPassword = "w"
  OwnerEmail = "o"
  MaxTime = 1
  SessionAge = 0
  RecoveryAge = 1
  MaxCrashes = 1
  MaxFaults = 0
INVARIANT StartsAgain
SYMMETRY Symmetry
CHECK_DEADLOCK FALSE
