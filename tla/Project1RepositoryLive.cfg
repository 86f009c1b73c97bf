SPECIFICATION FairSpec
CONSTANTS
  None = None
  Users <- MCUsers
  Names <- MCNames
  IntegrationIds <- MCIntegrationIds
  Contents <- MCContents
  States <- MCStates
  Procs = {p1, p2}
  Calls = {c1, c2, c3}
  Offered <- LiveCalls
  InitialFiles <- NoFile
  IntId <- MCIntId
  MaxCrashes = 1
  MaxFaults = 1
PROPERTIES CallsAnswered
CHECK_DEADLOCK FALSE
