SPECIFICATION Spec
CONSTANTS
  None = None
  Users <- MCUsers
  Names <- MCNames
  IntegrationIds <- MCIntegrationIds
  Contents <- MCContents
  States <- MCStates
  Procs = {p1, p2}
  Calls = {c1, c2, c3}
  Offered <- EveryCall
  InitialFiles <- EveryFile
  IntId <- MCIntId
  MaxCrashes = 1
  MaxFaults = 1
SYMMETRY CallsAndProcs
INVARIANTS TypeOK CreatedOnce CreatedIsDurable
PROPERTIES ImplementsLog AcceptedIsStored ResolvedIsUnique LabelsOwn UnavailableStaysOut
CHECK_DEADLOCK FALSE
