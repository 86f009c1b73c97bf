SPECIFICATION Spec
CONSTANTS
  None = None
  Broken = Broken
  Stores <- MCStores
  Cached <- MCCached
  Lenient <- MCLenient
  Records = {"u", "o", "x"}
  Jobs = {j0, j1, j2}
  Offered <- MCCalls
  FirstFiles <- MCFirstFiles
  j0 = j0
  FirstBackups <- MCFirstBackups
  Fallback <- MCFallback
  Retention = 1
  MaxCrashes = 1
  MaxFaults = 1
  MaxSlips = 1
  MaxDamaged = 1
SYMMETRY Symmetry
INVARIANTS TypeOK RolledBack BackupIsOfItsTime BackupsAreBounded
CHECK_DEADLOCK FALSE
