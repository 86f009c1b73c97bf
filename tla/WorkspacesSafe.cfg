SPECIFICATION Spec
CONSTANTS
  None = None
  Empty = Empty
  Torn = Torn
  Users <- MCUsers
  Admins = {"root"}
  Permitted <- MCUsers
  Lists <- MCLists
  Names = {"main", "mine"}
  Symbols = {"gold", "oil"}
  Keys = {"k"}
  DefaultList = "default"
  DefaultName = "main"
  DefaultSymbol = "gold"
  DefaultSymbols = {"gold"}
  Categories = {"security", "system"}
  Private = {"security"}
  Channels = {"in_process", "email"}
  Reachable = {"ann", "root"}
  Mailable = {"ann"}
  Notes = {"evt", "evt2", "new", "new2"}
  Events = {"evt", "evt2"}
  Requests = {r1, r2}
  Offered <- MCOffered
  InitialFile <- MCFile
  MaxCrashes = 1
  MaxFaults = 1
SYMMETRY Symmetry
INVARIANTS TypeOK WorkspacesAreOwn InboxIsEarned
CHECK_DEADLOCK FALSE
