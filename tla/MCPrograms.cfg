SPECIFICATION ProgramsSpec
CONSTANTS
  Programs = {"workspaces", "error-handling", "style-upload", "publish-postgis"}
  MaxFaults = 3
  TileLayers = {"a", "b"}
  Requests = {r1}
  Goroutines = {g1, g2}
  MaxCalls = 2
  MaxUnanswered = 1
  Clients = {"workspaces", "namespaces", "datastores", "coverageStores", "gwcGlobal"}
  Fields = {"f", "g"}
  Editors = {"a", "b"}
  MaxEdits = 3
  MaxTimeouts = 2
INVARIANTS
  CalmRunSucceeds
  CalmRunCleansUp
  DuplicateIsConflict
  TypeOK
  OneLayerPerRequest
  OwnRequestIsAccepted
  OverMeansOver
  LatestEditWins
PROPERTIES
  EventuallyDone
  PollingEnds
CHECK_DEADLOCK FALSE
