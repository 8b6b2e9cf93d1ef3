SPECIFICATION DaemonSpec
CONSTANTS
  c1 = c1
  c2 = c2
  id = id
  Calls <- TwoCalls
  Ids = {id}
  IdOf <- Retried
  Contents <- MCContents
  Workloads <- MCWorkloads
  Models <- MCModels
INVARIANTS
  Cancellable
  NothingElseLeft
  ReportsWhatRan
  HealTells
PROPERTIES
  UnwantedStops
  HealEnds
CHECK_DEADLOCK FALSE
