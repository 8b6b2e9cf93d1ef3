SPECIFICATION DaemonSpec
CONSTANTS
  c1 = c1
  c2 = c2
  id = id
  Calls <- TwoCalls
  Ids = {id}
  IdOf <- Retried
  Contents <- MCContents
  Workloads <- MCHeals
  Models <- MCModels
INVARIANT TimeoutWasLate
CHECK_DEADLOCK FALSE
