SPECIFICATION FairDaemonSpec
CONSTANTS
  Publishers = {p1, p2}
  Capacity = 1
  PageLimit = 2
  Margin = 0
  MaxPage = 2
  ViewLimit = 3
  DiskMayFail = TRUE
  MaxEvents <- TwoRuns
  MaxBoots = 2
  MaxConnects = 1
  LineLen = 3
  Chunk = 4
  Pids = {1, 2, 3}
  Terminals = {tty}
  Prompt = TRUE
INVARIANTS
  LogFollowsBus
  ServingIsNamed
  StopIsHonest
PROPERTIES
  PageIsSound
  FeedSpec
  ShownOrTold
  PersistedOrTold
  CommandsEnd
CHECK_DEADLOCK FALSE
