SPECIFICATION DaemonSpec
CONSTANTS
  Publishers = {p1}
  Capacity = 1
  PageLimit = 4
  Margin = 0
  MaxPage = 4
  ViewLimit = 10
  DiskMayFail = FALSE
  MaxEvents <- OneRun
  MaxBoots = 1
  MaxConnects = 1
  LineLen = 3
  Chunk = 12
  Pids = {1, 2, 3}
  Terminals = {tty}
  Prompt = TRUE
INVARIANTS
  GapsAreFilled
CHECK_DEADLOCK FALSE
