SPECIFICATION FairSpec
CONSTANTS
  Capacity = 1
  Cooldown = 2
  OverflowChecks = TRUE
  Paths = {"model", "broken"}
  Loadable = {"model"}
  Predict <- MCPredict
  EnvPath <- MCEnvPath
  ExecSecs = {10, 20}
  DefaultExec = 10
  Times = {0, 2}
  Configs <- MCConfigs
  MaxEdits = 1
INVARIANTS
  AssessedIsCurrent
  NoRepeatWithinCooldown
  AtMostTwoInterventions
  InSyncUnlessLost
PROPERTIES
  ShutdownCompletes
CHECK_DEADLOCK FALSE
