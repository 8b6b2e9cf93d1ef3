SPECIFICATION Spec
CONSTANTS
  Capacity = 1
  Cooldown = 2
  OverflowChecks = TRUE
  Paths = {"model", "broken"}
  Loadable = {"model"}
  Predict <- MCPredict
  EnvPath <- MCEnvPath
  ExecSecs = {10, 20}
  DefaultExec = 10
  Times = {0}
  Configs <- MCOneConfig
  MaxEdits = 1
INVARIANTS
  ConfigTakesEffect
CHECK_DEADLOCK FALSE
