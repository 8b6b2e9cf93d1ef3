--------------------------- MODULE MCCoordinator ---------------------------
(* Small instances of Coordinator: one loadable model, one broken one.     *)
EXTENDS Coordinator

\* Confident about the host nobody reports on, where it differs from the
\* rules; not confident about anything else.
MCPredict ==
  [m \in {"model"} |->
    [h \in Health |->
      IF h = [metal |-> 0, wood |-> 0, water |-> 0]
      THEN Some([plan |-> "reset_wsl", pathway |-> "reset_wsl"]) ELSE None]]

MCConfigs == [exec : {20}, path : {Some("model"), None}]
MCOneConfig == [exec : {20}, path : {Some("model")}]

MCEnvPath == None
=============================================================================
