---------------------------- MODULE Coordinator ----------------------------
(***************************************************************************)
(* The actor system of daoti-daemon: three symbolic sensors and a config   *)
(* watcher feed one bounded channel; the coordinator merges the readings   *)
(* that arrive within one settle window, infers a decision when the fused  *)
(* health changed, and acts on it unless the same decision is cooling down.*)
(*                                                                         *)
(* The channel is tokio's mpsc: send().await takes a permit in arrival     *)
(* order, so a blocked sender holds the next free place and try_send fails *)
(* while anyone waits.  The coordinator never awaits between the end of a  *)
(* window and the end of infer_and_act, so those are one step.  Time is    *)
(* the wall clock, which may be set back.  The periodic snapshot file is   *)
(* left out: it reads the fused state and changes nothing here.            *)
(*                                                                         *)
(* Definitions named Mut... are plausible mistakes, one for each property; *)
(* nothing uses them but the mutation runs.                                *)
(***************************************************************************)
EXTENDS Wuxing, Sequences, FiniteSets

CONSTANTS
  Capacity,        \* CHANNEL_CAPACITY
  Cooldown,        \* COOLDOWN_SECS
  OverflowChecks,  \* TRUE in a dev build, FALSE in the release profile
  Paths,           \* model files a configuration may name
  Loadable,        \* those that hold a model; a model is known by its path
  Predict,         \* what each model is confident of, health by health
  EnvPath,         \* DAOTI_DISPATCH_MODEL_PATH
  ExecSecs,        \* execution timeouts a configuration may name
  DefaultExec,     \* exec_secs of Config::default, and of a new coordinator
  Configs,         \* what the configuration file may say
  Times,           \* readings of the wall clock
  MaxEdits         \* bound: edits of the configuration file

ASSUME ChannelAssumption == Capacity \in Nat \ {0}
ASSUME ClockAssumption == Cooldown \in Nat /\ Times \subseteq Nat /\ Times # {}
ASSUME BuildAssumption == OverflowChecks \in BOOLEAN
ASSUME ModelAssumption ==
  /\ Loadable \subseteq Paths
  /\ EnvPath \in Option(Paths)
  /\ Predict \in [Loadable -> [Health -> Option(Decisions)]]
ASSUME ConfigAssumption ==
  /\ DefaultExec \in ExecSecs /\ MaxEdits \in Nat
  /\ Configs \subseteq [exec : ExecSecs, path : Option(Paths)]

DefaultConfig == [exec |-> DefaultExec, path |-> None]

(***************************************************************************)
(* A file that is not a configuration (truncated, garbled) has no content: *)
(* toml_parse skips what it cannot read and never answers that it failed,  *)
(* so such a file is the defaults, where config.rs:378, 398 and 430 say    *)
(* that the old configuration stays.                                       *)
(***************************************************************************)
Parse(content) == IF content = None THEN DefaultConfig
                  ELSE CHOOSE config \in Configs : config \in content

Files == Option([mtime : 1..(MaxEdits + 1), content : Option(Configs)])

\* DispatchModel::load
Load(path) == path \cap Loadable

Sensed(sensor) == [kind |-> "sensed", target |-> sensor]
Reload(config) == [kind |-> "reload", exec |-> config.exec, path |-> config.path]

SensedMsgs == [kind : {"sensed"}, target : Targets]
ReloadMsgs == [kind : {"reload"}, exec : ExecSecs, path : Option(Paths)]
Messages == SensedMsgs \cup ReloadMsgs

VARIABLES
  pc,               \* the coordinator task: selecting, in a settle window, over
  cancelled,        \* the CancellationToken
  queue,            \* the mpsc channel
  blocked,          \* sensors inside send().await
  sensors,          \* sensors whose task is running
  fusion, lastHealth, dispatchModel, exec, lastDecision, lastInterveneAt,
  now,              \* the wall clock
  edits, file,      \* the configuration file; "edits" counts its changes
  lastModified,     \* the watcher's
  mpscDropped,      \* reloads try_send refused
  \* History: reloads lost in a settle window since the daemon started, and
  \* the interventions so far.
  swallowed, interventions

channel == <<queue, blocked, sensors>>
state   == <<fusion, lastHealth, dispatchModel, exec, lastDecision, lastInterveneAt>>
config  == <<edits, file, lastModified, mpscDropped>>
history == <<swallowed, interventions>>
vars    == <<pc, cancelled, now, channel, state, config, history>>

Over == {"stopped", "panicked"}

-----------------------------------------------------------------------------
(* Start: the daemon reads the file once, before the watcher exists.       *)

Init ==
  /\ pc = "select" /\ cancelled = FALSE
  /\ queue = << >> /\ blocked = {} /\ sensors = Targets
  /\ fusion = [t \in Targets |-> None] /\ lastHealth = None
  /\ lastDecision = None /\ lastInterveneAt = None
  /\ now \in Times
  /\ edits = 1
  /\ file \in {None} \cup {Some([mtime |-> 1, content |-> c]) : c \in Option(Configs)}
  /\ lastModified = None /\ mpscDropped = 0
  /\ exec = DefaultExec
  /\ dispatchModel = Load(IF EnvPath # None THEN EnvPath
                          ELSE UNION {Parse(f.content).path : f \in file})
  /\ swallowed = 0 /\ interventions = << >>

-----------------------------------------------------------------------------
(* The sensors.                                                            *)

HasRoom == Len(queue) + Cardinality(blocked) < Capacity

\* One tick: the reading is sent, or the sensor waits for a permit, or the
\* coordinator is gone and the sensor's loop ends.
Sense(sensor) ==
  /\ sensor \in sensors \ blocked
  /\ IF pc \in Over
     THEN sensors' = sensors \ {sensor} /\ UNCHANGED <<queue, blocked>>
     ELSE /\ IF HasRoom
             THEN queue' = Append(queue, Sensed(sensor)) /\ UNCHANGED blocked
             ELSE blocked' = blocked \cup {sensor} /\ UNCHANGED queue
          /\ UNCHANGED sensors
  /\ UNCHANGED <<pc, cancelled, now, state, config, history>>

MutUnblock(sensor) ==
  /\ sensor \in blocked /\ pc \notin Over /\ Len(queue) < Capacity
  /\ blocked' = blocked \ {sensor}
  /\ queue' = Append(queue, Sensed(sensor))
  /\ UNCHANGED <<pc, cancelled, now, sensors, state, config, history>>

\* A waiting send gets its permit, or learns that the channel is closed.
Unblock(sensor) ==
  /\ sensor \in blocked
  /\ blocked' = blocked \ {sensor}
  /\ IF pc \in Over
     THEN sensors' = sensors \ {sensor} /\ UNCHANGED queue
     ELSE /\ Len(queue) < Capacity
          /\ queue' = Append(queue, Sensed(sensor))
          /\ UNCHANGED sensors
  /\ UNCHANGED <<pc, cancelled, now, state, config, history>>

-----------------------------------------------------------------------------
(* The configuration file and its watcher.                                 *)

Edit ==
  /\ edits <= MaxEdits
  /\ edits' = edits + 1
  /\ file' \in {None} \cup {Some([mtime |-> edits + 1, content |-> c]) : c \in Option(Configs)}
  /\ UNCHANGED <<pc, cancelled, now, channel, state, lastModified, mpscDropped, history>>

\* One poll: ConfigWatcher::check and, on a change, ActorHandle::reload_config.
Poll ==
  LET mtime == {f.mtime : f \in file} IN
  /\ mtime # lastModified
  /\ lastModified' = mtime
  /\ IF file = None
     THEN UNCHANGED <<queue, mpscDropped>>
     ELSE IF pc \notin Over /\ HasRoom
     THEN /\ \E f \in file : queue' = Append(queue, Reload(Parse(f.content)))
          /\ UNCHANGED mpscDropped
     ELSE mpscDropped' = mpscDropped + 1 /\ UNCHANGED queue
  /\ UNCHANGED <<pc, cancelled, now, blocked, sensors, state, edits, file, history>>

Clock == now' \in Times \ {now}
         /\ UNCHANGED <<pc, cancelled, channel, state, config, history>>

-----------------------------------------------------------------------------
(* The coordinator.                                                        *)

ApplySense(message) ==
  fusion' = [fusion EXCEPT ![message.target] = Some(SymbolicSnapshot)]

Receive(kind) == queue # << >> /\ Head(queue).kind = kind /\ queue' = Tail(queue)

MutRecvReload ==
  /\ pc = "select" /\ Receive("reload")
  /\ LET message == Head(queue) IN
     /\ exec' = message.exec
     /\ dispatchModel' = IF Load(message.path) # None THEN Load(message.path) ELSE dispatchModel
  /\ UNCHANGED <<pc, cancelled, now, blocked, sensors, fusion, lastHealth, lastDecision,
                 lastInterveneAt, config, swallowed, interventions>>

\* A reload while the coordinator is selecting.
RecvReload ==
  /\ pc = "select" /\ Receive("reload")
  /\ LET message == Head(queue) IN
     /\ exec' = message.exec
     /\ dispatchModel' = IF message.path = None THEN None
                         ELSE IF Load(message.path) # None THEN Load(message.path)
                         ELSE dispatchModel
  /\ UNCHANGED <<pc, cancelled, now, blocked, sensors, fusion, lastHealth, lastDecision,
                 lastInterveneAt, config, swallowed, interventions>>

\* A reading opens a settle window; further readings extend it.
RecvSensed ==
  /\ pc \in {"select", "settle"} /\ Receive("sensed")
  /\ pc' = "settle"
  /\ ApplySense(Head(queue))
  /\ UNCHANGED <<cancelled, now, blocked, sensors, lastHealth, dispatchModel, exec,
                 lastDecision, lastInterveneAt, config, history>>

\* infer_and_act: a trained model where it is confident, else the rules; no
\* model at all, the symbolic scheduler.
Infer(health) ==
  IF dispatchModel = None THEN SymbolicDecision(health)
  ELSE LET predicted == Predict[CHOOSE m \in Loadable : m \in dispatchModel][health] IN
       IF predicted = None THEN RuleDecision(health)
       ELSE CHOOSE d \in Decisions : d \in predicted

MutCoolingDown(decision) ==
  lastDecision = Some(decision) /\ \E last \in lastInterveneAt : now > last + Cooldown

CoolingDown(decision) ==
  lastDecision = Some(decision) /\ \E last \in lastInterveneAt : now < last + Cooldown

\* Logging the seconds since the last intervention subtracts unsigned.
Underflows(decision) ==
  OverflowChecks /\ CoolingDown(decision) /\ \E last \in lastInterveneAt : now < last

Act(decision) ==
  IF Commands(decision.plan) = << >> \/ CoolingDown(decision)
  THEN UNCHANGED <<lastDecision, lastInterveneAt, interventions>>
  ELSE /\ lastDecision' = Some(decision)
       /\ lastInterveneAt' = Some(now)
       /\ interventions' = Append(interventions, [decision |-> decision, at |-> now])

MutHealthChanged(health) == health \in Health
HealthChanged(health) == lastHealth # Some(health)

\* The window is over: assess once.
Converge ==
  LET health   == WuxingHealth(fusion)
      decision == Infer(health)
  IN IF HealthChanged(health)
     THEN /\ lastHealth' = Some(health)
          /\ Act(decision)
          /\ pc' = IF Commands(decision.plan) # << >> /\ Underflows(decision)
                   THEN "panicked" ELSE "select"
     ELSE pc' = "select" /\ UNCHANGED <<lastHealth, lastDecision, lastInterveneAt, interventions>>

\* SETTLE_GRACE elapses; the timeout looks at the channel before the timer.
SettleTimeout ==
  /\ pc = "settle" /\ queue = << >>
  /\ Converge
  /\ UNCHANGED <<cancelled, now, channel, fusion, dispatchModel, exec, config, swallowed>>

MutSettleReloadDiscards ==
  /\ pc = "settle" /\ Receive("reload")
  /\ pc' = "select" /\ swallowed' = swallowed + 1
  /\ UNCHANGED <<cancelled, now, blocked, sensors, state, config, interventions>>

\* A reload inside a settle window ends the window and matches nothing.
SettleReload ==
  /\ pc = "settle" /\ Receive("reload")
  /\ Converge
  /\ swallowed' = swallowed + 1
  /\ UNCHANGED <<cancelled, now, blocked, sensors, fusion, dispatchModel, exec, config>>

-----------------------------------------------------------------------------
(* Shutdown: the token is looked at only while selecting, in random order  *)
(* with the other branches.                                                *)

Shutdown ==
  /\ ~cancelled /\ cancelled' = TRUE
  /\ UNCHANGED <<pc, now, channel, state, config, history>>

\* The receiver is dropped with the task, and what is in the channel with it.
Stop ==
  /\ pc = "select" /\ cancelled
  /\ pc' = "stopped"
  /\ queue' = << >>
  /\ UNCHANGED <<cancelled, now, blocked, sensors, state, config, history>>

-----------------------------------------------------------------------------
Next ==
  \/ \E sensor \in Targets : Sense(sensor) \/ Unblock(sensor)
  \/ Edit \/ Poll \/ Clock
  \/ RecvReload \/ RecvSensed \/ SettleTimeout \/ SettleReload
  \/ Shutdown \/ Stop

(***************************************************************************)
(* Tasks are polled: a sensor goes on while it can, and a select that is   *)
(* ready again and again for the cancel branch takes it (strong fairness). *)
(* Nobody has to edit, stop or set the clock.  WindowsRunOut is about      *)
(* time: every message starts the grace period of 600 ms anew, but the     *)
(* sensors tick together, a second apart or more, so the coordinator gets  *)
(* back to its select again and again.                                     *)
(***************************************************************************)
Fairness ==
  /\ \A sensor \in Targets : WF_vars(Sense(sensor) \/ Unblock(sensor))
  /\ SF_vars(Stop)

WindowsRunOut == []<>(pc # "settle")

Spec == Init /\ [][Next]_vars
FairSpec == Spec /\ Fairness /\ WindowsRunOut

-----------------------------------------------------------------------------
TypeOK ==
  /\ pc \in {"select", "settle"} \cup Over
  /\ cancelled \in BOOLEAN
  /\ queue \in Seq(Messages) /\ Len(queue) <= Capacity
  /\ blocked \subseteq sensors /\ sensors \subseteq Targets
  /\ fusion \in [Targets -> {None, Some(SymbolicSnapshot)}]
  /\ lastHealth \in Option(Health)
  /\ dispatchModel \in Option(Loadable)
  /\ exec \in ExecSecs
  /\ lastDecision \in Option(Decisions) /\ lastInterveneAt \in Option(Times)
  /\ now \in Times
  /\ edits \in 1..(MaxEdits + 1) /\ file \in Files
  /\ lastModified \in Option(1..(MaxEdits + 1))
  /\ mpscDropped \in Nat /\ swallowed \in Nat
  /\ interventions \in Seq([decision : Decisions, at : Times])

-----------------------------------------------------------------------------
\* Whenever the coordinator is selecting, the health it assessed last is the
\* health of the readings it holds: no reading that was merged in a settle
\* window is left unassessed, however the window ended (actor.rs:249-266).
AssessedIsCurrent ==
  pc = "select" => lastHealth = IF \A t \in Targets : fusion[t] = None THEN None
                                ELSE Some(WuxingHealth(fusion))

\* The same decision is never carried out twice within its cooldown, also
\* when the clock is set back or the model is replaced (actor.rs:332, 386-404).
NoRepeatWithinCooldown ==
  \A i, j \in DOMAIN interventions :
    i < j /\ interventions[i].decision = interventions[j].decision
      => interventions[j].at >= interventions[i].at + Cooldown

\* The sensors report no more than that they run, so health changes at most
\* twice and the daemon intervenes at most twice in its life, whatever the
\* models say and however the windows fall (actor.rs:275-298, 322-327).
AtMostTwoInterventions == Len(interventions) <= 2

\* No reload is on its way and the watcher has seen the file as it is.
Quiescent ==
  /\ pc = "select" /\ file # None
  /\ \A i \in DOMAIN queue : queue[i].kind # "reload"
  /\ lastModified = {f.mtime : f \in file}

\* A reload is lost only by a full channel or by a settle window: if neither
\* happened, the running parameters are those of a file that is a configuration
\* (config.rs:404-445, actor.rs:107-125, 218-248).  Of a damaged file nothing is
\* claimed: the watcher promises to keep the old parameters then (config.rs:378,
\* 398, 430), and toml_parse makes it the defaults instead.
InSyncUnlessLost ==
  Quiescent /\ mpscDropped = 0 /\ swallowed = 0 =>
    \A f \in file : \A conf \in f.content :
      /\ exec = conf.exec
      /\ conf.path = None => dispatchModel = None
      /\ Load(conf.path) # None => dispatchModel = Load(conf.path)

\* A cancelled actor system winds down: the coordinator leaves its loop and
\* every sensor ends, also those waiting for room (actor.rs:100-102, 208, 294).
ShutdownCompletes == cancelled ~> (pc \in Over /\ sensors = {})

\* A change of the configuration file that leaves a configuration takes effect
\* without a restart (config.rs:375) when no reload was counted as dropped
\* (actor.rs:94).
ConfigTakesEffect ==
  Quiescent /\ mpscDropped = 0 =>
    \A f \in file : \A conf \in f.content : exec = conf.exec
=============================================================================
