------------------------- MODULE CoordinatorProofs -------------------------
(***************************************************************************)
(* Proofs about Coordinator for every capacity, cooldown, set of models    *)
(* and set of configurations: type correctness, the assessment of what was *)
(* sensed, the effect of reloads, and the two bounds on interventions.     *)
(***************************************************************************)
EXTENDS Coordinator, FiniteSetTheorems, SequenceTheorems, TLAPS

-----------------------------------------------------------------------------
(* Fusion and decisions.                                                   *)

\* The fused health is one of the scores the rules know (fusion.rs:59-80).
LEMMA HealthType == \A f : WuxingHealth(f) \in Health
  BY DEF WuxingHealth, Health, Metal

\* Interpretation answers with a plan and a pathway of its own, whatever the
\* total it compares with (causal_adapter.rs:46-86).
LEMMA InterpretType == \A h, total : Interpret(h, total) \in Decisions
  BY DEF Interpret, Decisions, Plans, Pathways

LEMMA SymbolicType == \A h : SymbolicDecision(h) \in Decisions
<1>1. \A h, total : SchedulePathway(h, total) \in Pathways
  BY DEF SchedulePathway, Pathways
<1>2. \A h, total : Interpret(h, total).plan \in Plans
  BY InterpretType DEF Decisions
<1> QED
  BY <1>1, <1>2 DEF SymbolicDecision, Decisions

\* Loading a model is loading one that can be loaded, or nothing.
LEMMA LoadType == ASSUME NEW path \in Option(Paths)
                  PROVE Load(path) \in Option(Loadable)
  BY DEF Load, Option, None, Some

\* A damaged file parses as the defaults (config.rs:449-507).
LEMMA ParseType == ASSUME NEW content \in Option(Configs)
                   PROVE Parse(content).exec \in ExecSecs /\ Parse(content).path \in Option(Paths)
<1>1. CASE content = None
  BY <1>1, ConfigAssumption DEF Parse, DefaultConfig, Option
<1>2. CASE content # None
  <2>1. PICK c \in Configs : content = Some(c)
    BY <1>2 DEF Option
  <2>2. Parse(content) = c
    BY <1>2, <2>1 DEF Parse, Some
  <2> QED
    BY <2>1, <2>2, ConfigAssumption
<1> QED
  BY <1>1, <1>2

\* Whatever the model, the coordinator acts on a decision.
LEMMA InferType == ASSUME TypeOK, NEW health \in Health
                   PROVE Infer(health) \in Decisions
<1>1. CASE dispatchModel = None
  BY <1>1, SymbolicType DEF Infer
<1>2. CASE dispatchModel # None
  <2>1. PICK m \in Loadable : dispatchModel = Some(m)
    BY <1>2 DEF TypeOK, Option
  <2>2. (CHOOSE n \in Loadable : n \in dispatchModel) = m
    BY <2>1 DEF Some
  <2>3. Predict[m][health] \in Option(Decisions)
    BY ModelAssumption
  <2>4. CASE Predict[m][health] = None
    BY <1>2, <2>2, <2>4, InterpretType DEF Infer, RuleDecision
  <2>5. CASE Predict[m][health] # None
    <3>1. PICK d \in Decisions : Predict[m][health] = Some(d)
      BY <2>3, <2>5 DEF Option
    <3> QED
      BY <1>2, <2>2, <2>5, <3>1 DEF Infer, Some
  <2> QED
    BY <2>4, <2>5
<1> QED
  BY <1>1, <1>2

-----------------------------------------------------------------------------
(* Type correctness.                                                       *)

\* Sensors that wait are counted by a natural number, so a channel with room
\* has a free place.
LEMMA RoomIsFree == ASSUME TypeOK, HasRoom
                    PROVE Len(queue) < Capacity
<1>1. IsFiniteSet(Targets)
  <2>1. Targets = {"windows"} \cup {"wsl2"} \cup {"docker"}
    BY DEF Targets
  <2> QED
    BY <2>1, FS_Singleton, FS_Union
<1>2. IsFiniteSet(blocked)
  BY <1>1, FS_Subset DEF TypeOK
<1>3. Cardinality(blocked) \in Nat
  BY <1>2, FS_CardinalityType
<1> QED
  BY <1>3, ChannelAssumption DEF TypeOK, HasRoom

LEMMA AppendType == ASSUME TypeOK, NEW m \in Messages, Len(queue) < Capacity
                    PROVE /\ Append(queue, m) \in Seq(Messages)
                          /\ Len(Append(queue, m)) <= Capacity
  BY ChannelAssumption DEF TypeOK

LEMMA TailType == ASSUME TypeOK, queue # << >>
                  PROVE /\ Head(queue) \in Messages
                        /\ Tail(queue) \in Seq(Messages)
                        /\ Len(Tail(queue)) <= Capacity
  BY ChannelAssumption DEF TypeOK

\* The parts of the type invariant that a step of the coordinator's judgement
\* can disturb.
LEMMA ConvergeType == ASSUME TypeOK, Converge
                      PROVE /\ pc' \in {"select", "panicked"}
                            /\ lastHealth' \in Option(Health)
                            /\ lastDecision' \in Option(Decisions)
                            /\ lastInterveneAt' \in Option(Times)
                            /\ interventions' \in Seq([decision : Decisions, at : Times])
<1> DEFINE health == WuxingHealth(fusion)
           decision == Infer(health)
<1>1. health \in Health
  BY HealthType
<1>2. decision \in Decisions
  BY <1>1, InferType
<1>3. CASE HealthChanged(health)
  <2>1. lastHealth' = Some(health) /\ Act(decision) /\ pc' \in {"select", "panicked"}
    BY <1>3 DEF Converge
  <2>2. lastHealth' \in Option(Health)
    BY <1>1, <2>1 DEF Option
  <2>3. CASE UNCHANGED <<lastDecision, lastInterveneAt, interventions>>
    BY <2>1, <2>2, <2>3 DEF TypeOK
  <2>4. CASE /\ lastDecision' = Some(decision)
             /\ lastInterveneAt' = Some(now)
             /\ interventions' = Append(interventions, [decision |-> decision, at |-> now])
    <3>1. now \in Times /\ interventions \in Seq([decision : Decisions, at : Times])
      BY DEF TypeOK
    <3>2. lastDecision' \in Option(Decisions) /\ lastInterveneAt' \in Option(Times)
      BY <1>2, <2>4, <3>1 DEF Option
    <3>3. [decision |-> decision, at |-> now] \in [decision : Decisions, at : Times]
      BY <1>2, <3>1
    <3>4. interventions' \in Seq([decision : Decisions, at : Times])
      BY <2>4, <3>1, <3>3
    <3> QED
      BY <2>1, <2>2, <3>2, <3>4
  <2> QED
    BY <2>1, <2>3, <2>4 DEF Act
<1>4. CASE ~HealthChanged(health)
  BY <1>4 DEF Converge, TypeOK
<1> QED
  BY <1>3, <1>4

LEMMA SenseType == ASSUME TypeOK, NEW s \in Targets, Sense(s) \/ Unblock(s)
                   PROVE TypeOK'
<1>1. Sensed(s) \in Messages
  BY DEF Sensed, Messages, SensedMsgs
<1>2. UNCHANGED <<pc, cancelled, now, fusion, lastHealth, dispatchModel, exec, lastDecision,
                  lastInterveneAt, edits, file, lastModified, mpscDropped,
                  swallowed, interventions>>
  BY DEF Sense, Unblock, state, config, history
<1>3. /\ queue' \in Seq(Messages) /\ Len(queue') <= Capacity
      /\ blocked' \subseteq sensors' /\ sensors' \subseteq Targets
  <2>1. CASE Sense(s)
    <3>1. CASE pc \in Over
      BY <2>1, <3>1 DEF Sense, TypeOK
    <3>2. CASE pc \notin Over /\ HasRoom
      BY <1>1, <2>1, <3>2, RoomIsFree, AppendType DEF Sense, TypeOK
    <3>3. CASE pc \notin Over /\ ~HasRoom
      BY <2>1, <3>3 DEF Sense, TypeOK
    <3> QED
      BY <3>1, <3>2, <3>3
  <2>2. CASE Unblock(s)
    <3>1. CASE pc \in Over
      BY <2>2, <3>1 DEF Unblock, TypeOK
    <3>2. CASE pc \notin Over
      BY <1>1, <2>2, <3>2, AppendType DEF Unblock, TypeOK
    <3> QED
      BY <3>1, <3>2
  <2> QED
    BY <2>1, <2>2
<1> QED
  BY <1>2, <1>3 DEF TypeOK

LEMMA FileType == ASSUME TypeOK, NEW f \in file
                  PROVE /\ f.mtime \in 1..(MaxEdits + 1)
                        /\ f.content \in Option(Configs)
                        /\ file = Some(f)
                        /\ {g.mtime : g \in file} = Some(f.mtime)
                        /\ Reload(Parse(f.content)) \in ReloadMsgs
<1>1. PICK g \in [mtime : 1..(MaxEdits + 1), content : Option(Configs)] : file = {g}
  BY DEF TypeOK, Files, Option, None, Some
<1>2. f = g /\ f.mtime \in 1..(MaxEdits + 1) /\ f.content \in Option(Configs)
  BY <1>1
<1>3. Parse(f.content).exec \in ExecSecs /\ Parse(f.content).path \in Option(Paths)
  BY <1>2, ParseType
<1>4. Reload(Parse(f.content)) \in ReloadMsgs
  BY <1>2, <1>3 DEF Reload, ReloadMsgs
<1> QED
  BY <1>1, <1>2, <1>4 DEF Some

LEMMA PollType == ASSUME TypeOK, Poll
                  PROVE TypeOK'
<1>1. UNCHANGED <<pc, cancelled, now, blocked, sensors, fusion, lastHealth, dispatchModel, exec,
                  lastDecision, lastInterveneAt, edits, file, swallowed, interventions>>
  BY DEF Poll, state, history
<1>2. lastModified' \in Option(1..(MaxEdits + 1))
  <2>1. CASE file = None
    BY <2>1 DEF Poll, Option, None
  <2>2. CASE file # None
    <3>1. PICK f \in file : TRUE
      BY <2>2 DEF None
    <3> QED
      BY <3>1, FileType DEF Poll, Option
  <2> QED
    BY <2>1, <2>2
<1>3. /\ queue' \in Seq(Messages) /\ Len(queue') <= Capacity
      /\ mpscDropped' \in Nat
  <2>1. CASE file # None /\ pc \notin Over /\ HasRoom
    <3>1. PICK f \in file : queue' = Append(queue, Reload(Parse(f.content)))
      BY <2>1 DEF Poll
    <3>2. Reload(Parse(f.content)) \in Messages
      BY FileType DEF Messages
    <3>3. UNCHANGED mpscDropped
      BY <2>1 DEF Poll
    <3> QED
      BY <3>1, <3>2, <3>3, RoomIsFree, AppendType, <2>1 DEF TypeOK
  <2>2. CASE ~(file # None /\ pc \notin Over /\ HasRoom)
    BY <2>2 DEF Poll, TypeOK
  <2> QED
    BY <2>1, <2>2
<1> QED
  BY <1>1, <1>2, <1>3 DEF TypeOK

LEMMA EditType == ASSUME TypeOK, Edit
                  PROVE TypeOK'
<1>1. edits' \in 1..(MaxEdits + 1)
  BY ConfigAssumption DEF Edit, TypeOK
<1>2. file' \in Files
  <2>1. CASE file' = None
    BY <2>1 DEF Files, Option
  <2>2. CASE file' # None
    <3>1. PICK c \in Option(Configs) : file' = Some([mtime |-> edits + 1, content |-> c])
      BY <2>2 DEF Edit
    <3>2. [mtime |-> edits + 1, content |-> c] \in [mtime : 1..(MaxEdits + 1), content : Option(Configs)]
      BY <1>1 DEF Edit
    <3> QED
      BY <3>1, <3>2 DEF Files, Option
  <2> QED
    BY <2>1, <2>2
<1> QED
  BY <1>1, <1>2 DEF Edit, TypeOK, channel, state, history

LEMMA RecvReloadType == ASSUME TypeOK, RecvReload
                        PROVE TypeOK'
<1>1. queue # << >> /\ Head(queue).kind = "reload" /\ queue' = Tail(queue)
  BY DEF RecvReload, Receive
<1>2. Head(queue) \in ReloadMsgs
  BY <1>1, TailType DEF Messages, SensedMsgs
<1>3. exec' \in ExecSecs
  BY <1>2, ConfigAssumption DEF RecvReload, ReloadMsgs
<1>4. dispatchModel' \in Option(Loadable)
  <2>1. Load(Head(queue).path) \in Option(Loadable)
    BY <1>2, LoadType DEF ReloadMsgs
  <2> QED
    BY <2>1 DEF RecvReload, TypeOK, Option
<1>5. queue' \in Seq(Messages) /\ Len(queue') <= Capacity
  BY <1>1, TailType
<1> QED
  BY <1>3, <1>4, <1>5 DEF RecvReload, TypeOK, config

LEMMA RecvSensedType == ASSUME TypeOK, RecvSensed
                        PROVE TypeOK'
<1>1. queue # << >> /\ Head(queue).kind = "sensed" /\ queue' = Tail(queue)
  BY DEF RecvSensed, Receive
<1>2. Head(queue) \in SensedMsgs
  BY <1>1, TailType DEF Messages, ReloadMsgs
<1>3. fusion' \in [Targets -> {None, Some(SymbolicSnapshot)}]
  BY <1>2 DEF RecvSensed, ApplySense, TypeOK, SensedMsgs
<1>4. queue' \in Seq(Messages) /\ Len(queue') <= Capacity
  BY <1>1, TailType
<1> QED
  BY <1>3, <1>4 DEF RecvSensed, TypeOK, config, history, Over

LEMMA SettleType == ASSUME TypeOK, SettleTimeout \/ SettleReload
                    PROVE TypeOK'
<1>1. Converge /\ UNCHANGED <<cancelled, now, blocked, sensors, fusion, dispatchModel, exec,
                              edits, file, lastModified, mpscDropped>>
  BY DEF SettleTimeout, SettleReload, channel, config
<1>2. swallowed' \in Nat
  BY DEF SettleTimeout, SettleReload, TypeOK
<1>3. queue' \in Seq(Messages) /\ Len(queue') <= Capacity
  <2>1. CASE SettleTimeout
    BY <2>1 DEF SettleTimeout, channel, TypeOK
  <2>2. CASE SettleReload
    BY <2>2, TailType DEF SettleReload, Receive
  <2> QED
    BY <2>1, <2>2
<1> QED
  BY <1>1, <1>2, <1>3, ConvergeType DEF TypeOK, Over

LEMMA StopType == ASSUME TypeOK, Stop \/ Shutdown \/ Clock
                  PROVE TypeOK'
<1>1. CASE Stop
  <2>1. queue' \in Seq(Messages) /\ Len(queue') <= Capacity
    BY <1>1, ChannelAssumption DEF Stop
  <2> QED
    BY <1>1, <2>1 DEF Stop, TypeOK, state, config, history, Over
<1>2. CASE Shutdown
  BY <1>2 DEF Shutdown, TypeOK, channel, state, config, history
<1>3. CASE Clock
  BY <1>3 DEF Clock, TypeOK, channel, state, config, history
<1> QED
  BY <1>1, <1>2, <1>3

LEMMA InitType == Init => TypeOK
<1> SUFFICES ASSUME Init PROVE TypeOK
  OBVIOUS
<1>1. file \in Files
  <2>1. CASE file = None
    BY <2>1 DEF Files, Option
  <2>2. CASE file # None
    <3>1. PICK c \in Option(Configs) : file = Some([mtime |-> 1, content |-> c])
      BY <2>2 DEF Init
    <3>2. [mtime |-> 1, content |-> c] \in [mtime : 1..(MaxEdits + 1), content : Option(Configs)]
      BY ConfigAssumption
    <3> QED
      BY <3>1, <3>2 DEF Files, Option
  <2> QED
    BY <2>1, <2>2
<1>2. dispatchModel \in Option(Loadable)
  <2>1. CASE EnvPath # None
    BY <2>1, ModelAssumption, LoadType DEF Init
  <2>2. CASE EnvPath = None /\ file = None
    BY <2>2 DEF Init, Load, None, Option
  <2>3. CASE EnvPath = None /\ file # None
    <3>1. PICK c \in Option(Configs) : file = {[mtime |-> 1, content |-> c]}
      BY <2>3 DEF Init, Some
    <3>2. UNION {Parse(f.content).path : f \in file} = Parse(c).path
      BY <3>1
    <3>3. Parse(c).path \in Option(Paths)
      BY ParseType
    <3>4. dispatchModel = Load(UNION {Parse(f.content).path : f \in file})
      BY <2>3 DEF Init
    <3> QED
      BY <3>2, <3>3, <3>4, LoadType
  <2> QED
    BY <2>1, <2>2, <2>3
<1>3. queue \in Seq(Messages) /\ Len(queue) <= Capacity
  BY ChannelAssumption DEF Init
<1>4. fusion \in [Targets -> {None, Some(SymbolicSnapshot)}]
  BY DEF Init
<1>5. /\ lastHealth \in Option(Health) /\ lastDecision \in Option(Decisions)
      /\ lastInterveneAt \in Option(Times) /\ lastModified \in Option(1..(MaxEdits + 1))
  BY DEF Init, Option
<1>6. /\ edits \in 1..(MaxEdits + 1)
      /\ exec \in ExecSecs
  BY ConfigAssumption DEF Init
<1>7. interventions \in Seq([decision : Decisions, at : Times])
  BY DEF Init
<1> QED
  BY <1>1, <1>2, <1>3, <1>4, <1>5, <1>6, <1>7 DEF Init, TypeOK

LEMMA NextType == TypeOK /\ [Next]_vars => TypeOK'
<1> SUFFICES ASSUME TypeOK, [Next]_vars PROVE TypeOK'
  OBVIOUS
<1>1. CASE \E sensor \in Targets : Sense(sensor) \/ Unblock(sensor)
  BY <1>1, SenseType
<1>2. CASE Edit
  BY <1>2, EditType
<1>3. CASE Poll
  BY <1>3, PollType
<1>4. CASE RecvReload
  BY <1>4, RecvReloadType
<1>5. CASE RecvSensed
  BY <1>5, RecvSensedType
<1>6. CASE SettleTimeout \/ SettleReload
  BY <1>6, SettleType
<1>7. CASE Stop \/ Shutdown \/ Clock
  BY <1>7, StopType
<1>8. CASE UNCHANGED vars
  BY <1>8 DEF TypeOK, vars, channel, state, config, history
<1> QED
  BY <1>1, <1>2, <1>3, <1>4, <1>5, <1>6, <1>7, <1>8 DEF Next

\* The coordinator's state stays within its types for every capacity, set of
\* models and set of configurations.
THEOREM TypeCorrect == Spec => []TypeOK
  BY InitType, NextType, PTL DEF Spec

-----------------------------------------------------------------------------
(* What was sensed is assessed.                                            *)

\* A settle window is opened by a reading.
WindowHasReading == pc = "settle" => \E t \in Targets : fusion[t] # None

AssessInv == TypeOK /\ WindowHasReading /\ AssessedIsCurrent

LEMMA ConvergeAssesses == ASSUME Converge, WindowHasReading, pc = "settle",
                                 pc' = "select", fusion' = fusion
                          PROVE AssessedIsCurrent'
<1>1. lastHealth' = Some(WuxingHealth(fusion))
  BY DEF Converge, HealthChanged
<1> QED
  BY <1>1 DEF AssessedIsCurrent, WindowHasReading

LEMMA AssessStep == AssessInv /\ [Next]_vars => AssessInv'
<1> SUFFICES ASSUME AssessInv, [Next]_vars PROVE AssessInv'
  OBVIOUS
<1> USE DEF AssessInv
<1>1. TypeOK'
  BY NextType
<1>2. CASE UNCHANGED <<pc, fusion, lastHealth>>
  BY <1>1, <1>2 DEF WindowHasReading, AssessedIsCurrent
<1>3. CASE RecvSensed
  <2>1. queue # << >> /\ Head(queue).kind = "sensed"
    BY <1>3 DEF RecvSensed, Receive
  <2>2. Head(queue).target \in Targets
    BY <2>1, TailType DEF Messages, SensedMsgs, ReloadMsgs
  <2>3. fusion'[Head(queue).target] # None
    BY <1>3, <2>2 DEF RecvSensed, ApplySense, TypeOK, Some, None
  <2> QED
    BY <1>1, <1>3, <2>2, <2>3 DEF RecvSensed, WindowHasReading, AssessedIsCurrent
<1>4. CASE SettleTimeout \/ SettleReload
  <2>1. Converge /\ pc = "settle" /\ fusion' = fusion
    BY <1>4 DEF SettleTimeout, SettleReload
  <2>2. pc' \in {"select", "panicked"}
    BY <2>1, ConvergeType
  <2>3. WindowHasReading'
    BY <2>2 DEF WindowHasReading
  <2>4. AssessedIsCurrent'
    BY <2>1, <2>2, ConvergeAssesses DEF AssessedIsCurrent
  <2> QED
    BY <1>1, <2>3, <2>4
<1>5. CASE Stop
  BY <1>1, <1>5 DEF Stop, WindowHasReading, AssessedIsCurrent
<1>6. Next => \/ UNCHANGED <<pc, fusion, lastHealth>> \/ RecvSensed
              \/ SettleTimeout \/ SettleReload \/ Stop
  BY DEF Next, Sense, Unblock, Edit, Poll, Clock, RecvReload, Shutdown, state
<1> QED
  BY <1>2, <1>3, <1>4, <1>5, <1>6 DEF vars, state

LEMMA AssessInit == Init => AssessInv
<1> SUFFICES ASSUME Init PROVE AssessInv
  OBVIOUS
<1>1. TypeOK
  BY InitType
<1> QED
  BY <1>1 DEF AssessInv, WindowHasReading, AssessedIsCurrent, Init

\* No reading merged in a settle window is left unassessed, however the window
\* ends (actor.rs:249-266).
THEOREM Assessed == Spec => []AssessedIsCurrent
<1>1. AssessInv => AssessedIsCurrent
  BY DEF AssessInv
<1> QED
  BY <1>1, AssessInit, AssessStep, PTL DEF Spec

-----------------------------------------------------------------------------
(* What is in the file is what runs, or is on its way, or was lost and      *)
(* counted.  The last reload in the channel carries the file as the watcher *)
(* saw it; when no reload is left, the coordinator has that one.            *)

NoReload(q) == \A i \in DOMAIN q : q[i].kind # "reload"

Carries(message, conf) ==
  message.kind = "reload" /\ message.exec = conf.exec /\ message.path = conf.path

LastReload(q, conf) ==
  \E i \in DOMAIN q : Carries(q[i], conf) /\ \A j \in DOMAIN q : i < j => q[j].kind # "reload"

RunsAs(conf) ==
  /\ exec = conf.exec
  /\ conf.path = None => dispatchModel = None
  /\ Load(conf.path) # None => dispatchModel = Load(conf.path)

OnItsWay(conf) == LastReload(queue, conf) \/ (NoReload(queue) /\ RunsAs(conf))

SyncInv ==
  /\ TypeOK
  /\ \A f \in file : f.mtime <= edits
  /\ \A m \in lastModified : m <= edits
  /\ mpscDropped = 0 /\ swallowed = 0 /\ pc \notin Over =>
       \A f \in file : lastModified = Some(f.mtime) => OnItsWay(Parse(f.content))

LEMMA SyncTypes == ASSUME TypeOK
                   PROVE /\ queue \in Seq(Messages) /\ edits \in Nat
                         /\ \A f \in file : f.mtime \in Nat
<1>1. \A f \in file : f.mtime \in 1..(MaxEdits + 1)
  BY FileType
<1> QED
  BY <1>1, ConfigAssumption DEF TypeOK

LEMMA LastAppend == ASSUME NEW q \in Seq(Messages), NEW m \in Messages, NEW conf
                    PROVE /\ m.kind # "reload" /\ NoReload(q) => NoReload(Append(q, m))
                          /\ m.kind # "reload" /\ LastReload(q, conf) => LastReload(Append(q, m), conf)
                          /\ Carries(m, conf) => LastReload(Append(q, m), conf)
<1> DEFINE r == Append(q, m)
           n == Len(q)
<1>1. /\ DOMAIN r = 1..(n + 1) /\ DOMAIN q = 1..n /\ n \in Nat
      /\ r[n + 1] = m /\ \A i \in 1..n : r[i] = q[i]
  OBVIOUS
<1> HIDE DEF r, n
<1>2. \A i \in DOMAIN r : (i \in DOMAIN q /\ r[i] = q[i]) \/ (i = n + 1 /\ r[i] = m)
  BY <1>1
<1>3. \A i \in DOMAIN q : i \in DOMAIN r /\ r[i] = q[i]
  BY <1>1
<1>4. ASSUME m.kind # "reload", NoReload(q) PROVE NoReload(r)
  BY <1>2, <1>4 DEF NoReload
<1>5. ASSUME m.kind # "reload", LastReload(q, conf) PROVE LastReload(r, conf)
  BY <1>2, <1>3, <1>5 DEF LastReload
<1>6. ASSUME Carries(m, conf) PROVE LastReload(r, conf)
  <2>1. n + 1 \in DOMAIN r /\ Carries(r[n + 1], conf) /\ \A j \in DOMAIN r : ~(n + 1 < j)
    BY <1>1, <1>6
  <2> QED
    BY <2>1 DEF LastReload
<1> QED
  BY <1>4, <1>5, <1>6 DEF r

\* Receiving takes the last reload only when it is the only one.
LEMMA LastTail == ASSUME NEW q \in Seq(Messages), q # << >>, NEW conf
                  PROVE /\ NoReload(q) => NoReload(Tail(q)) /\ Head(q).kind # "reload"
                        /\ LastReload(q, conf) =>
                             \/ LastReload(Tail(q), conf)
                             \/ Carries(Head(q), conf) /\ NoReload(Tail(q))
<1> DEFINE r == Tail(q)
           n == Len(q)
<1>1. /\ n \in Nat \ {0} /\ DOMAIN q = 1..n /\ DOMAIN r = 1..(n - 1)
      /\ Head(q) = q[1] /\ \A i \in 1..(n - 1) : r[i] = q[i + 1]
  BY EmptySeq
<1> HIDE DEF r, n
<1>2. \A i \in DOMAIN r : i + 1 \in DOMAIN q /\ r[i] = q[i + 1] /\ 1 < i + 1
  BY <1>1
<1>3. ASSUME NoReload(q) PROVE NoReload(r) /\ Head(q).kind # "reload"
  BY <1>1, <1>2, <1>3 DEF NoReload
<1>4. ASSUME LastReload(q, conf) PROVE LastReload(r, conf) \/ (Carries(Head(q), conf) /\ NoReload(r))
  <2>1. PICK i \in DOMAIN q : Carries(q[i], conf) /\ \A j \in DOMAIN q : i < j => q[j].kind # "reload"
    BY <1>4 DEF LastReload
  <2>2. CASE i = 1
    <3>1. Carries(Head(q), conf)
      BY <1>1, <2>1, <2>2
    <3>2. NoReload(r)
      BY <1>2, <2>1, <2>2 DEF NoReload
    <3> QED
      BY <3>1, <3>2
  <2>3. CASE i # 1
    <3>1. i - 1 \in DOMAIN r /\ r[i - 1] = q[i] /\ \A j \in DOMAIN r : i - 1 < j => i < j + 1
      BY <1>1, <2>3
    <3>2. \A j \in DOMAIN r : i - 1 < j => r[j].kind # "reload"
      BY <1>2, <2>1, <3>1
    <3> QED
      BY <2>1, <3>1, <3>2 DEF LastReload
  <2> QED
    BY <2>2, <2>3
<1> QED
  BY <1>3, <1>4 DEF r

LEMMA SyncSense == ASSUME SyncInv, TypeOK', NEW s \in Targets, Sense(s) \/ Unblock(s)
                   PROVE SyncInv'
<1>1. UNCHANGED <<pc, exec, dispatchModel, swallowed, edits, file, lastModified, mpscDropped>>
  BY DEF Sense, Unblock, state, config, history
<1>2. queue' = queue \/ queue' = Append(queue, Sensed(s))
  BY DEF Sense, Unblock
<1>3. Sensed(s) \in Messages /\ Sensed(s).kind = "sensed" /\ queue \in Seq(Messages)
  BY SyncTypes DEF Sensed, Messages, SensedMsgs, SyncInv
<1>4. \A conf : OnItsWay(conf) => OnItsWay(conf)'
  <2> TAKE conf
  <2>1. (NoReload(queue) => NoReload(queue')) /\ (LastReload(queue, conf) => LastReload(queue', conf))
    BY <1>2, <1>3, LastAppend
  <2>2. RunsAs(conf) => RunsAs(conf)'
    BY <1>1 DEF RunsAs
  <2> QED
    BY <2>1, <2>2 DEF OnItsWay
<1> QED
  BY <1>1, <1>4 DEF SyncInv

\* A poll that is not refused sends the file as it is.
LEMMA SyncPoll == ASSUME SyncInv, TypeOK', Poll
                  PROVE SyncInv'
<1>1. UNCHANGED <<pc, swallowed, edits, file>> /\ TypeOK /\ queue \in Seq(Messages)
  BY SyncTypes DEF Poll, state, history, SyncInv
<1>2. \A m \in lastModified' : m <= edits'
  BY <1>1 DEF Poll, SyncInv
<1>3. ASSUME mpscDropped' = 0, pc' \notin Over, NEW f \in file'
      PROVE OnItsWay(Parse(f.content))'
  <2>1. file = Some(f) /\ Reload(Parse(f.content)) \in Messages
    BY <1>1, <1>3, FileType DEF Messages
  <2>2. mpscDropped \in Nat
    BY <1>1 DEF TypeOK
  <2>3. queue' = Append(queue, Reload(Parse(f.content)))
    BY <1>1, <1>3, <2>1, <2>2 DEF Poll, None, Some
  <2>4. Carries(Reload(Parse(f.content)), Parse(f.content))
    BY DEF Carries, Reload
  <2>5. LastReload(queue', Parse(f.content))
    BY <1>1, <2>1, <2>3, <2>4, LastAppend
  <2> QED
    BY <2>5 DEF OnItsWay
<1> QED
  BY <1>1, <1>2, <1>3 DEF SyncInv

LEMMA SyncEdit == ASSUME SyncInv, TypeOK', Edit
                  PROVE SyncInv'
<1>1. UNCHANGED lastModified /\ edits' = edits + 1 /\ edits \in Nat /\ lastModified \subseteq Nat
  BY SyncTypes, ConfigAssumption DEF Edit, SyncInv, TypeOK, Option, None, Some
<1>2. \A f \in file' : f.mtime = edits + 1
  BY DEF Edit, None, Some
<1>3. \A m \in lastModified : m <= edits /\ m # edits + 1
  BY <1>1 DEF SyncInv
<1>4. \A f \in file' : lastModified # Some(f.mtime)
  BY <1>2, <1>3 DEF Some
<1>5. \A f \in file' : f.mtime <= edits'
  BY <1>1, <1>2
<1>6. \A m \in lastModified' : m <= edits'
  BY <1>1, <1>3
<1>7. \A f \in file' : lastModified' # Some(f.mtime)
  BY <1>1, <1>4
<1> QED
  BY <1>5, <1>6, <1>7, Zenon DEF SyncInv

LEMMA SyncReload == ASSUME SyncInv, TypeOK', RecvReload
                    PROVE SyncInv'
<1>1. UNCHANGED <<pc, swallowed, edits, file, lastModified, mpscDropped>>
  BY DEF RecvReload, config
<1>2. queue \in Seq(Messages) /\ queue # << >> /\ queue' = Tail(queue) /\ Head(queue).kind = "reload"
  BY SyncTypes DEF RecvReload, Receive, SyncInv
<1>3. ASSUME NEW conf, Carries(Head(queue), conf) PROVE RunsAs(conf)'
  <2>1. Load(None) = None
    BY DEF Load, None
  <2> QED
    BY <1>3, <2>1 DEF Carries, RecvReload, RunsAs
<1>4. \A conf : OnItsWay(conf) => OnItsWay(conf)'
  BY <1>2, <1>3, LastTail DEF OnItsWay
<1> QED
  BY <1>1, <1>4 DEF SyncInv

LEMMA SyncReading == ASSUME SyncInv, TypeOK', RecvSensed
                     PROVE SyncInv'
<1>1. UNCHANGED <<exec, dispatchModel, swallowed, edits, file, lastModified, mpscDropped>>
  BY DEF RecvSensed, config, history
<1>2. queue \in Seq(Messages) /\ queue # << >> /\ queue' = Tail(queue) /\ Head(queue).kind # "reload"
  BY SyncTypes DEF RecvSensed, Receive, SyncInv
<1>3. \A conf : RunsAs(conf) => RunsAs(conf)'
  BY <1>1 DEF RunsAs
<1>4. \A conf : OnItsWay(conf) => OnItsWay(conf)'
  BY <1>2, <1>3, LastTail DEF OnItsWay, Carries
<1>5. pc \notin Over
  BY DEF RecvSensed, Over
<1> QED
  BY <1>1, <1>4, <1>5 DEF SyncInv

LEMMA SyncStep == SyncInv /\ [Next]_vars => SyncInv'
<1> SUFFICES ASSUME SyncInv, [Next]_vars PROVE SyncInv'
  OBVIOUS
<1>1. TypeOK'
  BY NextType DEF SyncInv
<1>2. CASE \E sensor \in Targets : Sense(sensor) \/ Unblock(sensor)
  BY <1>1, <1>2, SyncSense
<1>3. CASE Edit
  BY <1>1, <1>3, SyncEdit
<1>4. CASE Poll
  BY <1>1, <1>4, SyncPoll
<1>5. CASE RecvReload
  BY <1>1, <1>5, SyncReload
<1>6. CASE RecvSensed
  BY <1>1, <1>6, SyncReading
<1>7. CASE SettleReload
  <2>1. swallowed' # 0
    BY <1>7 DEF SettleReload, SyncInv, TypeOK
  <2> QED
    BY <1>1, <1>7, <2>1 DEF SettleReload, SyncInv, config
<1>8. CASE Stop
  BY <1>1, <1>8 DEF Stop, SyncInv, Over, config
<1>9. CASE UNCHANGED <<queue, exec, dispatchModel, edits, file, lastModified, mpscDropped, swallowed>>
           /\ pc \notin Over
  BY <1>1, <1>9 DEF SyncInv, OnItsWay, RunsAs
<1>10. CASE UNCHANGED <<pc, queue, exec, dispatchModel, edits, file, lastModified, mpscDropped, swallowed>>
  BY <1>1, <1>10 DEF SyncInv, OnItsWay, RunsAs
<1>11. SettleTimeout => /\ UNCHANGED <<queue, exec, dispatchModel, edits, file, lastModified,
                                       mpscDropped, swallowed>>
                        /\ pc \notin Over
  BY DEF SettleTimeout, channel, config, Over
<1>12. Clock \/ Shutdown \/ UNCHANGED vars =>
         UNCHANGED <<pc, queue, exec, dispatchModel, edits, file, lastModified, mpscDropped, swallowed>>
  BY DEF Clock, Shutdown, vars, channel, state, config, history
<1> QED
  BY <1>2, <1>3, <1>4, <1>5, <1>6, <1>7, <1>8, <1>9, <1>10, <1>11, <1>12 DEF Next

LEMMA SyncInit == Init => SyncInv
<1> SUFFICES ASSUME Init PROVE SyncInv
  OBVIOUS
<1>1. TypeOK /\ \A f \in file : f.mtime <= edits
  BY InitType DEF Init, None, Some
<1>2. \A f \in file : lastModified # Some(f.mtime)
  BY DEF Init, None, Some
<1>3. \A m \in lastModified : m <= edits
  BY DEF Init, None
<1> QED
  BY <1>1, <1>2, <1>3 DEF SyncInv

\* A reload is lost only by a full channel or by a settle window, and both are
\* counted: else what runs is what the file says, if the file is a configuration
\* (config.rs:404-445, actor.rs:107-125, 218-248).
THEOREM InSync == Spec => []InSyncUnlessLost
<1>1. SyncInv => InSyncUnlessLost
  <2> SUFFICES ASSUME SyncInv, Quiescent, mpscDropped = 0, swallowed = 0,
                      NEW f \in file, NEW conf \in f.content
               PROVE RunsAs(conf)
    BY DEF InSyncUnlessLost, RunsAs
  <2>1. lastModified = Some(f.mtime) /\ pc \notin Over /\ NoReload(queue)
    BY FileType DEF Quiescent, SyncInv, NoReload, Over
  <2>2. Parse(f.content) = conf
    <3>1. PICK c \in Configs : f.content = {c}
      BY FileType DEF SyncInv, Option, None, Some
    <3> QED
      BY <3>1 DEF Parse, None
  <2>3. OnItsWay(Parse(f.content))
    BY <2>1 DEF SyncInv
  <2> QED
    BY <2>1, <2>2, <2>3 DEF OnItsWay, LastReload, NoReload, Carries
<1> QED
  BY <1>1, SyncInit, SyncStep, PTL DEF Spec

-----------------------------------------------------------------------------
(* Interventions.  Since the sensors report no more than that they run, the *)
(* fused health has two values, and it moves from the first to the second  *)
(* once.  Each assessment intervenes at most once, and the second one       *)
(* compares its decision with the first one's.                              *)

Unreported == [metal |-> 0, wood |-> 0, water |-> 0]
Reported   == [metal |-> 2, wood |-> 0, water |-> 0]

LEMMA TwoHealths == ASSUME TypeOK
                    PROVE WuxingHealth(fusion) =
                            IF fusion["windows"] = None THEN Unreported ELSE Reported
<1>1. \A t \in Targets : fusion[t] \in {None, Some(SymbolicSnapshot)}
  BY DEF TypeOK
<1>2. \A t \in Targets : ~Reports(fusion[t], "running") /\ ~Reports(fusion[t], "daemon_version")
  BY <1>1 DEF Reports, None, Some, SymbolicSnapshot
<1>3. \A t \in Targets : Metal(fusion[t]) = IF fusion[t] = None THEN 0 ELSE 2
  BY <1>1 DEF Metal, Reports, None, Some, SymbolicSnapshot
<1> QED
  BY <1>2, <1>3 DEF WuxingHealth, Targets, Unreported, Reported

\* How many interventions each assessed health can stand behind.
Ranked ==
  /\ lastHealth \in {None, Some(Unreported), Some(Reported)}
  /\ lastHealth = Some(Reported) => fusion["windows"] # None
  /\ lastHealth = None => interventions = << >>
  /\ lastHealth = Some(Unreported) => Len(interventions) <= 1
  /\ Len(interventions) <= 2

\* The coordinator remembers its last intervention.
Remembered ==
  interventions # << >> =>
    LET last == interventions[Len(interventions)] IN
    lastDecision = Some(last.decision) /\ lastInterveneAt = Some(last.at)

InterveneInv == TypeOK /\ Ranked /\ Remembered /\ NoRepeatWithinCooldown

LEMMA HealthsDiffer == /\ Unreported # Reported
                       /\ Some(Unreported) # Some(Reported)
                       /\ None # Some(Unreported) /\ None # Some(Reported)
<1>1. Unreported.metal = 0 /\ Reported.metal = 2
  BY DEF Unreported, Reported
<1>2. Unreported # Reported
  BY <1>1
<1> QED
  BY <1>2 DEF Some, None

\* Two positions of a sequence that an entry brings to length 2 at most.
LEMMA PairOfTwo == ASSUME NEW R, NEW s \in Seq(R), Len(s) <= 1,
                          NEW i \in 1..(Len(s) + 1), NEW j \in 1..(Len(s) + 1), i < j
                   PROVE Len(s) = 1 /\ i = 1 /\ j = 2 /\ s # << >> /\ s[1] \in R
<1>1. Len(s) \in Nat /\ i \in Int /\ j \in Int
  OBVIOUS
<1>2. Len(s) = 1 /\ i = 1 /\ j = 2
  <2> DEFINE n == Len(s)
  <2>1. n \in Nat /\ n <= 1 /\ i \in 1..(n + 1) /\ j \in 1..(n + 1) /\ i < j
    BY <1>1
  <2> HIDE DEF n
  <2>2. n = 1 /\ i = 1 /\ j = 2
    BY <2>1
  <2> QED
    BY <2>2 DEF n
<1>3. s # << >>
  BY <1>2, EmptySeq
<1>4. s[1] \in R
  <2>1. 1 \in 1..Len(s)
    BY <1>2
  <2> QED
    BY <2>1, ElementOfSeq
<1> QED
  BY <1>2, <1>3, <1>4

LEMMA ConvergeIntervenes == ASSUME InterveneInv, Converge, fusion' = fusion
                            PROVE (Ranked /\ Remembered /\ NoRepeatWithinCooldown)'
<1> DEFINE health == WuxingHealth(fusion)
           decision == Infer(health)
           this == [decision |-> decision, at |-> now]
           Records == [decision : Decisions, at : Times]
<1> USE DEF InterveneInv
<1>1. health \in {Unreported, Reported} /\ (health = Reported => fusion["windows"] # None)
  BY TwoHealths, HealthsDiffer
<1>2. interventions \in Seq(Records) /\ now \in Nat /\ Cooldown \in Nat
  BY ClockAssumption DEF TypeOK
<1>3. Some(Unreported) # Some(Reported) /\ None # Some(Unreported) /\ None # Some(Reported)
  BY HealthsDiffer
<1>4. CASE ~HealthChanged(health)
  BY <1>4 DEF Converge, Ranked, Remembered, NoRepeatWithinCooldown
<1>5. CASE HealthChanged(health)
  <2>1. lastHealth' = Some(health) /\ Act(decision)
    BY <1>5 DEF Converge
  <2>2. lastHealth # Some(Reported)
    <3>1. CASE lastHealth = Some(Reported)
      <4>1. health = Reported
        BY <3>1, TwoHealths DEF Ranked
      <4> QED
        BY <1>5, <3>1, <4>1 DEF HealthChanged
    <3> QED
      BY <3>1
  <2>3. Len(interventions) <= 1 /\ (health = Unreported => interventions = << >>)
    <3>1. CASE lastHealth = None
      BY <3>1 DEF Ranked
    <3>2. CASE lastHealth = Some(Unreported)
      <4>1. health # Unreported
        BY <1>5, <3>2 DEF HealthChanged
      <4> QED
        BY <3>2, <4>1 DEF Ranked
    <3> QED
      BY <2>2, <3>1, <3>2 DEF Ranked
  <2>4. CASE UNCHANGED <<lastDecision, lastInterveneAt, interventions>>
    <3>1. Ranked'
      BY <1>1, <1>2, <1>3, <2>1, <2>3, <2>4 DEF Ranked
    <3>2. (Remembered /\ NoRepeatWithinCooldown)'
      BY <2>4 DEF Remembered, NoRepeatWithinCooldown
    <3> QED
      BY <3>1, <3>2
  <2>5. CASE /\ lastDecision' = Some(decision) /\ lastInterveneAt' = Some(now)
             /\ interventions' = Append(interventions, this)
             /\ ~CoolingDown(decision)
    <3>1. /\ Len(interventions') = Len(interventions) + 1
          /\ interventions' # << >>
          /\ interventions'[Len(interventions')] = this
          /\ \A i \in 1..Len(interventions) : interventions'[i] = interventions[i]
          /\ DOMAIN interventions' = 1..(Len(interventions) + 1)
      BY <1>2, <2>5
    <3>2. Ranked'
      <4>1. Len(interventions') <= 2 /\ (health = Unreported => Len(interventions') <= 1)
        BY <1>2, <2>3, <3>1
      <4> QED
        BY <1>1, <1>3, <2>1, <4>1 DEF Ranked
    <3>3. Remembered'
      BY <2>5, <3>1 DEF Remembered
    <3>4. NoRepeatWithinCooldown'
      <4> SUFFICES ASSUME NEW i \in DOMAIN interventions', NEW j \in DOMAIN interventions',
                          i < j, interventions'[i].decision = interventions'[j].decision
                   PROVE interventions'[j].at >= interventions'[i].at + Cooldown
        BY DEF NoRepeatWithinCooldown
      <4>1. i \in 1..(Len(interventions) + 1) /\ j \in 1..(Len(interventions) + 1)
        BY <3>1
      <4>2. /\ Len(interventions) = 1 /\ i = 1 /\ j = 2
            /\ interventions # << >> /\ interventions[1] \in Records
        BY <1>2, <2>3, <4>1, PairOfTwo
      <4>3. /\ interventions'[2] = this /\ interventions'[1] = interventions[1]
            /\ lastDecision = Some(interventions[1].decision)
            /\ lastInterveneAt = Some(interventions[1].at)
        BY <3>1, <4>2 DEF Remembered
      <4>4. lastDecision = Some(decision)
        BY <4>2, <4>3
      <4>5. ~(now < interventions[1].at + Cooldown)
        BY <2>5, <4>3, <4>4 DEF CoolingDown, Some
      <4>6. interventions[1].at \in Nat
        BY <4>2, ClockAssumption
      <4> QED
        BY <1>2, <4>2, <4>3, <4>5, <4>6
    <3> QED
      BY <3>2, <3>3, <3>4
  <2> QED
    BY <2>1, <2>4, <2>5 DEF Act
<1> QED
  BY <1>4, <1>5

LEMMA InterveneStep == InterveneInv /\ [Next]_vars => InterveneInv'
<1> SUFFICES ASSUME InterveneInv, [Next]_vars PROVE InterveneInv'
  OBVIOUS
<1> USE DEF InterveneInv
<1>1. TypeOK'
  BY NextType
<1>2. CASE UNCHANGED <<lastHealth, lastDecision, lastInterveneAt, interventions>> /\ fusion' = fusion
  BY <1>1, <1>2 DEF Ranked, Remembered, NoRepeatWithinCooldown
<1>3. CASE RecvSensed
  <2>1. UNCHANGED <<lastHealth, lastDecision, lastInterveneAt, interventions>>
    BY <1>3 DEF RecvSensed, history
  <2>2. fusion["windows"] # None => fusion'["windows"] # None
    BY <1>3 DEF RecvSensed, ApplySense, TypeOK, Targets, Some, None
  <2> QED
    BY <1>1, <2>1, <2>2 DEF Ranked, Remembered, NoRepeatWithinCooldown
<1>4. CASE SettleTimeout \/ SettleReload
  BY <1>1, <1>4, ConvergeIntervenes DEF SettleTimeout, SettleReload
<1>5. Next => \/ UNCHANGED <<lastHealth, lastDecision, lastInterveneAt, interventions>> /\ fusion' = fusion
              \/ RecvSensed \/ SettleTimeout \/ SettleReload
  BY DEF Next, Sense, Unblock, Edit, Poll, Clock, RecvReload, Shutdown, Stop, state, history
<1> QED
  BY <1>2, <1>3, <1>4, <1>5 DEF vars, state, history

LEMMA InterveneInit == Init => InterveneInv
<1> SUFFICES ASSUME Init PROVE InterveneInv
  OBVIOUS
<1>1. TypeOK
  BY InitType
<1>2. interventions = << >> /\ lastHealth = None /\ None # Some(Reported) /\ None # Some(Unreported)
  BY DEF Init, None, Some
<1> QED
  BY <1>1, <1>2 DEF InterveneInv, Ranked, Remembered, NoRepeatWithinCooldown

\* The daemon intervenes at most twice in its life (actor.rs:322-327, 275-298).
THEOREM AtMostTwo == Spec => []AtMostTwoInterventions
<1>1. InterveneInv => AtMostTwoInterventions
  BY DEF InterveneInv, Ranked, AtMostTwoInterventions
<1> QED
  BY <1>1, InterveneInit, InterveneStep, PTL DEF Spec

\* It never carries out the same decision again within the cooldown, whatever
\* the clock does between (actor.rs:332, 386-404).
THEOREM NoRepeat == Spec => []NoRepeatWithinCooldown
<1>1. InterveneInv => NoRepeatWithinCooldown
  BY DEF InterveneInv
<1> QED
  BY <1>1, InterveneInit, InterveneStep, PTL DEF Spec
=============================================================================
