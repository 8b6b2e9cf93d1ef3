-------------------------- MODULE LifecycleProofs --------------------------
(***************************************************************************)
(* Proofs about Lifecycle for every set of process numbers: types for any  *)
(* number of terminals; and, for one terminal and Prompt daemons, that a   *)
(* running daemon is alone and the one the PID file names, and that stop   *)
(* says the truth.                                                         *)
(***************************************************************************)
EXTENDS Lifecycle, FiniteSetTheorems, TLAPS

-----------------------------------------------------------------------------
(* The PID file.                                                           *)

LEMMA Names ==
  /\ NamedIn(Missing) = None /\ NamedIn(Empty) = None
  /\ \A p \in Pids : NamedIn(Number(p)) = Some(p)
  /\ \A p, q \in Pids : Number(p) = Number(q) => p = q
  /\ \A p \in Pids : Number(p) # Missing /\ Number(p) # Empty
  BY DEF NamedIn, Missing, Empty, Number, None, Some

LEMMA Content ==
  ASSUME NEW content \in Option(Option(Pids))
  PROVE  content = Missing \/ content = Empty \/ \E p \in Pids : content = Number(p)
  BY DEF Option, Missing, Empty, Number

LEMMA NamedType ==
  ASSUME NEW content \in Option(Option(Pids))
  PROVE  /\ NamedIn(content) \in Option(Pids)
         /\ \A p \in NamedIn(content) : p \in Pids /\ content = Number(p)
<1>1. CASE content = Missing \/ content = Empty BY <1>1, Names DEF Option, None
<1>2. CASE \E p \in Pids : content = Number(p)
  <2>1. PICK p \in Pids : content = Number(p) BY <1>2
  <2>2. NamedIn(content) = {p} BY <2>1, Names DEF Some
  <2>3. QED BY <2>1, <2>2 DEF Option, Some
<1>3. QED BY <1>1, <1>2, Content

-----------------------------------------------------------------------------
(* Types.                                                                  *)

LEMMA EndedType == \A p : Ended(p) \in {"free", "zombie"}
  BY DEF Ended

\* What a command does to itself.
LEMMA GotoType ==
  ASSUME ProcessTypeOK, NEW t \in Terminals, NEW from, NEW to \in Steps, NEW pid \in Option(Pids),
         Goto(t, from, to, pid)
  PROVE  /\ cli' \in [Terminals -> Commands]
         /\ cli'[t].step = to /\ cli'[t].pid = pid /\ cli[t].step = from
         /\ \A u \in Terminals : u # t => cli'[u] = cli[u]
<1>1. cli \in [Terminals -> Commands] BY DEF ProcessTypeOK
<1>2. cli' = [cli EXCEPT ![t] = [cli[t] EXCEPT !.step = to, !.pid = pid]] BY <1>1 DEF Goto
<1>3. cli[t] \in Commands BY <1>1
<1>4. [cli[t] EXCEPT !.step = to, !.pid = pid] \in Commands
      /\ [cli[t] EXCEPT !.step = to, !.pid = pid].step = to
      /\ [cli[t] EXCEPT !.step = to, !.pid = pid].pid = pid
  BY <1>3 DEF Commands
<1>5. QED BY <1>1, <1>2, <1>4 DEF Goto

LEMMA IdleType == Idle \in Commands /\ Idle.step = "typing" /\ Idle.pid = None
  BY DEF Idle, Commands, Steps, Option

Outcomes == {"none", "started", "already", "busy", "failed", "stopped", "cleaned", "not running", "late"}

LEMMA FinishType ==
  ASSUME ProcessTypeOK, NEW t \in Terminals, NEW outcome \in Outcomes, Finish(t, outcome)
  PROVE  /\ cli' \in [Terminals -> Commands] /\ cli'[t] = Idle
         /\ result' \in [Terminals -> Results] /\ result'[t].outcome = outcome
         /\ parent' \in [Pids -> Option(Terminals)]
         /\ stage' \in [Pids -> Stages]
         /\ \A p \in Pids : stage'[p] = stage[p] \/ stage'[p] = "free"
<1>1. cli \in [Terminals -> Commands] /\ result \in [Terminals -> Results]
      /\ parent \in [Pids -> Option(Terminals)] /\ stage \in [Pids -> Stages]
  BY DEF ProcessTypeOK
<1>2. cli' \in [Terminals -> Commands] /\ cli'[t] = Idle BY <1>1, IdleType DEF Finish
<1>3. cli[t].command \in {"none", "start", "stop", "restart"} BY <1>1 DEF Commands
<1>4. [of |-> cli[t].command, outcome |-> outcome] \in Results BY <1>3 DEF Results, Outcomes
<1>5. result' \in [Terminals -> Results] /\ result'[t].outcome = outcome BY <1>1, <1>4 DEF Finish
<1>6. parent' \in [Pids -> Option(Terminals)]
  <2>1. \A o \in Option(Terminals) : o \ {t} \in Option(Terminals) BY DEF Option, None, Some
  <2>2. QED BY <1>1, <2>1 DEF Finish
<1>7. stage' \in [Pids -> Stages] /\ \A p \in Pids : stage'[p] = stage[p] \/ stage'[p] = "free"
  <2>1. "free" \in Stages BY DEF Stages
  <2>2. QED BY <1>1, <2>1 DEF Finish
<1>8. QED BY <1>2, <1>5, <1>6, <1>7

\* stop() is over: the command is, or goes on with start().
LEMMA StopOverType ==
  ASSUME ProcessTypeOK, NEW t \in Terminals, NEW outcome \in Outcomes, StopOver(t, outcome)
  PROVE  /\ cli' \in [Terminals -> Commands] /\ result' \in [Terminals -> Results]
         /\ parent' \in [Pids -> Option(Terminals)] /\ stage' \in [Pids -> Stages]
         /\ \A p \in Pids : stage'[p] = stage[p] \/ stage'[p] = "free"
         /\ \/ cli'[t] = Idle /\ result'[t].outcome = outcome
            \/ cli'[t].step = "start" /\ UNCHANGED result
<1>1. CASE Finish(t, outcome) BY <1>1, FinishType
<1>2. CASE /\ cli' = [cli EXCEPT ![t].step = "start", ![t].pid = None]
           /\ UNCHANGED <<stage, parent, result>>
  <2>1. cli \in [Terminals -> Commands] BY DEF ProcessTypeOK
  <2>2. cli' = [cli EXCEPT ![t] = [cli[t] EXCEPT !.step = "start", !.pid = None]] BY <1>2, <2>1
  <2>3. cli[t] \in Commands BY <2>1
  <2>4. [cli[t] EXCEPT !.step = "start", !.pid = None] \in Commands
        /\ [cli[t] EXCEPT !.step = "start", !.pid = None].step = "start"
    BY <2>3 DEF Commands, Steps, Option
  <2>5. cli' \in [Terminals -> Commands] /\ cli'[t].step = "start" BY <2>1, <2>2, <2>4
  <2>6. QED BY <1>2, <2>5 DEF ProcessTypeOK
<1>3. QED BY <1>1, <1>2 DEF StopOver

\* The types, and what happens to the processes: at most one of them goes on to
\* its next stage, in a step of its own; the rest stay or end.
LEMMA TypeNext == ASSUME ProcessTypeOK, [ProcessNext]_processVars PROVE ProcessTypeOK'
<1> USE DEF ProcessTypeOK
<1>1. CASE UNCHANGED processVars BY <1>1 DEF processVars
<1>2. ASSUME NEW p \in Pids, NEW to \in Stages, stage' = [stage EXCEPT ![p] = to]
      PROVE  stage' \in [Pids -> Stages]
  BY <1>2
<1>3. \A p \in Pids : Ended(p) \in Stages BY EndedType DEF Stages
<1>4. Starting \subseteq Stages /\ Running \subseteq Stages /\ "free" \in Stages /\ "other" \in Stages
  BY DEF Stages
<1>5. Missing \in Option(Option(Pids)) /\ Empty \in Option(Option(Pids))
      /\ \A p \in Pids : Number(p) \in Option(Option(Pids))
  BY DEF Missing, Empty, Number, Option
<1>6. ASSUME NEW p \in Pids, Daemon(p) \/ Die(p) \/ Other(p) PROVE ProcessTypeOK'
  <2>1. \E to \in Stages : stage' = [stage EXCEPT ![p] = to]
    BY <1>3, <1>4, <1>6 DEF Daemon, Die, Other, Become, Check, ClearStale, Truncate, Write, Bind,
       Drained, Leave, Unlink, Starting, Running
  <2>2. pidFile' \in Option(Option(Pids))
    BY <1>5, <1>6 DEF Daemon, Die, Other, Check, ClearStale, Truncate, Write, Bind,
       Drained, Leave, Unlink
  <2>3. UNCHANGED <<parent, streams, cli, result>>
    BY <1>6 DEF Daemon, Die, Other, Check, ClearStale, Truncate, Write, Bind, Drained, Leave, Unlink
  <2>4. QED BY <1>2, <2>1, <2>2, <2>3
<1>7. CASE Browse BY <1>7 DEF Browse
<1>8. ASSUME NEW t \in Terminals, Type(t) PROVE ProcessTypeOK'
  <2>1. PICK command \in {"start", "stop", "restart"} :
          cli' = [cli EXCEPT ![t].command = command,
                             ![t].step = IF command = "start" THEN "start" ELSE "stop"]
    BY <1>8 DEF Type
  <2> DEFINE step == IF command = "start" THEN "start" ELSE "stop"
  <2>2. cli' = [cli EXCEPT ![t] = [cli[t] EXCEPT !.command = command, !.step = step]] BY <2>1
  <2>3. [cli[t] EXCEPT !.command = command, !.step = step] \in Commands
    <3>1. cli[t] \in Commands /\ step \in Steps BY DEF Steps
    <3>2. QED BY <3>1 DEF Commands
  <2>4. cli' \in [Terminals -> Commands] BY <2>2, <2>3
  <2>5. NoResult \in Results BY DEF NoResult, Results
  <2>6. QED BY <1>8, <2>4, <2>5 DEF Type
<1>9. ASSUME NEW t \in Terminals, Command(t) PROVE ProcessTypeOK'
  <2> USE DEF Steps, Outcomes
  <2>1. NamedIn(pidFile) \in Option(Pids) /\ None \in Option(Pids) BY NamedType DEF Option
  <2>2. cli[t].pid \in Option(Pids) BY DEF Commands
  <2>3. CASE StopReads(t)
    <3>1. CASE StopOver(t, "not running") BY <2>3, <3>1, StopOverType DEF StopReads
    <3>2. CASE \E to \in {"term", "stale"} : /\ Goto(t, "stop", to, NamedIn(pidFile))
                                             /\ UNCHANGED <<stage, parent, result>>
      <4>1. PICK to \in {"term", "stale"} : Goto(t, "stop", to, NamedIn(pidFile)) BY <3>2
      <4>2. to \in Steps OBVIOUS
      <4>3. cli' \in [Terminals -> Commands] BY <2>1, <4>1, <4>2, GotoType
      <4>4. QED BY <2>3, <3>2, <4>3 DEF StopReads
    <3>3. QED BY <2>3, <3>1, <3>2 DEF StopReads
  <2>4. CASE RemoveStale(t) \/ PollTimeout(t) \/ RemoveStopped(t)
    BY <1>5, <2>4, StopOverType DEF RemoveStale, PollTimeout, RemoveStopped
  <2>5. CASE Terminate(t)
    <3>1. cli' \in [Terminals -> Commands] BY <2>2, <2>5, GotoType DEF Terminate
    <3>2. stage' \in [Pids -> Stages] BY <1>3, <1>4, <2>5 DEF Terminate, Running
    <3>3. QED BY <2>5, <3>1, <3>2 DEF Terminate
  <2>6. CASE PollGone(t)
    <3>1. cli' \in [Terminals -> Commands] BY <2>2, <2>6, GotoType DEF PollGone
    <3>2. QED BY <2>6, <3>1 DEF PollGone
  <2>7. CASE StartReads(t) \/ Precheck(t)
    <3>1. CASE \E o \in {"already", "busy"} : Finish(t, o)
      BY <2>7, <3>1, FinishType DEF StartReads, Precheck
    <3>2. CASE \E from, to \in Steps : /\ Goto(t, from, to, None)
                                       /\ UNCHANGED <<stage, parent, result>>
      <4>1. cli' \in [Terminals -> Commands] BY <2>1, <3>2, GotoType
      <4>2. QED BY <2>7, <3>2, <4>1 DEF StartReads, Precheck
    <3>3. QED BY <2>7, <3>1, <3>2 DEF StartReads, Precheck
  <2>8. CASE Spawn(t)
    <3>1. CASE Finish(t, "failed") BY <2>8, <3>1, FinishType DEF Spawn
    <3>2. ASSUME NEW p \in Pids, Become(p, "free", "checking"), parent' = [parent EXCEPT ![p] = Some(t)],
                 Goto(t, "spawn", "wait", Some(p)), UNCHANGED result
          PROVE  ProcessTypeOK'
      <4>1. Some(p) \in Option(Pids) /\ Some(t) \in Option(Terminals) BY DEF Option
      <4>2. cli' \in [Terminals -> Commands] BY <3>2, <4>1, GotoType
      <4>3. stage' \in [Pids -> Stages] BY <1>4, <3>2 DEF Become, Starting
      <4>4. QED BY <2>8, <3>2, <4>1, <4>2, <4>3 DEF Spawn
    <3>3. QED BY <2>8, <3>1, <3>2 DEF Spawn
  <2>9. CASE Report(t)
    <3>1. PICK o \in {"started", "failed"} : Finish(t, o) BY <2>9 DEF Report
    <3>2. QED BY <2>9, <3>1, FinishType DEF Report
  <2>10. QED
    BY <1>9, <2>3, <2>4, <2>5, <2>6, <2>7, <2>8, <2>9 DEF Command
<1>10. QED BY <1>1, <1>6, <1>7, <1>8, <1>9 DEF ProcessNext

LEMMA TypeInit == ProcessInit => ProcessTypeOK
<1> SUFFICES ASSUME ProcessInit PROVE ProcessTypeOK OBVIOUS
<1>1. pidFile \in Option(Option(Pids)) BY DEF ProcessInit, Missing, Empty, Number, Option
<1>2. stage \in [Pids -> Stages] BY DEF ProcessInit, Stages
<1>3. parent \in [Pids -> Option(Terminals)] BY DEF ProcessInit, Option
<1>4. cli \in [Terminals -> Commands] BY IdleType DEF ProcessInit
<1>5. NoResult \in Results BY DEF NoResult, Results
<1>6. QED BY <1>1, <1>2, <1>3, <1>4, <1>5 DEF ProcessInit, ProcessTypeOK

\* Every variable keeps its type, with any number of terminals.
THEOREM TypeCorrect == ProcessSpec => []ProcessTypeOK
  BY TypeInit, TypeNext, PTL DEF ProcessSpec

-----------------------------------------------------------------------------
(* One terminal.  What the properties need beyond themselves is where the  *)
(* command is: only the one that waits for its child has a process that    *)
(* starts, and what stop() is about to remove names no other daemon than   *)
(* the one it was told of.                                                 *)

Honest == {"stopped", "cleaned", "not running"}
Daemons == {p \in Pids : stage[p] \in Running}

OneInv(t) ==
  /\ \A p \in Pids : stage[p] \in Starting => cli[t].step = "wait" /\ cli[t].pid = Some(p)
  /\ \A p \in Pids : stage[p] \in {"binding"} \cup Running => pidFile = Number(p)
  /\ \A p \in Pids : stage[p] = "writing" => pidFile = Empty
  /\ cli[t].step \in {"precheck", "spawn", "unlink", "stale"} => Daemons = {}
  /\ cli[t].step \in {"term", "poll", "wait"} => \A p \in Daemons : cli[t].pid = Some(p)
  /\ result[t].outcome \in Honest => cli[t].step = "typing" /\ Daemons = {}

\* Processes that only end.
OnlyEnd == \A p \in Pids : stage'[p] \in Starting \cup Running => stage'[p] = stage[p]

LEMMA EndingKeeps ==
  ASSUME NEW t, OneInv(t), OnlyEnd, UNCHANGED <<pidFile, cli, result>>
  PROVE  OneInv(t)'
<1>1. Daemons' \subseteq Daemons BY DEF Daemons, OnlyEnd
<1>2. \A p \in Pids : stage'[p] \in Starting => stage[p] \in Starting BY DEF OnlyEnd
<1>3. \A p \in Pids : stage'[p] \in {"binding"} \cup Running => stage[p] \in {"binding"} \cup Running
  BY DEF OnlyEnd, Starting
<1>4. \A p \in Pids : stage'[p] = "writing" => stage[p] = "writing" BY DEF OnlyEnd, Starting
<1>5. QED BY <1>1, <1>2, <1>3, <1>4 DEF OneInv

\* A command that is not waiting for its child has no process that starts, and
\* while it removes the file there is no daemon.
LEMMA CommandKeeps ==
  ASSUME NEW t, OneInv(t), OnlyEnd, \A p \in Pids : stage[p] \notin Starting,
         UNCHANGED pidFile \/ Daemons = {},
         cli'[t].step \in {"precheck", "spawn", "unlink", "stale"} => Daemons = {},
         cli'[t].step \in {"term", "poll", "wait"} => \A p \in Daemons : cli'[t].pid = Some(p),
         result'[t].outcome \in Honest => cli'[t].step = "typing" /\ Daemons = {}
  PROVE  OneInv(t)'
<1>1. Daemons' \subseteq Daemons BY DEF Daemons, OnlyEnd
<1>2. \A p \in Pids : stage'[p] \notin Starting BY DEF OnlyEnd
<1>3. \A p \in Pids : stage'[p] \in {"binding"} \cup Running => p \in Daemons /\ p \in Daemons'
  BY <1>1, <1>2 DEF Daemons, Starting
<1>4. \A p \in Pids : stage'[p] \in {"binding"} \cup Running => pidFile' = Number(p)
  <2>1. \A p \in Daemons : pidFile = Number(p) BY DEF OneInv, Daemons
  <2>2. QED BY <1>3, <2>1
<1>5. \A p \in Pids : stage'[p] # "writing" BY <1>2 DEF Starting
<1>6. QED BY <1>1, <1>2, <1>4, <1>5 DEF OneInv

\* A process is at one stage: where it starts it does not run.
LEMMA StagesDiffer ==
  /\ Starting \cap Running = {} /\ {"free", "zombie", "other"} \cap (Starting \cup Running) = {}
  /\ \A p \in Pids : Ended(p) \notin Starting \cup Running
  BY EndedType DEF Starting, Running

\* While a process starts, no other one starts or runs.
LEMMA StartsAlone ==
  ASSUME NEW t, OneInv(t), NEW p \in Pids, stage[p] \in Starting,
         NEW q \in Pids, stage[q] \in Starting \cup Running
  PROVE  q = p
<1>1. cli[t].step = "wait" /\ cli[t].pid = Some(p) BY DEF OneInv
<1>2. cli[t].pid = Some(q) BY <1>1 DEF OneInv, Daemons
<1>3. QED BY <1>1, <1>2 DEF Some

\* The daemon that starts, step by step.
LEMMA StartingKeeps ==
  ASSUME ProcessTypeOK, NEW t, OneInv(t), NEW p \in Pids,
         Check(p) \/ ClearStale(p) \/ Truncate(p) \/ Write(p) \/ Bind(p)
  PROVE  OneInv(t)'
<1>1. stage \in [Pids -> Stages] BY DEF ProcessTypeOK
<1>2. /\ stage[p] \in Starting /\ UNCHANGED <<cli, result>>
      /\ \A q \in Pids : q # p => stage'[q] = stage[q]
  BY <1>1 DEF Check, ClearStale, Truncate, Write, Bind, Become, Starting
<1>3. cli[t].step = "wait" /\ cli[t].pid = Some(p) BY <1>2 DEF OneInv
<1>4. \A q \in Pids : stage'[q] \in Starting \cup Running => q = p
  BY <1>2, StartsAlone
<1>5. /\ stage'[p] \in {"binding"} \cup Running => pidFile' = Number(p)
      /\ stage'[p] = "writing" => pidFile' = Empty
  <2>1. CASE Check(p)
    <3>1. stage'[p] \notin {"binding", "writing"} \cup Running
      BY <1>1, <2>1, EndedType DEF Check, Become, Running
    <3>2. QED BY <3>1
  <2>2. CASE ClearStale(p) BY <1>1, <2>2 DEF ClearStale, Become, Running
  <2>3. CASE Truncate(p) BY <1>1, <2>3 DEF Truncate, Become, Running
  <2>4. CASE Write(p)
    <3>1. pidFile = Empty BY <2>4 DEF Write, Become, OneInv
    <3>2. pidFile' = Number(p) /\ stage'[p] = "binding"
      BY <1>1, <2>4, <3>1 DEF Write, Become, Missing, Empty, None, Some
    <3>3. QED BY <3>2
  <2>5. CASE Bind(p)
    <3>1. pidFile = Number(p) /\ UNCHANGED pidFile BY <2>5 DEF Bind, Become, OneInv
    <3>2. stage'[p] # "writing" BY <1>1, <2>5, EndedType DEF Bind, Become
    <3>3. QED BY <3>1, <3>2
  <2>6. QED BY <2>1, <2>2, <2>3, <2>4, <2>5
<1>6. \A q \in Pids : stage'[q] = "writing" \/ stage'[q] \in {"binding"} \cup Running => q = p
  BY <1>4 DEF Starting
<1>7. result[t].outcome \notin Honest BY <1>3 DEF OneInv
<1>8. Daemons' \subseteq {p} BY <1>4 DEF Daemons
<1>9. /\ \A q \in Pids : stage'[q] \in Starting => cli[t].step = "wait" /\ cli[t].pid = Some(q)
      /\ \A q \in Daemons' : cli[t].pid = Some(q)
  BY <1>3, <1>4, <1>8
<1>10. /\ \A q \in Pids : stage'[q] \in {"binding"} \cup Running => pidFile' = Number(q)
       /\ \A q \in Pids : stage'[q] = "writing" => pidFile' = Empty
  BY <1>5, <1>6
<1>11. cli'[t] = cli[t] /\ result'[t] = result[t] BY <1>2
<1>12. QED BY <1>3, <1>7, <1>9, <1>10, <1>11 DEF OneInv

\* The daemon that ends: what it removes names nobody else.
LEMMA LeavingKeeps ==
  ASSUME ProcessTypeOK, NEW t, OneInv(t), NEW p \in Pids, Drained(p) \/ Leave(p) \/ Unlink(p)
  PROVE  OneInv(t)'
<1>1. stage \in [Pids -> Stages] BY DEF ProcessTypeOK
<1>2. /\ stage[p] \in Running /\ UNCHANGED <<cli, result>>
      /\ \A q \in Pids : q # p => stage'[q] = stage[q]
      /\ stage'[p] \in Running \/ stage'[p] = Ended(p)
  BY <1>1 DEF Drained, Leave, Unlink, Become, Running
<1>3. pidFile = Number(p) BY <1>2 DEF OneInv
<1>4. \A q \in Pids : q # p => stage[q] \notin {"binding", "writing"} \cup Running
  BY <1>3, Names DEF OneInv
<1>5. stage'[p] \notin Starting BY <1>2, StagesDiffer
<1>6. stage'[p] \in Running => pidFile' = Number(p)
  <2>1. CASE UNCHANGED pidFile BY <1>3, <2>1
  <2>2. CASE Unlink(p)
    <3>1. stage'[p] = Ended(p) BY <1>1, <2>2 DEF Unlink, Become
    <3>2. QED BY <3>1, StagesDiffer
  <2>3. QED BY <2>1, <2>2 DEF Drained, Leave
<1>7. Daemons' \subseteq Daemons BY <1>2 DEF Daemons
<1>8. \A q \in Pids : stage'[q] \in Starting => stage[q] \in Starting BY <1>2, <1>5
<1>9. /\ \A q \in Pids : stage'[q] \in {"binding"} \cup Running => pidFile' = Number(q)
      /\ \A q \in Pids : stage'[q] = "writing" => pidFile' = Empty
  <2>1. stage'[p] \notin {"binding", "writing"} BY <1>5 DEF Starting
  <2>2. QED BY <1>2, <1>4, <1>6, <2>1
<1>10. cli'[t] = cli[t] /\ result'[t] = result[t] BY <1>2
<1>11. QED BY <1>7, <1>8, <1>9, <1>10 DEF OneInv

LEMMA SurroundingsKeep ==
  ASSUME ProcessTypeOK, NEW t, OneInv(t), (\E p \in Pids : Die(p) \/ Other(p)) \/ Browse
  PROVE  OneInv(t)'
<1>1. stage \in [Pids -> Stages] BY DEF ProcessTypeOK
<1>2. OnlyEnd
  <2>1. ASSUME NEW p \in Pids, Die(p) \/ Other(p) PROVE OnlyEnd
    <3>1. /\ \A q \in Pids : q # p => stage'[q] = stage[q]
          /\ stage'[p] \in {"free", "other", Ended(p)}
      BY <1>1, <2>1 DEF Die, Other, Become
    <3>2. QED BY <3>1, StagesDiffer DEF OnlyEnd
  <2>2. CASE Browse BY <2>2 DEF Browse, OnlyEnd
  <2>3. QED BY <2>1, <2>2
<1>3. UNCHANGED <<pidFile, cli, result>> BY DEF Die, Other, Browse
<1>4. QED BY <1>2, <1>3, EndingKeeps

\* A process that is running or starting keeps what Finish and StopOver leave.
LEMMA OverOnlyEnds ==
  ASSUME \A p \in Pids : stage'[p] = stage[p] \/ stage'[p] = "free"
  PROVE  OnlyEnd
  BY StagesDiffer DEF OnlyEnd

\* The steps of stop().
LEMMA StopKeeps ==
  ASSUME ProcessTypeOK, NEW t \in Terminals, OneInv(t),
         \/ StopReads(t) \/ RemoveStale(t) \/ Terminate(t)
         \/ PollGone(t) \/ PollTimeout(t) \/ RemoveStopped(t)
  PROVE  OneInv(t)'
<1> USE DEF Steps, Outcomes
<1>1. cli[t].step # "wait" /\ cli[t].step # "typing"
  BY DEF StopReads, RemoveStale, Terminate, PollGone, PollTimeout, RemoveStopped, Goto
<1>2. /\ \A p \in Pids : stage[p] \notin Starting
      /\ result[t].outcome \notin Honest
  BY <1>1 DEF OneInv
<1>3. \A p \in Daemons : p \in Pids /\ pidFile = Number(p) /\ Alive(p)
  BY DEF OneInv, Daemons, Alive, Running
<1>4. \A p \in Daemons : NamedIn(pidFile) = Some(p) BY <1>3, Names
<1>5. NamedIn(pidFile) \in Option(Pids) /\ cli[t].pid \in Option(Pids)
  BY NamedType DEF ProcessTypeOK, Commands
<1>6. ASSUME NEW outcome \in Outcomes, StopOver(t, outcome), outcome \in Honest => Daemons = {},
             UNCHANGED pidFile \/ Daemons = {}
      PROVE  OneInv(t)'
  <2>1. /\ OnlyEnd
        /\ \/ cli'[t] = Idle /\ result'[t].outcome = outcome
           \/ cli'[t].step = "start" /\ UNCHANGED result
    BY <1>6, StopOverType, OverOnlyEnds
  <2>2. cli'[t].step \in {"typing", "start"} BY <2>1, IdleType
  <2>3. result'[t].outcome \in Honest => cli'[t].step = "typing" /\ Daemons = {}
    BY <1>2, <1>6, <2>1, IdleType
  <2>4. QED BY <1>2, <1>6, <2>1, <2>2, <2>3, CommandKeeps
<1>7. CASE StopReads(t)
  <2>1. CASE NamedIn(pidFile) = None
    <3>1. Daemons = {} BY <1>4, <2>1 DEF None, Some
    <3>2. StopOver(t, "not running") /\ UNCHANGED pidFile BY <1>7, <2>1 DEF StopReads
    <3>3. QED BY <1>6, <3>1, <3>2
  <2>2. CASE NamedIn(pidFile) # None
    <3>1. PICK to \in {"term", "stale"} :
            /\ Goto(t, "stop", to, NamedIn(pidFile)) /\ UNCHANGED <<stage, parent, result, pidFile>>
            /\ to = "stale" => \A p \in NamedIn(pidFile) : ~Alive(p)
      BY <1>7, <2>2 DEF StopReads
    <3>2. to \in Steps OBVIOUS
    <3>3. cli'[t].step = to /\ cli'[t].pid = NamedIn(pidFile)
      <4>1. Goto(t, "stop", to, NamedIn(pidFile)) /\ NamedIn(pidFile) \in Option(Pids) BY <1>5, <3>1
      <4> HIDE DEF Steps
      <4>2. QED BY <3>2, <4>1, GotoType
    <3>4. to = "stale" => Daemons = {} BY <1>3, <1>4, <3>1 DEF Some
    <3>5. \A p \in Daemons : cli'[t].pid = Some(p) BY <1>4, <3>3
    <3>6. OnlyEnd /\ result'[t] = result[t] BY <3>1 DEF OnlyEnd
    <3>7. QED BY <1>2, <3>1, <3>3, <3>4, <3>5, <3>6, CommandKeeps
  <2>3. QED BY <2>1, <2>2
<1>8. CASE RemoveStale(t)
  <2>1. Daemons = {} BY <1>8 DEF RemoveStale, OneInv
  <2>2. QED BY <1>6, <1>8, <2>1 DEF RemoveStale
<1>9. CASE RemoveStopped(t)
  <2>1. Daemons = {} BY <1>9 DEF RemoveStopped, OneInv
  <2>2. QED BY <1>6, <1>9, <2>1 DEF RemoveStopped
<1>10. CASE PollTimeout(t)
  <2>1. StopOver(t, "late") /\ UNCHANGED pidFile BY <1>10 DEF PollTimeout
  <2>2. QED BY <1>6, <2>1 DEF Honest
<1>11. CASE PollGone(t)
  <2>1. Goto(t, "poll", "unlink", cli[t].pid) /\ UNCHANGED <<stage, pidFile, result>>
    BY <1>11 DEF PollGone
  <2>2. cli'[t].step = "unlink" /\ cli[t].step = "poll"
    <3>1. Goto(t, "poll", "unlink", cli[t].pid) /\ cli[t].pid \in Option(Pids) BY <1>5, <2>1
    <3>2. "unlink" \in Steps OBVIOUS
    <3> HIDE DEF Steps
    <3>3. QED BY <3>1, <3>2, GotoType
  <2>3. Daemons = {}
    <3>1. \A p \in Daemons : cli[t].pid = Some(p) BY <2>2 DEF OneInv
    <3>2. QED BY <1>3, <1>11, <3>1 DEF PollGone, Some
  <2>4. OnlyEnd /\ result'[t] = result[t] BY <2>1 DEF OnlyEnd
  <2>5. QED BY <1>2, <2>1, <2>2, <2>3, <2>4, CommandKeeps
<1>12. CASE Terminate(t)
  <2>1. Goto(t, "term", "poll", cli[t].pid) /\ UNCHANGED <<pidFile, result>> BY <1>12 DEF Terminate
  <2>2. cli'[t].step = "poll" /\ cli'[t].pid = cli[t].pid /\ cli[t].step = "term"
    <3>1. Goto(t, "term", "poll", cli[t].pid) /\ cli[t].pid \in Option(Pids) BY <1>5, <2>1
    <3>2. "poll" \in Steps OBVIOUS
    <3> HIDE DEF Steps
    <3>3. QED BY <3>1, <3>2, GotoType
  <2>3. \A p \in Pids : \/ stage'[p] = stage[p]
                        \/ stage[p] = "serving" /\ stage'[p] = "draining"
                        \/ stage'[p] = Ended(p)
    BY <1>12 DEF Terminate, ProcessTypeOK
  <2>4. /\ \A p \in Pids : stage'[p] \in Running => p \in Daemons
        /\ \A p \in Pids : stage'[p] \notin Starting
    BY <1>2, <2>3, StagesDiffer DEF Daemons, Running, Starting
  <2>5. \A p \in Pids : stage'[p] \in {"binding", "writing"} \cup Running => p \in Daemons
    BY <2>4 DEF Starting
  <2>6. \A p \in Daemons : cli[t].pid = Some(p) BY <2>2 DEF OneInv
  <2>7. Daemons' \subseteq Daemons BY <2>4 DEF Daemons
  <2>8. \A p \in Pids : stage'[p] # "writing" BY <2>4 DEF Starting
  <2>9. \A p \in Pids : stage'[p] \in {"binding"} \cup Running => pidFile' = Number(p)
    BY <1>3, <2>1, <2>5
  <2>10. result'[t] = result[t] BY <2>1
  <2>11. QED BY <1>2, <2>2, <2>4, <2>6, <2>7, <2>8, <2>9, <2>10 DEF OneInv
<1>13. QED BY <1>7, <1>8, <1>9, <1>10, <1>11, <1>12

\* The steps of start().
LEMMA StartKeeps ==
  ASSUME ProcessTypeOK, Prompt, NEW t \in Terminals, OneInv(t),
         StartReads(t) \/ Precheck(t) \/ Spawn(t) \/ Report(t)
  PROVE  OneInv(t)'
<1> USE DEF Steps, Outcomes
<1>1. /\ \A p \in Pids : stage[p] \notin Starting
      /\ result[t].outcome \notin Honest
  <2>1. cli[t].step # "typing" BY DEF StartReads, Precheck, Spawn, Report, Goto
  <2>2. CASE cli[t].step # "wait" BY <2>1, <2>2 DEF OneInv
  <2>3. CASE Report(t) BY <2>1, <2>3 DEF Report, OneInv, Some
  <2>4. QED BY <2>2, <2>3 DEF StartReads, Precheck, Spawn, Goto
<1>2. ASSUME NEW outcome \in Outcomes \ Honest, Finish(t, outcome), UNCHANGED pidFile
      PROVE  OneInv(t)'
  <2>1. /\ OnlyEnd /\ cli'[t] = Idle /\ result'[t].outcome = outcome
    BY <1>2, FinishType, OverOnlyEnds
  <2>2. QED BY <1>1, <1>2, <2>1, IdleType, CommandKeeps
<1>3. None \in Option(Pids) BY DEF Option
<1>4. CASE StartReads(t)
  <2>1. CASE \E p \in NamedIn(pidFile) : Alive(p) BY <1>2, <1>4, <2>1 DEF StartReads, Honest
  <2>2. CASE \A p \in NamedIn(pidFile) : ~Alive(p)
    <3>1. Goto(t, "start", "precheck", None) /\ UNCHANGED <<stage, result, pidFile>>
      BY <1>4, <2>2 DEF StartReads
    <3>2. cli'[t].step = "precheck" BY <1>3, <3>1, GotoType
    <3>3. \A p \in Daemons : NamedIn(pidFile) = Some(p) /\ Alive(p)
      BY Names DEF OneInv, Daemons, Alive, Running
    <3>4. Daemons = {} BY <2>2, <3>3 DEF Some
    <3>5. OnlyEnd /\ result'[t] = result[t] BY <3>1 DEF OnlyEnd
    <3>6. QED BY <1>1, <3>1, <3>2, <3>4, <3>5, CommandKeeps
  <2>3. QED BY <2>1, <2>2
<1>5. CASE Precheck(t)
  <2>1. CASE PortTaken BY <1>2, <1>5, <2>1 DEF Precheck, Honest
  <2>2. CASE ~PortTaken
    <3>1. Goto(t, "precheck", "spawn", None) /\ UNCHANGED <<stage, result, pidFile>>
      BY <1>5, <2>2 DEF Precheck
    <3>2. cli'[t].step = "spawn" BY <1>3, <3>1, GotoType
    <3>3. Daemons = {} BY <1>5 DEF Precheck, OneInv
    <3>4. OnlyEnd /\ result'[t] = result[t] BY <3>1 DEF OnlyEnd
    <3>5. QED BY <1>1, <3>1, <3>2, <3>3, <3>4, CommandKeeps
  <2>3. QED BY <2>1, <2>2
<1>6. CASE Spawn(t)
  <2>1. CASE Finish(t, "failed") BY <1>2, <1>6, <2>1 DEF Spawn, Honest
  <2>2. ASSUME NEW p \in Pids, Become(p, "free", "checking"), Goto(t, "spawn", "wait", Some(p)),
               UNCHANGED <<result, pidFile>>
        PROVE  OneInv(t)'
    <3>1. Some(p) \in Option(Pids) BY DEF Option
    <3>2. cli'[t].step = "wait" /\ cli'[t].pid = Some(p) /\ cli[t].step = "spawn"
      BY <2>2, <3>1, GotoType
    <3>3. Daemons = {} BY <3>2 DEF OneInv
    <3>4. stage'[p] = "checking" /\ \A q \in Pids : q # p => stage'[q] = stage[q]
      BY <2>2 DEF Become, ProcessTypeOK
    <3>5. \A q \in Pids : stage'[q] \in Starting \cup Running => q = p /\ stage'[q] = "checking"
      BY <1>1, <3>3, <3>4 DEF Daemons
    <3>6. Daemons' = {} BY <3>5, StagesDiffer DEF Daemons, Starting, Running
    <3>7. \A q \in Pids : stage'[q] \notin {"binding", "writing"} \cup Running
      BY <3>5 DEF Starting, Running
    <3>8. result'[t].outcome \notin Honest BY <1>1, <2>2
    <3>9. \A q \in Pids : stage'[q] \in Starting => cli'[t].step = "wait" /\ cli'[t].pid = Some(q)
      BY <3>2, <3>5
    <3>10. QED BY <3>2, <3>6, <3>7, <3>8, <3>9 DEF OneInv
  <2>3. QED BY <1>6, <2>1, <2>2 DEF Spawn
<1>7. CASE Report(t)
  <2>1. PICK o \in {"started", "failed"} : Finish(t, o) BY <1>7 DEF Report
  <2>2. QED BY <1>2, <1>7, <2>1 DEF Report, Honest
<1>8. QED BY <1>4, <1>5, <1>6, <1>7

LEMMA TypingKeeps == ASSUME ProcessTypeOK, NEW t \in Terminals, OneInv(t), Type(t) PROVE OneInv(t)'
<1>1. cli[t].step = "typing" BY IdleType DEF Type
<1>2. cli'[t].step \in {"start", "stop"}
  <2>1. cli \in [Terminals -> Commands] BY DEF ProcessTypeOK
  <2>2. QED BY <2>1 DEF Type, Commands
<1>3. result'[t].outcome = "none" BY DEF Type, NoResult, ProcessTypeOK
<1>4. UNCHANGED <<stage, pidFile>> BY DEF Type
<1>5. OnlyEnd /\ \A p \in Pids : stage[p] \notin Starting BY <1>1, <1>4 DEF OnlyEnd, OneInv
<1>6. QED BY <1>2, <1>3, <1>4, <1>5, CommandKeeps DEF Honest

LEMMA OneNext ==
  ASSUME Prompt, NEW t, Terminals = {t}, ProcessTypeOK, OneInv(t), [ProcessNext]_processVars
  PROVE  OneInv(t)'
<1>1. CASE UNCHANGED processVars BY <1>1, EndingKeeps DEF processVars, OnlyEnd
<1>2. ASSUME NEW p \in Pids, Daemon(p) PROVE OneInv(t)' BY <1>2, StartingKeeps, LeavingKeeps DEF Daemon
<1>3. CASE (\E p \in Pids : Die(p) \/ Other(p)) \/ Browse BY <1>3, SurroundingsKeep
<1>4. CASE Type(t) BY <1>4, TypingKeeps
<1>5. CASE Command(t) BY <1>5, StopKeeps, StartKeeps DEF Command
<1>6. QED BY <1>1, <1>2, <1>3, <1>4, <1>5 DEF ProcessNext

LEMMA OneInit == ASSUME NEW t, Terminals = {t}, ProcessInit PROVE OneInv(t)
<1>1. \A p \in Pids : stage[p] \notin Starting \cup Running BY StagesDiffer DEF ProcessInit
<1>2. cli[t].step = "typing" /\ result[t].outcome = "none" BY IdleType DEF ProcessInit, NoResult
<1>3. \A p \in Pids : stage[p] \notin {"binding", "writing"} \cup Running BY <1>1 DEF Starting
<1>4. Daemons = {} BY <1>1 DEF Daemons
<1>5. QED BY <1>1, <1>2, <1>3, <1>4 DEF OneInv, Honest

LEMMA OneIsNamed == ASSUME NEW t, OneInv(t) PROVE ServingIsNamed
<1> DEFINE there == {p \in Pids : stage[p] \in {"binding"} \cup Running}
<1>1. \A p \in there : pidFile = Number(p) BY DEF OneInv
<1>2. \A p, q \in there : p = q BY <1>1, Names
<1>3. there = {} \/ \E p : there = {p} BY <1>2
<1> HIDE DEF there
<1>4. Cardinality(there) <= 1
  <2>1. Cardinality(there) = 0 \/ Cardinality(there) = 1 BY <1>3, FS_EmptySet, FS_Singleton, Zenon
  <2>2. QED BY <2>1
<1>5. \A p \in Pids : stage[p] \in {"serving", "draining", "leaving"} => pidFile = Number(p)
  BY DEF OneInv, Running
<1>6. QED BY <1>4, <1>5 DEF ServingIsNamed, there

\* With one terminal and as long as Prompt holds (every daemon starts within the
\* 800 ms of start, and ends within the 3 s of stop unless a stream keeps it), a
\* daemon that serves or shuts down is the one the PID file names, and there is
\* one: through crashes, stale files and numbers given out again (main.rs:43,
\* 155-169, daemonctl.rs:96-128).
THEOREM DaemonIsNamed ==
  ASSUME Prompt, NEW t, Terminals = {t}
  PROVE  ProcessSpec => []ServingIsNamed
<1>1. ProcessInit => ProcessTypeOK /\ OneInv(t) BY TypeInit, OneInit
<1>2. ProcessTypeOK /\ OneInv(t) /\ [ProcessNext]_processVars => (ProcessTypeOK /\ OneInv(t))'
  BY TypeNext, OneNext
<1>3. OneInv(t) => ServingIsNamed BY OneIsNamed
<1>4. QED BY <1>1, <1>2, <1>3, PTL DEF ProcessSpec

\* With one terminal and as long as Prompt holds, when stop says that no daemon
\* runs, none does (daemonctl.rs:110-126).
THEOREM StopTells ==
  ASSUME Prompt, NEW t, Terminals = {t}
  PROVE  ProcessSpec => []StopIsHonest
<1>1. ProcessInit => ProcessTypeOK /\ OneInv(t) BY TypeInit, OneInit
<1>2. ProcessTypeOK /\ OneInv(t) /\ [ProcessNext]_processVars => (ProcessTypeOK /\ OneInv(t))'
  BY TypeNext, OneNext
<1>3. OneInv(t) => StopIsHonest BY DEF OneInv, StopIsHonest, Honest, Daemons
<1>4. QED BY <1>1, <1>2, <1>3, PTL DEF ProcessSpec
=============================================================================
