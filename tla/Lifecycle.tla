----------------------------- MODULE Lifecycle -----------------------------
(***************************************************************************)
(* Starting and stopping daoti-daemon on Unix: the PID file, the port, the *)
(* processes, and the commands of `daoti daemon`.  Every read, write or    *)
(* removal of the PID file, every signal and every look at a process is a  *)
(* step of its own.  A process that ended while the command that spawned   *)
(* it still runs is a zombie, for which `kill -0` succeeds.  The operating *)
(* system gives a free number to any new process, the user's own included. *)
(***************************************************************************)
EXTENDS Naturals, FiniteSets, Options

CONSTANTS
  Pids,        \* process numbers
  Terminals,   \* where commands are typed, one at a time in each
  Prompt       \* assumed of time: a daemon has always started within the 800 ms that
               \* start waits, and ended within the 3 s of stop unless a stream keeps it

(***************************************************************************)
(* A daemon reads the PID file ("checking"), removes a stale one           *)
(* ("clearing"), creates or truncates it ("claiming"), writes its number   *)
(* ("writing"), binds the port ("binding") and serves until SIGTERM        *)
(* ("draining"); then it reads the file again ("leaving") and removes it   *)
(* if it is its own ("unlinking").  "other" is somebody else's process.    *)
(***************************************************************************)
Starting == {"checking", "clearing", "claiming", "writing", "binding"}
Running  == {"serving", "draining", "leaving", "unlinking"}
Stages   == {"free", "zombie", "other"} \cup Starting \cup Running

\* The PID file: missing, empty between truncation and write, or a number.
Missing   == None
Empty     == Some(None)
Number(p) == Some(Some(p))

Idle == [command |-> "none", step |-> "typing", pid |-> None]

Steps == {"typing", "stop", "term", "poll", "unlink", "stale",
          "start", "precheck", "spawn", "wait"}
Commands == [command : {"none", "start", "stop", "restart"}, step : Steps, pid : Option(Pids)]
Results == [of : {"none", "start", "stop", "restart"},
            outcome : {"none", "started", "already", "busy", "failed",
                       "stopped", "cleaned", "not running", "late"}]
NoResult == [of |-> "none", outcome |-> "none"]

VARIABLES
  stage,    \* what each process is doing
  parent,   \* the terminal whose command spawned it and still runs
  pidFile,
  streams,  \* a browser holds an event stream, so a draining server does not end
  cli,      \* the command under way in each terminal
  result    \* how the last one ended

processVars == <<stage, parent, pidFile, streams, cli, result>>

ProcessInit ==
  /\ stage \in [Pids -> {"free", "other"}]
  /\ parent = [p \in Pids |-> None]
  /\ pidFile \in {Missing, Empty} \cup {Number(p) : p \in Pids}
  /\ streams = FALSE
  /\ cli = [t \in Terminals |-> Idle]
  /\ result = [t \in Terminals |-> NoResult]

Alive(p) == stage[p] # "free"
NamedIn(content) == UNION content
PortTaken == \E p \in Pids : stage[p] = "serving"

\* A process ends: a zombie while its parent runs.
Ended(p) == IF parent[p] = None THEN "free" ELSE "zombie"

-----------------------------------------------------------------------------
(* The daemon.                                                             *)

Become(p, from, to) == stage[p] = from /\ stage' = [stage EXCEPT ![p] = to]

\* acquire_single_instance refuses while the process on record exists.
Check(p) ==
  /\ Become(p, "checking",
       IF NamedIn(pidFile) = None THEN "claiming"
       ELSE IF \E q \in NamedIn(pidFile) : Alive(q) THEN Ended(p)
       ELSE "clearing")
  /\ UNCHANGED <<parent, pidFile, streams, cli, result>>

ClearStale(p) ==
  /\ Become(p, "clearing", "claiming") /\ pidFile' = Missing
  /\ UNCHANGED <<parent, streams, cli, result>>

Truncate(p) ==
  /\ Become(p, "claiming", "writing") /\ pidFile' = Empty
  /\ UNCHANGED <<parent, streams, cli, result>>

Write(p) ==
  /\ Become(p, "writing", "binding")
  /\ pidFile' = IF pidFile = Missing THEN Missing ELSE Number(p)  \* or the file was removed
  /\ UNCHANGED <<parent, streams, cli, result>>

\* A daemon that cannot bind ends and leaves its number behind.
Bind(p) ==
  /\ Become(p, "binding", IF PortTaken THEN Ended(p) ELSE "serving")
  /\ UNCHANGED <<parent, pidFile, streams, cli, result>>

\* The listener closes at once; the server ends when its streams have ended.
Drained(p) ==
  /\ ~streams /\ Become(p, "draining", "leaving")
  /\ UNCHANGED <<parent, pidFile, streams, cli, result>>

Leave(p) ==
  /\ Become(p, "leaving", IF pidFile = Number(p) THEN "unlinking" ELSE Ended(p))
  /\ UNCHANGED <<parent, pidFile, streams, cli, result>>

Unlink(p) ==
  /\ Become(p, "unlinking", Ended(p)) /\ pidFile' = Missing
  /\ UNCHANGED <<parent, streams, cli, result>>

\* A daemon is killed, or fails before it serves.
Die(p) ==
  /\ stage[p] \in Starting \cup Running /\ Become(p, stage[p], Ended(p))
  /\ UNCHANGED <<parent, pidFile, streams, cli, result>>

Daemon(p) == \/ Check(p) \/ ClearStale(p) \/ Truncate(p) \/ Write(p) \/ Bind(p)
             \/ Drained(p) \/ Leave(p) \/ Unlink(p)

-----------------------------------------------------------------------------
(* The surroundings.                                                       *)

Other(p) ==
  /\ Become(p, "free", "other") \/ Become(p, "other", "free")
  /\ UNCHANGED <<parent, pidFile, streams, cli, result>>

\* A browser opens a stream of a serving daemon, or closes it.
Browse ==
  /\ streams' = ~streams /\ (streams \/ PortTaken)
  /\ UNCHANGED <<stage, parent, pidFile, cli, result>>

-----------------------------------------------------------------------------
(* The commands.                                                           *)

Goto(t, from, to, pid) ==
  /\ cli[t].step = from
  /\ cli' = [cli EXCEPT ![t].step = to, ![t].pid = pid]

\* The command returns, and the processes it spawned pass to init.
Finish(t, outcome) ==
  /\ cli' = [cli EXCEPT ![t] = Idle]
  /\ result' = [result EXCEPT ![t] = [of |-> cli[t].command, outcome |-> outcome]]
  /\ parent' = [p \in Pids |-> parent[p] \ {t}]
  /\ stage' = [p \in Pids |-> IF stage[p] = "zombie" /\ parent[p] = {t} THEN "free" ELSE stage[p]]

Type(t) ==
  /\ cli[t] = Idle
  /\ \E command \in {"start", "stop", "restart"} :
       cli' = [cli EXCEPT ![t].command = command,
                          ![t].step = IF command = "start" THEN "start" ELSE "stop"]
  /\ result' = [result EXCEPT ![t] = NoResult]
  /\ UNCHANGED <<stage, parent, pidFile, streams>>

\* How stop() ends; restart goes on with start() whatever came of it.
StopOver(t, outcome) ==
  IF cli[t].command = "stop" THEN Finish(t, outcome)
  ELSE /\ cli' = [cli EXCEPT ![t].step = "start", ![t].pid = None]
       /\ UNCHANGED <<stage, parent, result>>

StopReads(t) ==
  /\ cli[t].step = "stop"
  /\ IF NamedIn(pidFile) = None THEN StopOver(t, "not running")
     ELSE /\ Goto(t, "stop", IF \E p \in NamedIn(pidFile) : Alive(p) THEN "term" ELSE "stale",
                  NamedIn(pidFile))
          /\ UNCHANGED <<stage, parent, result>>
  /\ UNCHANGED <<pidFile, streams>>

RemoveStale(t) ==
  /\ cli[t].step = "stale"
  /\ pidFile' = Missing
  /\ StopOver(t, "cleaned")
  /\ UNCHANGED streams

\* SIGTERM: only a serving daemon handles it; before that it is deadly, and a
\* daemon that shuts down takes no notice.
Terminate(t) ==
  /\ Goto(t, "term", "poll", cli[t].pid)
  /\ stage' = [p \in Pids |-> IF p \notin cli[t].pid THEN stage[p]
                              ELSE IF stage[p] = "serving" THEN "draining"
                              ELSE IF stage[p] \in Starting \cup {"other"} THEN Ended(p)
                              ELSE stage[p]]
  /\ UNCHANGED <<parent, pidFile, streams, result>>

\* Up to 30 looks, then the command gives up.
MutPollGone(t) ==
  /\ Goto(t, "poll", "unlink", cli[t].pid)
  /\ UNCHANGED <<stage, parent, pidFile, streams, result>>

PollGone(t) ==
  /\ \A p \in cli[t].pid : ~Alive(p)
  /\ Goto(t, "poll", "unlink", cli[t].pid)
  /\ UNCHANGED <<stage, parent, pidFile, streams, result>>

MutPollTimeout(t) ==
  /\ cli[t].step = "poll" /\ \E p \in cli[t].pid : stage[p] = "zombie"
  /\ StopOver(t, "late")
  /\ UNCHANGED <<pidFile, streams>>

PollTimeout(t) ==
  /\ cli[t].step = "poll" /\ \E p \in cli[t].pid : Alive(p)
  /\ Prompt => \A p \in cli[t].pid :
       stage[p] \notin {"leaving", "unlinking"} /\ (stage[p] = "draining" => streams)
  /\ StopOver(t, "late")
  /\ UNCHANGED <<pidFile, streams>>

RemoveStopped(t) ==
  /\ cli[t].step = "unlink"
  /\ pidFile' = Missing
  /\ StopOver(t, "stopped")
  /\ UNCHANGED streams

StartReads(t) ==
  /\ cli[t].step = "start"
  /\ IF \E p \in NamedIn(pidFile) : Alive(p) THEN Finish(t, "already")
     ELSE Goto(t, "start", "precheck", None) /\ UNCHANGED <<stage, parent, result>>
  /\ UNCHANGED <<pidFile, streams>>

Precheck(t) ==
  /\ cli[t].step = "precheck"
  /\ IF PortTaken THEN Finish(t, "busy")
     ELSE Goto(t, "precheck", "spawn", None) /\ UNCHANGED <<stage, parent, result>>
  /\ UNCHANGED <<pidFile, streams>>

Spawn(t) ==
  /\ cli[t].step = "spawn"
  /\ \/ \E p \in Pids :
          /\ Become(p, "free", "checking")
          /\ parent' = [parent EXCEPT ![p] = Some(t)]
          /\ Goto(t, "spawn", "wait", Some(p))
          /\ UNCHANGED result
     \/ (\A p \in Pids : stage[p] # "free") /\ Finish(t, "failed")
  /\ UNCHANGED <<pidFile, streams>>

\* 800 ms later, one look at the child.
Report(t) ==
  /\ cli[t].step = "wait"
  /\ Prompt => \A p \in cli[t].pid : stage[p] \notin Starting
  /\ Finish(t, IF \E p \in cli[t].pid : Alive(p) THEN "started" ELSE "failed")
  /\ UNCHANGED <<pidFile, streams>>

Command(t) ==
  \/ StopReads(t) \/ RemoveStale(t) \/ Terminate(t) \/ PollGone(t) \/ PollTimeout(t)
  \/ RemoveStopped(t) \/ StartReads(t) \/ Precheck(t) \/ Spawn(t) \/ Report(t)

-----------------------------------------------------------------------------
ProcessNext ==
  \/ \E p \in Pids : Daemon(p) \/ Die(p) \/ Other(p)
  \/ Browse
  \/ \E t \in Terminals : Type(t) \/ Command(t)

\* Programs that run go on, and the 3 s of stop pass while streams come and go
\* (strong fairness); nobody has to type, browse, die or use a number.
ProcessFairness ==
  /\ \A p \in Pids : WF_processVars(Daemon(p))
  /\ \A t \in Terminals : SF_processVars(Command(t))

ProcessSpec     == ProcessInit /\ [][ProcessNext]_processVars
FairProcessSpec == ProcessSpec /\ ProcessFairness

-----------------------------------------------------------------------------
ProcessTypeOK ==
  /\ stage \in [Pids -> Stages] /\ parent \in [Pids -> Option(Terminals)]
  /\ pidFile \in Option(Option(Pids)) /\ streams \in BOOLEAN
  /\ cli \in [Terminals -> Commands] /\ result \in [Terminals -> Results]

(* The next three are about one terminal, for two race, and about a daemon *)
(* that is Prompt, which nothing in the code guarantees (see the README).  *)

\* A daemon that serves or shuts down is the one the PID file names, so stop
\* and status find it, through crashes, stale files and numbers the system
\* gives out again; and there is one daemon, also while an old one shuts down
\* (main.rs:43, 155-169, daemonctl.rs:96-128).
ServingIsNamed ==
  /\ \A p \in Pids : stage[p] \in {"serving", "draining", "leaving"} => pidFile = Number(p)
  /\ Cardinality({p \in Pids : stage[p] \in {"binding"} \cup Running}) <= 1

\* When stop says that the daemon is stopped, was stale or is not running, then
\* no daemon is (daemonctl.rs:110-126).
StopIsHonest ==
  \A t \in Terminals :
    result[t].outcome \in {"stopped", "cleaned", "not running"} =>
      \A p \in Pids : stage[p] \notin Running

\* Every command returns, also when a browser keeps the daemon from ending
\* (daemonctl.rs:101-112).
CommandsEnd == \A t \in Terminals : cli[t] # Idle ~> cli[t] = Idle

\* start reports success for a daemon that wrote its PID file and is alive
\* (daemonctl.rs:80).
StartedIsRunning ==
  [][\A t \in Terminals :
       result'[t].outcome = "started" /\ result[t].outcome # "started"
         => \E p \in cli[t].pid : stage[p] \in Running /\ pidFile = Number(p)]_processVars

\* restart stops first and starts afterwards (daemonctl.rs:162): when it reports
\* success, the daemon it told to stop is not the one that is there.
RestartRenews ==
  \A t \in Terminals :
    result[t].of = "restart" /\ result[t].outcome \in {"started", "already"}
      => \A p \in Pids : stage[p] # "draining"
=============================================================================
