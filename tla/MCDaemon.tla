------------------------------ MODULE MCDaemon ------------------------------
(* Small instances of two parts of daoti-daemon: its events (EventStream)  *)
(* and its processes and commands (Lifecycle).  They share no state, so a  *)
(* behaviour is one of either part, while the other is at rest.            *)
EXTENDS EventStream, Lifecycle

VARIABLE part

daemonVars == <<part, vars, processVars>>

DaemonInit ==
  /\ part \in {"events", "processes"}
  /\ Init /\ ProcessInit
  /\ part = "events" => stage = [p \in Pids |-> "free"] /\ pidFile = Missing

InEvents(action) == part = "events" /\ action /\ UNCHANGED <<part, processVars>>
InProcesses(action) == part = "processes" /\ action /\ UNCHANGED <<part, vars>>

DaemonNext ==
  \/ part = "events" /\ Next /\ UNCHANGED <<part, processVars>>
  \/ part = "processes" /\ ProcessNext /\ UNCHANGED <<part, vars>>

DaemonSpec == DaemonInit /\ [][DaemonNext]_daemonVars

\* The fairness of EventStream and of Lifecycle, see there.
FairDaemonSpec ==
  /\ DaemonSpec
  /\ WF_daemonVars(InEvents(PersistLagged)) /\ WF_daemonVars(InEvents(Persist \/ PersistFails))
  /\ WF_daemonVars(InEvents(ReceiveLagged)) /\ WF_daemonVars(InEvents(ReceiveEvent))
  /\ \A p \in Pids : WF_daemonVars(InProcesses(Daemon(p)))
  /\ \A t \in Terminals : SF_daemonVars(InProcesses(Command(t)))

TwoRuns == <<3, 1>>
OneRun == <<4>>
=============================================================================
