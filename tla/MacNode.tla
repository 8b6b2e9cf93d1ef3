------------------------------ MODULE MacNode ------------------------------
(***************************************************************************)
(* Executions on a daoti-macos-node: MacOsHttpClient of                    *)
(* executor/remote_macos.rs, which sends a binary and waits, and the node, *)
(* which keeps a cancellation token for each request id, runs the binary   *)
(* as a child process in a temporary directory, and answers.               *)
(*                                                                         *)
(* The node is on macOS, the requests carry its token, and it stays up.    *)
(***************************************************************************)
EXTENDS Options

CONSTANTS
  Calls,    \* calls of MacOsHttpClient::execute
  Ids,      \* request ids
  IdOf      \* the id of each call; agent.rs:770 gives all calls of a process one

ASSUME IdAssumption == IdOf \in [Calls -> Ids]

Verdicts == {"ok", "cancelled", "failed"}

VARIABLES
  client,        \* idle, waiting, gone (cancelled or timed out), ok, failed
  handler,       \* the node's task of a call: none, registered, executing, a verdict, done, dropped
  cancellations, \* NodeState::cancellations: whose token is kept for an id
  token,         \* the calls whose token was cancelled
  process,       \* the child process: none, running, exited, killed
  dir,           \* the calls whose temporary directory exists
  unstarted,     \* history: calls whose binary could not be written
  shared         \* history: calls that ran while another of the same id did

vars == <<client, handler, cancellations, token, process, dir, unstarted, shared>>

Init ==
  /\ client = [c \in Calls |-> "idle"] /\ handler = [c \in Calls |-> "none"]
  /\ cancellations = [i \in Ids |-> None]
  /\ token = {} /\ process = [c \in Calls |-> "none"] /\ dir = {}
  /\ unstarted = {} /\ shared = {}

\* The task of c is between its insert and its remove.
Active(c) == handler[c] \in {"registered", "executing"} \cup Verdicts

Namesakes(c) == {d \in Calls \ {c} : IdOf[d] = IdOf[c] /\ Active(d)}

-----------------------------------------------------------------------------
(* The client.                                                             *)

Send(c) ==
  /\ client[c] = "idle" /\ client' = [client EXCEPT ![c] = "waiting"]
  /\ UNCHANGED <<handler, cancellations, token, process, dir, unstarted, shared>>

\* Its own timeout, or its caller, ends the wait and closes the connection.
GiveUp(c) ==
  /\ client[c] = "waiting" /\ client' = [client EXCEPT ![c] = "gone"]
  /\ UNCHANGED <<handler, cancellations, token, process, dir, unstarted, shared>>

-----------------------------------------------------------------------------
(* The node: execute, from the insert to select!.                          *)

\* The request may have been read after its sender left.
Register(c) ==
  /\ client[c] \in {"waiting", "gone"} /\ handler[c] = "none"
  /\ handler' = [handler EXCEPT ![c] = "registered"]
  /\ cancellations' = [cancellations EXCEPT ![IdOf[c]] = Some(c)]
  /\ shared' = IF Namesakes(c) = {} THEN shared ELSE shared \cup {c} \cup Namesakes(c)
  /\ UNCHANGED <<client, token, process, dir, unstarted>>

\* execute_request up to its first wait.
Launch(c) ==
  /\ handler[c] = "registered" /\ handler' = [handler EXCEPT ![c] = "executing"]
  /\ process' = [process EXCEPT ![c] = "running"] /\ dir' = dir \cup {c}
  /\ UNCHANGED <<client, cancellations, token, unstarted, shared>>

\* The request is refused, or its directory cannot be made, or the binary not
\* written to it, or not started: only the third leaves the directory.
LaunchFails(c) ==
  /\ handler[c] = "registered" /\ handler' = [handler EXCEPT ![c] = "failed"]
  /\ \/ dir' = dir \cup {c} /\ unstarted' = unstarted \cup {c}
     \/ UNCHANGED <<dir, unstarted>>
  /\ UNCHANGED <<client, cancellations, token, process, shared>>

MutKilled(c) == process

\* Dropping a task's future kills its child (kill_on_drop).
Killed(c) == IF process[c] = "running" THEN [process EXCEPT ![c] = "killed"] ELSE process

\* select! takes the cancelled token and drops execute_request.
WakeCancelled(c) ==
  /\ handler[c] \in {"registered", "executing"} /\ c \in token
  /\ handler' = [handler EXCEPT ![c] = "cancelled"] /\ process' = Killed(c)
  /\ UNCHANGED <<client, cancellations, token, dir, unstarted, shared>>

ProcessExits(c) ==
  /\ process[c] = "running" /\ process' = [process EXCEPT ![c] = "exited"]
  /\ UNCHANGED <<client, handler, cancellations, token, dir, unstarted, shared>>

Finish(c) ==
  /\ handler[c] = "executing" /\ process[c] = "exited"
  /\ handler' = [handler EXCEPT ![c] = "ok"] /\ dir' = dir \ {c}
  /\ UNCHANGED <<client, cancellations, token, process, unstarted, shared>>

MutTimeout(c) ==
  /\ handler[c] = "executing"
  /\ handler' = [handler EXCEPT ![c] = "failed"] /\ process' = Killed(c)
  /\ UNCHANGED <<client, cancellations, token, dir, unstarted, shared>>

\* The request's timeout on the node.
Timeout(c) ==
  /\ handler[c] = "executing"
  /\ handler' = [handler EXCEPT ![c] = "failed"] /\ process' = Killed(c) /\ dir' = dir \ {c}
  /\ UNCHANGED <<client, cancellations, token, unstarted, shared>>

\* What the client makes of a verdict: an error status is a failure, and so is an
\* answer that is too long.
Answers(c) == IF handler[c] = "ok" THEN {"ok", "failed"} ELSE {"failed"}

\* The entry of the id is removed, whosever it is, and the answer is sent.  A
\* client that leaves before it reads the answer is one that left before.
Respond(c) ==
  /\ handler[c] \in Verdicts
  /\ handler' = [handler EXCEPT ![c] = "done"]
  /\ cancellations' = [cancellations EXCEPT ![IdOf[c]] = None]
  /\ \E answer \in Answers(c) :
       client' = IF client[c] = "waiting" THEN [client EXCEPT ![c] = answer] ELSE client
  /\ UNCHANGED <<token, process, dir, unstarted, shared>>

\* The server drops a task whose connection was closed where it waits: in select!.
Drop(c) ==
  /\ client[c] = "gone" /\ handler[c] = "executing"
  /\ handler' = [handler EXCEPT ![c] = "dropped"] /\ process' = Killed(c)
  /\ UNCHANGED <<client, cancellations, token, dir, unstarted, shared>>

MutCancel(i) ==
  /\ cancellations[i] # None
  /\ token' = token \cup cancellations[i]
  /\ cancellations' = [cancellations EXCEPT ![i] = None]
  /\ UNCHANGED <<client, handler, process, dir, unstarted, shared>>

\* The cancel endpoint, from anybody; without an entry it answers 404.
Cancel(i) ==
  /\ cancellations[i] # None
  /\ token' = token \cup cancellations[i]
  /\ UNCHANGED <<client, handler, cancellations, process, dir, unstarted, shared>>

-----------------------------------------------------------------------------
NodeNext ==
  \/ \E c \in Calls :
       \/ Register(c) \/ Launch(c) \/ LaunchFails(c) \/ WakeCancelled(c)
       \/ ProcessExits(c) \/ Finish(c) \/ Timeout(c) \/ Respond(c) \/ Drop(c)
  \/ \E i \in Ids : Cancel(i)

Next == NodeNext \/ \E c \in Calls : Send(c) \/ GiveUp(c)

(***************************************************************************)
(* The runtime polls a task that can go on, and the server's task of a     *)
(* connection sees it close.  A timeout may be a day away, and a child may *)
(* never exit.                                                             *)
(***************************************************************************)
Fairness ==
  \A c \in Calls :
    /\ WF_vars(Launch(c) \/ LaunchFails(c)) /\ WF_vars(WakeCancelled(c))
    /\ WF_vars(Finish(c)) /\ WF_vars(Respond(c)) /\ WF_vars(Drop(c))

Spec     == Init /\ [][Next]_vars
FairSpec == Spec /\ Fairness

-----------------------------------------------------------------------------
TypeOK ==
  /\ client \in [Calls -> {"idle", "waiting", "gone", "ok", "failed"}]
  /\ handler \in [Calls -> {"none", "registered", "executing", "done", "dropped"} \cup Verdicts]
  /\ cancellations \in [Ids -> Option(Calls)]
  /\ process \in [Calls -> {"none", "running", "exited", "killed"}]
  /\ {token, dir, unstarted, shared} \subseteq SUBSET Calls
  \* The node has nothing of a request it has not read.
  /\ \A c \in Calls : handler[c] = "none" =>
       client[c] \notin {"ok", "failed"} /\ process[c] = "none" /\ c \notin token \cup dir \cup shared

\* While a call runs on the node it can be cancelled, unless another of the same
\* id ran at the same time: then either replaces or removes the other's token
\* (lib.rs:63-72).
Cancellable ==
  \A c \in Calls : Active(c) /\ c \notin shared => cancellations[IdOf[c]] = Some(c)

\* An entry outlives its call only when the call was dropped (lib.rs:68-72).
EntriesAreOwned ==
  \A c \in Calls, i \in Ids : cancellations[i] = Some(c) => Active(c) \/ handler[c] = "dropped"

\* No child process outlives the task that started it (lib.rs:139-141).
ProcessesAreOwned == \A c \in Calls : process[c] = "running" => handler[c] = "executing"

\* A finished call leaves its directory behind only if it was cancelled or
\* dropped, or its binary could not be written: a time limit and a failing
\* program do not (lib.rs:131-142).
DirectoriesAreRemoved ==
  \A c \in dir : Active(c) \/ c \in token \/ handler[c] = "dropped" \/ c \in unstarted

\* What an ended call leaves on the node, and when: its entry, its process and
\* its directory together (lib.rs:68-72, 131-142).
NothingElseLeft == EntriesAreOwned /\ ProcessesAreOwned /\ DirectoriesAreRemoved

\* An accepted cancel ends the call it reached, however long its program or its
\* time limit is (lib.rs:68-71).
CancelEnds == \A c \in Calls : c \in token ~> ~Active(c)
=============================================================================
