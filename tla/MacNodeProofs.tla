--------------------------- MODULE MacNodeProofs ---------------------------
(***************************************************************************)
(* What MacNode keeps for every set of calls and every choice of ids; that *)
(* the daemon of Requests and Heal uses the node as MacNode lets it; and   *)
(* that its answers tell what ran, for every set of files, workloads and   *)
(* configurations.                                                         *)
(***************************************************************************)
EXTENDS Heal, FiniteSetTheorems, TLAPS

\* Facts the safety properties need to be inductive.
Keyed == \A i \in Ids : \A c \in cancellations[i] : IdOf[c] = i

Sharing ==
  \A c, d \in Calls : c # d /\ IdOf[c] = IdOf[d] /\ Active(c) /\ Active(d) => c \in shared

\* What a verdict says of the directory and the token.
Verdict ==
  \A c \in Calls :
    /\ handler[c] \in {"registered", "ok"} => c \notin dir
    /\ handler[c] = "failed" => c \notin dir \/ c \in unstarted
    /\ handler[c] = "cancelled" => c \in token

IInv == /\ TypeOK /\ Keyed /\ Sharing /\ Verdict
        /\ Cancellable /\ EntriesAreOwned
        /\ ProcessesAreOwned /\ DirectoriesAreRemoved

\* The initial states satisfy the invariant.
LEMMA InitIInv == Init => IInv
<1> SUFFICES ASSUME Init PROVE IInv OBVIOUS
<1> USE IdAssumption
<1>1. TypeOK BY DEF Init, TypeOK, Option, Some, None, Verdicts
<1>2. Keyed BY DEF Init, Keyed, None
<1>3. \A c \in Calls : ~Active(c) BY DEF Init, Active, Verdicts
<1>4. Sharing /\ Cancellable BY <1>3 DEF Sharing, Cancellable
<1>5. Verdict BY DEF Init, Verdict
<1>6. EntriesAreOwned BY DEF Init, EntriesAreOwned, Some, None
<1>7. ProcessesAreOwned /\ DirectoriesAreRemoved BY DEF Init, ProcessesAreOwned, DirectoriesAreRemoved
<1> QED BY <1>1, <1>2, <1>4, <1>5, <1>6, <1>7 DEF IInv

-----------------------------------------------------------------------------
(* What each step keeps.                                                   *)

\* An entry's call has been read: the types need it for Cancel.
LEMMA TypeStep == TypeOK /\ EntriesAreOwned /\ [Next]_vars => TypeOK'
<1> SUFFICES ASSUME TypeOK, EntriesAreOwned, [Next]_vars PROVE TypeOK' OBVIOUS
<1> USE IdAssumption DEF TypeOK, Verdicts, Option, Some, None
<1>1. ASSUME NEW c \in Calls, Send(c) PROVE TypeOK' BY <1>1 DEF Send
<1>2. ASSUME NEW c \in Calls, GiveUp(c) PROVE TypeOK' BY <1>2 DEF GiveUp
<1>3. ASSUME NEW c \in Calls, Register(c) PROVE TypeOK'
  <2>1. Namesakes(c) \subseteq {d \in Calls : handler[d] # "none"}
    BY DEF Namesakes, Active
  <2> QED BY <1>3, <2>1 DEF Register
<1>4. ASSUME NEW c \in Calls, Launch(c) PROVE TypeOK' BY <1>4 DEF Launch
<1>5. ASSUME NEW c \in Calls, LaunchFails(c) PROVE TypeOK' BY <1>5 DEF LaunchFails
<1>6. ASSUME NEW c \in Calls, WakeCancelled(c) PROVE TypeOK' BY <1>6 DEF WakeCancelled, Killed
<1>7. ASSUME NEW c \in Calls, ProcessExits(c) PROVE TypeOK' BY <1>7 DEF ProcessExits
<1>8. ASSUME NEW c \in Calls, Finish(c) PROVE TypeOK' BY <1>8 DEF Finish
<1>9. ASSUME NEW c \in Calls, Timeout(c) PROVE TypeOK' BY <1>9 DEF Timeout, Killed
<1>10. ASSUME NEW c \in Calls, Respond(c) PROVE TypeOK' BY <1>10 DEF Respond, Answers
<1>11. ASSUME NEW c \in Calls, Drop(c) PROVE TypeOK' BY <1>11 DEF Drop, Killed
<1>12. ASSUME NEW i \in Ids, Cancel(i) PROVE TypeOK'
  <2>1. \A c \in cancellations[i] : c \in Calls /\ handler[c] # "none"
    BY DEF EntriesAreOwned, Active
  <2> QED BY <1>12, <2>1 DEF Cancel
<1>13. CASE UNCHANGED vars BY <1>13 DEF vars
<1> QED
  BY <1>1, <1>2, <1>3, <1>4, <1>5, <1>6, <1>7, <1>8, <1>9, <1>10, <1>11, <1>12, <1>13 DEF Next, NodeNext

\* Between its insert and its remove a call stays what it is for the others: the
\* steps in between change neither the entries nor who is active.
Quiet == /\ UNCHANGED <<cancellations, shared>>
         /\ \A d \in Calls : Active(d)' <=> Active(d)
         /\ \A d \in Calls : handler[d] = "dropped" => handler'[d] = "dropped"

Ends(c) == /\ UNCHANGED shared
           /\ Active(c) /\ ~Active(c)' /\ \A d \in Calls \ {c} : handler'[d] = handler[d]

LEMMA QuietStep ==
  ASSUME TypeOK, Next
  PROVE  \/ Quiet
         \/ \E c \in Calls : Register(c)
         \/ \E c \in Calls : Ends(c) /\ cancellations' = [cancellations EXCEPT ![IdOf[c]] = None]
         \/ \E c \in Calls : Ends(c) /\ handler'[c] = "dropped" /\ UNCHANGED cancellations
<1> USE DEF TypeOK, Quiet, Active, Verdicts
<1>1. ASSUME NEW c \in Calls, Send(c) PROVE Quiet BY <1>1 DEF Send
<1>2. ASSUME NEW c \in Calls, GiveUp(c) PROVE Quiet BY <1>2 DEF GiveUp
<1>4. ASSUME NEW c \in Calls, Launch(c) PROVE Quiet BY <1>4 DEF Launch
<1>5. ASSUME NEW c \in Calls, LaunchFails(c) PROVE Quiet BY <1>5 DEF LaunchFails
<1>6. ASSUME NEW c \in Calls, WakeCancelled(c) PROVE Quiet BY <1>6 DEF WakeCancelled
<1>7. ASSUME NEW c \in Calls, ProcessExits(c) PROVE Quiet BY <1>7 DEF ProcessExits
<1>8. ASSUME NEW c \in Calls, Finish(c) PROVE Quiet BY <1>8 DEF Finish
<1>9. ASSUME NEW c \in Calls, Timeout(c) PROVE Quiet BY <1>9 DEF Timeout
<1>10. ASSUME NEW c \in Calls, Respond(c)
       PROVE  Ends(c) /\ cancellations' = [cancellations EXCEPT ![IdOf[c]] = None]
  BY <1>10 DEF Respond, Ends
<1>11. ASSUME NEW c \in Calls, Drop(c)
       PROVE  Ends(c) /\ handler'[c] = "dropped" /\ UNCHANGED cancellations
  BY <1>11 DEF Drop, Ends
<1>12. ASSUME NEW i \in Ids, Cancel(i) PROVE Quiet BY <1>12 DEF Cancel
<1> QED
  BY <1>1, <1>2, <1>4, <1>5, <1>6, <1>7, <1>8, <1>9, <1>10, <1>11, <1>12 DEF Next, NodeNext

\* Entries hold a call under its own id.
LEMMA EntryStep ==
  ASSUME TypeOK, Next, Keyed, EntriesAreOwned
  PROVE  Keyed' /\ EntriesAreOwned'
<1> USE IdAssumption DEF TypeOK, Keyed, EntriesAreOwned, Some, None
<1>1. CASE Quiet BY <1>1 DEF Quiet
<1>2. ASSUME NEW c \in Calls, Register(c) PROVE Keyed' /\ EntriesAreOwned'
  <2>1. Keyed' BY <1>2 DEF Register
  <2>2. \A d \in Calls : Active(d) => Active(d)' BY <1>2 DEF Register, Active, Verdicts
  <2>3. Active(c)' BY <1>2 DEF Register, Active
  <2>4. EntriesAreOwned' BY <1>2, <2>2, <2>3 DEF Register
  <2> QED BY <2>1, <2>4
<1>3. ASSUME NEW c \in Calls, Ends(c), cancellations' = [cancellations EXCEPT ![IdOf[c]] = None]
      PROVE  Keyed' /\ EntriesAreOwned'
  <2>1. \A d \in Calls \ {c} : Active(d)' <=> Active(d) BY <1>3 DEF Ends, Active
  <2> QED BY <1>3, <2>1 DEF Ends
<1>4. ASSUME NEW c \in Calls, Ends(c), handler'[c] = "dropped", UNCHANGED cancellations
      PROVE  Keyed' /\ EntriesAreOwned'
  <2>1. \A d \in Calls \ {c} : Active(d)' <=> Active(d) BY <1>4 DEF Ends, Active
  <2> QED BY <1>4, <2>1 DEF Ends
<1> QED BY <1>1, <1>2, <1>3, <1>4, QuietStep

\* Two calls of one id that run together are both known to, so that the removal
\* of one's entry by the other concerns only such calls.
LEMMA ShareStep ==
  ASSUME TypeOK, Next, Sharing, Cancellable
  PROVE  Sharing' /\ Cancellable'
<1> USE IdAssumption DEF TypeOK, Sharing, Cancellable
<1>1. CASE Quiet BY <1>1 DEF Quiet
<1>2. ASSUME NEW c \in Calls, Register(c) PROVE Sharing' /\ Cancellable'
  <2>1. \A d \in Calls \ {c} : Active(d)' <=> Active(d) BY <1>2 DEF Register, Active
  <2>2. \A d \in Calls \ {c} : Active(d) /\ IdOf[d] = IdOf[c] => d \in shared' /\ c \in shared'
    BY <1>2 DEF Register, Namesakes
  <2>3. shared \subseteq shared' BY <1>2 DEF Register
  <2>4. Sharing' BY <2>1, <2>2, <2>3
  <2>5. Cancellable' BY <1>2, <2>1, <2>2, <2>3 DEF Register
  <2> QED BY <2>4, <2>5
<1>3. ASSUME NEW c \in Calls, Ends(c),
             \A i \in Ids \ {IdOf[c]} : cancellations'[i] = cancellations[i]
      PROVE  Sharing' /\ Cancellable'
  <2>1. \A d \in Calls : Active(d)' => Active(d) /\ d # c BY <1>3 DEF Ends, Active
  <2>2. Active(c) /\ shared' = shared BY <1>3 DEF Ends
  <2>3. \A d \in Calls : Active(d)' /\ d \notin shared => IdOf[d] # IdOf[c] BY <2>1, <2>2
  <2> QED BY <1>3, <2>1, <2>2, <2>3
<1> QED BY <1>1, <1>2, <1>3, QuietStep

\* Processes and directories follow the task.
LEMMA OwnStep ==
  ASSUME TypeOK, Next, Verdict, ProcessesAreOwned, DirectoriesAreRemoved
  PROVE  Verdict' /\ ProcessesAreOwned' /\ DirectoriesAreRemoved'
<1> USE DEF TypeOK, Verdict, ProcessesAreOwned, DirectoriesAreRemoved, Active, Verdicts, Killed
<1> DEFINE Goal == (Verdict /\ ProcessesAreOwned /\ DirectoriesAreRemoved)'
<1>1. ASSUME NEW c \in Calls, Send(c) PROVE Goal BY <1>1 DEF Send
<1>2. ASSUME NEW c \in Calls, GiveUp(c) PROVE Goal BY <1>2 DEF GiveUp
<1>3. ASSUME NEW c \in Calls, Register(c) PROVE Goal BY <1>3 DEF Register
<1>4. ASSUME NEW c \in Calls, Launch(c) PROVE Goal BY <1>4 DEF Launch
<1>5. ASSUME NEW c \in Calls, LaunchFails(c) PROVE Goal BY <1>5 DEF LaunchFails
<1>6. ASSUME NEW c \in Calls, WakeCancelled(c) PROVE Goal BY <1>6 DEF WakeCancelled
<1>7. ASSUME NEW c \in Calls, ProcessExits(c) PROVE Goal BY <1>7 DEF ProcessExits
<1>8. ASSUME NEW c \in Calls, Finish(c) PROVE Goal BY <1>8 DEF Finish
<1>9. ASSUME NEW c \in Calls, Timeout(c) PROVE Goal BY <1>9 DEF Timeout
<1>10. ASSUME NEW c \in Calls, Respond(c) PROVE Goal BY <1>10 DEF Respond
<1>11. ASSUME NEW c \in Calls, Drop(c) PROVE Goal BY <1>11 DEF Drop
<1>12. ASSUME NEW i \in Ids, Cancel(i) PROVE Goal BY <1>12 DEF Cancel
<1> QED
  BY <1>1, <1>2, <1>3, <1>4, <1>5, <1>6, <1>7, <1>8, <1>9, <1>10, <1>11, <1>12 DEF Next, NodeNext

LEMMA NextIInv == IInv /\ [Next]_vars => IInv'
<1> SUFFICES ASSUME IInv, [Next]_vars PROVE IInv' OBVIOUS
<1>1. TypeOK' BY TypeStep DEF IInv
<1>2. CASE Next
  BY <1>1, <1>2, EntryStep, ShareStep, OwnStep DEF IInv
<1>3. CASE UNCHANGED vars
  BY <1>1, <1>3 DEF vars, IInv, Keyed, Sharing, Verdict, Cancellable,
     EntriesAreOwned, ProcessesAreOwned, DirectoriesAreRemoved, Active
<1> QED BY <1>2, <1>3

-----------------------------------------------------------------------------
LEMMA Invariance == Spec => []IInv
  BY InitIInv, NextIInv, PTL DEF Spec

\* Every state of the node and its clients has its type, and the node has nothing
\* of a request it has not read.
THEOREM NodeTypeCorrect == Spec => []TypeOK
  BY Invariance, PTL DEF IInv

\* A running call can be cancelled unless it shared its id (lib.rs:63-72).
THEOREM RunningIsCancellable == Spec => []Cancellable
  BY Invariance, PTL DEF IInv

\* What is left behind, and when: entries by dropped calls only, processes never,
\* directories by cancelled, dropped and unwritten ones (lib.rs:68-72, 131-142).
THEOREM NothingElseIsLeft ==
  Spec => []NothingElseLeft
<1>1. IInv => NothingElseLeft BY DEF IInv, NothingElseLeft
<1> QED BY <1>1, Invariance, PTL

-----------------------------------------------------------------------------
(* The daemon in front of the node.                                        *)

\* What the daemon does to the node and to its clients is a step of theirs.
LEMMA DaemonStep == ASSUME [DaemonNext]_daemonVars PROVE [Next]_vars
<1>1. CASE UNCHANGED daemonVars BY <1>1 DEF daemonVars, apiVars
<1>2. ASSUME NEW c \in Calls, (Work(c) \/ ChildExits(c) \/ DropHeal(c)) /\ UNCHANGED held PROVE [Next]_vars
  BY <1>2 DEF held
<1>3. CASE ApiNext
  <2>1. CASE NodeNext \/ \E c \in Calls : GiveUp(c) BY <2>1 DEF Next
  <2>2. \A c \in Calls : Ask(c) => UNCHANGED vars BY DEF Ask
  <2>3. \A c \in Calls : Leave(c) => UNCHANGED vars BY DEF Leave
  <2>4. \A c \in Calls : Detect(c) \/ ElfKind(c) => UNCHANGED vars BY DEF Detect, ElfKind
  <2>5. \A c \in Calls : Again(c) \/ EntryPoint(c) => UNCHANGED vars BY DEF Again, EntryPoint
  <2>6. \A c \in Calls : Mock(c) \/ RemoteAnswers(c) \/ Audit(c) => UNCHANGED vars
    BY DEF Mock, RemoteAnswers, Audit
  <2>7. \A c \in Calls : Execute(c) => UNCHANGED vars \/ Send(c) BY DEF Execute, Locally, Remotely
  <2>8. \A c \in Calls : ExecuteMacos(c) => UNCHANGED vars \/ Send(c) BY DEF ExecuteMacos
  <2>9. \A c \in Calls : DropRequest(c) => UNCHANGED vars \/ GiveUp(c) BY DEF DropRequest
  <2>10. Replace => UNCHANGED vars BY DEF Replace
  <2>11. \A c \in Calls : Send(c) \/ GiveUp(c) => Next BY DEF Next
  <2>12. QED
    BY <1>3, <2>1, <2>2, <2>3, <2>4, <2>5, <2>6, <2>7, <2>8, <2>9, <2>10, <2>11 DEF ApiNext
<1>4. QED BY <1>1, <1>2, <1>3 DEF DaemonNext

LEMMA DaemonStarts == DaemonInit => Init
  BY DEF DaemonInit, ApiInit

\* The daemon uses the node as MacNode lets a client use it, so that everything
\* above holds of it, too (http.rs:387-478, agent.rs:767-790).
THEOREM DaemonUsesNode == DaemonSpec => Spec
<1>1. DaemonSpec => DaemonInit /\ [][DaemonNext]_daemonVars BY DEF DaemonSpec
<1>2. DaemonInit /\ [][DaemonNext]_daemonVars => Spec
  BY DaemonStarts, DaemonStep, PTL DEF Spec
<1>3. QED BY <1>1, <1>2, PTL

-----------------------------------------------------------------------------
(* What a client that is told ok knows of the node.                        *)

Answered ==
  \A c \in Calls :
    /\ handler[c] = "ok" => process[c] = "exited"
    /\ client[c] = "ok" => handler[c] = "done" /\ process[c] = "exited"

LEMMA AnsweredNext == ASSUME TypeOK, Answered, [Next]_vars PROVE Answered'
<1> USE DEF TypeOK, Answered, Verdicts
<1>1. CASE UNCHANGED vars BY <1>1 DEF vars
<1>2. ASSUME NEW c \in Calls, Send(c) \/ GiveUp(c) PROVE Answered' BY <1>2 DEF Send, GiveUp
<1>3. ASSUME NEW c \in Calls, Register(c) PROVE Answered' BY <1>3 DEF Register
<1>4. ASSUME NEW c \in Calls, Launch(c) \/ LaunchFails(c) PROVE Answered'
  BY <1>4 DEF Launch, LaunchFails
<1>5. ASSUME NEW c \in Calls, WakeCancelled(c) \/ Timeout(c) \/ Drop(c) PROVE Answered'
  BY <1>5 DEF WakeCancelled, Timeout, Drop, Killed
<1>6. ASSUME NEW c \in Calls, ProcessExits(c) \/ Finish(c) PROVE Answered'
  BY <1>6 DEF ProcessExits, Finish
<1>7. ASSUME NEW c \in Calls, Respond(c) PROVE Answered'
  <2>1. PICK answer_ \in Answers(c) :
          client' = IF client[c] = "waiting" THEN [client EXCEPT ![c] = answer_] ELSE client
    BY <1>7 DEF Respond
  <2>2. handler' = [handler EXCEPT ![c] = "done"] /\ UNCHANGED process /\ handler[c] # "done"
    BY <1>7 DEF Respond
  <2>3. answer_ = "ok" => handler[c] = "ok" BY DEF Answers
  <2>4. QED BY <2>1, <2>2, <2>3
<1>8. ASSUME NEW i \in Ids, Cancel(i) PROVE Answered' BY <1>8 DEF Cancel
<1>9. QED BY <1>1, <1>2, <1>3, <1>4, <1>5, <1>6, <1>7, <1>8 DEF Next, NodeNext

-----------------------------------------------------------------------------
(* Requests.  Where the handler of a request is says what it can still be  *)
(* answered, and whether the node knows of it.                             *)

Places == {"none", "detect", "kind", "again", "entry", "execute", "remote", "macos", "mock",
           "audit", "sense", "command", "sense_again", "answered", "dropped"}
Kinds == {"none", "ok", "decided", "unavailable", "file_not_found", "unrecognized_format",
          "parse_error", "remote", "timeout", "executor",
          "success", "failure", "partial_success", "no_action"}
Modes == {"pe", "remote"} \cup {x.kind : x \in Contents}
Formats == {x.format : x \in Contents}

MoveType == at \in [Calls -> Places] /\ answer \in [Calls -> Kinds]

RequestType ==
  /\ MoveType
  /\ user \in [Calls -> {"idle", "waiting", "gone"}]
  /\ mode \in [Calls -> Option(Modes)]
  /\ format \in [Calls -> Option(Formats)] /\ ran \in [Calls -> Option(Formats)]
  /\ file \in Option(Contents)
  /\ child \in [Calls -> {"none", "running", "killed"}]

Interpreted == {"static", "pe"}

RequestInv(c) ==
  /\ user[c] = "idle" => at[c] = "none"
  /\ answer[c] # "none" => at[c] = "answered"
  /\ child[c] = "running" => at[c] = "command"
  /\ at[c] = "none" => mode[c] = None
  /\ at[c] \in Looking => op[c] # "execute"
  /\ at[c] \in {"macos", "mock", "audit"} => op[c] = "execute"
  /\ at[c] \in {"macos", "mock"} => mode[c] = None
  /\ at[c] \in {"remote", "audit"} => mode[c] \cap Interpreted = {}
  /\ at[c] \notin {"remote", "audit", "answered", "dropped"} => client[c] = "idle"
  /\ at[c] = "audit" \/ answer[c] = "ok" => client[c] \in {"idle", "ok"}
  /\ answer[c] = "ok" => /\ mode[c] \cap Interpreted # {} => ran[c] = format[c]
                         /\ op[c] = "execute" => Event("received", c) \in audit

\* A step that is about one request leaves the others as they are.
Alone(c) ==
  \A d \in Calls \ {c} :
    UNCHANGED <<user[d], at[d], answer[d], mode[d], format[d], ran[d], client[d], child[d]>>

LEMMA Moves ==
  ASSUME MoveType, NEW c \in Calls
  PROVE  /\ \A place \in Places : Go(c, place) =>
              /\ MoveType' /\ at'[c] = place /\ answer'[c] = answer[c]
              /\ \A d \in Calls \ {c} : at'[d] = at[d] /\ answer'[d] = answer[d]
         /\ \A kind \in Kinds : Answer(c, kind) =>
              /\ MoveType' /\ at'[c] = "answered" /\ answer'[c] = kind
              /\ \A d \in Calls \ {c} : at'[d] = at[d] /\ answer'[d] = answer[d]
<1>1. ASSUME NEW place \in Places, Go(c, place)
      PROVE  /\ MoveType' /\ at'[c] = place /\ answer'[c] = answer[c]
             /\ \A d \in Calls \ {c} : at'[d] = at[d] /\ answer'[d] = answer[d]
  BY <1>1 DEF Go, MoveType
<1>2. "answered" \in Places BY DEF Places
<1>3. ASSUME NEW kind \in Kinds, Answer(c, kind)
      PROVE  /\ MoveType' /\ at'[c] = "answered" /\ answer'[c] = kind
             /\ \A d \in Calls \ {c} : at'[d] = at[d] /\ answer'[d] = answer[d]
  BY <1>2, <1>3 DEF Answer, MoveType
<1>4. QED BY <1>1, <1>3

LEMMA OthersKeep ==
  ASSUME NEW d \in Calls, RequestInv(d), UNCHANGED <<at[d], answer[d], mode[d], format[d], ran[d], op>>,
         client'[d] \in {client[d]} \/ (client[d] \notin {"idle", "ok"}),
         user'[d] = "idle" => user[d] = "idle", child'[d] = "running" => child[d] = "running",
         audit \subseteq audit'
  PROVE  RequestInv(d)'
<1> USE DEF RequestInv
<1>1. at[d] \notin {"remote", "audit", "answered", "dropped"} => client'[d] = "idle" OBVIOUS
<1>2. at[d] = "audit" \/ answer[d] = "ok" => client'[d] \in {"idle", "ok"} OBVIOUS
<1>3. answer[d] = "ok" /\ op[d] = "execute" => Event("received", d) \in audit' OBVIOUS
<1>4. Event("received", d)' = Event("received", d) BY DEF Event
<1>5. QED BY <1>1, <1>2, <1>3, <1>4

Kept(c) == RequestType' /\ RequestInv(c)' /\ Alone(c) /\ op' = op /\ audit \subseteq audit'

\* What a step changes of its request only, it changes of no other; the rest stays.
LEMMA KeptBy ==
  ASSUME RequestType, NEW c \in Calls, MoveType',
         \A d \in Calls \ {c} : at'[d] = at[d] /\ answer'[d] = answer[d],
         user' \in [Calls -> {"idle", "waiting", "gone"}], \A d \in Calls \ {c} : user'[d] = user[d],
         mode' \in [Calls -> Option(Modes)], \A d \in Calls \ {c} : mode'[d] = mode[d],
         format' \in [Calls -> Option(Formats)], \A d \in Calls \ {c} : format'[d] = format[d],
         ran' \in [Calls -> Option(Formats)], \A d \in Calls \ {c} : ran'[d] = ran[d],
         child' \in [Calls -> {"none", "running", "killed"}], \A d \in Calls \ {c} : child'[d] = child[d],
         \A d \in Calls \ {c} : client'[d] = client[d],
         file' \in Option(Contents), op' = op, audit \subseteq audit', RequestInv(c)'
  PROVE  Kept(c)
<1>1. RequestType' BY DEF RequestType
<1>2. Alone(c) BY DEF Alone
<1>3. QED BY <1>1, <1>2 DEF Kept

\* Steps that only move the handler, or answer with an error or a decision.
LEMMA Moved ==
  ASSUME NEW c \in Calls, RequestInv(c), op' = op, client'[c] = client[c], user'[c] # "idle",
         at[c] # "answered" /\ answer[c] = "none",
         \/ at'[c] \in {"answered", "dropped"}
         \/ at'[c] \in Places \ {"none", "remote", "audit"} /\ client[c] = "idle",
         (at'[c] = "answered" /\ answer'[c] # "ok") \/ answer'[c] = answer[c],
         at'[c] \in Looking => op[c] # "execute",
         at'[c] \in {"macos", "mock"} => op[c] = "execute" /\ mode'[c] = None,
         child'[c] = "running" => at'[c] = "command"
  PROVE  RequestInv(c)'
  BY DEF RequestInv, Places

LEMMA AskKeeps ==
  ASSUME RequestType, NEW c \in Calls, RequestInv(c), Ask(c), UNCHANGED child PROVE Kept(c)
<1>1. PICK place \in {"macos", "sense", "detect"} :
        Go(c, place) /\ (place = "macos" <=> op[c] = "execute")
  BY DEF Ask
<1>2. /\ MoveType' /\ at'[c] = place /\ answer'[c] = answer[c]
      /\ \A d \in Calls \ {c} : at'[d] = at[d] /\ answer'[d] = answer[d]
  BY <1>1, Moves DEF RequestType, Places
<1>3. /\ at[c] = "none" /\ answer[c] = "none" /\ mode[c] = None /\ client[c] = "idle"
      /\ child[c] # "running"
  BY DEF Ask, RequestInv
<1>4. user' \in [Calls -> {"idle", "waiting", "gone"}] /\ user'[c] = "waiting"
      /\ \A d \in Calls \ {c} : user'[d] = user[d]
  BY DEF Ask, RequestType
<1>5. UNCHANGED <<client, op, mode, format, ran, file, audit>>
  BY DEF Ask, vars, localVars, fileVars, mockVars
<1>6. RequestInv(c)' BY <1>1, <1>2, <1>3, <1>4, <1>5, Moved DEF Places, Looking
<1>7. QED BY <1>2, <1>4, <1>5, <1>6, KeptBy DEF RequestType

LEMMA LeaveKeeps ==
  ASSUME RequestType, NEW c \in Calls, RequestInv(c), Leave(c), UNCHANGED child PROVE Kept(c)
<1>1. user' \in [Calls -> {"idle", "waiting", "gone"}] /\ user'[c] = "gone"
      /\ \A d \in Calls \ {c} : user'[d] = user[d]
  BY DEF Leave, RequestType
<1>2. UNCHANGED <<client, op, at, answer, mode, format, ran, file, audit>>
  BY DEF Leave, vars, localVars, fileVars, mockVars
<1>3. RequestInv(c)' BY <1>1, <1>2, OthersKeep
<1>4. QED BY <1>1, <1>2, <1>3, KeptBy DEF RequestType, MoveType

\* A look at the file decides where the handler goes on, and moves nothing else.
LEMMA LookKeeps ==
  ASSUME RequestType, NEW c \in Calls, RequestInv(c), UNCHANGED child,
         Detect(c) \/ ElfKind(c) \/ Again(c) \/ EntryPoint(c)
  PROVE  Kept(c)
<1>1. /\ at[c] \in Looking /\ UNCHANGED <<client, user, op, file, ran, audit>>
  BY DEF Detect, ElfKind, Again, EntryPoint, Looking, Unknown, vars, fileVars, localVars, mockVars
<1>2. /\ op[c] # "execute" /\ client[c] = "idle" /\ answer[c] = "none" /\ user[c] # "idle"
      /\ child[c] # "running" /\ at[c] # "answered"
  BY <1>1 DEF RequestInv, Looking
<1>3. \A x \in file : x \in Contents BY DEF RequestType, Option, None, Some
<1>4. mode' \in [Calls -> Option(Modes)] /\ \A d \in Calls \ {c} : mode'[d] = mode[d]
  <2>1. mode' = mode \/ \E m \in Modes : mode' = [mode EXCEPT ![c] = Some(m)]
    <3>1. {"pe", "remote"} \subseteq Modes /\ \A x \in file : x.kind \in Modes BY <1>3 DEF Modes
    <3>2. QED BY <3>1 DEF Detect, ElfKind, Again, EntryPoint, Unknown, Decide, localVars
  <2>2. \A m \in Modes : Some(m) \in Option(Modes) BY DEF Option
  <2>3. QED BY <2>1, <2>2 DEF RequestType
<1>5. format' \in [Calls -> Option(Formats)] /\ \A d \in Calls \ {c} : format'[d] = format[d]
  <2>1. format' = format \/ \E f \in Formats : format' = [format EXCEPT ![c] = Some(f)]
    <3>1. \A x \in file : x.format \in Formats BY <1>3 DEF Formats
    <3>2. QED BY <3>1 DEF Detect, ElfKind, Again, EntryPoint, Unknown, localVars
  <2>2. \A f \in Formats : Some(f) \in Option(Formats) BY DEF Option
  <2>3. QED BY <2>1, <2>2 DEF RequestType
<1>6. \/ \E place \in {"kind", "again", "entry", "execute"} : Go(c, place)
      \/ \E kind \in Kinds \ {"ok"} : Answer(c, kind)
  BY DEF Detect, ElfKind, Again, EntryPoint, Unknown, Decide, Kinds
<1>7. /\ MoveType' /\ \A d \in Calls \ {c} : at'[d] = at[d] /\ answer'[d] = answer[d]
      /\ \/ at'[c] = "answered" /\ answer'[c] # "ok"
         \/ at'[c] \in {"kind", "again", "entry", "execute"} /\ answer'[c] = answer[c]
  BY <1>6, Moves DEF RequestType, Places, Kinds
<1>8. RequestInv(c)' BY <1>1, <1>2, <1>7, Moved DEF Places
<1>9. QED BY <1>1, <1>4, <1>5, <1>7, <1>8, KeptBy DEF RequestType

\* A local interpreter answers ok for the content it was given.
LEMMA LocallyKeeps ==
  ASSUME RequestType, NEW c \in Calls, RequestInv(c), UNCHANGED child, at[c] = "execute", Locally(c),
         UNCHANGED <<user, op, mode, format, fileVars, macos, mockVars>>
  PROVE  Kept(c)
<1>1. PICK m \in mode[c] \cap Interpreted :
        \/ Answer(c, "unavailable") /\ UNCHANGED ran
        \/ Answer(c, "file_not_found") /\ UNCHANGED ran
        \/ Interprets(m) \in format[c] /\ \E x \in file :
             /\ Answer(c, IF x.format = Interprets(m) /\ x.runs THEN "ok" ELSE "unavailable")
             /\ ran' = [ran EXCEPT ![c] = Some(x.format)]
  BY DEF Locally, Interpreted
<1>2. UNCHANGED <<client, user, op, mode, format, file, audit>>
  BY DEF Locally, vars, fileVars, mockVars
<1>3. /\ op[c] # "execute" /\ client[c] = "idle" /\ answer[c] = "none" /\ user[c] # "idle"
      /\ child[c] # "running"
  BY DEF RequestInv, Looking
<1>4. \A f \in format[c] : format[c] = Some(f)
  <2>1. format[c] \in Option(Formats) BY DEF RequestType
  <2>2. QED BY <2>1 DEF Option, None, Some
<1>5. CASE /\ UNCHANGED ran
           /\ Answer(c, "unavailable") \/ Answer(c, "file_not_found")
  <2>1. /\ MoveType' /\ \A d \in Calls \ {c} : at'[d] = at[d] /\ answer'[d] = answer[d]
        /\ at'[c] = "answered" /\ answer'[c] # "ok"
    BY <1>5, Moves DEF RequestType, Kinds
  <2>2. RequestInv(c)' BY <1>2, <1>3, <2>1, Moved DEF Looking
  <2>3. QED BY <1>2, <1>5, <2>1, <2>2, KeptBy DEF RequestType
<1>6. ASSUME NEW x \in file, Interprets(m) \in format[c],
             Answer(c, IF x.format = Interprets(m) /\ x.runs THEN "ok" ELSE "unavailable"),
             ran' = [ran EXCEPT ![c] = Some(x.format)]
      PROVE  Kept(c)
  <2>1. PICK kind \in {"ok", "unavailable"} :
          Answer(c, kind) /\ (kind = "ok" => x.format = Interprets(m))
    BY <1>6
  <2>2. /\ MoveType' /\ \A d \in Calls \ {c} : at'[d] = at[d] /\ answer'[d] = answer[d]
        /\ at'[c] = "answered" /\ answer'[c] = kind
    BY <2>1, Moves DEF RequestType, Kinds
  <2>3. /\ ran' \in [Calls -> Option(Formats)] /\ \A d \in Calls \ {c} : ran'[d] = ran[d]
        /\ ran'[c] = Some(x.format)
    <3>1. x \in Contents BY DEF RequestType, Option, None, Some
    <3>2. Some(x.format) \in Option(Formats) BY <3>1 DEF Option, Formats
    <3>3. QED BY <1>6, <3>2 DEF RequestType
  <2>4. kind = "ok" => ran'[c] = format[c] BY <1>4, <1>6, <2>1, <2>3
  <2>5. RequestInv(c)' BY <1>2, <1>3, <2>2, <2>4 DEF RequestInv, Looking
  <2>6. QED BY <1>2, <2>2, <2>3, <2>5, KeptBy DEF RequestType
<1>7. QED BY <1>1, <1>5, <1>6

\* A request goes to the node from a handler that has not asked it before.
LEMMA SentKeeps ==
  ASSUME RequestType, TypeOK, NEW c \in Calls, RequestInv(c), UNCHANGED child,
         at[c] \in {"execute", "macos"}, mode[c] \cap Interpreted = {},
         Go(c, "remote"), Send(c), UNCHANGED <<user, op, mode, format, ran, file>>,
         audit \subseteq audit'
  PROVE  Kept(c)
<1>1. /\ MoveType' /\ \A d \in Calls \ {c} : at'[d] = at[d] /\ answer'[d] = answer[d]
      /\ at'[c] = "remote" /\ answer'[c] = answer[c]
  BY Moves DEF RequestType, Places
<1>2. \A d \in Calls \ {c} : client'[d] = client[d] BY DEF Send, TypeOK
<1>3. answer[c] = "none" /\ user[c] # "idle" /\ child[c] # "running" BY DEF RequestInv
<1>4. RequestInv(c)' BY <1>1, <1>3 DEF RequestInv, Looking
<1>5. QED BY <1>1, <1>2, <1>4, KeptBy DEF RequestType

LEMMA ExecuteKeeps ==
  ASSUME RequestType, TypeOK, NEW c \in Calls, RequestInv(c), UNCHANGED child, Execute(c)
  PROVE  Kept(c)
<1>1. CASE Locally(c) BY <1>1, LocallyKeeps DEF Execute
<1>2. CASE Remotely(c)
  <2>1. mode[c] \cap Interpreted = {}
    <3>1. mode[c] \in Option(Modes) /\ "remote" \in mode[c] BY <1>2 DEF RequestType, Remotely
    <3>2. mode[c] = {"remote"} BY <3>1 DEF Option, None, Some
    <3>3. QED BY <3>2 DEF Interpreted
  <2>2. CASE Go(c, "remote") /\ Send(c) /\ UNCHANGED ran
    BY <2>1, <2>2, SentKeeps DEF Execute, fileVars, mockVars
  <2>3. CASE (Answer(c, "unavailable") \/ Answer(c, "file_not_found")) /\ UNCHANGED <<vars, ran>>
    <3>1. /\ MoveType' /\ \A d \in Calls \ {c} : at'[d] = at[d] /\ answer'[d] = answer[d]
          /\ at'[c] = "answered" /\ answer'[c] # "ok"
      BY <2>3, Moves DEF RequestType, Kinds
    <3>2. answer[c] = "none" /\ user[c] # "idle" /\ child[c] # "running" /\ at[c] # "answered"
      BY DEF Execute, RequestInv
    <3>3. UNCHANGED <<client, user, op, mode, format, ran, file, audit>>
      BY <2>3 DEF Execute, vars, fileVars, mockVars
    <3>4. RequestInv(c)' BY <3>1, <3>2, <3>3, Moved DEF Looking
    <3>5. QED BY <3>1, <3>3, <3>4, KeptBy DEF RequestType
  <2>4. QED BY <1>2, <2>2, <2>3 DEF Remotely
<1>3. QED BY <1>1, <1>2 DEF Execute

LEMMA MacosKeeps ==
  ASSUME RequestType, TypeOK, NEW c \in Calls, RequestInv(c), UNCHANGED child,
         ExecuteMacos(c) \/ Mock(c)
  PROVE  Kept(c)
<1>1. /\ op[c] = "execute" /\ mode[c] = None /\ client[c] = "idle" /\ answer[c] = "none"
      /\ user[c] # "idle" /\ child[c] # "running" /\ at[c] \in {"macos", "mock"}
  BY DEF ExecuteMacos, Mock, RequestInv
<1>2. UNCHANGED <<user, op, mode, format, ran, file>> /\ audit \subseteq audit'
  BY DEF ExecuteMacos, Mock, localVars, fileVars
<1>3. CASE Go(c, "remote") /\ Send(c) /\ at[c] = "macos"
  BY <1>1, <1>2, <1>3, SentKeeps DEF None
<1>4. CASE UNCHANGED vars /\ \E kind \in {"remote", "timeout", "executor"} : Answer(c, kind)
  <2>1. /\ MoveType' /\ \A d \in Calls \ {c} : at'[d] = at[d] /\ answer'[d] = answer[d]
        /\ at'[c] = "answered" /\ answer'[c] # "ok"
    BY <1>4, Moves DEF RequestType, Kinds
  <2>2. UNCHANGED client BY <1>4 DEF vars
  <2>3. RequestInv(c)' BY <1>1, <1>2, <2>1, <2>2, Moved DEF Looking
  <2>4. QED BY <1>2, <2>1, <2>2, <2>3, KeptBy DEF RequestType
<1>5. CASE UNCHANGED vars /\ \E place \in {"mock", "audit"} : Go(c, place)
  <2>1. /\ MoveType' /\ \A d \in Calls \ {c} : at'[d] = at[d] /\ answer'[d] = answer[d]
        /\ at'[c] \in {"mock", "audit"} /\ answer'[c] = answer[c]
    BY <1>5, Moves DEF RequestType, Places
  <2>2. UNCHANGED client BY <1>5 DEF vars
  <2>3. RequestInv(c)' BY <1>1, <1>2, <2>1, <2>2 DEF RequestInv, Looking, None
  <2>4. QED BY <1>2, <2>1, <2>2, <2>3, KeptBy DEF RequestType
<1>6. QED BY <1>3, <1>4, <1>5 DEF ExecuteMacos, Mock

\* The node's answer, and the audit of it.
LEMMA AnswerKeeps ==
  ASSUME RequestType, NEW c \in Calls, RequestInv(c), UNCHANGED child,
         RemoteAnswers(c) \/ Audit(c)
  PROVE  Kept(c)
<1>1. /\ UNCHANGED <<client, user, op, mode, format, ran, file>> /\ audit \subseteq audit'
  BY DEF RemoteAnswers, Audit, vars, localVars, fileVars, mockVars
<1>2. /\ at[c] \in {"remote", "audit"} /\ answer[c] = "none" /\ user[c] # "idle"
      /\ child[c] # "running" /\ mode[c] \cap Interpreted = {}
  BY DEF RemoteAnswers, Audit, RequestInv
<1>3. CASE /\ at[c] = "remote" /\ client[c] = "ok" /\ op[c] = "run" /\ Answer(c, "ok")
  <2>1. /\ MoveType' /\ \A d \in Calls \ {c} : at'[d] = at[d] /\ answer'[d] = answer[d]
        /\ at'[c] = "answered" /\ answer'[c] = "ok"
    BY <1>3, Moves DEF RequestType, Kinds
  <2>2. RequestInv(c)' BY <1>1, <1>2, <1>3, <2>1 DEF RequestInv, Looking
  <2>3. QED BY <1>1, <2>1, <2>2, KeptBy DEF RequestType
<1>4. CASE /\ at[c] = "remote" /\ client[c] = "ok" /\ op[c] = "execute" /\ Go(c, "audit")
  <2>1. /\ MoveType' /\ \A d \in Calls \ {c} : at'[d] = at[d] /\ answer'[d] = answer[d]
        /\ at'[c] = "audit" /\ answer'[c] = answer[c]
    BY <1>4, Moves DEF RequestType, Places
  <2>2. RequestInv(c)' BY <1>1, <1>2, <1>4, <2>1 DEF RequestInv, Looking
  <2>3. QED BY <1>1, <2>1, <2>2, KeptBy DEF RequestType
<1>5. CASE at[c] = "remote" /\ \E kind \in {"unavailable", "remote"} : Answer(c, kind)
  <2>1. /\ MoveType' /\ \A d \in Calls \ {c} : at'[d] = at[d] /\ answer'[d] = answer[d]
        /\ at'[c] = "answered" /\ answer'[c] # "ok"
    BY <1>5, Moves DEF RequestType, Kinds
  <2>2. RequestInv(c)' BY <1>1, <1>2, <2>1, Moved DEF Looking
  <2>3. QED BY <1>1, <2>1, <2>2, KeptBy DEF RequestType
<1>6. CASE at[c] = "audit" /\ Answer(c, "ok") /\ audit' = audit \cup {Event("received", c)}
  <2>1. /\ MoveType' /\ \A d \in Calls \ {c} : at'[d] = at[d] /\ answer'[d] = answer[d]
        /\ at'[c] = "answered" /\ answer'[c] = "ok"
    BY <1>6, Moves DEF RequestType, Kinds
  <2>2. client[c] \in {"idle", "ok"} BY <1>6 DEF RequestInv
  <2>3. Event("received", c) \in audit' BY <1>6
  <2>4. RequestInv(c)' BY <1>1, <1>2, <2>1, <2>2, <2>3 DEF RequestInv, Looking, Event
  <2>5. QED BY <1>1, <2>1, <2>4, KeptBy DEF RequestType
<1>7. QED BY <1>3, <1>4, <1>5, <1>6 DEF RemoteAnswers, Audit

LEMMA DropKeeps ==
  ASSUME RequestType, TypeOK, NEW c \in Calls, RequestInv(c), UNCHANGED child, DropRequest(c)
  PROVE  Kept(c)
<1>1. Go(c, "dropped") /\ UNCHANGED <<user, op, mode, format, ran, file, audit>>
  BY DEF DropRequest, localVars, fileVars, mockVars
<1>2. /\ MoveType' /\ \A d \in Calls \ {c} : at'[d] = at[d] /\ answer'[d] = answer[d]
      /\ at'[c] = "dropped" /\ answer'[c] = answer[c]
  BY <1>1, Moves DEF RequestType, Places
<1>3. \A d \in Calls \ {c} : client'[d] = client[d] BY DEF DropRequest, GiveUp, TypeOK, vars
<1>4. answer[c] = "none" /\ user[c] # "idle" /\ child[c] # "running" BY DEF DropRequest, RequestInv
<1>5. RequestInv(c)' BY <1>1, <1>2, <1>4 DEF RequestInv, Looking
<1>6. QED BY <1>1, <1>2, <1>3, <1>5, KeptBy DEF RequestType

\* What a step of one request keeps is kept.
LEMMA KeptIsKept ==
  ASSUME NEW c \in Calls, Kept(c), \A d \in Calls : RequestInv(d)
  PROVE  RequestType' /\ \A d \in Calls : RequestInv(d)'
<1>1. ASSUME NEW d \in Calls, d # c PROVE RequestInv(d)'
  BY <1>1, OthersKeep DEF Kept, Alone
<1>2. QED BY <1>1 DEF Kept

LEMMA ApiKeeps ==
  ASSUME RequestType, TypeOK, \A c \in Calls : RequestInv(c), ApiNext, UNCHANGED child
  PROVE  RequestType' /\ \A c \in Calls : RequestInv(c)'
<1>1. CASE (NodeNext \/ \E c \in Calls : GiveUp(c)) /\ UNCHANGED requestVars
  <2>1. UNCHANGED <<user, op, at, answer, mode, format, ran, file, audit>>
    BY <1>1 DEF requestVars, localVars, fileVars, mockVars
  <2>2. \A d \in Calls : client'[d] = client[d] \/ client[d] = "waiting"
    BY <1>1 DEF NodeNext, Register, Launch, LaunchFails, WakeCancelled, ProcessExits, Finish,
       Timeout, Respond, Drop, Cancel, GiveUp, TypeOK
  <2>3. ASSUME NEW d \in Calls PROVE RequestInv(d)' BY <2>1, <2>2, OthersKeep
  <2>4. QED BY <2>1, <2>3 DEF RequestType, MoveType
<1>2. CASE Replace
  <2>1. UNCHANGED <<client, user, op, at, answer, mode, format, ran, audit>>
    BY <1>2 DEF Replace, vars, localVars, mockVars
  <2>2. file' \in Option(Contents) BY <1>2 DEF Replace, Option
  <2>3. ASSUME NEW d \in Calls PROVE RequestInv(d)' BY <2>1, OthersKeep
  <2>4. QED BY <2>1, <2>2, <2>3 DEF RequestType, MoveType
<1>3. ASSUME NEW c \in Calls,
             \/ Ask(c) \/ Leave(c)
             \/ Detect(c) \/ ElfKind(c) \/ Again(c) \/ EntryPoint(c) \/ Execute(c)
             \/ ExecuteMacos(c) \/ Mock(c) \/ RemoteAnswers(c) \/ Audit(c) \/ DropRequest(c)
      PROVE  Kept(c)
  BY <1>3, AskKeeps, LeaveKeeps, LookKeeps, ExecuteKeeps, MacosKeeps, AnswerKeeps, DropKeeps
<1>4. QED BY <1>1, <1>2, <1>3, KeptIsKept DEF ApiNext

-----------------------------------------------------------------------------
(* Heals.  What the daemon notes of its commands is what their processes   *)
(* exited with, and -1 for the ones that did not.                          *)

LEMMA NoTimes == \A codes : Times(codes, << >>) = 0
<1>1. \A codes : {i \in DOMAIN << >> : << >>[i] \in codes} = {} OBVIOUS
<1>2. QED BY <1>1, FS_EmptySet DEF Times

LEMMA TimesType ==
  ASSUME NEW S, NEW s \in Seq(S), NEW codes
  PROVE  IsFiniteSet({i \in DOMAIN s : s[i] \in codes}) /\ Times(codes, s) \in Nat
<1>1. IsFiniteSet(DOMAIN s) BY FS_Interval
<1>2. {i \in DOMAIN s : s[i] \in codes} \in SUBSET DOMAIN s OBVIOUS
<1>3. IsFiniteSet({i \in DOMAIN s : s[i] \in codes}) BY <1>1, <1>2, FS_Subset
<1>4. QED BY <1>3, FS_CardinalityType DEF Times

LEMMA TimesAppend ==
  ASSUME NEW S, NEW s \in Seq(S), NEW x \in S, NEW codes
  PROVE  Times(codes, Append(s, x)) = Times(codes, s) + (IF x \in codes THEN 1 ELSE 0)
<1> DEFINE old == {i \in DOMAIN s : s[i] \in codes}
           now == {i \in DOMAIN Append(s, x) : Append(s, x)[i] \in codes}
<1>1. /\ Len(s) \in Nat /\ DOMAIN s = 1 .. Len(s)
      /\ DOMAIN Append(s, x) = 1 .. (Len(s) + 1)
      /\ \A i \in 1 .. Len(s) : Append(s, x)[i] = s[i]
      /\ Append(s, x)[Len(s) + 1] = x
  OBVIOUS
<1>2. IsFiniteSet(old) /\ Cardinality(old) \in Nat BY TimesType DEF Times
<1>3. Len(s) + 1 \notin old BY <1>1
<1> /\ Times(codes, s) = Cardinality(old) /\ Times(codes, Append(s, x)) = Cardinality(now)
  BY DEF Times
<1>4. CASE x \in codes
  <2>1. now = old \cup {Len(s) + 1} BY <1>1, <1>4
  <2>2. Cardinality(now) = Cardinality(old) + 1 BY <1>2, <1>3, <2>1, FS_AddElement
  <2>3. QED BY <1>4, <2>2
<1>5. CASE x \notin codes
  <2>1. now = old BY <1>1, <1>5
  <2> HIDE DEF old, now
  <2>2. QED BY <1>2, <1>5, <2>1
<1>6. x \in codes \/ x \notin codes OBVIOUS
<1> HIDE DEF old, now
<1>7. QED BY <1>4, <1>5, <1>6, Zenon

Codes == {-1, 0, 1}

\* The tallies of return codes and of exit codes.
Agree(noted, ended) ==
  /\ Times({0}, noted) = Times({0}, ended) /\ Times({1}, noted) = Times({1}, ended)
  /\ Times({0, 1}, ended) = Times({0}, ended) + Times({1}, ended)
  /\ Times({-1}, noted) + Times({0}, noted) + Times({1}, noted) = Len(noted)

LEMMA NothingAgrees == Agree(<< >>, << >>)
  BY NoTimes DEF Agree

LEMMA ExitAgrees ==
  ASSUME NEW noted \in Seq(Codes), NEW ended \in Seq(Codes), Agree(noted, ended), NEW code \in Codes
  PROVE  Agree(Append(noted, code), Append(ended, code))
<1>1. Len(Append(noted, code)) = Len(noted) + 1 /\ Len(noted) \in Nat OBVIOUS
<1>2. \A codes : Times(codes, noted) \in Nat /\ Times(codes, ended) \in Nat BY TimesType
<1>3. \A codes : /\ Times(codes, Append(noted, code)) = Times(codes, noted) + (IF code \in codes THEN 1 ELSE 0)
                 /\ Times(codes, Append(ended, code)) = Times(codes, ended) + (IF code \in codes THEN 1 ELSE 0)
  BY TimesAppend
<1> DEFINE one(codes) == IF code \in codes THEN 1 ELSE 0
<1>4. /\ Times({0}, Append(noted, code)) = Times({0}, noted) + one({0})
      /\ Times({1}, Append(noted, code)) = Times({1}, noted) + one({1})
      /\ Times({-1}, Append(noted, code)) = Times({-1}, noted) + one({-1})
  BY <1>3
<1>5. /\ Times({0}, Append(ended, code)) = Times({0}, ended) + one({0})
      /\ Times({1}, Append(ended, code)) = Times({1}, ended) + one({1})
      /\ Times({0, 1}, Append(ended, code)) = Times({0, 1}, ended) + one({0, 1})
  BY <1>3
<1>6. one({0, 1}) = one({0}) + one({1}) /\ one({-1}) + one({0}) + one({1}) = 1
  BY DEF Codes
<1>7. \A codes : one(codes) \in {0, 1} OBVIOUS
<1> HIDE DEF one
<1>8. /\ Times({0}, noted) \in Nat /\ Times({1}, noted) \in Nat /\ Times({-1}, noted) \in Nat
      /\ one({0}) \in Int /\ one({1}) \in Int /\ one({-1}) \in Int
  BY <1>2, <1>7
<1>9. Times({0}, Append(noted, code)) = Times({0}, Append(ended, code))
  BY <1>4, <1>5 DEF Agree
<1>10. Times({1}, Append(noted, code)) = Times({1}, Append(ended, code))
  BY <1>4, <1>5 DEF Agree
<1>11. Times({0, 1}, Append(ended, code))
         = Times({0}, Append(ended, code)) + Times({1}, Append(ended, code))
  BY <1>4, <1>5, <1>6, <1>8 DEF Agree
<1>12. Times({-1}, Append(noted, code)) + Times({0}, Append(noted, code)) + Times({1}, Append(noted, code))
         = Len(Append(noted, code))
  <2> DEFINE a == Times({-1}, noted)
             b == Times({0}, noted)
             e == Times({1}, noted)
  <2>1. a + b + e = Len(noted) BY DEF Agree
  <2>2. a \in Int /\ b \in Int /\ e \in Int BY <1>8
  <2>3. /\ Times({-1}, Append(noted, code)) = a + one({-1})
        /\ Times({0}, Append(noted, code)) = b + one({0})
        /\ Times({1}, Append(noted, code)) = e + one({1})
    BY <1>4
  <2> DEFINE u == one({-1})
             v == one({0})
             w == one({1})
  <2>4. u + v + w = 1 /\ u \in Int /\ v \in Int /\ w \in Int BY <1>6, <1>8
  <2> HIDE DEF a, b, e, u, v, w
  <2>5. (a + u) + (b + v) + (e + w) = Len(noted) + 1 BY <1>1, <2>1, <2>2, <2>4
  <2> USE DEF u, v, w
  <2>6. QED BY <1>1, <2>3, <2>5
<1>13. QED BY <1>9, <1>10, <1>11, <1>12 DEF Agree

LEMMA NoExitAgrees ==
  ASSUME NEW noted \in Seq(Codes), NEW ended \in Seq(Codes), Agree(noted, ended)
  PROVE  Agree(Append(noted, -1), ended)
<1>1. Len(Append(noted, -1)) = Len(noted) + 1 /\ Len(noted) \in Nat BY DEF Codes
<1>2. \A codes : Times(codes, noted) \in Nat /\ Times(codes, ended) \in Nat BY TimesType
<1>3. \A codes : Times(codes, Append(noted, -1)) = Times(codes, noted) + (IF -1 \in codes THEN 1 ELSE 0)
  BY TimesAppend DEF Codes
<1>4. QED BY <1>1, <1>2, <1>3 DEF Agree

\* It is a list.
Listed(s) == Len(s) \in Nat /\ (s = << >> <=> Len(s) = 0)

HealType ==
  /\ DOMAIN before = Calls /\ DOMAIN pathway = Calls
  /\ DOMAIN commands = Calls /\ \A c \in Calls : Listed(commands[c])
  /\ results \in [Calls -> Seq(Codes)] /\ exits \in [Calls -> Seq(Codes)]
  /\ late \in [Calls -> Nat]

\* Where a heal is that may have had a command run.
Resting == {"command", "sense_again", "answered", "dropped"}

\* What a heal of its own is told.
Told(c) ==
  LET all == Len(commands[c]) IN
  /\ answer[c] = "success" => all > 0 /\ Times({0}, exits[c]) = all
  /\ answer[c] = "failure" => Times({1}, exits[c]) = all
  /\ answer[c] = "partial_success" => /\ Times({0}, exits[c]) \in 1 .. (all - 1)
                                      /\ Times({0, 1}, exits[c]) = all
  /\ late[c] > 0 => answer[c] \in {"none", "timeout"}
  /\ answer[c] = "timeout" /\ op[c] = "heal" /\ Times({0, 1}, exits[c]) + late[c] = all => late[c] > 0
  /\ answer[c] = "no_action" => all = 0 /\ \A h \in before[c] : IsHealthy(h)

HealInv(c) ==
  /\ Agree(results[c], exits[c]) /\ late[c] <= Times({-1}, results[c])
  /\ late[c] > 0 => at[c] \in Resting
  /\ at[c] \in {"none", "sense"} => results[c] = << >>
  /\ at[c] = "command" => Len(results[c]) < Len(commands[c])
  /\ at[c] = "sense_again" => Len(results[c]) = Len(commands[c])
  /\ pathway[c] = Some("no_action") => \A h \in before[c] : IsHealthy(h)
  /\ Told(c)

\* What the daemon makes of the codes it noted, once every command is done.
LEMMA OutcomeTells ==
  ASSUME HealType, NEW c \in Calls, HealInv(c), at[c] = "sense_again",
         UNCHANGED healVars, answer'[c] = Outcome(c)
  PROVE  Told(c)'
<1> DEFINE n0 == Times({0}, results[c])
           n1 == Times({1}, results[c])
           missed == Times({-1}, results[c])
           all == Len(commands[c])
<1>1. results[c] \in Seq(Codes) /\ Len(commands[c]) \in Nat BY DEF HealType, Listed
<1>2. n0 \in Nat /\ n1 \in Nat /\ missed \in Nat BY <1>1, TimesType
<1>3. Len(results[c]) = all /\ all \in Nat BY <1>1 DEF HealInv
<1>4. missed + n0 + n1 = all BY <1>3 DEF HealInv, Agree
<1>5. Times({0}, exits[c]) = n0 /\ Times({1}, exits[c]) = n1 /\ Times({0, 1}, exits[c]) = n0 + n1
  BY DEF HealInv, Agree
<1>6. results[c] = << >> <=> all = 0 BY <1>1, <1>3
<1>7. answer'[c] = IF all = 0 THEN IF pathway[c] = Some("no_action") THEN "no_action" ELSE "failure"
                   ELSE IF missed > 0 THEN "timeout"
                   ELSE IF n0 = all THEN "success"
                   ELSE IF n0 = 0 THEN "failure" ELSE "partial_success"
  BY <1>3, <1>6 DEF Outcome, Count
<1>8. /\ Times({0}, exits'[c]) = n0 /\ Times({1}, exits'[c]) = n1 /\ Times({0, 1}, exits'[c]) = n0 + n1
      /\ Len(commands'[c]) = all /\ before'[c] = before[c]
  BY <1>5 DEF healVars, decisionVars
<1>9. pathway[c] = Some("no_action") => \A h \in before[c] : IsHealthy(h) BY DEF HealInv
<1>12. late'[c] = late[c] /\ late[c] \in Nat /\ late[c] <= missed
  BY DEF healVars, HealType, HealInv
<1> HIDE DEF n0, n1, missed, all
<1>10. /\ answer'[c] = "success" => all > 0 /\ n0 = all
       /\ answer'[c] = "failure" => n1 = all
       /\ answer'[c] = "partial_success" => n0 \in 1 .. (all - 1) /\ n0 + n1 = all
       /\ late[c] > 0 => answer'[c] = "timeout"
       /\ answer'[c] = "timeout" => n0 + n1 < all
       /\ answer'[c] = "no_action" => all = 0 /\ pathway[c] = Some("no_action")
  BY <1>2, <1>3, <1>4, <1>7, <1>12
<1>11. n0 + n1 + late[c] = all /\ n0 + n1 < all => late[c] > 0 BY <1>2, <1>3, <1>12
<1>13. QED BY <1>8, <1>9, <1>10, <1>11, <1>12 DEF Told

Outcomes == {"success", "failure", "partial_success", "no_action"}

\* What the requests to run a file do to a heal: they let it be.
LEMMA ApiLetsBe ==
  ASSUME MoveType, NEW c \in Calls, \A d \in Calls : RequestInv(d), ApiNext
  PROVE  /\ op' = op
         /\ at'[c] \in {"none", "command", "sense_again"} => at'[c] = at[c]
         /\ at'[c] = "sense" => at[c] \in {"none", "sense"}
         /\ at[c] \in Resting => at'[c] = at[c] /\ answer'[c] = answer[c]
         /\ \/ answer'[c] = answer[c]
            \/ answer'[c] \notin Outcomes /\ (answer'[c] = "timeout" => op[c] = "execute")
<1> DEFINE Goal == /\ op' = op
                   /\ at'[c] \in {"none", "command", "sense_again"} => at'[c] = at[c]
                   /\ at'[c] = "sense" => at[c] \in {"none", "sense"}
                   /\ at[c] \in Resting => at'[c] = at[c] /\ answer'[c] = answer[c]
                   /\ \/ answer'[c] = answer[c]
                      \/ answer'[c] \notin Outcomes /\ (answer'[c] = "timeout" => op[c] = "execute")
<1>1. CASE UNCHANGED <<op, at, answer>> BY <1>1
<1>2. ASSUME NEW d \in Calls, op' = op,
             NEW place \in Places \ {"none", "command", "sense_again"},
             Go(d, place), place = "sense" => at[d] = "none", at[d] \notin Resting
      PROVE  Goal
  BY <1>2, Moves
<1>3. ASSUME NEW d \in Calls, op' = op, NEW kind \in Kinds \ Outcomes,
             Answer(d, kind), kind = "timeout" => op[d] = "execute", at[d] \notin Resting
      PROVE  Goal
  BY <1>3, Moves
<1>4. ASSUME NEW d \in Calls, Ask(d) PROVE Goal
  <2>1. PICK place \in {"macos", "sense", "detect"} : Go(d, place) BY <1>4 DEF Ask
  <2>2. op' = op /\ at[d] = "none" /\ at[d] \notin Resting BY <1>4 DEF Ask, RequestInv, Resting
  <2>3. QED BY <1>2, <2>1, <2>2 DEF Places
<1>5. ASSUME NEW d \in Calls, Leave(d) PROVE Goal BY <1>1, <1>5 DEF Leave
<1>6. ASSUME NEW d \in Calls, Detect(d) \/ ElfKind(d) \/ Again(d) \/ EntryPoint(d) PROVE Goal
  <2>1. \/ \E place \in {"kind", "again", "entry", "execute"} : Go(d, place)
        \/ \E kind \in Kinds \ (Outcomes \cup {"timeout"}) : Answer(d, kind)
    BY <1>6 DEF Detect, ElfKind, Again, EntryPoint, Unknown, Decide, Kinds, Outcomes
  <2>2. op' = op /\ at[d] \notin Resting BY <1>6 DEF Detect, ElfKind, Again, EntryPoint, Resting
  <2>3. QED BY <1>2, <1>3, <2>1, <2>2 DEF Places
<1>7. ASSUME NEW d \in Calls, Execute(d) PROVE Goal
  <2>1. Go(d, "remote") \/ \E kind \in Kinds \ (Outcomes \cup {"timeout"}) : Answer(d, kind)
    BY <1>7 DEF Execute, Locally, Remotely, Kinds, Outcomes
  <2>2. op' = op /\ at[d] \notin Resting BY <1>7 DEF Execute, Resting
  <2>3. QED BY <1>2, <1>3, <2>1, <2>2 DEF Places
<1>8. ASSUME NEW d \in Calls, ExecuteMacos(d) \/ Mock(d) PROVE Goal
  <2>1. \/ \E place \in {"remote", "mock", "audit"} : Go(d, place)
        \/ \E kind \in {"remote", "timeout", "executor"} : Answer(d, kind)
    BY <1>8 DEF ExecuteMacos, Mock
  <2>2. op' = op /\ op[d] = "execute" /\ at[d] \notin Resting
    BY <1>8 DEF ExecuteMacos, Mock, RequestInv, Resting
  <2>3. QED BY <1>2, <1>3, <2>1, <2>2 DEF Places, Kinds, Outcomes
<1>9. ASSUME NEW d \in Calls, RemoteAnswers(d) \/ Audit(d) \/ DropRequest(d) PROVE Goal
  <2>1. \/ \E place \in {"audit", "dropped"} : Go(d, place)
        \/ \E kind \in {"ok", "unavailable", "remote"} : Answer(d, kind)
    BY <1>9 DEF RemoteAnswers, Audit, DropRequest
  <2>2. op' = op /\ at[d] \notin Resting BY <1>9 DEF RemoteAnswers, Audit, DropRequest, Resting
  <2>3. QED BY <1>2, <1>3, <2>1, <2>2 DEF Places, Kinds, Outcomes
<1>10. CASE UNCHANGED requestVars BY <1>1, <1>10 DEF requestVars
<1>11. CASE Replace BY <1>1, <1>11 DEF Replace
<1>12. QED BY <1>4, <1>5, <1>6, <1>7, <1>8, <1>9, <1>10, <1>11 DEF ApiNext

LEMMA ApiHeals ==
  ASSUME MoveType, HealType, \A c \in Calls : RequestInv(c) /\ HealInv(c),
         ApiNext, UNCHANGED healVars
  PROVE  HealType' /\ \A c \in Calls : HealInv(c)'
<1>1. UNCHANGED <<before, pathway, commands, results, exits, late>> BY DEF healVars, decisionVars
<1>2. HealType' BY <1>1 DEF HealType
<1>3. ASSUME NEW c \in Calls PROVE HealInv(c)'
  <2>1. /\ op' = op
        /\ at'[c] \in {"none", "command", "sense_again"} => at'[c] = at[c]
        /\ at'[c] = "sense" => at[c] \in {"none", "sense"}
        /\ at[c] \in Resting => at'[c] = at[c] /\ answer'[c] = answer[c]
        /\ \/ answer'[c] = answer[c]
           \/ answer'[c] \notin Outcomes /\ (answer'[c] = "timeout" => op[c] = "execute")
    BY ApiLetsBe
  <2>2. Told(c)' BY <1>1, <2>1 DEF HealInv, Told, Outcomes
  <2>3. Agree(results[c], exits[c])' /\ (late[c] <= Times({-1}, results[c]))' BY <1>1 DEF HealInv
  <2>4. QED BY <1>1, <2>1, <2>2, <2>3 DEF HealInv
<1>4. QED BY <1>2, <1>3

-----------------------------------------------------------------------------
(* The steps of a heal, as its request sees them.                          *)

Runnable(c) == Current(c).word \in Allowed(Current(c).target)

\* A command that runs may be run, and so is not refused.
ChildInv(c) == child[c] = "running" => Runnable(c)

HealDomains == DOMAIN commands = Calls /\ DOMAIN results = Calls

WorkKept(c) ==
  /\ Kept(c) /\ HealDomains' /\ ChildInv(c)'
  /\ \A d \in Calls \ {c} : UNCHANGED <<commands[d], results[d]>>

\* Where a handler is that heals, and where it goes.
LEMMA HealMoves ==
  ASSUME RequestType, NEW c \in Calls, RequestInv(c), UNCHANGED held,
         at[c] \in {"sense", "command", "sense_again"},
         \/ \E place \in {"command", "sense_again", "dropped"} : Go(c, place)
         \/ \E kind \in Outcomes \cup {"timeout"} : Answer(c, kind),
         child' \in [Calls -> {"none", "running", "killed"}],
         \A d \in Calls \ {c} : child'[d] = child[d],
         child'[c] = "running" => at'[c] = "command"
  PROVE  Kept(c)
<1>1. UNCHANGED <<client, user, op, mode, format, ran, file, audit>>
  BY DEF held, vars, localVars, fileVars, mockVars
<1>2. user[c] # "idle" /\ client[c] = "idle" /\ answer[c] = "none" /\ at[c] # "answered"
  BY DEF RequestInv
<1>3. /\ MoveType' /\ \A d \in Calls \ {c} : at'[d] = at[d] /\ answer'[d] = answer[d]
      /\ \/ at'[c] \in {"command", "sense_again", "dropped"} /\ answer'[c] = answer[c]
         \/ at'[c] = "answered" /\ answer'[c] # "ok"
  <2>1. {"command", "sense_again", "dropped"} \subseteq Places BY DEF Places
  <2>2. Outcomes \cup {"timeout"} \subseteq Kinds /\ "ok" \notin Outcomes \cup {"timeout"}
    BY DEF Kinds, Outcomes
  <2>3. QED BY <2>1, <2>2, Moves DEF RequestType
<1>4. RequestInv(c)' BY <1>1, <1>2, <1>3, Moved DEF Places, Looking
<1>5. QED BY <1>1, <1>3, <1>4, KeptBy DEF RequestType

\* A command that is done, or was not begun, goes on to the next.
LEMMA ResultKeeps ==
  ASSUME RequestType, HealDomains, NEW c \in Calls, RequestInv(c), UNCHANGED held,
         at[c] = "command", NEW code, Result(c, code), UNCHANGED decisionVars,
         child' \in [Calls -> {"none", "running", "killed"}], child'[c] # "running",
         \A d \in Calls \ {c} : child'[d] = child[d]
  PROVE  WorkKept(c)
<1>1. \E place \in {"command", "sense_again"} : Go(c, place) BY DEF Result
<1>2. Kept(c) BY <1>1, HealMoves
<1>3. HealDomains' /\ \A d \in Calls \ {c} : UNCHANGED <<commands[d], results[d]>>
  BY DEF Result, HealDomains, decisionVars
<1>4. QED BY <1>2, <1>3 DEF WorkKept, ChildInv

LEMMA WorkKeeps ==
  ASSUME RequestType, HealDomains, NEW c \in Calls, RequestInv(c), ChildInv(c), UNCHANGED held,
         Work(c) \/ ChildExits(c) \/ DropHeal(c)
  PROVE  WorkKept(c)
<1>1. CASE Sense(c)
  <2>1. \E place \in {"command", "sense_again"} : Go(c, place) BY <1>1 DEF Sense
  <2>2. at[c] = "sense" /\ UNCHANGED <<results, child>> BY <1>1 DEF Sense
  <2>3. child[c] # "running" BY <2>2 DEF RequestInv
  <2>4. Kept(c) BY <2>1, <2>2, <2>3, HealMoves DEF RequestType
  <2>5. HealDomains' /\ \A d \in Calls \ {c} : UNCHANGED <<commands[d], results[d]>>
    BY <1>1 DEF Sense, HealDomains
  <2>6. QED BY <2>2, <2>3, <2>4, <2>5 DEF WorkKept, ChildInv
<1>2. CASE Refuse(c)
  <2>1. child[c] # "running" BY <1>2 DEF Refuse, ChildInv, Runnable
  <2>2. QED BY <1>2, <2>1, ResultKeeps DEF Refuse, RequestType
<1>3. CASE Start(c) /\ UNCHANGED child
  <2>1. /\ at[c] = "command" /\ child[c] # "running" /\ UNCHANGED decisionVars
        /\ Result(c, -1) \/ child' = [child EXCEPT ![c] = "running"]
    BY <1>3 DEF Start
  <2>2. Result(c, -1) BY <1>3, <2>1 DEF RequestType
  <2>3. QED BY <1>3, <2>1, <2>2, ResultKeeps DEF RequestType
<1>4. CASE Start(c) /\ child' = [child EXCEPT ![c] = "running"] /\ UNCHANGED <<at, answer, results>>
  <2>1. at[c] = "command" /\ Runnable(c) /\ UNCHANGED commands
    BY <1>4 DEF Start, Runnable, decisionVars
  <2>2. Go(c, "command") /\ at'[c] = "command" BY <1>4, <2>1 DEF Go, RequestType, MoveType
  <2>3. /\ child' \in [Calls -> {"none", "running", "killed"}]
        /\ \A d \in Calls \ {c} : child'[d] = child[d]
    BY <1>4 DEF RequestType
  <2>4. Kept(c) BY <2>1, <2>2, <2>3, HealMoves
  <2>5. Runnable(c)' BY <1>4, <2>1 DEF Runnable, Current
  <2>6. QED BY <1>4, <2>1, <2>4, <2>5 DEF WorkKept, HealDomains, ChildInv
<1>5. CASE ChildExits(c) \/ Late(c)
  <2>1. /\ \E code \in {0, 1, -1} : Result(c, code)
        /\ child[c] = "running" /\ UNCHANGED decisionVars
        /\ \E x \in {"none", "killed"} : child' = [child EXCEPT ![c] = x]
    BY <1>5 DEF ChildExits, Late
  <2>2. /\ child' \in [Calls -> {"none", "running", "killed"}] /\ child'[c] # "running"
        /\ \A d \in Calls \ {c} : child'[d] = child[d]
    BY <2>1 DEF RequestType
  <2>3. at[c] = "command" BY <2>1 DEF RequestInv
  <2>4. QED BY <2>1, <2>2, <2>3, ResultKeeps
<1>6. CASE SenseAgain(c)
  <2>1. Outcome(c) \in Outcomes \cup {"timeout"} BY DEF Outcome, Outcomes
  <2>2. at[c] = "sense_again" /\ Answer(c, Outcome(c)) /\ UNCHANGED <<child, commands, results>>
    BY <1>6 DEF SenseAgain, healVars, decisionVars
  <2>3. child[c] # "running" BY <2>2 DEF RequestInv
  <2>4. Kept(c) BY <2>1, <2>2, <2>3, HealMoves DEF RequestType
  <2>5. QED BY <2>2, <2>3, <2>4 DEF WorkKept, HealDomains, ChildInv
<1>7. CASE DropHeal(c)
  <2>1. /\ Go(c, "dropped") /\ at[c] \in {"sense", "command", "sense_again"}
        /\ UNCHANGED <<commands, results>>
    BY <1>7 DEF DropHeal, decisionVars
  <2>2. /\ child' \in [Calls -> {"none", "running", "killed"}] /\ child'[c] # "running"
        /\ \A d \in Calls \ {c} : child'[d] = child[d]
    BY <1>7 DEF DropHeal, RequestType
  <2>3. Kept(c) BY <2>1, <2>2, HealMoves
  <2>4. QED BY <2>1, <2>2, <2>3 DEF WorkKept, HealDomains, ChildInv
<1>8. QED BY <1>1, <1>2, <1>3, <1>4, <1>5, <1>6, <1>7 DEF Work, Start

-----------------------------------------------------------------------------
(* What the daemon keeps for every agent.                                  *)

DaemonInv ==
  /\ IInv /\ Answered /\ RequestType /\ HealDomains
  /\ \A c \in Calls : RequestInv(c) /\ ChildInv(c)

LEMMA DaemonInitInv == DaemonInit => DaemonInv
<1> SUFFICES ASSUME DaemonInit PROVE DaemonInv OBVIOUS
<1>1. Init /\ ApiInit BY DEF DaemonInit, ApiInit
<1>2. IInv BY <1>1, InitIInv
<1>3. Answered BY <1>1 DEF Init, Answered
<1>4. RequestType
  <2>1. MoveType BY <1>1 DEF ApiInit, MoveType, Places, Kinds
  <2>2. mode = [c \in Calls |-> None] /\ format = mode /\ ran = mode BY <1>1 DEF ApiInit
  <2>3. file \in Option(Contents) BY <1>1 DEF ApiInit, Option
  <2>4. user = [c \in Calls |-> "idle"] /\ child = [c \in Calls |-> "none"]
    BY <1>1 DEF ApiInit, DaemonInit
  <2>5. QED BY <2>1, <2>2, <2>3, <2>4 DEF RequestType, Option
<1>5. HealDomains BY DEF DaemonInit, HealDomains
<1>6. ASSUME NEW c \in Calls PROVE RequestInv(c) /\ ChildInv(c)
  <2>1. /\ user[c] = "idle" /\ at[c] = "none" /\ answer[c] = "none" /\ mode[c] = None
        /\ client[c] = "idle" /\ child[c] = "none"
    BY <1>1 DEF ApiInit, Init, DaemonInit
  <2>2. QED BY <2>1 DEF RequestInv, ChildInv, Looking
<1>7. QED BY <1>2, <1>3, <1>4, <1>5, <1>6 DEF DaemonInv

LEMMA DaemonNextInv == DaemonInv /\ [DaemonNext]_daemonVars => DaemonInv'
<1> SUFFICES ASSUME DaemonInv, [DaemonNext]_daemonVars PROVE DaemonInv' OBVIOUS
<1>1. TypeOK BY DEF DaemonInv, IInv
<1>2. IInv' /\ Answered' BY <1>1, DaemonStep, NextIInv, AnsweredNext DEF DaemonInv
<1>3. CASE ApiNext /\ UNCHANGED healVars
  <2>1. UNCHANGED <<child, commands, results>> BY <1>3 DEF healVars, decisionVars
  <2>2. RequestType' /\ \A c \in Calls : RequestInv(c)' BY <1>1, <1>3, <2>1, ApiKeeps DEF DaemonInv
  <2>3. HealDomains' /\ \A c \in Calls : ChildInv(c)'
    BY <2>1 DEF DaemonInv, HealDomains, ChildInv, Runnable, Current
  <2>4. QED BY <1>2, <2>2, <2>3 DEF DaemonInv
<1>4. ASSUME NEW c \in Calls, (Work(c) \/ ChildExits(c) \/ DropHeal(c)) /\ UNCHANGED held
      PROVE  DaemonInv'
  <2>1. WorkKept(c) BY <1>4, WorkKeeps DEF DaemonInv
  <2>2. RequestType' /\ \A d \in Calls : RequestInv(d)' BY <2>1, KeptIsKept DEF WorkKept, DaemonInv
  <2>3. ASSUME NEW d \in Calls, d # c PROVE ChildInv(d)'
    BY <2>1, <2>3 DEF WorkKept, Kept, Alone, DaemonInv, ChildInv, Runnable, Current
  <2>4. QED BY <1>2, <2>1, <2>2, <2>3 DEF WorkKept, DaemonInv
<1>5. CASE UNCHANGED daemonVars
  <2>1. /\ UNCHANGED <<client, user, op, at, answer, mode, format, ran, file, audit>>
        /\ UNCHANGED <<child, commands, results>>
    BY <1>5 DEF daemonVars, apiVars, vars, requestVars, localVars, fileVars, mockVars,
       healVars, decisionVars
  <2>2. RequestType' /\ HealDomains' BY <2>1 DEF DaemonInv, RequestType, MoveType, HealDomains
  <2>3. ASSUME NEW c \in Calls PROVE RequestInv(c)' /\ ChildInv(c)'
    BY <2>1, OthersKeep DEF DaemonInv, ChildInv, Runnable, Current
  <2>4. QED BY <1>2, <2>2, <2>3 DEF DaemonInv
<1>6. QED BY <1>3, <1>4, <1>5 DEF DaemonNext

LEMMA DaemonInvariance == DaemonSpec => []DaemonInv
<1>1. DaemonSpec => DaemonInit /\ [][DaemonNext]_daemonVars BY DEF DaemonSpec
<1>2. QED BY <1>1, DaemonInitInv, DaemonNextInv, PTL

\* Whatever the file is replaced with between two looks at it, an answer of ok says
\* what was run, here or on the node (agent.rs:736-858, http.rs:387-478).
THEOREM AnswersTellWhatRan == DaemonSpec => []ReportsWhatRan
<1>1. ASSUME DaemonInv PROVE ReportsWhatRan
  <2>1. SUFFICES ASSUME NEW c \in Calls, answer[c] = "ok"
                 PROVE  /\ mode[c] \cap {"static", "pe"} # {} => ran[c] = format[c]
                        /\ client[c] # "idle" => client[c] = "ok" /\ process[c] = "exited"
                        /\ op[c] = "execute" => Event("received", c) \in audit
    BY DEF ReportsWhatRan
  <2>2. RequestInv(c) /\ Answered BY <1>1 DEF DaemonInv
  <2>3. QED BY <2>1, <2>2 DEF RequestInv, Answered, Interpreted
<1>2. QED BY <1>1, DaemonInvariance, PTL

-----------------------------------------------------------------------------
(* What a heal keeps, and what it is told.                                 *)

\* What a decision has to be for an answer to tell: a list of commands, and nothing
\* only for a healthy host.
SoundModels ==
  \A m \in Models, h \in Healths :
    /\ Listed(DecisionFor[m][h].commands)
    /\ DecisionFor[m][h].pathway = "no_action" => IsHealthy(h)

HealKept(c) ==
  /\ HealType' /\ HealInv(c)'
  /\ \A d \in Calls \ {c} :
       UNCHANGED <<before[d], pathway[d], commands[d], results[d], exits[d], late[d]>>

LEMMA HealIsKept ==
  ASSUME NEW c \in Calls, HealKept(c), Kept(c), \A d \in Calls : HealInv(d)
  PROVE  HealType' /\ \A d \in Calls : HealInv(d)'
<1>1. ASSUME NEW d \in Calls, d # c PROVE HealInv(d)'
  <2>1. /\ UNCHANGED <<at[d], answer[d], op>>
        /\ UNCHANGED <<before[d], pathway[d], commands[d], results[d], exits[d], late[d]>>
        /\ HealInv(d)
    BY <1>1 DEF HealKept, Kept, Alone
  <2>2. Agree(results[d], exits[d])' /\ (late[d] <= Times({-1}, results[d]))' BY <2>1 DEF HealInv
  <2>3. Told(d)' BY <2>1 DEF HealInv, Told
  <2>4. QED BY <2>1, <2>2, <2>3 DEF HealInv
<1>2. QED BY <1>1 DEF HealKept

\* Until it is answered, it was told nothing.
LEMMA NotTold ==
  ASSUME MoveType, NEW c \in Calls, RequestInv(c), at[c] # "answered",
         NEW place \in Places, Go(c, place)
  PROVE  at'[c] = place /\ Told(c)'
<1>1. at'[c] = place /\ answer'[c] = "none" BY Moves DEF RequestInv
<1>2. QED BY <1>1 DEF Told

LEMMA SenseHeals ==
  ASSUME SoundModels, MoveType, HealType, NEW c \in Calls, RequestInv(c), HealInv(c), Sense(c)
  PROVE  HealKept(c)
<1>1. PICK m \in Models, h \in Healths :
        /\ before' = [before EXCEPT ![c] = Some(h)]
        /\ pathway' = [pathway EXCEPT ![c] = Some(DecisionFor[m][h].pathway)]
        /\ commands' = [commands EXCEPT ![c] = DecisionFor[m][h].commands]
        /\ Go(c, IF DecisionFor[m][h].commands = << >> THEN "sense_again" ELSE "command")
  BY DEF Sense
<1> DEFINE d == DecisionFor[m][h]
<1>2. Listed(d.commands) /\ (d.pathway = "no_action" => IsHealthy(h)) BY DEF SoundModels
<1>3. UNCHANGED <<results, exits, late>> /\ at[c] = "sense" BY DEF Sense
<1>4. results[c] = << >> BY <1>3 DEF HealInv
<1>5. /\ before'[c] = Some(h) /\ pathway'[c] = Some(d.pathway) /\ commands'[c] = d.commands
      /\ \A e \in Calls \ {c} : UNCHANGED <<before[e], pathway[e], commands[e], results[e], exits[e], late[e]>>
      /\ HealType'
  BY <1>1, <1>2, <1>3 DEF HealType
<1> HIDE DEF d
<1>6. PICK place \in {"command", "sense_again"} :
        Go(c, place) /\ (place = "sense_again" <=> d.commands = << >>)
  BY <1>1 DEF d
<1>7. at'[c] = place /\ Told(c)' BY <1>3, <1>6, NotTold DEF Places
<1>8. HealInv(c)'
  <2>1. Agree(results[c], exits[c])' /\ (late[c] <= Times({-1}, results[c]))' BY <1>3 DEF HealInv
  <2>2. at'[c] = "command" => Len(results'[c]) < Len(commands'[c])
    <3>1. d.commands # << >> => Len(d.commands) > 0 BY <1>2 DEF Listed
    <3>2. QED BY <1>3, <1>4, <1>5, <1>6, <1>7, <3>1
  <2>3. at'[c] = "sense_again" => Len(results'[c]) = Len(commands'[c])
    BY <1>3, <1>4, <1>5, <1>6, <1>7
  <2>4. pathway'[c] = Some("no_action") => \A k \in before'[c] : IsHealthy(k)
    BY <1>2, <1>5 DEF Some
  <2>5. late'[c] > 0 => at'[c] \in Resting BY <1>7 DEF Resting
  <2>6. QED BY <1>7, <2>1, <2>2, <2>3, <2>4, <2>5 DEF HealInv
<1>9. QED BY <1>5, <1>8 DEF HealKept

\* A command is done: its code is noted, which its process exited with or which is -1.
LEMMA ResultHeals ==
  ASSUME MoveType, HealType, NEW c \in Calls, RequestInv(c), HealInv(c),
         at[c] = "command", NEW code \in Codes, Result(c, code), UNCHANGED decisionVars,
         \/ code = -1 /\ UNCHANGED exits /\ (UNCHANGED late \/ late' = [late EXCEPT ![c] = @ + 1])
         \/ exits' = [exits EXCEPT ![c] = Append(@, code)] /\ UNCHANGED late
  PROVE  HealKept(c)
<1>1. UNCHANGED <<before, pathway, commands>> BY DEF decisionVars
<1>2. results[c] \in Seq(Codes) /\ exits[c] \in Seq(Codes) /\ Len(commands[c]) \in Nat
  BY DEF HealType, Listed
<1>3. results' = [results EXCEPT ![c] = Append(results[c], code)] BY DEF Result
<1>4. /\ results'[c] = Append(results[c], code) /\ Len(results'[c]) = Len(results[c]) + 1
  BY <1>2, <1>3 DEF HealType
<1>5. exits'[c] = Append(exits[c], code) \/ (code = -1 /\ exits'[c] = exits[c])
  BY DEF HealType
<1>6. /\ HealType'
      /\ \A d \in Calls \ {c} :
           UNCHANGED <<before[d], pathway[d], commands[d], results[d], exits[d], late[d]>>
  <2>1. Append(results[c], code) \in Seq(Codes) /\ Append(exits[c], code) \in Seq(Codes) BY <1>2
  <2>2. exits' \in [Calls -> Seq(Codes)] /\ \A d \in Calls \ {c} : exits'[d] = exits[d]
    BY <2>1 DEF HealType
  <2>3. results' \in [Calls -> Seq(Codes)] /\ \A d \in Calls \ {c} : results'[d] = results[d]
    BY <1>3, <2>1 DEF HealType
  <2>4. late' \in [Calls -> Nat] /\ \A d \in Calls \ {c} : late'[d] = late[d]
    <3>1. late \in [Calls -> Nat] BY DEF HealType
    <3>2. UNCHANGED late \/ late' = [late EXCEPT ![c] = @ + 1] OBVIOUS
    <3>3. QED BY <3>1, <3>2
  <2>5. QED BY <1>1, <2>2, <2>3, <2>4 DEF HealType
<1>7. PICK place \in {"command", "sense_again"} :
        Go(c, place) /\ (place = "sense_again" <=> Len(results'[c]) = Len(commands[c]))
  BY DEF Result
<1>8. at'[c] = place /\ Told(c)' BY <1>7, NotTold DEF Places
<1>9. HealInv(c)'
  <2>1. Agree(results'[c], exits'[c])
    <3>1. Agree(results[c], exits[c]) BY DEF HealInv
    <3>2. CASE exits'[c] = Append(exits[c], code) BY <1>2, <1>4, <3>1, <3>2, ExitAgrees
    <3>3. CASE code = -1 /\ exits'[c] = exits[c] BY <1>2, <1>4, <3>1, <3>3, NoExitAgrees
    <3>4. QED BY <1>5, <3>2, <3>3
  <2>2. Len(results'[c]) <= Len(commands'[c]) BY <1>1, <1>2, <1>4 DEF HealInv
  <2>3. at'[c] = "command" => Len(results'[c]) < Len(commands'[c])
    BY <1>1, <1>2, <1>4, <1>7, <1>8, <2>2
  <2>4. at'[c] = "sense_again" => Len(results'[c]) = Len(commands'[c])
    BY <1>1, <1>7, <1>8
  <2>5. pathway'[c] = Some("no_action") => \A h \in before'[c] : IsHealthy(h)
    BY <1>1 DEF HealInv
  <2>6. late'[c] <= Times({-1}, results'[c])
    <3>1. /\ Times({-1}, results'[c]) = Times({-1}, results[c]) + (IF code = -1 THEN 1 ELSE 0)
          /\ Times({-1}, results[c]) \in Nat
      <4>1. \A codes : Times(codes, Append(results[c], code))
                         = Times(codes, results[c]) + (IF code \in codes THEN 1 ELSE 0)
        BY <1>2, TimesAppend
      <4>2. \A codes : Times(codes, results[c]) \in Nat BY <1>2, TimesType
      <4>3. Times({-1}, Append(results[c], code))
              = Times({-1}, results[c]) + (IF code \in {-1} THEN 1 ELSE 0)
        BY <4>1
      <4>4. QED BY <1>4, <4>2, <4>3
    <3>2. late \in [Calls -> Nat] /\ late[c] <= Times({-1}, results[c]) BY DEF HealType, HealInv
    <3>3. UNCHANGED late \/ (code = -1 /\ late' = [late EXCEPT ![c] = @ + 1]) OBVIOUS
    <3>4. late'[c] = late[c] \/ (code = -1 /\ late'[c] = late[c] + 1) BY <3>2, <3>3
    <3>5. late[c] \in Nat BY <3>2
    <3> DEFINE t == Times({-1}, results[c])
               u == Times({-1}, results'[c])
    <3>6. u = t + (IF code = -1 THEN 1 ELSE 0) /\ t \in Nat /\ late[c] <= t BY <3>1, <3>2
    <3> HIDE DEF t, u
    <3>7. late'[c] <= u BY <3>4, <3>5, <3>6
    <3> USE DEF u
    <3>8. QED BY <3>7
  <2>7. late'[c] > 0 => at'[c] \in Resting BY <1>8 DEF Resting
  <2>8. QED BY <1>8, <2>1, <2>3, <2>4, <2>5, <2>6, <2>7 DEF HealInv
<1>10. QED BY <1>6, <1>9 DEF HealKept

\* A program is started, or the heal ends: nothing is noted.
LEMMA NothingHeals ==
  ASSUME HealType, NEW c \in Calls, HealInv(c),
         UNCHANGED <<before, pathway, commands, results, exits, late>>, Told(c)',
         at'[c] \in {"answered", "dropped"} \/ at'[c] = at[c]
  PROVE  HealKept(c)
<1>1. HealType' BY DEF HealType
<1>2. Agree(results[c], exits[c])' /\ (late[c] <= Times({-1}, results[c]))' BY DEF HealInv
<1>3. HealInv(c)' BY <1>2 DEF HealInv, Resting
<1>4. QED BY <1>1, <1>3 DEF HealKept

LEMMA WorkHeals ==
  ASSUME SoundModels, MoveType, HealType, NEW c \in Calls, RequestInv(c), HealInv(c), op' = op,
         Work(c) \/ ChildExits(c) \/ DropHeal(c)
  PROVE  HealKept(c)
<1>1. {0, 1, -1} = Codes BY DEF Codes
<1>2. CASE Sense(c) BY <1>2, SenseHeals
<1>3. CASE Refuse(c) \/ Late(c)
  <2>1. at[c] = "command" BY <1>3 DEF Refuse, Late, RequestInv
  <2>2. QED BY <1>1, <1>3, <2>1, ResultHeals DEF Refuse, Late
<1>4. CASE ChildExits(c)
  <2>1. at[c] = "command" BY <1>4 DEF ChildExits, RequestInv
  <2>2. QED BY <1>1, <1>4, <2>1, ResultHeals DEF ChildExits
<1>5. CASE Start(c)
  <2>1. CASE Result(c, -1) BY <1>1, <1>5, <2>1, ResultHeals DEF Start
  <2>2. CASE UNCHANGED <<at, answer, results>>
    <3>1. UNCHANGED <<before, pathway, commands, results, exits, late>>
      BY <1>5, <2>2 DEF Start, decisionVars
    <3>2. Told(c)' BY <2>2, <3>1 DEF HealInv, Told
    <3>3. QED BY <2>2, <3>1, <3>2, NothingHeals
  <2>3. QED BY <1>5, <2>1, <2>2 DEF Start
<1>6. CASE SenseAgain(c)
  <2>1. /\ at[c] = "sense_again" /\ Answer(c, Outcome(c)) /\ UNCHANGED healVars
        /\ Outcome(c) \in Kinds
    BY <1>6 DEF SenseAgain, Outcome, Kinds
  <2>2. at'[c] = "answered" /\ answer'[c] = Outcome(c) BY <2>1, Moves
  <2>3. Told(c)' BY <2>1, <2>2, OutcomeTells
  <2>4. QED BY <2>1, <2>2, <2>3, NothingHeals DEF healVars, decisionVars
<1>7. CASE DropHeal(c)
  <2>1. /\ Go(c, "dropped") /\ at[c] # "answered"
        /\ UNCHANGED <<before, pathway, commands, results, exits, late>>
    BY <1>7 DEF DropHeal, decisionVars
  <2>2. at'[c] = "dropped" /\ Told(c)' BY <2>1, NotTold DEF Places
  <2>3. QED BY <2>1, <2>2, NothingHeals
<1>8. QED BY <1>2, <1>3, <1>4, <1>5, <1>6, <1>7 DEF Work

HealsInv == HealType /\ \A c \in Calls : HealInv(c)

LEMMA HealsInitInv == DaemonInit => HealsInv
<1> SUFFICES ASSUME DaemonInit PROVE HealsInv OBVIOUS
<1>1. HealType BY DEF DaemonInit, HealType, Listed
<1>2. ASSUME NEW c \in Calls PROVE HealInv(c)
  <2>1. /\ at[c] = "none" /\ answer[c] = "none" /\ before[c] = None
        /\ results[c] = << >> /\ exits[c] = << >> /\ late[c] = 0
    BY DEF DaemonInit, ApiInit
  <2>2. Agree(results[c], exits[c]) /\ late[c] <= Times({-1}, results[c])
    BY <2>1, NothingAgrees, NoTimes
  <2>3. Told(c) BY <2>1 DEF Told
  <2>4. QED BY <2>1, <2>2, <2>3 DEF HealInv, None
<1>3. QED BY <1>1, <1>2 DEF HealsInv

LEMMA HealsNextInv ==
  ASSUME SoundModels, DaemonInv, HealsInv, [DaemonNext]_daemonVars PROVE HealsInv'
<1>1. MoveType BY DEF DaemonInv, RequestType
<1>2. CASE ApiNext /\ UNCHANGED healVars BY <1>1, <1>2, ApiHeals DEF DaemonInv, HealsInv
<1>3. ASSUME NEW c \in Calls, (Work(c) \/ ChildExits(c) \/ DropHeal(c)) /\ UNCHANGED held
      PROVE  HealsInv'
  <2>1. Kept(c) BY <1>3, WorkKeeps DEF DaemonInv, WorkKept
  <2>2. op' = op BY <2>1 DEF Kept
  <2>3. HealKept(c) BY <1>1, <1>3, <2>2, WorkHeals DEF DaemonInv, HealsInv
  <2>4. QED BY <2>1, <2>3, HealIsKept DEF HealsInv
<1>4. CASE UNCHANGED daemonVars
  <2>1. UNCHANGED <<op, at, answer, before, pathway, commands, results, exits, late>>
    BY <1>4 DEF daemonVars, apiVars, requestVars, healVars, decisionVars
  <2>2. HealType' BY <2>1 DEF HealsInv, HealType
  <2>3. ASSUME NEW c \in Calls PROVE HealInv(c)'
    <3>1. Agree(results[c], exits[c])' /\ (late[c] <= Times({-1}, results[c]))' BY <2>1 DEF HealsInv, HealInv
    <3>2. Told(c)' BY <2>1 DEF HealsInv, HealInv, Told
    <3>3. QED BY <2>1, <3>1, <3>2 DEF HealsInv, HealInv
  <2>4. QED BY <2>2, <2>3 DEF HealsInv
<1>5. QED BY <1>2, <1>3, <1>4 DEF DaemonNext

LEMMA TellsHeals == DaemonInv /\ HealsInv => HealTells
<1> SUFFICES ASSUME DaemonInv, HealsInv, NEW c \in Calls
             PROVE  Told(c) /\ (child[c] = "running" => at[c] = "command")
  BY DEF HealTells, Told
<1>1. QED BY DEF DaemonInv, RequestInv, HealsInv, HealInv

\* What a heal is told is what became of its commands, whatever the daemon makes of
\* return codes, and no command outlives its request (agent.rs:140-171, 258-296).
THEOREM HealsAreTold == ASSUME SoundModels PROVE DaemonSpec => []HealTells
<1>1. DaemonSpec => DaemonInit /\ [][DaemonNext]_daemonVars BY DEF DaemonSpec
<1>2. DaemonInv /\ HealsInv /\ [DaemonNext]_daemonVars => HealsInv' BY HealsNextInv
<1>3. QED BY <1>1, <1>2, HealsInitInv, TellsHeals, DaemonInvariance, PTL

\* The rules decide so, and an agent with no model needs no assumption (agent.rs:140-171).
LEMMA RulesAreSound == Models = {None} => SoundModels
<1> SUFFICES ASSUME Models = {None}, NEW h \in Healths
             PROVE  /\ Listed(DecisionFor[None][h].commands)
                    /\ DecisionFor[None][h].pathway # "no_action"
  BY DEF SoundModels
<1> DEFINE d == Planned(SymbolicDecision(h))
<1>1. DecisionFor[None][h] = d
  <2>1. UNION {Predict(x, h) : x \in None} = None BY DEF None
  <2>2. Decided(None, h) = CHOOSE e \in {d} : TRUE BY <2>1 DEF Decided, Some
  <2>3. Decided(None, h) = d BY <2>2
  <2>4. QED BY <2>3 DEF DecisionFor
<1>2. SymbolicDecision(h).plan \in Plans BY DEF SymbolicDecision, Interpret, Plans
<1>3. ASSUME NEW plan \in Plans PROVE Listed(Generated(plan))
  <2>1. \A a, b : Listed(<<a, b>>) /\ Listed(<<a>>) /\ Listed(<< >>) BY DEF Listed
  <2>2. QED BY <2>1 DEF Generated, Plans
<1>4. Listed(d.commands) BY <1>2, <1>3 DEF Planned
<1>5. d.pathway \in {"explore", "retrieve", "stabilize"}
  BY DEF Planned, SymbolicDecision, SchedulePathway
<1>6. QED BY <1>1, <1>4, <1>5

\* With no model trained, what a heal is told is what became of its commands.
COROLLARY RulesTell == ASSUME Models = {None} PROVE DaemonSpec => []HealTells
  BY HealsAreTold, RulesAreSound
=============================================================================
