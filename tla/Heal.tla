-------------------------------- MODULE Heal --------------------------------
(***************************************************************************)
(* A request to heal (http.rs), beside the requests of Requests: the agent *)
(* senses the three platforms, decides, runs the commands of its decision  *)
(* one after the other, senses again and classifies what came of it        *)
(* (diagnose_and_fix of agent.rs).                                         *)
(*                                                                         *)
(* A probe gives an output or an error; between two probes the platforms   *)
(* may do as they like.  The health of the second sensing is reported, and *)
(* nothing else reads it.                                                  *)
(***************************************************************************)
EXTENDS Requests, Wuxing, Sequences, FiniteSets

CONSTANT Models  \* what an agent may have loaded as its model when it was made, if anything

VARIABLES
  before,   \* the health it sensed first
  pathway, commands,  \* its decision
  results,  \* the return codes of the commands that are done
  child,    \* the process of the current command: none, running, killed
  exits,    \* history: the exit codes of the processes that ended by themselves
  late      \* history: how many commands were cut off by their time limit

decisionVars == <<before, pathway, commands>>
healVars   == <<decisionVars, results, child, exits, late>>
held       == <<vars, user, op, localVars, fileVars, macos, mockVars>>
daemonVars == <<apiVars, healVars>>

DaemonInit ==
  /\ ApiInit
  /\ before = [c \in Calls |-> None] /\ pathway = before
  /\ commands = [c \in Calls |-> << >>] /\ results = commands /\ exits = commands
  /\ child = [c \in Calls |-> "none"] /\ late = [c \in Calls |-> 0]

-----------------------------------------------------------------------------
(* The sensors: each slot they can fill, by what their probes say.         *)

Says(output, words) == output \in {Some(word) : word \in words}

WindowsSlot(desktop, service) ==
  LET running == desktop # None /\ ~Says(desktop, {"0"})
      unknown == service = None \/ Says(service, {""}) IN
  IF ~running /\ unknown THEN None
  ELSE Some({key \in {"docker_desktop_running"} : running}
            \cup {key \in {"docker_service_running"} : Says(service, {"Running"})})

Wsl2Slot(list) == IF Says(list, {"Running"}) THEN Some({"running"}) ELSE None

\* The version is asked for twice, once to find an endpoint if no socket exists.
DockerSlot(socket, first, second) ==
  IF ~socket /\ ~Says(first, {"27"}) THEN None
  ELSE Some({key \in {"daemon_version"} : Says(second, {"27"})})

Outputs(words) == {None} \cup {Some(word) : word \in words}

Healths ==
  {WuxingHealth([windows |-> w, wsl2 |-> l, docker |-> d]) :
     w \in {WindowsSlot(p, s) : p \in Outputs({"0", "1", ""}), s \in Outputs({"", "Running", "Stopped"})},
     l \in {Wsl2Slot(o) : o \in Outputs({"Running", "Stopped"})},
     d \in {DockerSlot(f, a, b) : f \in BOOLEAN, a \in Outputs({"", "27"}), b \in Outputs({"", "27"})}}

IsHealthy(h) == h.metal >= 9 /\ h.wood >= 9 /\ h.water >= 9

-----------------------------------------------------------------------------
(* The decision: a trained model's, if it is confident, or the symbolic    *)
(* one.  A command is known by its platform and its first word.            *)

Instruction(target, word) == [target |-> target, word |-> word]

\* PlatformCommandGenerator, plan by plan.
Generated(plan) ==
  CASE plan = "none"           -> << >>
    [] plan = "restart_docker" -> <<Instruction("wsl2", "service"), Instruction("wsl2", "service")>>
    [] plan = "reset_wsl"      -> <<Instruction("windows", "wsl"), Instruction("windows", "wsl")>>
    [] plan = "check_windows"  -> <<Instruction("windows", "get-")>>

Planned(d) == [pathway |-> d.pathway, commands |-> Generated(d.plan)]

\* The square of the distance of a prototype, in hundredths, and a health.
Distance(p, h) ==
  LET square(a, b) == (a - 10 * b) * (a - 10 * b) IN
  square(p.metal, h.metal) + square(p.wood, h.wood) + square(p.water, h.water)

\* DispatchModel::predict; near is the distance at which its confidence is least.
Predict(m, h) ==
  LET nearest == CHOOSE p \in DOMAIN m.decisions :
                   \A q \in DOMAIN m.decisions : Distance(p, h) <= Distance(q, h) IN
  IF Distance(nearest, h) <= m.near THEN Some(m.decisions[nearest]) ELSE None

Decided(m, h) ==
  LET predicted == UNION {Predict(x, h) : x \in m} IN
  CHOOSE d \in (IF predicted # None THEN predicted ELSE Some(Planned(SymbolicDecision(h)))) : TRUE

DecisionFor == [m \in Models |-> [h \in Healths |-> Decided(m, h)]]

\* SafeCommandExecutor's white list.  No generated command has a forbidden pattern.
Allowed(target) ==
  CASE target = "windows" -> {"get-", "set-", "restart-", "start-", "stop-", "test-path",
                              "wsl", "docker", "write-host"}
    [] target = "wsl2"    -> {"service", "docker", "systemctl", "journalctl", "pgrep", "test",
                              "echo", "df", "free", "mount", "uname"}
    [] target = "docker"  -> {"version", "ps", "images", "system", "restart", "start", "stop",
                              "logs", "network", "volume"}
    [] OTHER              -> {}

-----------------------------------------------------------------------------
Sense(c) ==
  /\ at[c] = "sense"
  /\ \E m \in Models, h \in Healths : LET d == DecisionFor[m][h] IN
       /\ before' = [before EXCEPT ![c] = Some(h)]
       /\ pathway' = [pathway EXCEPT ![c] = Some(d.pathway)]
       /\ commands' = [commands EXCEPT ![c] = d.commands]
       /\ Go(c, IF d.commands = << >> THEN "sense_again" ELSE "command")
  /\ UNCHANGED <<results, child, exits, late>>

\* The command that the loop of diagnose_and_fix is at.
Current(c) == commands[c][Len(results[c]) + 1]

Result(c, code) ==
  /\ results' = [results EXCEPT ![c] = Append(@, code)]
  /\ Go(c, IF Len(results'[c]) = Len(commands[c]) THEN "sense_again" ELSE "command")

Refuse(c) ==
  /\ at[c] = "command" /\ Current(c).word \notin Allowed(Current(c).target)
  /\ Result(c, -1) /\ UNCHANGED <<decisionVars, child, exits, late>>

\* run_detailed up to its wait; the program may be missing.
Start(c) ==
  /\ at[c] = "command" /\ child[c] # "running" /\ Current(c).word \in Allowed(Current(c).target)
  /\ \/ child' = [child EXCEPT ![c] = "running"] /\ UNCHANGED <<at, answer, results>>
     \/ Result(c, -1) /\ UNCHANGED child
  /\ UNCHANGED <<decisionVars, exits, late>>

\* It exits with 0, with another code, or by a signal, which leaves no code.
ChildExits(c) ==
  /\ child[c] = "running" /\ child' = [child EXCEPT ![c] = "none"]
  /\ \E code \in {0, 1, -1} : Result(c, code) /\ exits' = [exits EXCEPT ![c] = Append(@, code)]
  /\ UNCHANGED <<decisionVars, late>>

MutLate(c) ==
  /\ child[c] = "running" /\ results[c] = << >> /\ child' = [child EXCEPT ![c] = "killed"] /\ Result(c, -1)
  /\ late' = [late EXCEPT ![c] = @ + 1] /\ UNCHANGED <<decisionVars, exits>>

\* The command's timeout drops the child, which kills it (kill_on_drop).
Late(c) ==
  /\ child[c] = "running" /\ child' = [child EXCEPT ![c] = "killed"] /\ Result(c, -1)
  /\ late' = [late EXCEPT ![c] = @ + 1] /\ UNCHANGED <<decisionVars, exits>>

Times(codes, s) == Cardinality({i \in DOMAIN s : s[i] \in codes})

Count(c, codes) == Times(codes, results[c])

MutOutcome(c) ==
  IF results[c] = << >> THEN IF pathway[c] = Some("no_action") THEN "no_action" ELSE "failure"
  ELSE IF Count(c, {0}) = Len(results[c]) THEN "success"
  ELSE IF Count(c, {0}) = 0 THEN "failure"
  ELSE IF Count(c, {-1}) > 0 THEN "timeout" ELSE "partial_success"

\* determine_outcome.
Outcome(c) ==
  IF results[c] = << >> THEN IF pathway[c] = Some("no_action") THEN "no_action" ELSE "failure"
  ELSE IF Count(c, {-1}) > 0 THEN "timeout"
  ELSE IF Count(c, {0}) = Len(results[c]) THEN "success"
  ELSE IF Count(c, {0}) = 0 THEN "failure" ELSE "partial_success"

SenseAgain(c) == at[c] = "sense_again" /\ Answer(c, Outcome(c)) /\ UNCHANGED healVars

\* The handler waits nearly everywhere; a child it drops is killed.
DropHeal(c) ==
  /\ user[c] = "gone" /\ at[c] \in {"sense", "command", "sense_again"} /\ Go(c, "dropped")
  /\ child' = [child EXCEPT ![c] = IF @ = "running" THEN "killed" ELSE @]
  /\ UNCHANGED <<decisionVars, results, exits, late>>

\* What the agent does by itself; the rest is up to a command and to the server.
Work(c) == Sense(c) \/ Refuse(c) \/ Start(c) \/ Late(c) \/ SenseAgain(c)

DaemonNext ==
  \/ ApiNext /\ UNCHANGED healVars
  \/ \E c \in Calls : (Work(c) \/ ChildExits(c) \/ DropHeal(c)) /\ UNCHANGED held

\* Every probe and every command has a time limit of seconds.
DaemonFairness ==
  /\ ApiFairness
  /\ \A c \in Calls :
       WF_daemonVars(Work(c) /\ UNCHANGED held) /\ WF_daemonVars(DropHeal(c) /\ UNCHANGED held)

DaemonSpec == DaemonInit /\ [][DaemonNext]_daemonVars /\ DaemonFairness

-----------------------------------------------------------------------------
\* What a heal is told is what its commands came to, whatever the agent makes of
\* return codes: all exited with 0, all with another code, or some with each; and
\* that one was cut off by its time limit if one was, and only if one was where
\* each other exited with a code (agent.rs:61-75, 148-171).  A refused command, a
\* missing program and a death by a signal are left out here: TimeoutWasLate.
\* Nothing had to be done only on a healthy host.  No command outlives the request
\* it ran for (runner.rs:39, http.rs:345).
HealTells ==
  \A c \in Calls :
    LET Ended(codes) == Times(codes, exits[c])
        all == Len(commands[c]) IN
    /\ answer[c] = "success" => all > 0 /\ Ended({0}) = all
    /\ answer[c] = "failure" => Ended({1}) = all
    /\ answer[c] = "partial_success" => Ended({0}) \in 1 .. (all - 1) /\ Ended({0, 1}) = all
    /\ late[c] > 0 => answer[c] \in {"none", "timeout"}
    /\ answer[c] = "timeout" /\ op[c] = "heal" /\ Ended({0, 1}) + late[c] = all => late[c] > 0
    /\ answer[c] = "no_action" => all = 0 /\ \A h \in before[c] : IsHealthy(h)
    /\ child[c] = "running" => at[c] = "command"

\* "At least one command did not finish for its time limit" (agent.rs:66-67).
TimeoutWasLate == \A c \in Calls : answer[c] = "timeout" /\ op[c] = "heal" => late[c] > 0

\* A heal ends, even if no probe answers and no command ever exits, and with its
\* user gone so does the command it was at (runner.rs:44, agent.rs:258-296).
HealEnds == \A c \in Calls : at[c] = "sense" ~> at[c] \in {"answered", "dropped"}
=============================================================================
