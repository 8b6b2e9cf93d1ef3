------------------------------ MODULE Servers ------------------------------
(***************************************************************************)
(* Who may serve the system calls of a Linux program here: the kernel of   *)
(* the interpreter (GuestKernel), or the emulation in front of it          *)
(* (Emulation); the executor that carries captured calls out on the host   *)
(* (HostExecutor); the pipeline that only maps and counts them             *)
(* (RuleMapping); the local engine that maps and injects them              *)
(* (LocalEngine).  They share no state; one serves a program.              *)
(***************************************************************************)
EXTENDS Emulation, Functions

CONSTANTS
  Dirs, Home, Names, Here, HostFds, Counts, MaxHostCalls,                     \* of HostExecutor
  Events, Programs, Setups, Outputs, FallbackThreshold, MaxEvents,            \* of RuleMapping
  Jobs, MmapBase, HeapBase, PageBytes                                         \* of LocalEngine

\* Sizes are unsigned.
ASSUME CountsAssumption == Counts \subseteq Nat

\* A configuration names one file or none; a tanh is between -1 and 1; the threshold
\* is 5.
ASSUME RulesAssumption ==
  /\ \A s \in Setups : \A v, w \in s.model.file : v = w
  /\ Outputs \subseteq -100 .. 100
  /\ FallbackThreshold \in Nat \ {0}

\* Calls as captured: no argument has been converted yet.
ASSUME JobsAssumption ==
  \A j \in Jobs :
    /\ j.calls \in Seq(Range(j.calls)) /\ (j.by = "pilot" => j.calls # <<>>)
    /\ \A c \in Range(j.calls) :
         /\ c.args \in Seq(Range(c.args))
         /\ \A a \in Range(c.args) :
              DOMAIN a = {"text", "number", "decimal"} /\ a.number \in Option(a.number)

VARIABLES
  server,
  handles, hostNextFd, opens, pipes, cwd, names, dirs, sizes, pages, nextPage, heapBrk, heapData, ctrl, report,
  network, gate, policy, ledger, samples, missCount, answers, runStatus, driver,
  job, source, engineReport, asked, emulated, outcome

hostVars == <<handles, hostNextFd, opens, pipes, cwd, names, dirs, sizes, pages, nextPage, heapBrk, heapData, ctrl, report>>
rulesVars == <<network, gate, policy, ledger, samples, missCount, answers, runStatus, driver>>
engineVars == <<job, source, engineReport, asked, emulated, outcome>>

Host == INSTANCE HostExecutor WITH nextFd <- hostNextFd, Fds <- HostFds, MaxCalls <- MaxHostCalls

Rules == INSTANCE RuleMapping WITH status <- runStatus

Engine == INSTANCE LocalEngine WITH report <- engineReport

\* A server that does not serve stays in one of its first states.
ServersInit ==
  /\ server \in {"kernel", "emulation", "host", "rules", "engine"}
  /\ Init /\ Host!Init /\ Rules!Init /\ Engine!Init
  /\ server \notin {"kernel", "emulation"} => guest = CHOOSE g \in Guests : TRUE
  /\ server # "rules" => driver = "owner" /\ network = None /\ ~gate.enabled
  /\ server # "engine" => job = CHOOSE j \in Jobs : TRUE

ServersNext ==
  \/ server = "kernel" /\ Next /\ UNCHANGED <<server, hostVars, rulesVars, engineVars>>
  \/ server = "emulation" /\ EmulationNext /\ UNCHANGED <<server, hostVars, rulesVars, engineVars>>
  \/ server = "host" /\ Host!Next /\ UNCHANGED <<server, vars, rulesVars, engineVars>>
  \/ server = "rules" /\ Rules!Next /\ UNCHANGED <<server, vars, hostVars, engineVars>>
  \/ server = "engine" /\ Engine!Next /\ UNCHANGED <<server, vars, hostVars, rulesVars>>

ServersSpec == ServersInit /\ [][ServersNext]_<<server, vars, hostVars, rulesVars, engineVars>>

-----------------------------------------------------------------------------
(* The properties of the parts.                                            *)

\* See HostExecutor: a pipe's reading end gets what its writer wrote, in order.
PipesHoldTogether == Host!PipesHoldTogether

\* See RuleMapping: counter, telemetry and answers of the pipeline tell the same
\* story, and its guesses are of calls that the network can name.  A run that a
\* blocked call has ended is among them: what it counted until then adds up.
PipelineTells == Rules!SamplesAddUp /\ Rules!GuessesAreBounded

\* See RuleMapping: no operation of the table is blocked.
TableNeverBlocks == Rules!TableNeverBlocks

\* See LocalEngine: the report of a run says what happened to its calls.
EngineTells == Engine!EngineTells
=============================================================================
