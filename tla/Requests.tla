------------------------------ MODULE Requests ------------------------------
(***************************************************************************)
(* What the daemon's API makes of a request to run a file: run,            *)
(* dispatch_endpoint and execute_macos of http.rs, with run_cross_platform *)
(* of agent.rs, which looks at the file up to five times before it runs    *)
(* it, and the macOS node of MacNode at the other end.                     *)
(*                                                                         *)
(* Each call of MacNode belongs to one request, whether it is made or not. *)
(* Requests carry the daemon's token.  The handler's steps on the file are *)
(* between two waits: it can be dropped only where it waits, but the file  *)
(* is everybody's.                                                         *)
(***************************************************************************)
EXTENDS MacNode, Naturals

CONSTANTS
  Contents,   \* what the file may hold: format, kind, whether it parses, whether it runs
  Workloads   \* op: the endpoint of each request; macos: the configurations;
              \* replacements, a bound: how often others replace or remove the file

VARIABLES
  user,      \* idle, waiting, gone
  op,        \* which endpoint the request is for: run, dispatch, execute, heal, none
  at,        \* where the handler is
  mode,      \* DispatchTarget::mode, as run_cross_platform decided it
  format,    \* fmt of run_cross_platform, which the answer reports
  ran,       \* history: the format of the content an interpreter was given
  answer,    \* none, ok, decided, or the kind of the error
  file,      \* the file every request names
  replacements, \* how often it may still be replaced
  macos,     \* MacOsConfig: none, refused (MacOsHttpClient::new does), set
  executor,  \* MockMacOsExecutor::state
  audit      \* macos_audit, as a set

fileVars    == <<file, replacements>>
mockVars    == <<executor, audit>>
localVars   == <<mode, format, ran>>
requestVars == <<user, op, at, localVars, answer, fileVars, macos, mockVars>>
apiVars     == <<vars, requestVars>>

ApiInit ==
  /\ Init
  /\ user = [c \in Calls |-> "idle"]
  /\ \E w \in Workloads : op = w.op /\ replacements = w.replacements /\ macos \in w.macos
  /\ at = [c \in Calls |-> "none"] /\ answer = [c \in Calls |-> "none"]
  /\ mode = [c \in Calls |-> None] /\ format = mode /\ ran = mode
  /\ file \in {None} \cup {Some(x) : x \in Contents}
  /\ executor = "disconnected" /\ audit = {}

Go(c, place)    == at' = [at EXCEPT ![c] = place] /\ UNCHANGED answer
Answer(c, kind) == at' = [at EXCEPT ![c] = "answered"] /\ answer' = [answer EXCEPT ![c] = kind]

-----------------------------------------------------------------------------
(* The user and the other processes.                                       *)

Ask(c) ==
  /\ user[c] = "idle" /\ op[c] # "none" /\ user' = [user EXCEPT ![c] = "waiting"]
  /\ Go(c, CASE op[c] = "execute" -> "macos" [] op[c] = "heal" -> "sense" [] OTHER -> "detect")
  /\ UNCHANGED <<vars, op, localVars, fileVars, macos, mockVars>>

Leave(c) ==
  /\ user[c] = "waiting" /\ at[c] # "answered" /\ user' = [user EXCEPT ![c] = "gone"]
  /\ UNCHANGED <<vars, op, at, localVars, answer, fileVars, macos, mockVars>>

Looking == {"detect", "kind", "again", "entry", "execute"}

\* Nobody sees a replacement while no handler still has to look.
Replace ==
  /\ replacements > 0 /\ \E c \in Calls : at[c] \in Looking
  /\ file' \in ({None} \cup {Some(x) : x \in Contents}) \ {file} /\ replacements' = replacements - 1
  /\ UNCHANGED <<vars, user, op, at, localVars, answer, macos, mockVars>>

-----------------------------------------------------------------------------
(* dispatch and dispatch_with_config: what the file is, and what may run it. *)

\* Which modes run can use; dispatch_endpoint does not ask for the configuration.
Available(m) == m \in {"static", "pe"} \/ (m = "remote" /\ macos # "none")

Decide(c, m) ==
  /\ mode' = [mode EXCEPT ![c] = Some(m)]
  /\ \/ op[c] = "dispatch" /\ Answer(c, "decided")
     \/ op[c] = "run" /\ Available(m) /\ Go(c, "again")
     \/ op[c] = "run" /\ ~Available(m) /\ Answer(c, "unavailable")

\* detect_binary_format on what the file is now.
Unknown(c) ==
  /\ \/ file = None /\ Answer(c, "file_not_found")
     \/ \E x \in file : x.format = "other" /\ Answer(c, "unrecognized_format")
  /\ UNCHANGED localVars

Detect(c) ==
  /\ at[c] = "detect"
  /\ \/ Unknown(c)
     \/ \E x \in file :
          \/ x.format = "elf" /\ Go(c, "kind") /\ UNCHANGED mode
          \/ x.format = "pe" /\ Decide(c, "pe")
          \/ x.format = "macho" /\ Decide(c, "remote")
        /\ UNCHANGED <<format, ran>>
  /\ UNCHANGED <<vars, user, op, fileVars, macos, mockVars>>

\* detect_elf_kind reads the file again, whole.
ElfKind(c) ==
  /\ at[c] = "kind"
  /\ \/ file = None /\ Answer(c, "file_not_found") /\ UNCHANGED mode
     \/ \E x \in file :
          \/ x.format # "elf" /\ Answer(c, "unrecognized_format") /\ UNCHANGED mode
          \/ x.format = "elf" /\ Decide(c, x.kind)
  /\ UNCHANGED <<vars, user, op, format, ran, fileVars, macos, mockVars>>

-----------------------------------------------------------------------------
(* run_cross_platform, after its decision.                                 *)

Again(c) ==
  /\ at[c] = "again"
  /\ \/ Unknown(c)
     \/ \E x \in file :
          x.format # "other" /\ format' = [format EXCEPT ![c] = Some(x.format)] /\ Go(c, "entry")
        /\ UNCHANGED <<mode, ran>>
  /\ UNCHANGED <<vars, user, op, fileVars, macos, mockVars>>

\* parse_binary, for the entry point only; it knows fewer forms than
\* detect_binary_format.
EntryPoint(c) ==
  /\ at[c] = "entry"
  /\ \/ file = None /\ Answer(c, "file_not_found")
     \/ \E x \in file : IF x.parses THEN Go(c, "execute") ELSE Answer(c, "parse_error")
  /\ UNCHANGED <<vars, user, op, localVars, fileVars, macos, mockVars>>

Interprets(m) == IF m = "static" THEN "elf" ELSE "pe"

MutLocally(c) ==
  \E m \in mode[c] \cap {"static", "pe"} :
    /\ \/ file = None /\ Answer(c, "file_not_found") /\ UNCHANGED ran
       \/ \E x \in file :
            /\ Answer(c, IF x.format = Interprets(m) /\ x.runs THEN "ok" ELSE "unavailable")
            /\ ran' = [ran EXCEPT ![c] = Some(x.format)]
    /\ UNCHANGED vars

\* The interpreter of the mode, if fmt is still its format; it answers only for
\* a program that it takes and that exits.
Locally(c) ==
  \E m \in mode[c] \cap {"static", "pe"} :
    /\ \/ Interprets(m) \notin format[c] /\ Answer(c, "unavailable") /\ UNCHANGED ran
       \/ Interprets(m) \in format[c] /\ file = None /\ Answer(c, "file_not_found") /\ UNCHANGED ran
       \/ Interprets(m) \in format[c] /\ \E x \in file :
            /\ Answer(c, IF x.format = Interprets(m) /\ x.runs THEN "ok" ELSE "unavailable")
            /\ ran' = [ran EXCEPT ![c] = Some(x.format)]
    /\ UNCHANGED vars

\* MacOsHttpClient::new, and the node is sent what the file is now, whatever fmt is.
Remotely(c) ==
  /\ "remote" \in mode[c]
  /\ \/ macos = "refused" /\ Answer(c, "unavailable") /\ UNCHANGED <<vars, ran>>
     \/ macos = "set" /\ file = None /\ Answer(c, "file_not_found") /\ UNCHANGED <<vars, ran>>
     \/ macos = "set" /\ file # None /\ Go(c, "remote") /\ Send(c) /\ UNCHANGED ran

Execute(c) ==
  /\ at[c] = "execute" /\ (Locally(c) \/ Remotely(c))
  /\ UNCHANGED <<user, op, mode, format, fileVars, macos, mockVars>>

-----------------------------------------------------------------------------
(* execute_macos: with a client to the node, or with the mock executor.    *)

Event(kind, c) == [kind |-> kind, call |-> c]

ExecuteMacos(c) ==
  /\ at[c] = "macos"
  /\ \/ macos = "set" /\ Go(c, "remote") /\ Send(c) /\ UNCHANGED audit
     \/ macos = "set" /\ Answer(c, "remote") /\ UNCHANGED <<vars, audit>>
     \/ macos # "set" /\ Go(c, "mock") /\ audit' = audit \cup {Event("sent", c)} /\ UNCHANGED vars
  /\ UNCHANGED <<user, op, localVars, fileVars, macos, executor>>

\* The wait for the mock runs out, or its authentication or the request is
\* refused, or it succeeds: while its lock is held it is never seen running,
\* so that cancel_macos has nothing to cancel.
Mock(c) ==
  /\ at[c] = "mock"
  /\ \/ Answer(c, "timeout") /\ UNCHANGED executor
     \/ executor = "disconnected" /\ Answer(c, "executor") /\ UNCHANGED executor
     \/ executor' = "ready" /\ (Answer(c, "executor") \/ Go(c, "audit"))
  /\ UNCHANGED <<vars, user, op, localVars, fileVars, macos, audit>>

\* The call to the node returns, with a response or an error.
RemoteAnswers(c) ==
  /\ at[c] = "remote"
  /\ \/ client[c] = "ok" /\ op[c] = "run" /\ Answer(c, "ok")
     \/ client[c] = "ok" /\ op[c] = "execute" /\ Go(c, "audit")
     \/ client[c] \in {"failed", "gone"} /\ Answer(c, IF op[c] = "run" THEN "unavailable" ELSE "remote")
  /\ UNCHANGED <<vars, user, op, localVars, fileVars, macos, mockVars>>

Audit(c) ==
  /\ at[c] = "audit" /\ audit' = audit \cup {Event("received", c)} /\ Answer(c, "ok")
  /\ UNCHANGED <<vars, user, op, localVars, fileVars, macos, executor>>

-----------------------------------------------------------------------------
\* The server drops a handler whose connection was closed where it waits, and
\* with it a call to the node.
DropRequest(c) ==
  /\ user[c] = "gone" /\ at[c] \in {"remote", "mock", "audit"} /\ Go(c, "dropped")
  /\ IF client[c] = "waiting" THEN GiveUp(c) ELSE UNCHANGED vars
  /\ UNCHANGED <<user, op, localVars, fileVars, macos, mockVars>>

ApiNext ==
  \/ (NodeNext \/ \E c \in Calls : GiveUp(c)) /\ UNCHANGED requestVars
  \/ \E c \in Calls :
       \/ Ask(c) \/ Leave(c)
       \/ Detect(c) \/ ElfKind(c) \/ Again(c) \/ EntryPoint(c) \/ Execute(c)
       \/ ExecuteMacos(c) \/ Mock(c) \/ RemoteAnswers(c) \/ Audit(c) \/ DropRequest(c)
  \/ Replace

\* As on the node: a connection that closed is noticed.
ApiFairness == Fairness /\ \A c \in Calls : WF_apiVars(DropRequest(c))

ApiSpec == ApiInit /\ [][ApiNext]_apiVars /\ ApiFairness

-----------------------------------------------------------------------------
\* A request that is told ok was executed, and is told what was: the format of an
\* answer is that of the content a local interpreter ran, although the file may be
\* replaced between any two looks at it (agent.rs:736-858); what was sent to a node
\* ran there to its end; and the audit holds the response (http.rs:387-478).
ReportsWhatRan ==
  \A c \in Calls : answer[c] = "ok" =>
    /\ mode[c] \cap {"static", "pe"} # {} => ran[c] = format[c]
    /\ client[c] # "idle" => client[c] = "ok" /\ process[c] = "exited"
    /\ op[c] = "execute" => Event("received", c) \in audit

\* A program does not go on on the node when nobody waits for it or it was
\* cancelled: a user who leaves stops it through the daemon's handler, its
\* connection to the node and the node's task, a call to the node that ends early
\* through the last two, and a cancel through the token of the call it reached
\* (http.rs:404, remote_macos.rs:471, lib.rs:68-71, 139).
UnwantedStops ==
  /\ CancelEnds
  /\ \A c \in Calls : "gone" \in {user[c], client[c]} ~> process[c] # "running"
=============================================================================
