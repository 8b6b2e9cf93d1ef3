---------------------------- MODULE LocalEngine ----------------------------
(***************************************************************************)
(* The local engine (engine/): a program's captured calls are mapped and   *)
(* injected one by one, and a report says how that went.  Beside it, the   *)
(* same captured calls through the interceptor's table (capture_and_map),  *)
(* and the one call that `daoti pilot-syscall` injects.                    *)
(*                                                                         *)
(* An injector is the mock, with operations it has been told to fail; the  *)
(* emulation of Linux, which gives out addresses and writes an audit; or   *)
(* one of the platforms', which have no process and refuse everything.     *)
(***************************************************************************)
EXTENDS ParamConvert, SyscallTable, FiniteSets

CONSTANTS
  Jobs,      \* what is run: [by, binary, platform, injector, calls, confirmed]
  MmapBase,  \* 0x1000_0000 and 0x2000_0000
  HeapBase,
  PageBytes  \* 0x1000

VARIABLES
  job,
  source,    \* MockCaptureSource.queue
  report,    \* [captured, injected, missed, partial]: of ExecutionReport or CaptureRunOutcome
  asked,     \* history: what was asked for, [nr, from, operation, args, accepted, done]
  emulated,  \* LinuxEmulationInjector: [nextMmap, heapTop, audit]
  outcome

vars == <<job, source, report, asked, emulated, outcome>>

Init ==
  /\ job \in Jobs /\ source = job.calls
  /\ report = [captured |-> 0, injected |-> 0, missed |-> <<>>, partial |-> FALSE]
  /\ asked = <<>> /\ emulated = [nextMmap |-> MmapBase, heapTop |-> HeapBase, audit |-> <<>>]
  /\ outcome = "new"

-----------------------------------------------------------------------------
(* The injectors: what they answer, and the emulation after it.            *)

Silent == {"access", "arch_prctl", "uname", "openat", "newfstatat", "close", "read"}

Audited == {"write", "WriteFile", "writev", "mmap", "brk", "mprotect"}

\* parse_u64 of the first argument, which a conversion may have replaced.
FirstNumber(args) ==
  IF args = <<>> \/ "number" \notin DOMAIN Head(args) THEN None ELSE Head(args).number

EmulationAccepts(operation, args) ==
  /\ operation \in Silent \cup Audited
  /\ operation = "mmap" => \E n \in FirstNumber(args) : n # 0

RoundUp(n) == ((n + PageBytes - 1) \div PageBytes) * PageBytes

\* LinuxEmulationInjector::inject, of what it accepts.
Emulate(operation, args) ==
  [nextMmap |-> IF operation = "mmap"
                THEN emulated.nextMmap + RoundUp(CHOOSE n \in FirstNumber(args) : TRUE)
                ELSE emulated.nextMmap,
   heapTop |-> IF operation = "brk" /\ FirstNumber(args) # None
               THEN CHOOSE n \in FirstNumber(args) : TRUE ELSE emulated.heapTop,
   audit |-> IF operation \in Audited THEN Append(emulated.audit, operation) ELSE emulated.audit]

\* Err is a refusal; a preset failure is an Ok that says it failed.
Accepts(operation, args) ==
  CASE job.injector = "platform" -> FALSE
    [] job.injector = "emulation" -> EmulationAccepts(operation, args)
    [] OTHER -> TRUE

Does(operation, args) == Accepts(operation, args) /\ (job.injector = "preset" => operation # "CloseHandle")

Inject(call, target) ==
  /\ asked' = Append(asked, [nr |-> call.nr, from |-> call.args,
                             operation |-> target.operation, args |-> target.args,
                             accepted |-> Accepts(target.operation, target.args),
                             done |-> Does(target.operation, target.args)])
  /\ emulated' = IF job.injector = "emulation" /\ Accepts(target.operation, target.args)
                 THEN Emulate(target.operation, target.args) ELSE emulated

-----------------------------------------------------------------------------
(* Getting a source of calls.                                              *)

Starts(how) == outcome = "new" /\ outcome' = how /\ UNCHANGED <<job, source, report, asked, emulated>>

\* run_with_mock_events and its custom form: parse_binary, then execute.
RunEvents ==
  /\ job.by = "events"
  /\ Starts(IF job.binary.parsed THEN "running" ELSE "parse_error")

\* run_full_cycle, which run_local calls: the two platforms' sources refuse to
\* start a process, so nothing is ever captured.
RunFullCycle ==
  /\ job.by = "cycle"
  /\ Starts(IF ~job.binary.exists THEN "not_found"
            ELSE IF ~job.binary.parsed THEN "parse_error"
            ELSE IF job.platform = "linux" THEN "denied"
            ELSE IF job.platform = "windows" /\ ~job.binary.elf THEN "denied"
            ELSE "unavailable")

\* capture_and_map, on a source the caller has.
RunRules == job.by = "rules" /\ Starts("running")

-----------------------------------------------------------------------------
(* The loop, over next_event.                                              *)

Taken == Head(source)

TakeEvent(by) ==
  /\ outcome = "running" /\ job.by = by /\ source # <<>>
  /\ source' = Tail(source) /\ UNCHANGED <<job, outcome>>

\* LocalEngine::execute: an injection that fails is noted and the loop goes on.
Map == source # <<>> /\ \E target \in MapCall(Taken.nr, Taken.args) :
  /\ TakeEvent("events")
  /\ Inject(Taken, target)
  /\ report' = IF Accepts(target.operation, target.args)
               THEN [report EXCEPT !.captured = @ + 1, !.injected = @ + 1]
               ELSE [report EXCEPT !.captured = @ + 1, !.partial = TRUE]

\* Only a list of targets, which nobody injects.
MapByRules == source # <<>> /\ \E operation \in Intercept(Taken.nr) :
  /\ TakeEvent("rules")
  /\ asked' = Append(asked, [nr |-> Taken.nr, from |-> Taken.args, operation |-> operation,
                             args |-> Taken.args, accepted |-> FALSE, done |-> FALSE])
  /\ report' = [report EXCEPT !.captured = @ + 1]
  /\ UNCHANGED emulated

Miss ==
  /\ \/ TakeEvent("events") /\ Taken.nr \notin DOMAIN MapperRows
     \/ TakeEvent("rules") /\ Intercept(Taken.nr) = None
  /\ report' = [report EXCEPT !.captured = @ + 1, !.missed = Append(@, Taken.nr)]
  /\ UNCHANGED <<asked, emulated>>

MutStatusOf(r) == IF r.captured = 0 THEN "failed" ELSE IF r.missed # <<>> THEN "partial_success" ELSE "success"

\* The status of the report; what was missed counts after the injections, and
\* capturing nothing after both.
StatusOf(r) ==
  IF r.captured = 0 THEN "failed"
  ELSE IF r.missed # <<>> \/ r.partial THEN "partial_success" ELSE "success"

End ==
  /\ outcome = "running" /\ source = <<>>
  /\ outcome' = IF job.by = "events" THEN StatusOf(report) ELSE "mapped"
  /\ UNCHANGED <<job, source, report, asked, emulated>>

-----------------------------------------------------------------------------
(* pilot_syscall.                                                          *)

\* linux_x86_64_table of the codec, a third table, by name.
CodecNames ==
  0 :> "read" @@ 1 :> "write" @@ 2 :> "open" @@ 3 :> "close" @@ 4 :> "stat" @@ 5 :> "fstat"
  @@ 8 :> "lseek" @@ 9 :> "mmap" @@ 11 :> "munmap" @@ 12 :> "brk" @@ 39 :> "getpid" @@ 60 :> "exit"
  @@ 89 :> "readlink" @@ 158 :> "arch_prctl" @@ 202 :> "futex" @@ 218 :> "set_tid_address"
  @@ 231 :> "exit_group" @@ 257 :> "openat" @@ 262 :> "newfstatat" @@ 273 :> "set_robust_list"
  @@ 302 :> "prlimit64" @@ 318 :> "getrandom"

\* Of these the codec has no mprotect.
Piloted == {"write", "mmap", "brk", "mprotect"}

\* The name given has to be the codec's for the number; nothing is injected
\* before the caller has confirmed, and then by the emulation.
Pilot ==
  /\ job.by = "pilot" /\ outcome = "new"
  /\ LET call == Head(job.calls)
         named == call.nr \in DOMAIN CodecNames /\ call.name = CodecNames[call.nr]
     IN  IF named /\ job.confirmed /\ call.name \in Piloted
         THEN /\ Inject(call, [operation |-> call.name, args |-> call.args])
              /\ outcome' = IF EmulationAccepts(call.name, call.args) THEN "ok" ELSE "unavailable"
         ELSE /\ outcome' = IF named /\ ~job.confirmed THEN "awaiting_confirmation" ELSE "unavailable"
              /\ UNCHANGED <<asked, emulated>>
  /\ UNCHANGED <<job, source, report>>

Next ==
  \/ RunEvents \/ RunFullCycle \/ RunRules
  \/ Map \/ MapByRules \/ Miss \/ End
  \/ Pilot

Spec == Init /\ [][Next]_vars

-----------------------------------------------------------------------------
(* Properties.                                                             *)

Knows(nr) == nr \in IF job.by = "events" THEN DOMAIN MapperRows ELSE DOMAIN Mappings

\* The places of the unknown calls among the first n, and of what was accepted.
UnknownTo(n) == {j \in 1 .. n : ~Knows(job.calls[j].nr)}

Accepted == {i \in DOMAIN asked : asked[i].accepted}

\* What a protection of Windows allows, as bits of PROT_*.
RightsOf(protection) ==
  CASE protection = "NOACCESS" -> {} [] protection = "READONLY" -> {1}
    [] protection = "READWRITE" -> {1, 2} [] protection = "EXECUTE" -> {4}
    [] protection = "EXECUTE_READ" -> {1, 4} [] OTHER -> {1, 2, 4}

\* A report says what happened to the calls taken so far: each was either
\* missed, and is listed, or asked for, in order; success is claimed only of a
\* program with calls, all of which were mapped and accepted.  A call of both
\* tables is the same operation in both; and memory is asked for with every
\* right the program wanted, and to be executed only if it wanted that.
EngineTells ==
  /\ job.by \in {"events", "rules"} =>
       LET n == report.captured
       IN  /\ Len(report.missed) = Cardinality(UnknownTo(n))
           /\ Len(asked) = n - Cardinality(UnknownTo(n))
           /\ \A i \in 1 .. n :
                LET nr == job.calls[i].nr
                    before == Cardinality(UnknownTo(i))
                IN  IF Knows(nr) THEN asked[i - before].nr = nr ELSE report.missed[before] = nr
           /\ report.injected = Cardinality(Accepted)
           /\ outcome = "success" =>
                /\ Len(asked) = Len(job.calls) /\ asked # <<>>
                /\ Accepted = DOMAIN asked
           /\ outcome = "failed" => job.calls = <<>>
  /\ \A i \in DOMAIN asked :
       /\ job.by # "pilot" /\ asked[i].nr \in DOMAIN Mappings => asked[i].operation = Mappings[asked[i].nr]
       /\ asked[i].nr \in {9, 10} /\ Len(asked[i].args) >= 3 /\ "meaning" \in DOMAIN asked[i].args[3] =>
            LET wanted == {r \in {1, 2, 4} : \E n \in asked[i].from[3].number : HasBit(n, r)}
                given == RightsOf(asked[i].args[3].meaning)
            IN  wanted \subseteq given /\ (4 \in given => 4 \in wanted)
=============================================================================
