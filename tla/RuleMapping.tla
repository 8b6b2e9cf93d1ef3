---------------------------- MODULE RuleMapping ----------------------------
(***************************************************************************)
(* DecisionPipeline of agent.rs: the system calls of a captured program go *)
(* through the table, or are guessed by the bilateral network where it is  *)
(* allowed to, or are missed; what was decided is kept in a ledger of the  *)
(* process and in the telemetry.  run_b1 feeds it events until too many    *)
(* are missed, and then runs the program on WSL2.                          *)
(*                                                                         *)
(* Of an event's first argument: the path, the number it is in decimal     *)
(* (None if it is not one), and the one it is in hexadecimal.  Confidences *)
(* and rates are percentages, outputs of the network hundredths.           *)
(***************************************************************************)
EXTENDS SyscallTable, Integers, Sequences, FiniteSets

CONSTANTS
  Events,             \* [nr, path, number, hex, length]: what may be captured
  Programs,           \* names a caller of stage 3 gives
  Setups,             \* [model, metrics, policy]: the configuration, the environment, stage 3
  Outputs,            \* what the first cell of the network may settle at, -100 .. 100
  FallbackThreshold,  \* 5
  MaxEvents           \* bound: events and feedbacks of one pipeline

VARIABLES
  network,   \* network, codec and confidence_threshold, if there are any
  gate,      \* B2Gate
  policy,    \* ControlledGuidancePolicy
  ledger,    \* ProcessState: [fds, mmaps, cwd, brk]
  samples,   \* TelemetryCollector.records: their outcomes, in order
  missCount,
  answers,   \* mapped: the operations answered, in order
  status,    \* running, blocked (step's error), or how run_b1 ended
  driver     \* who calls: run_b1, or the owner of the pipeline

decided == <<ledger, samples, missCount, answers>>
built == <<network, gate, policy, driver>>
vars == <<decided, built, status>>

-----------------------------------------------------------------------------
(* The model's file and when it is used.                                   *)

\* BilateralWeights::from_bytes; wellFormed: magic, version, lengths, UTF-8.
Loads(w) ==
  /\ w.wellFormed /\ w.dim # 0
  /\ w.ascent = w.dim * w.dim /\ w.descent = w.dim * w.dim /\ w.bias = w.dim

\* What the network needs beyond that, and the codec.
Fits(w) == w.finite /\ w.dim >= 3

\* try_build_b2_pipeline.
Build(model) ==
  {[tIter |-> w.tIter, dict |-> w.dict, confidence |-> model.confidence] :
     w \in {w \in model.file : /\ model.enabled /\ Loads(w) /\ Fits(w)
                               /\ w.dim = model.dim /\ w.tIter = model.tIter}}

Ready == gate.enabled /\ gate.coverage > 80 /\ gate.paired >= 100000 /\ gate.success > 90

\* forward: without iterations the input comes out; with them, a tanh.
Forward(net, nr) == IF net.tIter = 0 THEN {100 * nr} ELSE Outputs

Magnitude(n) == IF n < 0 THEN -n ELSE n

\* f64::round: halves away from zero.
Nearest(cell) == IF cell < 0 THEN -((50 - cell) \div 100) ELSE (50 + cell) \div 100

\* decode: the call whose number is next to the cell, the surer the nearer.
Decode(net, cell) ==
  {[operation |-> net.dict[nr], confidence |-> 100 - Magnitude(cell - 100 * nr)] :
     nr \in {Nearest(cell)} \cap DOMAIN net.dict}

\* try_derive, for one output of the network.
Derivable(net, cell) ==
  {d \in Decode(net, cell) : d.confidence >= net.confidence /\ d.operation \notin DerivedBlocklist}

\* What try_derive may answer: one of these options.
Derivations(nr) ==
  IF Ready /\ network # None
  THEN UNION {{Derivable(net, cell) : cell \in Forward(net, nr)} : net \in network}
  ELSE {None}

Init ==
  /\ \E s \in Setups :
       /\ network = Build(s.model) /\ policy = s.policy
       /\ gate = IF Build(s.model) = None
                 THEN [enabled |-> FALSE, coverage |-> 0, paired |-> 0, success |-> 0] ELSE s.metrics
  /\ driver \in {"run_b1", "owner"}
  /\ ledger = [fds |-> <<>>, mmaps |-> <<>>, cwd |-> "", brk |-> 0]
  /\ samples = <<>> /\ missCount = 0 /\ answers = <<>> /\ status = "running"

-----------------------------------------------------------------------------
(* One captured call.                                                      *)

Number(n) == IF n = None THEN {0} ELSE n

\* advance_state: the number of an opened file is one more than there are open;
\* addresses and brk are read as hexadecimal, with or without 0x, else 0.
Advanced(operation, e) ==
  CASE operation = "CreateFileW" -> [ledger EXCEPT !.fds = (Cardinality(DOMAIN @) + 1 :> e.path) @@ @]
    [] operation = "CloseHandle" -> [ledger EXCEPT !.fds = Restrict(@, DOMAIN @ \ Number(e.number))]
    [] operation = "VirtualAlloc" -> [ledger EXCEPT !.mmaps = (e.hex :> e.length) @@ @]
    [] operation = "VirtualFree" -> [ledger EXCEPT !.mmaps = Restrict(@, DOMAIN @ \ {e.hex})]
    [] operation = "GetCurrentDirectoryW" -> [ledger EXCEPT !.cwd = e.path]
    [] operation = "HeapAlloc_HeapFree" -> [ledger EXCEPT !.brk = e.hex]
    [] OTHER -> ledger

Record(outcome) == Len(samples) < MaxEvents /\ samples' = Append(samples, outcome)

Answer(nr, operation) == answers' = Append(answers, [nr |-> nr, operation |-> operation])

Mapped(e) == \E operation \in Intercept(e.nr) :
  /\ MayInject(operation)
  /\ ledger' = Advanced(operation, e) /\ Record("success") /\ Answer(e.nr, operation)
  /\ UNCHANGED <<missCount, status>>

MutBlocked(e) == \E operation \in Intercept(e.nr) :
  /\ ~MayInject(operation)
  /\ Record("success") /\ status' = IF driver = "run_b1" THEN "blocked" ELSE status
  /\ UNCHANGED <<ledger, missCount, answers>>

\* The error of validate_inject ends run_b1; nothing is recorded.
Blocked(e) == \E operation \in Intercept(e.nr) :
  /\ ~MayInject(operation)
  /\ status' = IF driver = "run_b1" THEN "blocked" ELSE status
  /\ UNCHANGED decided

Derived(e) == \E guess \in Derivations(e.nr) : \E d \in guess :
  /\ Intercept(e.nr) = None
  /\ Record("success") /\ Answer(e.nr, d.operation)
  /\ UNCHANGED <<ledger, missCount, status>>

Missed(e) ==
  /\ Intercept(e.nr) = None /\ None \in Derivations(e.nr)
  /\ Record("failure") /\ missCount' = missCount + 1
  /\ UNCHANGED <<ledger, answers, status>>

ShouldFallback == missCount >= FallbackThreshold

\* step; run_b1 takes no event after the miss that reaches the threshold.
Step(e) ==
  /\ status = "running" /\ (driver = "run_b1" => ~ShouldFallback)
  /\ Mapped(e) \/ Blocked(e) \/ Derived(e) \/ Missed(e)
  /\ UNCHANGED built

Feedback(positive) ==
  /\ driver = "owner"
  /\ Record(IF positive THEN "user_positive" ELSE "user_negative")
  /\ UNCHANGED <<built, ledger, missCount, answers, status>>

\* shadow_suggestion: a guess for a call the table has not, only shown.
Suggestion(nr, guess) == {d \in guess : Intercept(nr) = None /\ d.confidence > 95}

\* controlled_guidance: the suggestion, if all of the policy allows it; it
\* changes nothing.
Suggested(program, nr, guess) ==
  {d \in Suggestion(nr, guess) :
     /\ policy.enabled /\ policy.program = program /\ policy.timeout # 0
     /\ nr \in policy.syscalls /\ d.confidence > 99 /\ d.operation \in policy.operations}

\* The end of run_b1: with too many misses, WSL2 has to be there, and the
\* program is run by run_cross_platform, which may refuse.
Finish ==
  /\ driver = "run_b1" /\ status = "running"
  /\ status' \in IF ShouldFallback THEN {"unavailable", "failed", "wsl2_fallback"} ELSE {"b1_rule"}
  /\ UNCHANGED <<built, decided>>

Next ==
  \/ \E e \in Events : Step(e)
  \/ \E positive \in BOOLEAN : Feedback(positive)
  \/ Finish

Spec == Init /\ [][Next]_vars

-----------------------------------------------------------------------------
(* Properties.                                                             *)

Samples(outcome) == {i \in DOMAIN samples : samples[i] = outcome}

\* The pipeline's counter, the telemetry and what was answered tell the same
\* story, feedback of users apart: every answer is a success sample, every miss a
\* failure; and run_b1 falls back exactly when its last event was the miss that
\* reaches the threshold.  A call that was blocked is told nowhere, and with it
\* run_b1 has ended: TableNeverBlocks.
SamplesAddUp ==
  /\ missCount = Cardinality(Samples("failure")) /\ Len(answers) = Cardinality(Samples("success"))
  /\ driver = "run_b1" =>
       /\ missCount <= FallbackThreshold
       /\ missCount = FallbackThreshold => Len(samples) \in Samples("failure")
       /\ status \in {"unavailable", "failed", "wsl2_fallback"} => missCount = FallbackThreshold
       /\ status = "b1_rule" => missCount < FallbackThreshold

\* "The operations of the table pass the check of injection: none triggers Blocked"
\* (agent.rs:1425).  It is the table's operations only that Blocked is about.
TableNeverBlocks == status # "blocked"

Low(net) == {net.dict[nr] : nr \in (-1 .. 1) \cap DOMAIN net.dict}

\* A network that iterates ends in a tanh, so it can only ever name the calls
\* numbered -1, 0 and 1; and what stage 3 suggests is what the pipeline itself
\* would guess, never a call of the table and never a blocked operation.
GuessesAreBounded ==
  /\ \A i \in DOMAIN answers : \A net \in network :
       answers[i].nr \notin DOMAIN Mappings /\ net.tIter > 0 => answers[i].operation \in Low(net)
  /\ \A e \in Events, program \in Programs : \A guess \in Derivations(e.nr) :
       \A d \in Suggested(program, e.nr, guess) :
         /\ e.nr \notin DOMAIN Mappings /\ d.operation \notin DerivedBlocklist
         /\ Ready /\ \A net \in network : net.tIter > 0 => d.operation \in Low(net)
=============================================================================
