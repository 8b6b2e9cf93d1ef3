----------------------------- MODULE MCMacNode -----------------------------
(* A request and its retry, whose calls take the same id, and what the file *)
(* they name may hold.                                                      *)
EXTENDS Heal, TLC

CONSTANTS c1, c2, id

TwoCalls == {c1, c2}
Retried == [c \in TwoCalls |-> id]

Content(f, k, p, r) == [format |-> f, kind |-> k, parses |-> p, runs |-> r]

\* A Mach-O file in the byte order of today's systems is detected, and does not
\* parse; a dynamic ELF may be one that the static interpreter takes.
MCContents ==
  {Content("elf", "static", TRUE, TRUE), Content("elf", "dynamic", TRUE, FALSE),
   Content("pe", "pe", TRUE, TRUE), Content("macho", "remote", TRUE, FALSE),
   Content("macho", "remote", FALSE, FALSE), Content("other", "other", FALSE, FALSE)}

Workload(first, second, n, settings) ==
  [op |-> c1 :> first @@ c2 :> second, replacements |-> n, macos |-> settings]

\* One request for a file that others replace; two that may reach the node or the
\* mock, for a file that stays; and one to heal.
MCWorkloads ==
  {Workload("run", "none", 2, {"set"}), Workload("dispatch", "none", 1, {"none"}),
   Workload("run", "execute", 0, {"none", "refused", "set"}), Workload("heal", "none", 0, {"none"})}

MCHeals == {w \in MCWorkloads : "heal" \in {w.op[c] : c \in TwoCalls}}

\* A model trained by the rules as the command line does it (its confidence of 0.7
\* is a distance of 42 hundredths), and one that was asked to be certain and was
\* edited: its commands are refused.
Levels == {0, 25, 50, 75, 100}
Grid == [metal : Levels, wood : Levels, water : Levels]

MCModels ==
  {None,
   Some([decisions |-> [p \in Grid |-> Planned(Interpret(p, 100))], near |-> 42 * 42]),
   Some([decisions |-> [p \in Grid |-> [pathway |-> "restart_daemon",
                                       commands |-> <<Instruction("docker", "compose")>>]],
         near |-> 0])}
=============================================================================
