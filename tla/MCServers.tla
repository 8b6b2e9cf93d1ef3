----------------------------- MODULE MCServers -----------------------------
EXTENDS Integers, Sequences, SequencesExt, TLC, Options

\* The events and configurations that the pipeline of RuleMapping is checked for.

\* "16", as ptrace prints it, and "0x10" are the same number, and are read as
\* two; text that is no number at all.
Sixteen == [path |-> "16", number |-> Some(16), hex |-> 22, length |-> 2]
Hex10 == [path |-> "0x10", number |-> None, hex |-> 16, length |-> 1]
One == [path |-> "1", number |-> Some(1), hex |-> 1, length |-> 0]
Letters == [path |-> "/a", number |-> None, hex |-> 0, length |-> 0]

CallOf(nr, arg) == [nr |-> nr] @@ arg

MCEvents ==
  {CallOf(2, Letters), CallOf(3, One), CallOf(3, Letters), CallOf(5, One), CallOf(9, Sixteen), CallOf(9, Hex10),
   CallOf(11, Hex10), CallOf(12, Sixteen), CallOf(79, Letters), CallOf(87, Letters), CallOf(300, One), CallOf(301, Letters)}

File == [wellFormed |-> TRUE, dim |-> 3, tIter |-> 5, ascent |-> 9, descent |-> 9, bias |-> 3,
         finite |-> TRUE, dict |-> 0 :> "ReadFile" @@ 1 :> "WriteFile" @@ 300 :> "DeleteFileW" @@ 301 :> "WSAStartup"]

Model(file) == [enabled |-> TRUE, dim |-> 3, tIter |-> 5, confidence |-> 70, file |-> file]

Open == [enabled |-> TRUE, coverage |-> 81, paired |-> 100000, success |-> 91]

Stage3 == [enabled |-> TRUE, program |-> "demo", timeout |-> 1000, syscalls |-> {301}, operations |-> {"ReadFile", "WSAStartup"}]

Setup(model, metrics) == [model |-> model, metrics |-> metrics, policy |-> Stage3]

\* A network that may guess, one that passes its input on, one that has just
\* not enough coverage, and a file that does not load.
MCSetups ==
  {Setup(Model(Some(File)), Open),
   Setup([Model(Some([File EXCEPT !.tIter = 0])) EXCEPT !.tIter = 0], Open),
   Setup(Model(Some(File)), [Open EXCEPT !.coverage = 80]),
   Setup(Model(Some([File EXCEPT !.bias = 2])), Open)}

MCOutputs == {-100, -40, 0, 60, 97, 100}
MCPrograms == {"demo", "other"}

-----------------------------------------------------------------------------
\* The jobs that LocalEngine is checked for.

Text(text) == [text |-> text, number |-> None, decimal |-> None]
Decimal(n) == [text |-> "decimal", number |-> Some(n), decimal |-> Some(n)]
Hex(n) == [text |-> "0x", number |-> Some(n), decimal |-> None]

Captured(nr, name, args) == [nr |-> nr, name |-> name, args |-> args]

Plain(nr) == Captured(nr, "call", <<>>)

Native == [exists |-> TRUE, parsed |-> TRUE, elf |-> TRUE]
Foreign == [Native EXCEPT !.elf = FALSE]
Garbage == [exists |-> TRUE, parsed |-> FALSE, elf |-> FALSE]
Missing == [exists |-> FALSE, parsed |-> FALSE, elf |-> FALSE]

Job(by, injector, calls) ==
  [by |-> by, binary |-> Native, platform |-> "linux", injector |-> injector, calls |-> calls, confirmed |-> TRUE]

Null == Text("/dev/null")
Temp == Text("/tmp")
Path == Text("/a")

\* open with every combination of flags that matters, mmap with every
\* protection, files by descriptor, a call no table has; too few arguments.
Program ==
  <<Captured(2, "open", <<Null, Decimal(64), Decimal(0)>>), Captured(2, "open", <<Path, Decimal(512)>>),
    Captured(2, "open", <<Temp, Hex(576)>>), Captured(2, "open", <<Path, Hex(1088)>>), Captured(2, "open", <<Path>>),
    Captured(0, "read", <<Decimal(3), Text("b"), Decimal(1)>>), Captured(8, "lseek", <<Text("x"), Decimal(0), Decimal(0), Decimal(9)>>),
    Captured(3, "close", <<Decimal(3)>>), Captured(77, "ftruncate", <<Hex(3), Decimal(1)>>),
    Captured(1, "write", <<Decimal(1)>>), Plain(999)>>

Mapping(prot) == Captured(9, "mmap", <<Decimal(0), Decimal(5000), prot, Decimal(34), Decimal(3), Decimal(0)>>)

Protecting(prot) == Captured(10, "mprotect", <<Decimal(0), Decimal(1), prot>>)

MemoryCalls == [i \in 1 .. 16 |-> IF i <= 8 THEN Mapping(Hex(i - 1)) ELSE Protecting(Decimal(i - 9))]

All == [i \in 1 .. 320 |-> Plain(i - 1)]

Handles == <<Plain(3), Plain(1), Plain(3)>>

Injectors == {"mock", "preset", "emulation", "platform"}

MCJobs ==
  {Job("events", i, c) : i \in Injectors, c \in {<<>>, <<Plain(1)>>, Handles, Program, MemoryCalls}}
    \cup {Job("events", "mock", All), Job("rules", "mock", All), Job("rules", "mock", Program)}
    \cup {[Job("events", "mock", Handles) EXCEPT !.binary = Garbage]}
    \cup {[Job("cycle", "platform", <<Plain(1)>>) EXCEPT !.binary = b, !.platform = p] :
            b \in {Native, Foreign, Garbage, Missing}, p \in {"linux", "windows", "other"}}
    \cup {[Job("pilot", "emulation", <<Captured(c[1], c[2], c[3])>>) EXCEPT !.confirmed = f] :
            f \in BOOLEAN,
            c \in {<<1, "write", <<Path>>>>, <<1, "read", <<>>>>, <<9, "mmap", <<Decimal(0)>>>>,
                   <<9, "mmap", <<Hex(5000)>>>>, <<9, "mmap", <<Path>>>>, <<12, "brk", <<>>>>,
                   <<12, "brk", <<Hex(4096)>>>>, <<2, "open", <<Path>>>>, <<10, "mprotect", <<>>>>}}
=============================================================================
