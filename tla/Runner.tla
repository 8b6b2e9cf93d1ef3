------------------------------- MODULE Runner -------------------------------
(***************************************************************************)
(* daoti run of cli/commands.rs: what a command is decides whether an      *)
(* interpreter executes it, and the answer of the command is then the exit *)
(* code of its program.  Each interpreter is the module of its loader; the *)
(* processor that follows is only what it ends with.  A command is         *)
(* [empty, target, file], where the target is "auto" if none is given and  *)
(* file is what a file of that name holds, or None.                        *)
(***************************************************************************)
EXTENDS Loader

CONSTANTS
  Commands,
  ExitCodes,
  PeFiles, PeRoom, PeStack,
  MachoFiles, MachoMin, MachoMax, MachoStackBase, MachoStack,
  StaticFiles, StaticStack, StaticPageSize, StaticHeapSize, StaticMmapRoom

VARIABLES
  command,
  phase,      \* "read", an interpreter, "symbolic", or "answered"
  answer,     \* Option: what the process exits with
  exited,     \* Option: the exit code of the program
  pe, peStage, peTodo, peMem, peWords, peStackPointer,
  macho, machoStage, machoAt, machoTodo, entryoff, machoMem, fileAt,
  elf, elfStage, elfTodo, elfMem, elfWords, elfStackPointer

runVars == <<command, phase, answer, exited>>
peVars == <<pe, peStage, peTodo, peMem, peWords, peStackPointer>>
machoVars == <<macho, machoStage, machoAt, machoTodo, entryoff, machoMem, fileAt>>
elfVars == <<elf, elfStage, elfTodo, elfMem, elfWords, elfStackPointer>>

Pe == INSTANCE PeImage

Macho == INSTANCE MachoImage

Static == INSTANCE StaticProgram WITH
  PageSize <- StaticPageSize, HeapSize <- StaticHeapSize, MmapRoom <- StaticMmapRoom

-----------------------------------------------------------------------------
(* detect_binary_format and detect_elf_kind: the kinds of a file.  An "odd" *)
(* one has the magic bytes of ELF, and no class or byte order that is       *)
(* known; an "other" has none of the magic bytes.                           *)

Interpreters == {"pe", "macho", "static", "dynamic"}

Kinds == Interpreters \cup {"odd", "other"}

\* A file is of one kind.
ASSUME CommandsAssumption == \A c \in Commands : c.file \in Option(Kinds)

\* What the headers and the tables of a PE file can say.
ASSUME PeAssumption ==
  /\ PeRoom \in Nat
  /\ PeStack \in Nat /\ PeStack >= 2 * PageSize
  /\ \A f \in PeFiles :
       /\ f.base \in Nat /\ f.at \in Option(f.at) /\ f.at \subseteq Nat
       /\ f.size \in Nat
       /\ f.sections \in Seq(ToSet(f.sections))
       /\ \A s \in ToSet(f.sections) : s.rva \in Nat /\ s.vsize \in Nat /\ s.raw \in Seq(Int)
       /\ f.imports \in Seq(ToSet(f.imports))
       /\ \A d \in ToSet(f.imports) : d.lookup \in Nat /\ d.table \in Nat
       /\ \A t \in DOMAIN f.thunks : f.thunks[t] \in Seq(Option(UNION ToSet(f.thunks[t])))
       /\ f.relocations \in Seq(ToSet(f.relocations))
       /\ \A r \in ToSet(f.relocations) : r.rva \in Nat

\* What a header and a command of a Mach-O file can say.
ASSUME MachoAssumption ==
  \A f \in MachoFiles :
    /\ f.length \in Nat /\ f.ncmds \in Nat /\ f.cmdsSize \in Nat
    /\ f.commands \in Seq(ToSet(f.commands))
    /\ \A c \in ToSet(f.commands) :
         /\ c.size \in Nat
         /\ c.kind = "segment" => {c.vmaddr, c.vmsize, c.fileoff, c.filesize} \subseteq Nat
         /\ c.kind = "main" => c.entryoff \in Nat

\* What the headers of a static file can say; a page is 512 words.
ASSUME StaticAssumption ==
  /\ StaticPageSize \in Nat /\ StaticPageSize >= 32
  /\ StaticStack \in Nat \ {0}
  /\ \A f \in StaticFiles :
       /\ f.length \in Nat /\ f.headers \in Nat
       /\ f.segments \in Seq(ToSet(f.segments))
       /\ \A s \in ToSet(f.segments) : {s.vaddr, s.offset, s.filesz, s.memsz} \subseteq Nat
       /\ f.tls \in Option(f.tls)
       /\ \A t \in f.tls : {t.offset, t.filesz, t.memsz, t.align} \subseteq Nat
       /\ \A name \in DOMAIN f.symbols : f.symbols[name] \in Nat
       /\ f.resolvers \in Seq(ToSet(f.resolvers))
       /\ \A r \in ToSet(f.resolvers) : r.at \in Nat /\ r.impl \in Option(r.impl)

Platforms == {"windows", "native", "wsl2", "wsl", "docker"}

Interpreted == ~command.empty /\ command.target = "auto" /\ command.file \cap Interpreters # {}

\* A file that is not interpreted stays as one of its first states.
RunnerInit ==
  /\ command \in Commands
  /\ phase = "read" /\ answer = None /\ exited = None
  /\ LET someOf(kind, S) ==
           IF Interpreted /\ command.file = Some(kind) THEN S ELSE {CHOOSE f \in S : TRUE}
     IN  /\ system \in someOf("dynamic", Systems)
         /\ pe \in someOf("pe", PeFiles)
         /\ macho \in someOf("macho", MachoFiles)
         /\ elf \in someOf("static", StaticFiles)
  /\ Init /\ Pe!PeInit /\ Macho!MachoInit /\ Static!ElfInit

AnswerWith(code) == phase' = "answered" /\ answer' = Some(code)

Begin ==
  /\ phase = "read" /\ Interpreted
  /\ phase' \in command.file
  /\ UNCHANGED <<command, answer, exited, vars, peVars, machoVars, elfVars>>

\* An empty command, or an ELF file of no known kind.
Reject ==
  /\ phase = "read"
  /\ command.empty \/ (command.target = "auto" /\ command.file = Some("odd"))
  /\ AnswerWith(1)
  /\ UNCHANGED <<command, exited, vars, peVars, machoVars, elfVars>>

\* A target that is named is never asked what the file is.
Describe ==
  /\ phase = "read" /\ ~command.empty
  /\ command.target = "auto" => command.file \cap (Kinds \ {"other"}) = {}
  /\ phase' = "symbolic"
  /\ UNCHANGED <<command, answer, exited, vars, peVars, machoVars, elfVars>>

\* The report of the symbolic dispatch, which runs nothing.
Report ==
  /\ phase = "symbolic"
  /\ AnswerWith(IF command.target \in Platforms \cup {"auto"} THEN 0 ELSE 1)
  /\ UNCHANGED <<command, exited, vars, peVars, machoVars, elfVars>>

-----------------------------------------------------------------------------
StageOf(kind) ==
  CASE kind = "pe" -> peStage [] kind = "macho" -> machoStage
    [] kind = "static" -> elfStage [] kind = "dynamic" -> stage

Running == phase \in Interpreters /\ StageOf(phase) = "running"

Failed == phase \in Interpreters /\ StageOf(phase) = "failed"

LoadPe ==
  /\ phase = "pe" /\ Pe!PeNext
  /\ UNCHANGED <<runVars, vars, machoVars, elfVars>>

LoadMacho ==
  /\ phase = "macho" /\ Macho!MachoNext
  /\ UNCHANGED <<runVars, vars, peVars, elfVars>>

LoadStatic ==
  /\ phase = "static" /\ Static!ElfNext
  /\ UNCHANGED <<runVars, vars, peVars, machoVars>>

LoadDynamic ==
  /\ phase = "dynamic" /\ Next
  /\ UNCHANGED <<runVars, peVars, machoVars, elfVars>>

Exit ==
  /\ Running
  /\ \E code \in ExitCodes : exited' = Some(code) /\ AnswerWith(code)
  /\ UNCHANGED <<command, vars, peVars, machoVars, elfVars>>

MutGiveUp ==
  /\ Failed \/ Running
  /\ phase' = "symbolic"
  /\ UNCHANGED <<command, answer, exited, vars, peVars, machoVars, elfVars>>

\* The loader refused the program, or the processor ended it with an error or in
\* another state than Exited.
GiveUp ==
  /\ Failed \/ Running
  /\ AnswerWith(1)
  /\ UNCHANGED <<command, exited, vars, peVars, machoVars, elfVars>>

Answered ==
  /\ phase = "answered"
  /\ UNCHANGED <<runVars, vars, peVars, machoVars, elfVars>>

RunnerNext ==
  \/ Begin \/ Reject \/ Describe \/ Report
  \/ LoadPe \/ LoadMacho \/ LoadStatic \/ LoadDynamic
  \/ Exit \/ GiveUp \/ Answered

RunnerSpec ==
  RunnerInit /\ [][RunnerNext]_<<runVars, vars, peVars, machoVars, elfVars>>

-----------------------------------------------------------------------------
ImageIsBound == Pe!ImageIsBound

EntryIsMapped == Macho!EntryIsMapped

StartIsSound == Static!StartIsSound

\* RunTells: of a file that has an interpreter the command answers what its
\* program exited with, and 1 if it did not get so far, whatever part of loading
\* refused it; and no other loader took a step.
RunTells ==
  /\ phase = "answered" /\ Interpreted => answer = IF exited = None THEN Some(1) ELSE exited
  /\ \A kind \in Interpreters :
       command.file # Some(kind) \/ ~Interpreted =>
         StageOf(kind) \in {"plan", "header", "load", "open"}
=============================================================================
