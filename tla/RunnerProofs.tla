---------------------------- MODULE RunnerProofs ----------------------------
(***************************************************************************)
(* Proof that daoti run answers for the program it was given, for every    *)
(* command and every file; that a macOS program starts at the word its     *)
(* LC_MAIN names, a Windows program in an image that is bound and          *)
(* relocated, and a static program with what its stack tells it, for every *)
(* table a file can hold; and that what LoaderProofs shows of the loader   *)
(* of dynamic programs holds where the command runs it.                    *)
(***************************************************************************)
EXTENDS Runner, LoaderProofs

-----------------------------------------------------------------------------
(* The command that runs the loader, or another one.                        *)

runnerVars == <<runVars, vars, peVars, machoVars, elfVars>>

\* Only a step of the loader's own changes what the loader has.
LEMMA RunnerIsLoader == [RunnerNext]_runnerVars => [Next]_vars
<1> SUFFICES ASSUME [RunnerNext]_runnerVars PROVE [Next]_vars OBVIOUS
<1>1. CASE UNCHANGED vars BY <1>1
<1>2. CASE LoadDynamic BY <1>2 DEF LoadDynamic
<1>3. CASE RunnerNext /\ ~LoadDynamic
  BY <1>1, <1>3
  DEF RunnerNext, Begin, Reject, Describe, Report, LoadPe, LoadMacho, LoadStatic, Exit, GiveUp, Answered
<1>4. QED BY <1>1, <1>2, <1>3 DEF runnerVars

\* GraphIsAlwaysExact, of the loader as the command runs it.
COROLLARY RunGraphIsExact == RunnerSpec => []GraphIsExact
<1>1. RunnerInit => Init BY DEF RunnerInit
<1>2. RunnerSpec => Spec BY <1>1, RunnerIsLoader, PTL DEF RunnerSpec, Spec, runnerVars
<1>3. QED BY <1>2, GraphIsAlwaysExact, PTL

\* BindingsAlwaysFollow, of the loader as the command runs it: slot by slot, for
\* a relocation that no later one and no resolver overwrites (Lasts).
COROLLARY RunBindingsFollow == RunnerSpec => []BindingsFollowLoadOrder
<1>1. RunnerInit => Init BY DEF RunnerInit
<1>2. RunnerSpec => Spec BY <1>1, RunnerIsLoader, PTL DEF RunnerSpec, Spec, runnerVars
<1>3. QED BY <1>2, BindingsAlwaysFollow, PTL

\* ThreadStorageAlwaysAgrees, of the loader as the command runs it: the words and
\* the table entries that no relocation names, as the loader leaves them. What
\* the running program's own __tls_get_addr answers, which is 0, is not in it.
COROLLARY RunThreadStorageAgrees == RunnerSpec => []ThreadStorageAgrees
<1>1. RunnerInit => Init BY DEF RunnerInit
<1>2. RunnerSpec => Spec BY <1>1, RunnerIsLoader, PTL DEF RunnerSpec, Spec, runnerVars
<1>3. QED BY <1>2, ThreadStorageAlwaysAgrees, PTL

Rests(kind) == StageOf(kind) \in {"plan", "header", "load", "open"}

CommandInv ==
  /\ command.file \in Option(Kinds)
  /\ phase \in Interpreters => Interpreted /\ command.file = Some(phase)
  /\ phase = "symbolic" => ~Interpreted
  /\ exited # None => phase = "answered" /\ answer = exited
  /\ phase = "answered" /\ Interpreted /\ exited = None => answer = Some(1)
  /\ \A kind \in Interpreters : command.file # Some(kind) \/ ~Interpreted => Rests(kind)

\* A step that leaves the loaders alone: only where the command stands may change.
LEMMA StandsKeep ==
  ASSUME CommandInv, UNCHANGED <<command, vars, peVars, machoVars, elfVars>>,
         phase' \in Interpreters => Interpreted /\ command.file = Some(phase'),
         phase' = "symbolic" => ~Interpreted,
         exited' # None => phase' = "answered" /\ answer' = exited',
         phase' = "answered" /\ Interpreted /\ exited' = None => answer' = Some(1)
  PROVE  CommandInv'
<1>1. Interpreted' = Interpreted /\ \A kind : Rests(kind)' = Rests(kind)
  BY DEF Interpreted, Rests, StageOf, vars, loaderVars, peVars, machoVars, elfVars
<1>2. QED BY <1>1 DEF CommandInv

\* A step of one loader, which is the command's.
LEMMA LoadKeeps ==
  ASSUME CommandInv, UNCHANGED runVars, phase \in Interpreters,
         \A kind \in Interpreters \ {phase} : StageOf(kind)' = StageOf(kind)
  PROVE  CommandInv'
<1>1. Interpreted' = Interpreted /\ command' = command /\ phase' = phase
      /\ answer' = answer /\ exited' = exited
  BY DEF runVars, Interpreted
<1>2. Interpreted /\ command.file = Some(phase) BY DEF CommandInv
<1>3. ASSUME NEW kind \in Interpreters, command.file # Some(kind) PROVE Rests(kind)'
  <2>1. kind # phase BY <1>2, <1>3
  <2>2. StageOf(kind)' = StageOf(kind) BY <2>1
  <2>3. QED BY <1>3, <2>2 DEF CommandInv, Rests
<1>4. QED BY <1>1, <1>2, <1>3 DEF CommandInv

LEMMA CommandStarts == RunnerInit => CommandInv
<1> SUFFICES ASSUME RunnerInit PROVE CommandInv OBVIOUS
<1>1. command.file \in Option(Kinds) BY CommandsAssumption DEF RunnerInit
<1>2. phase = "read" /\ exited = None BY DEF RunnerInit
<1>3. peStage = "plan" /\ machoStage = "header" /\ elfStage = "load" /\ stage = "open"
  BY DEF RunnerInit, Init, Pe!PeInit, Macho!MachoInit, Static!ElfInit
<1>4. \A kind \in Interpreters : Rests(kind) BY <1>3 DEF Interpreters, Rests, StageOf
<1>5. QED BY <1>1, <1>2, <1>4 DEF CommandInv, Interpreters

LEMMA CommandKeeps == CommandInv /\ [RunnerNext]_runnerVars => CommandInv'
<1> SUFFICES ASSUME CommandInv, [RunnerNext]_runnerVars PROVE CommandInv' OBVIOUS
<1> USE DEF runnerVars
<1>1. command.file = None \/ \E kind \in Kinds : command.file = Some(kind)
  BY DEF CommandInv, Option
<1>2. CASE Begin
  <2>1. PICK kind \in Kinds : command.file = Some(kind)
    BY <1>1, <1>2 DEF Begin, Interpreted, None
  <2>2. phase' = kind /\ Interpreted /\ kind \in Interpreters
    BY <1>2, <2>1 DEF Begin, Interpreted, Some
  <2>3. phase' # "symbolic" /\ phase' # "answered" BY <2>2 DEF Interpreters
  <2>4. phase # "answered" /\ exited' = exited BY <1>2 DEF Begin
  <2>5. QED BY <1>2, <2>1, <2>2, <2>3, <2>4, StandsKeep DEF Begin, CommandInv
<1>3. CASE Reject
  <2>1. ~Interpreted
    BY <1>3 DEF Reject, Interpreted, Interpreters, Some
  <2>2. phase' = "answered" /\ exited' = exited /\ phase = "read" BY <1>3 DEF Reject, AnswerWith
  <2>3. QED BY <1>3, <2>1, <2>2, StandsKeep DEF Reject, CommandInv, Interpreters
<1>4. CASE Describe
  <2>1. ~Interpreted BY <1>4 DEF Describe, Interpreted, Kinds, Interpreters
  <2>2. phase' = "symbolic" /\ exited' = exited /\ phase = "read" BY <1>4 DEF Describe
  <2>3. QED BY <1>4, <2>1, <2>2, StandsKeep DEF Describe, CommandInv, Interpreters
<1>5. CASE Report
  <2>1. ~Interpreted BY <1>5 DEF Report, CommandInv
  <2>2. phase' = "answered" /\ exited' = exited /\ phase = "symbolic" BY <1>5 DEF Report, AnswerWith
  <2>3. QED BY <1>5, <2>1, <2>2, StandsKeep DEF Report, CommandInv, Interpreters
<1>6. CASE LoadPe
  BY <1>6, LoadKeeps
  DEF LoadPe, Interpreters, StageOf, vars, loaderVars, machoVars, elfVars
<1>7. CASE LoadMacho
  BY <1>7, LoadKeeps DEF LoadMacho, Interpreters, StageOf, vars, loaderVars, peVars, elfVars
<1>8. CASE LoadStatic
  BY <1>8, LoadKeeps DEF LoadStatic, Interpreters, StageOf, vars, loaderVars, peVars, machoVars
<1>9. CASE LoadDynamic
  BY <1>9, LoadKeeps DEF LoadDynamic, Interpreters, StageOf, peVars, machoVars, elfVars
<1>10. CASE Exit
  <2>1. PICK code \in ExitCodes : exited' = Some(code) /\ phase' = "answered" /\ answer' = Some(code)
    BY <1>10 DEF Exit, AnswerWith
  <2>2. exited' # None BY <2>1 DEF Some, None
  <2>3. QED BY <1>10, <2>1, <2>2, StandsKeep DEF Exit, Interpreters
<1>11. CASE GiveUp
  <2>1. phase' = "answered" /\ answer' = Some(1) /\ exited' = exited
    BY <1>11 DEF GiveUp, AnswerWith
  <2>2. phase # "answered" BY <1>11 DEF GiveUp, Failed, Running, Interpreters
  <2>3. QED BY <1>11, <2>1, <2>2, StandsKeep DEF GiveUp, CommandInv, Interpreters
<1>12. CASE UNCHANGED runnerVars \/ Answered
  BY <1>12, StandsKeep DEF Answered, CommandInv, runVars
<1>13. QED
  BY <1>2, <1>3, <1>4, <1>5, <1>6, <1>7, <1>8, <1>9, <1>10, <1>11, <1>12 DEF RunnerNext

\* Of a file that has an interpreter, daoti run answers what its program exited with,
\* and 1 if it did not get so far; and no other loader ever takes a step
\* (run_command of cli/commands.rs).
THEOREM CommandAnswers == RunnerSpec => []RunTells
<1>1. CommandInv => RunTells BY DEF CommandInv, RunTells, Rests
<1>2. QED BY <1>1, CommandStarts, CommandKeeps, PTL DEF RunnerSpec, runnerVars

-----------------------------------------------------------------------------
(* The Mach-O loader.                                                       *)

Segments == {k \in DOMAIN macho.commands : macho.commands[k].kind = "segment"}

Mains == {k \in DOMAIN macho.commands : macho.commands[k].kind = "main"}

\* Commands that the walk of the loader takes, of those before it.
SegmentsTaken == {k \in Segments : k < machoAt.next /\ macho.commands[k].size >= Macho!SegmentSize}

MainsTaken == {k \in Mains : k < machoAt.next /\ macho.commands[k].size >= Macho!MainSize}

IsMachoMapped(c) ==
  /\ Macho!SegmentRegion(c) \in machoMem.regions
  /\ \A a \in CellsOf(Macho!SegmentRegion(c)) :
       a \in DOMAIN fileAt /\ (a - c.vmaddr < c.filesize => fileAt[a] = c.fileoff + a - c.vmaddr)

\* The commands before machoAt.next are taken: of the segments among them each is
\* mapped or still to do, and the entry is that of the last LC_MAIN among them.
MachoInv ==
  /\ macho \in MachoFiles
  /\ machoStage \in {"header", "walk", "map", "running", "failed"}
  /\ machoAt.next \in Nat \ {0}
  /\ machoTodo \in Seq(ToSet(macho.commands))
  /\ \E R : machoMem = [min |-> MachoMin, max |-> MachoMax, regions |-> R]
  /\ \A c \in ToSet(machoTodo) : c.kind = "segment"
  /\ machoStage = "header" => machoAt.next = 1
  /\ machoStage \in {"map", "running"} => Macho!HeaderSound /\ macho.ncmds < machoAt.next /\ entryoff # None
  /\ machoStage = "walk" => Macho!HeaderSound
  /\ machoStage \in {"header", "walk"} =>
       \A k \in SegmentsTaken : macho.commands[k] \in ToSet(machoTodo)
  /\ machoStage \in {"map", "running"} =>
       \A k \in SegmentsTaken : macho.commands[k] \in ToSet(machoTodo) \/ IsMachoMapped(macho.commands[k])
  /\ machoStage = "running" => machoTodo = <<>>
  /\ \A k \in SegmentsTaken : macho.commands[k].filesize <= macho.commands[k].vmsize
  /\ IF MainsTaken = {} THEN entryoff = None
     ELSE \E k \in MainsTaken : entryoff = Some(macho.commands[k].entryoff) /\ \A j \in MainsTaken : j <= k

LEMMA MachoFileFacts ==
  ASSUME macho \in MachoFiles
  PROVE  /\ macho.length \in Nat /\ macho.ncmds \in Nat /\ macho.cmdsSize \in Nat
         /\ macho.commands \in Seq(ToSet(macho.commands))
         /\ Len(macho.commands) \in Nat /\ DOMAIN macho.commands = 1 .. Len(macho.commands)
         /\ \A k \in DOMAIN macho.commands : macho.commands[k] \in ToSet(macho.commands)
         /\ \A c \in ToSet(macho.commands) :
              /\ c.size \in Nat
              /\ c.kind = "segment" =>
                   c.vmaddr \in Nat /\ c.vmsize \in Nat /\ c.fileoff \in Nat /\ c.filesize \in Nat
              /\ c.kind = "main" => c.entryoff \in Nat
<1>1. \A k \in DOMAIN macho.commands : macho.commands[k] \in ToSet(macho.commands) BY DEF ToSet
<1>2. QED BY <1>1, MachoAssumption

LEMMA MachoStarts == Macho!MachoInit => MachoInv
<1> SUFFICES ASSUME Macho!MachoInit PROVE MachoInv OBVIOUS
<1>1. /\ macho \in MachoFiles /\ machoStage = "header" /\ machoAt.next = 1
      /\ \E R : machoMem = [min |-> MachoMin, max |-> MachoMax, regions |-> R]
      /\ machoTodo = <<>> /\ entryoff = None
  BY DEF Macho!MachoInit, Macho!None, None
<1>2. \A k \in DOMAIN macho.commands : ~(k < 1) BY <1>1, MachoFileFacts
<1>3. SegmentsTaken = {} /\ MainsTaken = {} BY <1>1, <1>2 DEF SegmentsTaken, MainsTaken, Segments, Mains
<1>4. ToSet(machoTodo) = {} /\ machoTodo \in Seq(ToSet(macho.commands)) BY <1>1 DEF ToSet
<1>5. /\ \A c \in ToSet(machoTodo) : c.kind = "segment"
      /\ \A k \in SegmentsTaken : macho.commands[k] \in ToSet(machoTodo)
      /\ \A k \in SegmentsTaken : macho.commands[k].filesize <= macho.commands[k].vmsize
  BY <1>3, <1>4
<1>6. machoAt.next \in Nat \ {0} BY <1>1
<1>7. QED BY <1>1, <1>3, <1>4, <1>5, <1>6 DEF MachoInv

\* A step that leaves the walk, the segments and what is mapped alone.
LEMMA MachoStays ==
  ASSUME MachoInv, UNCHANGED <<macho, machoAt, machoTodo, entryoff, fileAt>>,
         UNCHANGED machoMem \/ \E r : machoMem' = Macho!Add(machoMem, r),
         \/ machoStage' \in {machoStage, "failed"}
         \/ machoStage = "header" /\ machoStage' = "walk" /\ Macho!HeaderSound
         \/ machoStage = "walk" /\ machoStage' = "map" /\ macho.ncmds < machoAt.next /\ entryoff # None
         \/ machoStage = "map" /\ machoStage' = "running" /\ machoTodo = <<>>
  PROVE  MachoInv'
<1>1. SegmentsTaken' = SegmentsTaken /\ MainsTaken' = MainsTaken
      /\ (Macho!HeaderSound)' = Macho!HeaderSound
  BY DEF SegmentsTaken, MainsTaken, Segments, Mains, Macho!HeaderSound, Macho!CommandsEnd
<1>2. /\ machoMem.regions \subseteq machoMem'.regions
      /\ \E R : machoMem' = [min |-> MachoMin, max |-> MachoMax, regions |-> R]
  <2>1. PICK R : machoMem = [min |-> MachoMin, max |-> MachoMax, regions |-> R] BY DEF MachoInv
  <2>2. ASSUME NEW r, machoMem' = Macho!Add(machoMem, r)
        PROVE  machoMem' = [min |-> MachoMin, max |-> MachoMax, regions |-> R \cup {r}]
    BY <2>1, <2>2 DEF Macho!Add
  <2>3. QED BY <2>1, <2>2
<1>3. machoMem.regions \subseteq machoMem'.regions => \A c : IsMachoMapped(c) => IsMachoMapped(c)'
  BY DEF IsMachoMapped
<1>4. machoStage' \in {"header", "walk", "map", "running", "failed"} BY DEF MachoInv
<1>5. machoStage' = "header" => machoStage = "header" BY DEF MachoInv
<1>6. \A k \in SegmentsTaken :
        IsMachoMapped(macho.commands[k]) => IsMachoMapped(macho.commands[k])'
  BY <1>2, <1>3
<1>7. machoStage' \in {"map", "running"} =>
        \A k \in SegmentsTaken' : macho'.commands[k] \in ToSet(machoTodo') \/ IsMachoMapped(macho.commands[k])'
  BY <1>1, <1>6 DEF MachoInv
<1>8. QED BY <1>1, <1>2, <1>4, <1>5, <1>7 DEF MachoInv

\* TakeCommand adds its command to those taken.
LEMMA TakenGrow ==
  ASSUME MachoInv, macho' = macho, NEW k, k = machoAt.next, machoAt'.next = k + 1
  PROVE  /\ SegmentsTaken' = SegmentsTaken \cup
              {j \in {k} \cap Segments : macho.commands[j].size >= Macho!SegmentSize}
         /\ MainsTaken' = MainsTaken \cup
              {j \in {k} \cap Mains : macho.commands[j].size >= Macho!MainSize}
<1>1. k \in Nat /\ DOMAIN macho.commands \subseteq Nat BY MachoFileFacts DEF MachoInv
<1>2. \A j \in DOMAIN macho.commands : j < k + 1 <=> j < k \/ j = k BY <1>1
<1>3. Segments' = Segments /\ Mains' = Mains BY DEF Segments, Mains
<1>4. Segments \subseteq DOMAIN macho.commands /\ Mains \subseteq DOMAIN macho.commands
  BY DEF Segments, Mains
<1>5. QED BY <1>2, <1>3, <1>4 DEF SegmentsTaken, MainsTaken

LEMMA TakeKeeps == MachoInv /\ Macho!TakeCommand => MachoInv'
<1> SUFFICES ASSUME MachoInv, Macho!TakeCommand PROVE MachoInv' OBVIOUS
<1> DEFINE k == machoAt.next
           c == Macho!Command(k)
<1>1. /\ machoStage = "walk" /\ k <= macho.ncmds /\ Macho!CommandSound
      /\ machoTodo' = IF c.kind = "segment" /\ c.size >= Macho!SegmentSize THEN Append(machoTodo, c) ELSE machoTodo
      /\ entryoff' = IF c.kind = "main" /\ c.size >= Macho!MainSize THEN Some(c.entryoff) ELSE entryoff
      /\ machoAt' = [next |-> k + 1, offset |-> machoAt.offset + c.size]
      /\ UNCHANGED <<macho, machoStage, machoMem, fileAt>>
  BY DEF Macho!TakeCommand, Macho!Walking, Macho!Some, Some
<1>2. k \in DOMAIN macho.commands /\ c = macho.commands[k] /\ c \in ToSet(macho.commands)
  <2>1. k \in Nat \ {0} /\ macho \in MachoFiles BY DEF MachoInv
  <2>2. c.size >= 1 BY <1>1 DEF Macho!CommandSound, Macho!Complete
  <2>3. k <= Len(macho.commands) BY <2>2 DEF Macho!Command
  <2>4. QED BY <2>1, <2>3, MachoFileFacts DEF Macho!Command
<1>3. c.kind = "segment" /\ c.size >= Macho!SegmentSize => c.filesize <= c.vmsize
  BY <1>1 DEF Macho!CommandSound
<1>4. /\ SegmentsTaken' = SegmentsTaken \cup
              {j \in {k} \cap Segments : macho.commands[j].size >= Macho!SegmentSize}
      /\ MainsTaken' = MainsTaken \cup
              {j \in {k} \cap Mains : macho.commands[j].size >= Macho!MainSize}
  BY <1>1, TakenGrow
<1>5. \A j \in MainsTaken : j <= k
  <2>1. \A j \in MainsTaken : j < k /\ j \in Nat BY MachoFileFacts DEF MainsTaken, Mains, MachoInv
  <2>2. k \in Nat BY DEF MachoInv
  <2>3. QED BY <2>1, <2>2
<1> HIDE DEF k, c
<1>6. /\ machoTodo' \in Seq(ToSet(macho.commands))
      /\ ToSet(machoTodo') = ToSet(machoTodo) \cup
           (IF c.kind = "segment" /\ c.size >= Macho!SegmentSize THEN {c} ELSE {})
  <2>1. machoTodo \in Seq(ToSet(macho.commands)) BY DEF MachoInv
  <2>2. ToSet(Append(machoTodo, c)) = ToSet(machoTodo) \cup {c}
    <3>1. DOMAIN Append(machoTodo, c) = DOMAIN machoTodo \cup {Len(machoTodo) + 1} BY <1>2, <2>1
    <3>2. Append(machoTodo, c)[Len(machoTodo) + 1] = c /\ \A i \in DOMAIN machoTodo : Append(machoTodo, c)[i] = machoTodo[i]
      BY <1>2, <2>1
    <3>3. QED BY <3>1, <3>2 DEF ToSet
  <2>3. Append(machoTodo, c) \in Seq(ToSet(macho.commands)) BY <1>2, <2>1
  <2>4. QED BY <1>1, <2>1, <2>2, <2>3
<1>7. machoAt'.next \in Nat \ {0} BY <1>1 DEF MachoInv, k
<1>8. \A j \in SegmentsTaken' : macho.commands[j] \in ToSet(machoTodo')
  BY <1>1, <1>2, <1>4, <1>6 DEF MachoInv, Segments
<1>9. \A j \in SegmentsTaken' : macho.commands[j].filesize <= macho.commands[j].vmsize
  BY <1>2, <1>3, <1>4 DEF MachoInv, Segments
<1>10. IF MainsTaken' = {} THEN entryoff' = None
       ELSE \E j \in MainsTaken' : entryoff' = Some(macho.commands[j].entryoff) /\ \A i \in MainsTaken' : i <= j
  <2>1. CASE k \in Mains /\ c.size >= Macho!MainSize
    <3>1. k \in MainsTaken' /\ \A j \in MainsTaken' : j \in MainsTaken \/ j = k BY <1>2, <1>4, <2>1
    <3>2. entryoff' = Some(c.entryoff) /\ k <= k BY <1>1, <1>2, <2>1, <1>7 DEF Mains, MachoInv, k
    <3>3. QED BY <1>2, <1>5, <3>1, <3>2
  <2>2. CASE ~(k \in Mains /\ c.size >= Macho!MainSize)
    <3>1. MainsTaken' = MainsTaken /\ entryoff' = entryoff BY <1>1, <1>2, <1>4, <2>2 DEF Mains
    <3>2. QED BY <3>1 DEF MachoInv
  <2>3. QED BY <2>1, <2>2
<1>11. (Macho!HeaderSound)' = Macho!HeaderSound BY <1>1 DEF Macho!HeaderSound, Macho!CommandsEnd
<1>12. \A d \in ToSet(machoTodo') : d.kind = "segment" BY <1>6 DEF MachoInv
<1>13. QED BY <1>1, <1>6, <1>7, <1>8, <1>9, <1>10, <1>11, <1>12 DEF MachoInv

LEMMA CellsApart ==
  ASSUME NEW r, NEW s, ~Overlaps(r, s), r.base \in Int, r.end \in Int, s.base \in Int, s.end \in Int
  PROVE  CellsOf(r) \cap CellsOf(s) = {}
BY DEF Overlaps, CellsOf

LEMMA MapSegmentKeeps == MachoInv /\ Macho!MapSegment => MachoInv'
<1> SUFFICES ASSUME MachoInv, Macho!MapSegment PROVE MachoInv' OBVIOUS
<1>1. PICK c : c = Head(machoTodo) OBVIOUS
<1> DEFINE r == Macho!SegmentRegion(c)
<1>2. /\ machoStage = "map" /\ machoTodo # <<>> /\ Macho!CanAdd(machoMem, r)
      /\ machoMem' = Macho!Add(machoMem, r)
      /\ fileAt' = [a \in DOMAIN fileAt \cup CellsOf(r) |->
                      IF a \notin CellsOf(r) THEN fileAt[a]
                      ELSE IF a - c.vmaddr < c.filesize THEN c.fileoff + a - c.vmaddr
                      ELSE -1]
      /\ machoTodo' = Tail(machoTodo)
      /\ UNCHANGED <<macho, machoStage, machoAt, entryoff>>
  BY <1>1 DEF Macho!MapSegment, Macho!CellsOf, CellsOf
<1>3. /\ c \in ToSet(macho.commands) /\ Tail(machoTodo) \in Seq(ToSet(macho.commands))
      /\ ToSet(machoTodo) = {c} \cup ToSet(Tail(machoTodo))
  <2>1. machoTodo \in Seq(ToSet(macho.commands)) BY DEF MachoInv
  <2>2. DOMAIN machoTodo = 1 .. Len(machoTodo) /\ Len(machoTodo) \in Nat \ {0}
        /\ DOMAIN Tail(machoTodo) = 1 .. Len(machoTodo) - 1
        /\ \A i \in 1 .. Len(machoTodo) - 1 : Tail(machoTodo)[i] = machoTodo[i + 1]
    BY <1>2, <2>1
  <2>3. \A i \in DOMAIN machoTodo : i = 1 \/ i - 1 \in 1 .. Len(machoTodo) - 1 BY <2>2
  <2>4. \A i \in 1 .. Len(machoTodo) - 1 : i + 1 \in DOMAIN machoTodo BY <2>2
  <2>5. \A i \in DOMAIN machoTodo : i = 1 \/ machoTodo[i] = Tail(machoTodo)[i - 1]
    <3>1. \A i \in DOMAIN machoTodo : i - 1 + 1 = i BY <2>2
    <3>2. QED BY <2>2, <2>3, <3>1
  <2>6. c = machoTodo[1] /\ 1 \in DOMAIN machoTodo BY <1>1, <1>2, <2>1, <2>2
  <2>7. ToSet(machoTodo) = {c} \cup ToSet(Tail(machoTodo))
    <3>1. ToSet(machoTodo) \subseteq {c} \cup ToSet(Tail(machoTodo))
      BY <2>2, <2>3, <2>5, <2>6 DEF ToSet
    <3>2. {c} \cup ToSet(Tail(machoTodo)) \subseteq ToSet(machoTodo)
      BY <2>2, <2>4, <2>6 DEF ToSet
    <3>3. QED BY <3>1, <3>2
  <2>8. QED BY <1>2, <2>1, <2>6, <2>7
<1>4. /\ c.kind = "segment" /\ c.vmaddr \in Nat /\ c.vmsize \in Nat
      /\ r.base = c.vmaddr /\ r.end = c.vmaddr + c.vmsize
  <2>1. c.kind = "segment" BY <1>3 DEF MachoInv
  <2>2. QED BY <1>3, <2>1, MachoFileFacts DEF MachoInv, Macho!SegmentRegion, Macho!RegionAt
<1> HIDE DEF r
<1>5. PICK R : machoMem = [min |-> MachoMin, max |-> MachoMax, regions |-> R] BY DEF MachoInv
<1>6. machoMem' = [min |-> MachoMin, max |-> MachoMax, regions |-> R \cup {r}]
  BY <1>2, <1>5 DEF Macho!Add
<1>7. IsMachoMapped(c)'
  <2>1. \A a \in CellsOf(r) : a \in DOMAIN fileAt' /\ (a - c.vmaddr < c.filesize => fileAt'[a] = c.fileoff + a - c.vmaddr)
    BY <1>2
  <2>2. QED BY <1>6, <2>1 DEF IsMachoMapped, r, Macho!SegmentRegion, Macho!RegionAt, CellsOf
<1>8. ASSUME NEW d \in ToSet(macho.commands), d.kind = "segment", IsMachoMapped(d) PROVE IsMachoMapped(d)'
  <2> DEFINE s == Macho!SegmentRegion(d)
  <2>1. s \in R /\ \A a \in CellsOf(s) :
          a \in DOMAIN fileAt /\ (a - d.vmaddr < d.filesize => fileAt[a] = d.fileoff + a - d.vmaddr)
    BY <1>5, <1>8 DEF IsMachoMapped
  <2>2. ~Overlaps(r, s) BY <1>2, <1>5, <2>1 DEF Macho!CanAdd, Macho!Overlaps, Overlaps
  <2>3. s.base \in Int /\ s.end \in Int
    BY <1>8, MachoFileFacts DEF MachoInv, Macho!SegmentRegion, Macho!RegionAt
  <2>4. CellsOf(r) \cap CellsOf(s) = {} BY <1>4, <2>2, <2>3, CellsApart
  <2>5. s' = s BY DEF Macho!SegmentRegion, Macho!RegionAt
  <2>6. \A a \in CellsOf(s) : a \in DOMAIN fileAt' /\ fileAt'[a] = fileAt[a] BY <1>2, <2>1, <2>4
  <2>7. QED BY <1>6, <2>1, <2>5, <2>6 DEF IsMachoMapped
<1>9. SegmentsTaken' = SegmentsTaken /\ MainsTaken' = MainsTaken
      /\ (Macho!HeaderSound)' = Macho!HeaderSound
  BY <1>2 DEF SegmentsTaken, MainsTaken, Segments, Mains, Macho!HeaderSound, Macho!CommandsEnd
<1>10. \A k \in SegmentsTaken' : macho'.commands[k] \in ToSet(machoTodo') \/ IsMachoMapped(macho.commands[k])'
  <2> SUFFICES ASSUME NEW k \in SegmentsTaken, macho.commands[k] \notin ToSet(Tail(machoTodo))
               PROVE  IsMachoMapped(macho.commands[k])'
    BY <1>2, <1>9
  <2>1. macho.commands[k] \in ToSet(macho.commands) /\ macho.commands[k].kind = "segment"
    BY DEF SegmentsTaken, Segments, ToSet
  <2>2. PICK d : d = macho.commands[k] OBVIOUS
  <2>3. d = c \/ IsMachoMapped(d) BY <1>2, <1>3, <2>2 DEF MachoInv
  <2>4. IsMachoMapped(d)' BY <1>7, <1>8, <2>1, <2>2, <2>3
  <2>5. macho' = macho BY <1>2
  <2>6. QED BY <2>2, <2>4, <2>5
<1>11. QED BY <1>2, <1>3, <1>6, <1>9, <1>10 DEF MachoInv

LEMMA MachoKeeps == MachoInv /\ (Macho!MachoNext \/ UNCHANGED machoVars) => MachoInv'
<1> SUFFICES ASSUME MachoInv, Macho!MachoNext \/ UNCHANGED machoVars PROVE MachoInv' OBVIOUS
<1>1. CASE UNCHANGED machoVars BY <1>1, MachoStays DEF machoVars
<1>2. CASE Macho!Header BY <1>2, MachoStays DEF Macho!Header
<1>3. CASE Macho!TakeCommand BY <1>3, TakeKeeps
<1>4. CASE Macho!Enter BY <1>4, MachoStays DEF Macho!Enter, Macho!HasEntry, Macho!None, None, MachoInv
<1>5. CASE Macho!MapSegment BY <1>5, MapSegmentKeeps
<1>6. CASE Macho!Start BY <1>6, MachoStays DEF Macho!Start
<1>7. CASE Macho!MachoFail BY <1>7, MachoStays DEF Macho!MachoFail
<1>8. QED
  BY <1>1, <1>2, <1>3, <1>4, <1>5, <1>6, <1>7
  DEF Macho!MachoNext, Macho!CannotRead, Macho!BrokenCommand, Macho!CannotEnter,
      Macho!CannotMapSegment, Macho!CannotStart

LEMMA MachoCounts == \A S : Macho!Cardinality(S) = Cardinality(S)
BY DEF Macho!Cardinality, Cardinality

LEMMA OffsetIsANumber ==
  ASSUME macho \in MachoFiles
  PROVE  \A k \in Nat \ {0} : Macho!Offset(k) \in Nat
<1> DEFINE after[n \in Nat] == IF n = 0 THEN Macho!MachoHeader ELSE after[n - 1] + Macho!Command(n).size
<1>1. Macho!MachoHeader \in Nat /\ \A n \in Nat \ {0} : Macho!Command(n).size \in Nat
  BY MachoFileFacts DEF Macho!MachoHeader, Macho!Command
<1>2. PICK step : \A n \in Nat \ {0} : \A x \in Nat : step[n][x] = x + Macho!Command(n).size
  <2>1. PICK g : g = [n \in Nat \ {0} |-> [x \in Nat |-> x + Macho!Command(n).size]] OBVIOUS
  <2>2. \A n \in Nat \ {0} : \A x \in Nat : g[n][x] = x + Macho!Command(n).size BY <2>1
  <2>3. QED BY <2>2
<1>3. \A n \in Nat \ {0} : \A x \in Nat : step[n][x] \in Nat BY <1>1, <1>2
<1>4. PICK f \in [Nat -> Nat] : Follows(f, Macho!MachoHeader, step) BY <1>1, <1>3, Iterates
<1>5. f = [n \in Nat |-> IF n = 0 THEN Macho!MachoHeader ELSE f[n - 1] + Macho!Command(n).size]
  <2>1. \A n \in Nat \ {0} : n - 1 \in Nat OBVIOUS
  <2>2. \A n \in Nat \ {0} : f[n] = f[n - 1] + Macho!Command(n).size BY <1>2, <1>4, <2>1 DEF Follows
  <2>3. QED BY <1>4, <2>2 DEF Follows
<1>6. after = [n \in Nat |-> IF n = 0 THEN Macho!MachoHeader ELSE after[n - 1] + Macho!Command(n).size]
  BY <1>5
<1>7. \A n \in Nat : after[n] = IF n = 0 THEN Macho!MachoHeader ELSE after[n - 1] + Macho!Command(n).size
  <2> HIDE DEF after
  <2>1. QED BY <1>6
<1>8. \A k : Macho!Offset(k) = after[k - 1] BY DEF Macho!Offset
<1> HIDE DEF after
<1>9. Nat \subseteq {n \in Nat : after[n] \in Nat}
  <2> DEFINE S == {n \in Nat : after[n] \in Nat}
  <2>1. 0 \in S BY <1>1, <1>7
  <2>2. ASSUME NEW n \in Nat, n \in S PROVE n + 1 \in S BY <1>1, <1>7, <2>2, n + 1 - 1 = n
  <2> HIDE DEF S
  <2>3. Nat \subseteq S BY <2>1, <2>2, Climbs
  <2>4. QED BY <2>3 DEF S
<1>10. QED BY <1>8, <1>9

LEMMA MachoInvTells == MachoInv => EntryIsMapped
<1> SUFFICES ASSUME MachoInv, machoStage = "running", Macho!CommandsCounted, NEW position \in entryoff,
                    \E n \in DOMAIN Macho!ParsedSegments : Macho!Holds(Macho!ParsedSegments[n], position)
             PROVE  Macho!EntryPoint \in DOMAIN fileAt /\ fileAt[Macho!EntryPoint] = position
  BY DEF EntryIsMapped, Macho!EntryIsMapped
<1> DEFINE C == macho.commands
           read == {k \in Macho!Walked : C[k].kind = "segment" /\ Macho!Offset(k) + Macho!SegmentSize <= macho.length}
           mains == {k \in Macho!Walked : C[k].kind = "main" /\ Macho!Offset(k) + Macho!MainSize <= macho.length}
<1>1. /\ macho \in MachoFiles /\ DOMAIN C = 1 .. Len(C) /\ Len(C) \in Nat
      /\ \A k \in DOMAIN C : C[k] \in ToSet(C)
      /\ Macho!Walked = DOMAIN C /\ macho.ncmds = Len(C)
      /\ machoAt.next \in Nat /\ macho.ncmds < machoAt.next
      /\ macho.cmdsSize \in Nat /\ macho.length \in Nat
  BY MachoFileFacts DEF MachoInv, Macho!CommandsCounted
<1>2. \A k \in DOMAIN C : k \in Nat \ {0} /\ k < machoAt.next BY <1>1
<1>3. mains = MainsTaken
  <2>1. ASSUME NEW k \in DOMAIN C, C[k].kind = "main" PROVE Macho!Offset(k) + Macho!MainSize <= macho.length
    <3>1. C[k].size >= Macho!MainSize /\ C[k].size \in Nat /\ Macho!Offset(k) \in Nat
      BY <1>1, <1>2, <2>1, OffsetIsANumber, MachoFileFacts DEF Macho!CommandsCounted
    <3>2. Macho!Complete(k, Macho!Offset(k)) BY <1>1, <1>2 DEF Macho!Walked, Macho!WalkedTo
    <3>3. Macho!Command(k) = C[k] BY <1>1 DEF Macho!Command
    <3>4. Macho!MachoHeader + macho.cmdsSize <= macho.length
      BY DEF MachoInv, Macho!HeaderSound, Macho!CommandsEnd
    <3>5. QED BY <1>1, <3>1, <3>2, <3>3, <3>4 DEF Macho!Complete, Macho!CommandsEnd, Macho!MachoHeader, Macho!MainSize
  <2>2. \A k \in Mains : C[k].size >= Macho!MainSize BY <1>1 DEF Mains, Macho!CommandsCounted
  <2>3. MainsTaken = Mains BY <1>2, <2>2 DEF MainsTaken, Mains
  <2>4. mains = Mains BY <1>1, <2>1 DEF Mains
  <2>5. QED BY <2>3, <2>4
<1> HIDE DEF mains
<1>4. PICK l \in MainsTaken : entryoff = Some(C[l].entryoff) /\ \A j \in MainsTaken : j <= l
  BY DEF MachoInv, None
<1>5. position = C[l].entryoff /\ position \in Nat
  <2>1. C[l].kind = "main" /\ C[l] \in ToSet(C) BY <1>1 DEF MainsTaken, Mains
  <2>2. QED BY <1>1, <1>4, <2>1, MachoFileFacts DEF Some
<1>6. Macho!ParsedMain = Some(position)
  <2>1. l = CHOOSE k \in mains : \A j \in mains : j <= k
    <3>1. \A k \in mains : (\A j \in mains : j <= k) => k = l
      <4>1. \A k \in mains : k \in Nat BY <1>2, <1>3 DEF MainsTaken, Mains
      <4>2. QED BY <1>3, <1>4, <4>1
    <3>2. QED BY <1>3, <1>4, <3>1
  <2>2. mains # {} BY <1>3
  <2>3. QED BY <1>5, <2>1, <2>2 DEF Macho!ParsedMain, mains, Macho!Some, Some
<1>7. IsFiniteSet(read) /\ Cardinality(read) \in Nat
  <2>1. IsFiniteSet(1 .. Len(C)) BY <1>1, FS_Interval
  <2>2. read \in SUBSET (1 .. Len(C)) BY <1>1
  <2> HIDE DEF read
  <2>3. QED BY <2>1, <2>2, FS_Subset, FS_CardinalityType
<1> DEFINE holders == {n \in DOMAIN Macho!ParsedSegments : Macho!Holds(Macho!ParsedSegments[n], position)}
<1>8. PICK n \in holders : \A m \in holders : n <= m
  <2>1. holders # {} OBVIOUS
  <2>2. holders \subseteq Nat
    <3>2. DOMAIN Macho!ParsedSegments = 1 .. Cardinality(read) BY MachoCounts DEF Macho!ParsedSegments
    <3>3. QED BY <1>7, <3>2
  <2> HIDE DEF holders
  <2>3. QED BY <2>1, <2>2, Least
<1>9. PICK k \in read : Macho!ParsedSegments[n] = C[k]
  <2>1. read \subseteq Nat BY <1>1
  <2>3. n \in 1 .. Cardinality(read) /\ Macho!ParsedSegments[n] = C[CHOOSE j \in read : Rank(j, read) = n]
    BY MachoCounts DEF Macho!ParsedSegments, Rank
  <2>4. \E j \in read : Rank(j, read) = n
    <3> HIDE DEF read
    <3>1. QED BY <1>7, <2>1, <2>3, Ranked
  <2>5. QED BY <2>3, <2>4
<1> DEFINE s == C[k]
<1>10. /\ s.kind = "segment" /\ s \in ToSet(C) /\ Macho!Holds(s, position)
      /\ s.vmaddr \in Nat /\ s.vmsize \in Nat /\ s.fileoff \in Nat /\ s.filesize \in Nat
  <2>1. s.kind = "segment" /\ s \in ToSet(C) /\ Macho!Holds(s, position) BY <1>1, <1>8, <1>9
  <2>2. QED BY <1>1, <2>1, MachoFileFacts
<1>11. k \in SegmentsTaken
  BY <1>1, <1>2, <1>10 DEF SegmentsTaken, Segments, Macho!CommandsCounted
<1>12. IsMachoMapped(s) /\ s.filesize <= s.vmsize
  <2>1. machoTodo = <<>> BY DEF MachoInv
  <2>2. ToSet(machoTodo) = {} BY <2>1 DEF ToSet
  <2>3. QED BY <1>11, <2>2 DEF MachoInv
<1>13. Macho!EntryPoint = s.vmaddr + position - s.fileoff
  <2>1. n = CHOOSE i \in holders : \A m \in holders : i <= m
    <3>1. \A i \in holders : (\A m \in holders : i <= m) => i = n
      <4>1. \A i \in holders : i \in Int BY DEF Macho!ParsedSegments
      <4>2. QED BY <1>8, <4>1
    <3>2. QED BY <1>8, <3>1
  <2>2. holders # {} BY <1>8
  <2>3. position = CHOOSE p \in Macho!ParsedMain : TRUE BY <1>6 DEF Some
  <2>4. Macho!ParsedMain # Macho!None BY <1>6 DEF Some, Macho!None
  <2>5. QED BY <1>9, <2>1, <2>2, <2>3, <2>4 DEF Macho!EntryPoint
<1>14. Macho!EntryPoint \in CellsOf(Macho!SegmentRegion(s)) /\ Macho!EntryPoint - s.vmaddr < s.filesize
  BY <1>5, <1>10, <1>12, <1>13 DEF Macho!Holds, CellsOf, Macho!SegmentRegion, Macho!RegionAt
<1>15. QED BY <1>5, <1>10, <1>12, <1>13, <1>14 DEF IsMachoMapped

LEMMA RunnerIsMacho == [RunnerNext]_runnerVars => Macho!MachoNext \/ UNCHANGED machoVars
<1> SUFFICES ASSUME [RunnerNext]_runnerVars PROVE Macho!MachoNext \/ UNCHANGED machoVars OBVIOUS
<1>1. CASE LoadMacho BY <1>1 DEF LoadMacho
<1>2. CASE UNCHANGED machoVars BY <1>2
<1>3. CASE RunnerNext /\ ~LoadMacho
  BY <1>2, <1>3
  DEF RunnerNext, Begin, Reject, Describe, Report, LoadPe, LoadStatic, LoadDynamic, Exit, GiveUp, Answered
<1>4. QED BY <1>1, <1>2, <1>3 DEF runnerVars

\* A macOS program starts at the word of its file that LC_MAIN names, if its header
\* counts just the commands that fit and each has its size (CommandsCounted). For
\* any other file the walk over the segments and the walk for the entry point may
\* end at different commands, and the theorem says nothing.
THEOREM EntryIsAlwaysMapped == RunnerSpec => []EntryIsMapped
<1>1. RunnerInit => MachoInv
  <2>1. RunnerInit => Macho!MachoInit BY DEF RunnerInit
  <2>2. QED BY <2>1, MachoStarts
<1>2. MachoInv /\ [RunnerNext]_runnerVars => MachoInv' BY RunnerIsMacho, MachoKeeps
<1>3. QED BY <1>1, <1>2, MachoInvTells, PTL DEF RunnerSpec, runnerVars

-----------------------------------------------------------------------------
(* The PE loader.                                                           *)

ThunksOf(i) == pe.thunks[Pe!Lookup(pe.imports[i])]

ImportAt(i, k) ==
  [dll |-> pe.imports[i].dll, name |-> ThunksOf(i)[k], slot |-> pe.imports[i].table + k - 1]

ImportSet == UNION {{ImportAt(i, k) : k \in DOMAIN ThunksOf(i)} : i \in DOMAIN pe.imports}

Length(s) == Pe!Longer(s.vsize, Len(s.raw))

IsSectionMapped(s) ==
  /\ Pe!SectionRegion(s) \in peMem.regions
  /\ \A a \in CellsOf(Pe!SectionRegion(s)) : Pe!PeWord(a) = Pe!Raw(s, a - Pe!LoadBase - s.rva)

IsBound(m) == \A name \in m.name : Pe!PeWord(Pe!LoadBase + m.slot) = Pe!Shim(name)

\* The words of the sections after n relocations.
SectionsKept(n) ==
  \A s \in ToSet(pe.sections) : \A k \in 0 .. Length(s) - 1 :
    s.rva + k \notin Pe!Slots =>
      Pe!PeWord(Pe!LoadBase + s.rva + k) =
        Pe!Raw(s, k) + (IF \E i \in 1 .. n : Pe!Relocations[i].rva = s.rva + k THEN Pe!Delta ELSE 0)

RemainsOf(seq, n) ==
  /\ peTodo \in Seq(ToSet(pe.relocations))
  /\ n + Len(peTodo) = Len(seq)
  /\ \A i \in 1 .. Len(peTodo) : peTodo[i] = seq[n + i]

\* Between the stages: what is planned of the file stays true; a section is mapped or
\* still to do; an import is bound or still to do, and none that cannot be resolved
\* is left; and the words are those of the file after the relocations so far.
PeInv ==
  /\ pe \in PeFiles
  /\ peStage \in {"plan", "map", "bind", "patch", "running", "failed"}
  /\ peStage \notin {"plan", "failed"} => Pe!CanPlanImage /\ Pe!NamesSupported /\ Apart(peMem)
  /\ peStage = "map" =>
       /\ peTodo \in Seq(ToSet(pe.sections))
       /\ \A s \in ToSet(pe.sections) : s \in ToSet(peTodo) \/ IsSectionMapped(s)
  /\ peStage = "bind" =>
       /\ peTodo \in Seq(ImportSet)
       /\ \A m \in ImportSet : Pe!Resolve(m) # None
       /\ Pe!TablesApart =>
            /\ \A m \in ImportSet : m \in ToSet(peTodo) \/ IsBound(m)
            /\ SectionsKept(0)
  /\ peStage = "patch" =>
       \E n \in Nat :
         /\ RemainsOf(Pe!Relocations, n)
         /\ Pe!TablesApart => (\A m \in ImportSet : IsBound(m)) /\ SectionsKept(n)
  /\ peStage = "running" =>
       /\ Pe!TablesApart => (\A m \in ImportSet : IsBound(m)) /\ SectionsKept(Len(Pe!Relocations))
       /\ \A name \in ToSet(Pe!Functions) : Pe!ShimRegion(name) \in peMem.regions
       /\ Writable(peMem, peStackPointer - PageSize, 2 * PageSize)

LEMMA PeFileFacts ==
  ASSUME pe \in PeFiles
  PROVE  /\ Pe!LoadBase \in Nat /\ Pe!Delta \in Int /\ pe.size \in Nat
         /\ pe.sections \in Seq(ToSet(pe.sections))
         /\ \A s \in ToSet(pe.sections) :
              /\ s.rva \in Nat /\ s.vsize \in Nat /\ s.raw \in Seq(Int) /\ Length(s) \in Nat
              /\ \A k \in Int : k >= 0 => Pe!Raw(s, k) \in Int
<1>1. /\ pe.base \in Nat /\ pe.at \in Option(pe.at) /\ pe.at \subseteq Nat /\ pe.size \in Nat
      /\ pe.sections \in Seq(ToSet(pe.sections))
      /\ \A s \in ToSet(pe.sections) : s.rva \in Nat /\ s.vsize \in Nat /\ s.raw \in Seq(Int)
  BY PeAssumption
<1>2. Pe!LoadBase \in Nat
  <2>1. CASE pe.at = None BY <1>1, <2>1 DEF Pe!LoadBase, Pe!None, None
  <2>2. CASE pe.at # None
    <3>1. \E b : b \in pe.at BY <2>2 DEF None
    <3>2. Pe!LoadBase \in pe.at BY <2>2, <3>1 DEF Pe!LoadBase, Pe!None, None
    <3>3. QED BY <1>1, <3>2
  <2>3. QED BY <2>1, <2>2
<1>3. ASSUME NEW s \in ToSet(pe.sections)
      PROVE  /\ Length(s) \in Nat
             /\ \A k \in Int : k >= 0 => Pe!Raw(s, k) \in Int
  <2>1. s.raw \in Seq(Int) /\ Len(s.raw) \in Nat /\ s.vsize \in Nat BY <1>1
  <2>2. \A k \in Int : k >= 0 /\ k < Len(s.raw) => k + 1 \in 1 .. Len(s.raw) BY <2>1
  <2>3. \A k \in 1 .. Len(s.raw) : s.raw[k] \in Int BY <2>1
  <2>4. QED BY <2>1, <2>2, <2>3 DEF Length, Pe!Longer, Pe!Raw
<1>4. Pe!Delta \in Int BY <1>1, <1>2 DEF Pe!Delta
<1>5. QED BY <1>1, <1>2, <1>3, <1>4

LEMMA ImportFacts ==
  ASSUME pe \in PeFiles, Pe!CanPlanImage
  PROVE  /\ Pe!Imports \in Seq(ImportSet) /\ ToSet(Pe!Imports) = ImportSet
         /\ \A m \in ImportSet :
              /\ m.slot \in Nat /\ \E S : m.name \in Option(S)
              /\ [name |-> m.name, slot |-> m.slot] \in Pe!Asked
         /\ \A q \in Pe!Asked : \E m \in ImportSet : m.name = q.name /\ m.slot = q.slot
<1>1. /\ pe.imports \in Seq(ToSet(pe.imports))
      /\ \A d \in ToSet(pe.imports) : d.lookup \in Nat /\ d.table \in Nat
      /\ \A t \in DOMAIN pe.thunks : pe.thunks[t] \in Seq(Option(UNION ToSet(pe.thunks[t])))
  BY PeAssumption
<1>2. PICK N \in Nat : DOMAIN pe.imports = 1 .. N /\ N = Len(pe.imports) BY <1>1, LenProperties
<1>3. ASSUME NEW i \in 1 .. N
      PROVE  /\ pe.imports[i] \in ToSet(pe.imports)
             /\ Len(ThunksOf(i)) \in Nat /\ DOMAIN ThunksOf(i) = 1 .. Len(ThunksOf(i))
             /\ \A k \in DOMAIN ThunksOf(i) :
                  /\ ImportAt(i, k).slot \in Nat /\ ImportAt(i, k).name = ThunksOf(i)[k]
                  /\ \E S : ImportAt(i, k).name \in Option(S)
  <2>1. pe.imports[i] \in ToSet(pe.imports) BY <1>2 DEF ToSet
  <2>2. Pe!Lookup(pe.imports[i]) \in DOMAIN pe.thunks BY <1>2 DEF Pe!CanPlanImage
  <2>3. PICK S : ThunksOf(i) \in Seq(Option(S)) BY <1>1, <2>2 DEF ThunksOf
  <2>4. Len(ThunksOf(i)) \in Nat /\ DOMAIN ThunksOf(i) = 1 .. Len(ThunksOf(i))
        /\ \A k \in DOMAIN ThunksOf(i) : ThunksOf(i)[k] \in Option(S)
    BY <2>3, LenProperties
  <2>5. pe.imports[i].table \in Nat BY <1>1, <2>1
  <2>6. \A k \in DOMAIN ThunksOf(i) : ImportAt(i, k).slot \in Nat /\ ImportAt(i, k).name = ThunksOf(i)[k]
    BY <2>4, <2>5 DEF ImportAt
  <2>7. QED BY <2>1, <2>4, <2>6
<1>4. PICK lists : lists = [i \in 1 .. N |-> [k \in DOMAIN ThunksOf(i) |-> ImportAt(i, k)]] OBVIOUS
<1>5. Pe!Imports = FlattenSeq(lists)
  <2>1. \A s : Pe!FlattenSeq(s) = FlattenSeq(s) BY DEF Pe!FlattenSeq, FlattenSeq
  <2>2. Pe!Imports = Pe!FlattenSeq(lists) BY <1>2, <1>4 DEF Pe!Imports, ThunksOf, ImportAt
  <2>3. QED BY <2>1, <2>2
<1>6. lists \in Seq(Seq(ImportSet))
  <2>1. \A i \in 1 .. N : \A k \in DOMAIN ThunksOf(i) : ImportAt(i, k) \in ImportSet BY <1>2 DEF ImportSet
  <2>2. \A i \in 1 .. N : lists[i] \in Seq(ImportSet) BY <1>3, <1>4, <2>1
  <2>3. QED BY <1>4, <2>2
<1>7. PICK start : Starts(start, lists)
  <2>1. DOMAIN lists = 1 .. N /\ \A i \in 1 .. N : Len(lists[i]) \in Nat BY <1>3, <1>4
  <2>2. QED BY <2>1, StartsExist
<1>8. Pe!Imports \in Seq(ImportSet) /\ Joined(Pe!Imports, lists, start, N)
  <2>1. Len(lists) = N BY <1>4
  <2>2. QED BY <1>5, <1>6, <1>7, <2>1, Flattened
<1>9. ToSet(Pe!Imports) = ImportSet
  <2>1. DOMAIN Pe!Imports = 1 .. Len(Pe!Imports) BY <1>8, LenProperties
  <2>2. ToSet(Pe!Imports) \subseteq ImportSet BY <1>8, <2>1, ElementOfSeq DEF ToSet
  <2>3. ASSUME NEW m \in ImportSet PROVE m \in ToSet(Pe!Imports)
    <3>1. PICK i \in 1 .. N : \E k \in DOMAIN ThunksOf(i) : m = ImportAt(i, k) BY <1>2 DEF ImportSet
    <3>2. PICK k \in DOMAIN ThunksOf(i) : m = ImportAt(i, k) BY <3>1
    <3>3. k \in 1 .. Len(lists[i]) /\ lists[i][k] = m BY <1>3, <1>4, <3>2
    <3>4. start[i - 1] + k \in 1 .. Len(Pe!Imports) /\ Pe!Imports[start[i - 1] + k] = m
      BY <1>8, <3>3 DEF Joined
    <3>5. QED BY <2>1, <3>4 DEF ToSet
  <2>4. QED BY <2>2, <2>3
<1>10. ASSUME NEW m \in ImportSet
       PROVE  m.slot \in Nat /\ (\E S : m.name \in Option(S)) /\ [name |-> m.name, slot |-> m.slot] \in Pe!Asked
  <2>1. PICK i \in 1 .. N : \E k \in DOMAIN ThunksOf(i) : m = ImportAt(i, k) BY <1>2 DEF ImportSet
  <2>2. PICK k \in DOMAIN ThunksOf(i) : m = ImportAt(i, k) BY <2>1
  <2>3. [name |-> m.name, slot |-> m.slot] = [name |-> ThunksOf(i)[k], slot |-> pe.imports[i].table + k - 1]
    BY <2>2 DEF ImportAt
  <2>4. [name |-> m.name, slot |-> m.slot] \in Pe!Asked
    BY <1>3, <2>2, <2>3 DEF Pe!Asked, ThunksOf, Pe!ToSet, ToSet
  <2>5. QED BY <1>3, <2>2, <2>4
<1>11. ASSUME NEW q \in Pe!Asked PROVE \E m \in ImportSet : m.name = q.name /\ m.slot = q.slot
  <2>1. PICK i \in 1 .. N : \E k \in DOMAIN ThunksOf(i) :
          q = [name |-> ThunksOf(i)[k], slot |-> pe.imports[i].table + k - 1]
    BY <1>2 DEF Pe!Asked, ThunksOf, Pe!ToSet, ToSet
  <2>2. PICK k \in DOMAIN ThunksOf(i) : q = [name |-> ThunksOf(i)[k], slot |-> pe.imports[i].table + k - 1]
    BY <2>1
  <2>3. ImportAt(i, k) \in ImportSet BY <1>2, <2>2 DEF ImportSet
  <2>4. ImportAt(i, k).name = q.name /\ ImportAt(i, k).slot = q.slot BY <2>2 DEF ImportAt
  <2>5. QED BY <2>3, <2>4
<1>12. QED BY <1>8, <1>9, <1>10, <1>11

LEMMA PeCounts == \A S : Pe!Cardinality(S) = Cardinality(S)
BY DEF Pe!Cardinality, Cardinality

LEMMA RelocationFacts ==
  ASSUME pe \in PeFiles
  PROVE  /\ Pe!Relocations \in Seq(ToSet(pe.relocations))
         /\ \A i \in 1 .. Len(Pe!Relocations) : Pe!Relocations[i].rva \in Nat
<1>1. pe.relocations \in Seq(ToSet(pe.relocations)) /\ \A r \in ToSet(pe.relocations) : r.rva \in Nat
  BY PeAssumption
<1>2. PICK N \in Nat : DOMAIN pe.relocations = 1 .. N BY <1>1, LenProperties
<1>3. PICK entries : entries = {k \in 1 .. N : pe.relocations[k].kind # 0} OBVIOUS
<1>4. IsFiniteSet(entries) /\ Cardinality(entries) \in Nat /\ entries \subseteq Nat
  <2>1. entries \in SUBSET (1 .. N) BY <1>3
  <2>2. IsFiniteSet(1 .. N) BY FS_Interval
  <2>3. IsFiniteSet(entries) BY <2>1, <2>2, FS_Subset
  <2>4. QED BY <2>1, <2>3, FS_CardinalityType
<1>5. /\ \A n \in 1 .. Cardinality(entries) :
           Pe!Relocations[n] = pe.relocations[CHOOSE k \in entries : Rank(k, entries) = n]
      /\ Pe!Relocations = [n \in 1 .. Cardinality(entries) |-> Pe!Relocations[n]]
  <2>1. entries = {k \in DOMAIN pe.relocations : pe.relocations[k].kind # 0} BY <1>2, <1>3
  <2>2. Pe!Relocations = [n \in 1 .. Pe!Cardinality(entries) |->
          pe.relocations[CHOOSE k \in entries : Pe!Cardinality({j \in entries : j <= k}) = n]]
    BY <2>1 DEF Pe!Relocations
  <2>3. Pe!Relocations = [n \in 1 .. Pe!Cardinality(entries) |-> Pe!Relocations[n]]
        /\ \A n \in 1 .. Pe!Cardinality(entries) : Pe!Relocations[n] =
             pe.relocations[CHOOSE k \in entries : Pe!Cardinality({j \in entries : j <= k}) = n]
    BY <2>2
  <2>4. QED BY <2>3, PeCounts DEF Rank
<1>6. \A n \in 1 .. Cardinality(entries) : Pe!Relocations[n] \in ToSet(pe.relocations)
  <2>1. ASSUME NEW n \in 1 .. Cardinality(entries) PROVE (CHOOSE k \in entries : Rank(k, entries) = n) \in entries
    BY <1>4, Ranked
  <2>2. \A k \in entries : pe.relocations[k] \in ToSet(pe.relocations) BY <1>2, <1>3 DEF ToSet
  <2>3. QED BY <1>5, <2>1, <2>2
<1>7. Pe!Relocations \in Seq(ToSet(pe.relocations)) /\ Len(Pe!Relocations) = Cardinality(entries)
  BY <1>4, <1>5, <1>6
<1>8. QED BY <1>1, <1>6, <1>7

\* The image in an instance has operators of its own, which are those of the modules.
LEMMA PeMemory ==
  /\ \A m : Pe!Apart(m) = Apart(m)
  /\ \A m, a, n : Pe!Writable(m, a, n) = Writable(m, a, n)
  /\ \A r, s : Pe!Overlaps(r, s) = Overlaps(r, s)
  /\ \A r : Pe!CellsOf(r) = CellsOf(r)
  /\ \A m, r : Pe!CanAdd(m, r) = CanAdd(m, r)
  /\ \A m, r : Pe!Add(m, r) = Add(m, r)
  /\ \A b, n, p : Pe!RegionAt(b, n, p) = RegionAt(b, n, p)
  /\ \A n : Pe!AlignUp(n) = AlignUp(n)
  /\ \A s : Pe!ToSet(s) = ToSet(s)
<1>1. /\ \A r, s : Pe!Overlaps(r, s) = Overlaps(r, s)
      /\ \A r : Pe!CellsOf(r) = CellsOf(r)
      /\ \A m, r : Pe!Add(m, r) = Add(m, r)
      /\ \A b, n, p : Pe!RegionAt(b, n, p) = RegionAt(b, n, p)
      /\ \A s : Pe!ToSet(s) = ToSet(s)
  BY DEF Pe!Overlaps, Overlaps, Pe!CellsOf, CellsOf, Pe!Add, Add, Pe!RegionAt, RegionAt, Pe!ToSet, ToSet
<1>2. \A m, a, n : Pe!Writable(m, a, n) = Writable(m, a, n)
  BY DEF Pe!Writable, Writable, Pe!Within, Within
<1>3. \A m, r : Pe!CanAdd(m, r) = CanAdd(m, r) BY <1>1 DEF Pe!CanAdd, CanAdd
<1>4. \A n : Pe!AlignUp(n) = AlignUp(n)
  BY DEF Pe!AlignUp, AlignUp, Pe!AlignDown, AlignDown, Pe!PageOffset, PageOffset
<1>5. \A m : Pe!Apart(m) = Apart(m)
  <2>1. Pe!Memory = Memory BY DEF Pe!Memory, Memory, Pe!Region, Region, Pe!Perms, Perms
  <2>2. QED BY <1>1, <2>1 DEF Pe!Apart, Apart
<1>6. QED BY <1>1, <1>2, <1>3, <1>4, <1>5

LEMMA PeStands ==
  ASSUME pe' = pe
  PROVE  /\ (Pe!CanPlanImage)' = Pe!CanPlanImage /\ (Pe!NamesSupported)' = Pe!NamesSupported
         /\ (Pe!TablesApart)' = Pe!TablesApart /\ (Pe!Slots)' = Pe!Slots
         /\ ImportSet' = ImportSet /\ (Pe!Imports)' = Pe!Imports
         /\ (Pe!Relocations)' = Pe!Relocations
         /\ (Pe!LoadBase)' = Pe!LoadBase /\ (Pe!Delta)' = Pe!Delta
         /\ \A m : (Pe!Resolve(m))' = Pe!Resolve(m)
         /\ \A name : (Pe!Shim(name))' = Pe!Shim(name)
         /\ \A name : (Pe!ShimRegion(name))' = Pe!ShimRegion(name)
         /\ \A s : (Pe!SectionRegion(s))' = Pe!SectionRegion(s)
<1>1. (Pe!LoadBase)' = Pe!LoadBase BY DEF Pe!LoadBase
<1>2. (Pe!Delta)' = Pe!Delta BY <1>1 DEF Pe!Delta
<1>3. (Pe!Imports)' = Pe!Imports BY DEF Pe!Imports
<1>4. (Pe!Relocations)' = Pe!Relocations BY DEF Pe!Relocations
<1>5. (Pe!CanPlanImage)' = Pe!CanPlanImage BY DEF Pe!CanPlanImage, Pe!SectionSound
<1>6. (Pe!NamesSupported)' = Pe!NamesSupported BY <1>3 DEF Pe!NamesSupported
<1>7. (Pe!Asked)' = Pe!Asked BY DEF Pe!Asked
<1>8. (Pe!Slots)' = Pe!Slots BY <1>7 DEF Pe!Slots
<1>9. (Pe!TablesApart)' = Pe!TablesApart BY <1>4, <1>7, <1>8 DEF Pe!TablesApart
<1>10. ImportSet' = ImportSet BY DEF ImportSet, ImportAt, ThunksOf
<1>11. (Pe!ShimBase)' = Pe!ShimBase BY <1>1 DEF Pe!ShimBase
<1>12. \A name : (Pe!Shim(name))' = Pe!Shim(name) BY <1>11 DEF Pe!Shim
<1>13. \A m : (Pe!Resolve(m))' = Pe!Resolve(m) BY <1>12 DEF Pe!Resolve
<1>14. \A name : (Pe!ShimRegion(name))' = Pe!ShimRegion(name) BY <1>12 DEF Pe!ShimRegion
<1>15. \A s : (Pe!SectionRegion(s))' = Pe!SectionRegion(s) BY <1>1 DEF Pe!SectionRegion
<1>16. QED BY <1>1, <1>2, <1>3, <1>4, <1>5, <1>6, <1>8, <1>9, <1>10, <1>12, <1>13, <1>14, <1>15

LEMMA WordAfter ==
  ASSUME NEW at, NEW value, peWords' = Pe!PeWritten(at, value)
  PROVE  \A a : Pe!PeWord(a)' = IF a = at THEN value ELSE Pe!PeWord(a)
BY DEF Pe!PeWritten, Pe!PeWord

LEMMA FunctionNames ==
  /\ Pe!ToSet(Pe!Functions) = ToSet(Pe!Functions) /\ Len(Pe!Functions) = 7
  /\ \A name \in ToSet(Pe!Functions) : \E n \in 0 .. 6 : Pe!Functions[n + 1] = name
  /\ ToSet(Pe!Functions) = {"WriteFile", "WriteConsoleA", "WriteConsoleW", "GetStdHandle",
                           "GetConsoleMode", "SetConsoleMode", "ExitProcess"}
<1>1. Pe!ToSet(Pe!Functions) = ToSet(Pe!Functions) BY DEF Pe!ToSet, ToSet
<1>2. Len(Pe!Functions) = 7 /\ DOMAIN Pe!Functions = 1 .. 7 BY DEF Pe!Functions
<1>3. \A i \in 1 .. 7 : i - 1 \in 0 .. 6 /\ i - 1 + 1 = i OBVIOUS
<1>4. \A name \in ToSet(Pe!Functions) : \E n \in 0 .. 6 : Pe!Functions[n + 1] = name
  BY <1>2, <1>3 DEF ToSet
<1>5. \A i \in 1 .. 7 : i = 1 \/ i = 2 \/ i = 3 \/ i = 4 \/ i = 5 \/ i = 6 \/ i = 7 OBVIOUS
<1>6. /\ Pe!Functions[1] = "WriteFile" /\ Pe!Functions[2] = "WriteConsoleA"
      /\ Pe!Functions[3] = "WriteConsoleW" /\ Pe!Functions[4] = "GetStdHandle"
      /\ Pe!Functions[5] = "GetConsoleMode" /\ Pe!Functions[6] = "SetConsoleMode"
      /\ Pe!Functions[7] = "ExitProcess"
  BY DEF Pe!Functions
<1>7. ToSet(Pe!Functions) = {Pe!Functions[i] : i \in 1 .. 7} BY <1>2 DEF ToSet
<1>8. {Pe!Functions[i] : i \in 1 .. 7} =
        {Pe!Functions[1], Pe!Functions[2], Pe!Functions[3], Pe!Functions[4], Pe!Functions[5],
         Pe!Functions[6], Pe!Functions[7]}
  BY <1>5
<1>9. QED BY <1>1, <1>2, <1>4, <1>6, <1>7, <1>8

\* A supported import that is resolved is one of a name, to the stub of that name.
LEMMA ResolveIs ==
  ASSUME pe \in PeFiles, Pe!CanPlanImage, Pe!NamesSupported, NEW m \in ImportSet, Pe!Resolve(m) # None
  PROVE  \E name \in ToSet(Pe!Functions) : m.name = {name} /\ Pe!Resolve(m) = {Pe!Shim(name)}
<1>1. m.name \subseteq ToSet(Pe!Functions)
  <2>1. PICK i \in DOMAIN Pe!Imports : Pe!Imports[i] = m BY ImportFacts DEF ToSet
  <2>2. QED BY <2>1, FunctionNames DEF Pe!NamesSupported
<1>2. m.name # {} BY DEF Pe!Resolve, Pe!None, None
<1>3. PICK name : m.name = {name} BY <1>2, ImportFacts DEF Option, None, Some
<1>4. name \in ToSet(Pe!Functions) BY <1>1, <1>3
<1>5. name \notin {"NtWriteFile", "RtlExitUserProcess"} BY <1>4, FunctionNames
<1>6. m.name \cap {"NtWriteFile", "RtlExitUserProcess"} = {} /\ m.name \cap Pe!ToSet(Pe!Functions) = {name}
  <2>1. name \in Pe!ToSet(Pe!Functions) BY <1>4, FunctionNames
  <2>2. QED BY <1>3, <1>5, <2>1
<1>7. CASE m.dll \in {"kernel32.dll", "kernelbase.dll"}
  <2>1. Pe!Resolve(m) = {Pe!Shim(x) : x \in {name}} BY <1>6, <1>7 DEF Pe!Resolve
  <2>2. QED BY <1>3, <1>4, <2>1
<1>8. CASE m.dll \notin {"kernel32.dll", "kernelbase.dll"}
  BY <1>6, <1>8 DEF Pe!Resolve, Pe!None, None
<1>9. QED BY <1>7, <1>8

LEMMA PeStarts == Pe!PeInit => PeInv
BY DEF Pe!PeInit, PeInv

\* A step that fails, or does nothing.
LEMMA PeStays ==
  ASSUME PeInv, pe' = pe,
         peStage' = "failed" \/ UNCHANGED <<peStage, peTodo, peMem, peWords, peStackPointer>>
  PROVE  PeInv'
<1>1. CASE peStage' = "failed" BY <1>1 DEF PeInv
<1>2. CASE UNCHANGED peVars
  <2>1. pe' = pe /\ peStage' = peStage /\ peTodo' = peTodo /\ peMem' = peMem /\ peWords' = peWords
        /\ peStackPointer' = peStackPointer
    BY <1>2 DEF peVars
  <2>2. \A a : (Pe!PeWord(a))' = Pe!PeWord(a) BY <2>1 DEF Pe!PeWord
  <2>3. \A m : IsBound(m)' = IsBound(m) BY <2>1, <2>2, PeStands DEF IsBound
  <2>4. \A s : IsSectionMapped(s)' = IsSectionMapped(s)
    BY <2>1, <2>2, PeStands DEF IsSectionMapped, Pe!Raw
  <2>5. \A n : SectionsKept(n)' = SectionsKept(n)
    BY <2>1, <2>2, PeStands DEF SectionsKept, Pe!Raw, Length, Pe!Longer
  <2>6. \A seq, n : RemainsOf(seq, n)' = RemainsOf(seq, n) BY <2>1 DEF RemainsOf
  <2>7. QED BY <2>1, <2>3, <2>4, <2>5, <2>6, PeStands DEF PeInv
<1>3. QED BY <1>1, <1>2 DEF peVars

LEMMA PlanKeeps == PeInv /\ Pe!Plan => PeInv'
<1> SUFFICES ASSUME PeInv, Pe!Plan PROVE PeInv' OBVIOUS
<1>1. /\ Pe!CanPlanImage /\ Pe!NamesSupported /\ pe' = pe /\ pe \in PeFiles
      /\ peStage' = "map" /\ peTodo' = pe.sections
      /\ peMem' = [min |-> Pe!LoadBase, max |-> Pe!LoadBase + pe.size + PeRoom, regions |-> {}]
  BY DEF Pe!Plan, PeInv
<1>2. Pe!LoadBase \in Nat /\ pe.size \in Nat /\ PeRoom \in Nat /\ pe.sections \in Seq(ToSet(pe.sections))
  BY <1>1, PeFileFacts, PeAssumption
<1>3. Apart(peMem)' BY <1>1, <1>2 DEF Apart, Memory
<1>4. \A s \in ToSet(pe.sections) : s \in ToSet(peTodo') BY <1>1
<1>5. QED BY <1>1, <1>2, <1>3, <1>4, PeStands DEF PeInv

LEMMA AddKeepsApart ==
  ASSUME NEW m, Apart(m), NEW r \in Region, r.base < r.end, CanAdd(m, r)
  PROVE  Apart(Add(m, r))
<1>1. PICK A, B, R : m = [min |-> A, max |-> B, regions |-> R] /\ A \in Nat /\ B \in Nat /\ R \in SUBSET Region
  BY DEF Apart, Memory
<1>2. Add(m, r) = [min |-> A, max |-> B, regions |-> R \cup {r}] BY <1>1 DEF Add
<1>3. \A s \in R : ~Overlaps(r, s) /\ ~Overlaps(s, r) BY <1>1 DEF CanAdd, Overlaps
<1>4. A <= r.base /\ r.end <= B BY <1>1 DEF CanAdd, Region
<1>5. /\ \A s \in R : A <= s.base /\ s.base < s.end /\ s.end <= B
      /\ \A s, t \in R : s # t => ~Overlaps(s, t)
  BY <1>1 DEF Apart
<1>6. Add(m, r) \in Memory BY <1>1, <1>2 DEF Memory
<1>7. QED BY <1>2, <1>3, <1>4, <1>5, <1>6 DEF Apart

LEMMA SectionFacts ==
  ASSUME pe \in PeFiles, NEW s \in ToSet(pe.sections)
  PROVE  /\ Pe!SectionRegion(s) \in Region
         /\ Pe!SectionRegion(s).base < Pe!SectionRegion(s).end
         /\ Pe!SectionRegion(s).base = Pe!LoadBase + s.rva
         /\ Pe!SectionRegion(s).base + Length(s) <= Pe!SectionRegion(s).end
<1>1. /\ Pe!LoadBase \in Nat /\ s.rva \in Nat /\ Length(s) \in Nat /\ PageSize \in Nat \ {0}
  BY PeFileFacts, PageSizeAssumption
<1>2. Pe!PermOf(s) \in Perms BY DEF Pe!PermOf, Perms
<1>3. Pe!SectionRegion(s) =
        [base |-> Pe!LoadBase + s.rva,
         end |-> Pe!LoadBase + s.rva + Pe!Longer(Length(s), PageSize), perm |-> Pe!PermOf(s)]
  BY DEF Pe!SectionRegion, Pe!RegionAt, Length
<1>4. Pe!Longer(Length(s), PageSize) \in Nat \ {0} /\ Length(s) <= Pe!Longer(Length(s), PageSize)
  BY <1>1 DEF Pe!Longer
<1>5. QED BY <1>1, <1>2, <1>3, <1>4 DEF Region

LEMMA TailOf ==
  ASSUME NEW S, NEW seq \in Seq(S), seq # <<>>
  PROVE  /\ Head(seq) \in S /\ Tail(seq) \in Seq(S) /\ Len(Tail(seq)) = Len(seq) - 1 /\ Len(seq) \in Nat \ {0}
         /\ Head(seq) = seq[1]
         /\ \A i \in 1 .. Len(Tail(seq)) : Tail(seq)[i] = seq[i + 1]
         /\ ToSet(seq) = {Head(seq)} \cup ToSet(Tail(seq))
<1>1. DOMAIN seq = 1 .. Len(seq) /\ Len(seq) \in Nat \ {0}
      /\ DOMAIN Tail(seq) = 1 .. Len(seq) - 1
      /\ \A i \in 1 .. Len(seq) - 1 : Tail(seq)[i] = seq[i + 1]
  OBVIOUS
<1>2. \A i \in DOMAIN seq : i = 1 \/ i - 1 \in 1 .. Len(seq) - 1 BY <1>1
<1>3. \A i \in 1 .. Len(seq) - 1 : i + 1 \in DOMAIN seq BY <1>1
<1>4. \A i \in DOMAIN seq : i = 1 \/ seq[i] = Tail(seq)[i - 1]
  <2>1. \A i \in DOMAIN seq : i - 1 + 1 = i BY <1>1
  <2>2. QED BY <1>1, <1>2, <2>1
<1>5. Head(seq) = seq[1] /\ 1 \in DOMAIN seq BY <1>1
<1>6. ToSet(seq) \subseteq {Head(seq)} \cup ToSet(Tail(seq)) BY <1>1, <1>2, <1>4, <1>5 DEF ToSet
<1>7. {Head(seq)} \cup ToSet(Tail(seq)) \subseteq ToSet(seq) BY <1>1, <1>3, <1>5 DEF ToSet
<1>8. Head(seq) \in S /\ Tail(seq) \in Seq(S) /\ Len(Tail(seq)) = Len(seq) - 1 OBVIOUS
<1>9. QED BY <1>1, <1>5, <1>6, <1>7, <1>8

LEMMA MapSectionKeeps == PeInv /\ Pe!MapSection => PeInv'
<1> SUFFICES ASSUME PeInv, Pe!MapSection PROVE PeInv' OBVIOUS
<1>1. PICK s : s = Head(peTodo) OBVIOUS
<1>2. PICK r : r = Pe!SectionRegion(s) OBVIOUS
<1>3. /\ peStage = "map" /\ peStage' = "map" /\ peTodo # <<>> /\ CanAdd(peMem, r)
      /\ peMem' = Add(peMem, r) /\ peTodo' = Tail(peTodo) /\ pe' = pe
      /\ peWords' = [a \in DOMAIN peWords \cup CellsOf(r) |->
                      IF a \in CellsOf(r) THEN Pe!Raw(s, a - Pe!LoadBase - s.rva) ELSE peWords[a]]
  BY <1>1, <1>2, PeMemory DEF Pe!MapSection
<1>4. /\ pe \in PeFiles /\ Apart(peMem) /\ peTodo \in Seq(ToSet(pe.sections))
      /\ Pe!CanPlanImage /\ Pe!NamesSupported
      /\ \A t \in ToSet(pe.sections) : t \in ToSet(peTodo) \/ IsSectionMapped(t)
  BY <1>3 DEF PeInv
<1>5. s \in ToSet(pe.sections) /\ peTodo' \in Seq(ToSet(pe.sections))
      /\ ToSet(peTodo) = {s} \cup ToSet(peTodo')
  BY <1>1, <1>3, <1>4, TailOf
<1>6. r \in Region /\ r.base < r.end BY <1>2, <1>4, <1>5, SectionFacts
<1>7. Apart(peMem') BY <1>3, <1>4, <1>6, AddKeepsApart
<1>8. \A a : Pe!PeWord(a)' = IF a \in CellsOf(r) THEN Pe!Raw(s, a - Pe!LoadBase - s.rva) ELSE Pe!PeWord(a)
  BY <1>3 DEF Pe!PeWord
<1>9. peMem'.regions = peMem.regions \cup {r}
  BY <1>3, <1>4 DEF Add, Apart, Memory
<1>10. (Pe!LoadBase)' = Pe!LoadBase /\ \A t : (Pe!SectionRegion(t))' = Pe!SectionRegion(t) /\ \A k : (Pe!Raw(t, k))' = Pe!Raw(t, k)
  BY <1>3, PeStands DEF Pe!Raw
<1>11. IsSectionMapped(s)' BY <1>2, <1>8, <1>9, <1>10 DEF IsSectionMapped
<1>12. ASSUME NEW t \in ToSet(pe.sections), IsSectionMapped(t) PROVE IsSectionMapped(t)'
  <2>1. PICK q : q = Pe!SectionRegion(t) OBVIOUS
  <2>2. q \in peMem.regions /\ \A a \in CellsOf(q) : Pe!PeWord(a) = Pe!Raw(t, a - Pe!LoadBase - t.rva)
    BY <1>12, <2>1 DEF IsSectionMapped
  <2>3. q \in Region BY <1>4, <2>1, SectionFacts
  <2>4. CellsOf(r) \cap CellsOf(q) = {}
    <3>1. ~Overlaps(r, q) BY <1>3, <2>2 DEF CanAdd
    <3>2. QED BY <1>6, <2>3, <3>1, CellsApart DEF Region
  <2>5. q \in peMem'.regions /\ \A a \in CellsOf(q) : Pe!PeWord(a)' = Pe!Raw(t, a - Pe!LoadBase - t.rva)
    BY <1>8, <1>9, <2>2, <2>4
  <2>6. QED BY <1>10, <2>1, <2>5 DEF IsSectionMapped
<1>13. \A t \in ToSet(pe.sections) : t \in ToSet(peTodo') \/ IsSectionMapped(t)'
  <2> SUFFICES ASSUME NEW t \in ToSet(pe.sections), t \notin ToSet(peTodo') PROVE IsSectionMapped(t)'
    OBVIOUS
  <2>1. t = s \/ IsSectionMapped(t) BY <1>4, <1>5
  <2>2. CASE t = s BY <1>11, <2>2
  <2>3. CASE IsSectionMapped(t) BY <1>12, <2>3
  <2>4. QED BY <2>1, <2>2, <2>3
<1>14. QED BY <1>3, <1>4, <1>5, <1>7, <1>13, PeStands DEF PeInv

LEMMA ResolveImportsKeeps == PeInv /\ Pe!ResolveImports => PeInv'
<1> SUFFICES ASSUME PeInv, Pe!ResolveImports PROVE PeInv' OBVIOUS
<1>1. /\ peStage = "map" /\ peStage' = "bind" /\ peTodo = <<>> /\ peTodo' = Pe!Imports
      /\ pe' = pe /\ peMem' = peMem /\ peWords' = peWords
      /\ \A i \in DOMAIN Pe!Imports : Pe!Resolve(Pe!Imports[i]) # None
  BY DEF Pe!ResolveImports, Pe!None, None
<1>2. pe \in PeFiles /\ Pe!CanPlanImage /\ Pe!NamesSupported /\ Apart(peMem)
      /\ \A s \in ToSet(pe.sections) : IsSectionMapped(s)
  <2>1. ToSet(peTodo) = {} BY <1>1 DEF ToSet
  <2>2. QED BY <1>1, <2>1 DEF PeInv
<1>3. Pe!Imports \in Seq(ImportSet) /\ ToSet(Pe!Imports) = ImportSet BY <1>2, ImportFacts
<1>4. \A m \in ImportSet : Pe!Resolve(m) # None BY <1>1, <1>3 DEF ToSet
<1>5. SectionsKept(0)
  <2> SUFFICES ASSUME NEW s \in ToSet(pe.sections), NEW k \in 0 .. Length(s) - 1
               PROVE  Pe!PeWord(Pe!LoadBase + s.rva + k) =
                        Pe!Raw(s, k) + (IF \E i \in 1 .. 0 : Pe!Relocations[i].rva = s.rva + k THEN Pe!Delta ELSE 0)
    BY DEF SectionsKept
  <2>1. PICK r : r = Pe!SectionRegion(s) OBVIOUS
  <2>2. PICK B \in Nat : B = Pe!LoadBase BY <1>2, PeFileFacts
  <2>3. s.rva \in Nat /\ Length(s) \in Nat /\ Pe!Raw(s, k) \in Int
    <3>1. s.rva \in Nat /\ Length(s) \in Nat BY <1>2, PeFileFacts
    <3>2. k \in Int /\ k >= 0 BY <3>1
    <3>3. QED BY <1>2, <3>1, <3>2, PeFileFacts
  <2>4. r \in Region /\ r.base = B + s.rva /\ r.base + Length(s) <= r.end
    BY <1>2, <2>1, <2>2, SectionFacts
  <2>5. B + s.rva + k \in CellsOf(r) /\ B + s.rva + k - B - s.rva = k
    BY <2>2, <2>3, <2>4 DEF CellsOf, Region
  <2>6. Pe!PeWord(B + s.rva + k) = Pe!Raw(s, k)
    <3>1. \A a \in CellsOf(r) : Pe!PeWord(a) = Pe!Raw(s, a - B - s.rva)
      BY <1>2, <2>1, <2>2 DEF IsSectionMapped
    <3>2. PICK a \in Int : a = B + s.rva + k BY <2>2, <2>3
    <3>3. a \in CellsOf(r) /\ a - B - s.rva = k
      <4>1. a \in CellsOf(r) BY <2>5, <3>2
      <4>2. a - B - s.rva = k BY <2>2, <2>3, <3>2
      <4>3. QED BY <4>1, <4>2
    <3>4. Pe!PeWord(a) = Pe!Raw(s, a - B - s.rva) BY <3>1, <3>3
    <3>5. QED BY <3>2, <3>3, <3>4
  <2>7. ~ \E i \in 1 .. 0 : Pe!Relocations[i].rva = s.rva + k OBVIOUS
  <2>8. QED BY <2>2, <2>3, <2>6, <2>7
<1>6. SectionsKept(0)'
  BY <1>1, <1>5, PeStands DEF SectionsKept, Pe!PeWord, Pe!Raw, Length, Pe!Longer
<1>7. \A m \in ImportSet : m \in ToSet(peTodo') BY <1>1, <1>3
<1>8. QED BY <1>1, <1>2, <1>3, <1>4, <1>6, <1>7, PeStands DEF PeInv

\* What a step leaves of the sections if it writes to words that are no words of them.
LEMMA KeptElsewhere ==
  ASSUME pe \in PeFiles, pe' = pe, NEW n \in Nat, SectionsKept(n), NEW rva \in Pe!Slots,
         NEW value, rva \in Nat, peWords' = Pe!PeWritten(Pe!LoadBase + rva, value)
  PROVE  SectionsKept(n)'
<1>1. ASSUME NEW s \in ToSet(pe.sections), NEW k \in 0 .. Length(s) - 1, s.rva + k \notin Pe!Slots
      PROVE  (Pe!PeWord(Pe!LoadBase + s.rva + k))' = Pe!PeWord(Pe!LoadBase + s.rva + k)
  <2>1. PICK B \in Nat : B = Pe!LoadBase BY PeFileFacts
  <2>2. s.rva \in Nat /\ Length(s) \in Nat BY PeFileFacts
  <2>3. s.rva + k # rva BY <1>1
  <2>4. B + s.rva + k # B + rva BY <2>1, <2>2, <2>3
  <2>5. B' = B /\ \A a : Pe!PeWord(a)' = IF a = B + rva THEN value ELSE Pe!PeWord(a)
    BY <2>1, WordAfter
  <2>6. (Pe!LoadBase)' = B BY <2>1, PeStands
  <2>7. Pe!PeWord(B + s.rva + k)' = Pe!PeWord(B + s.rva + k) BY <2>4, <2>5
  <2>8. (Pe!PeWord(Pe!LoadBase + s.rva + k))' = Pe!PeWord(B + s.rva + k)'
    BY <2>6 DEF Pe!PeWord
  <2>9. QED BY <2>1, <2>7, <2>8
<1>2. QED BY <1>1, PeStands DEF SectionsKept, Pe!Raw, Length, Pe!Longer

LEMMA BindSlotKeeps == PeInv /\ Pe!BindSlot => PeInv'
<1> SUFFICES ASSUME PeInv, Pe!BindSlot PROVE PeInv' OBVIOUS
<1>1. PICK m : m = Head(peTodo) OBVIOUS
<1>2. PICK address \in Pe!Resolve(m) : peWords' = Pe!PeWritten(Pe!LoadBase + m.slot, address)
  BY <1>1 DEF Pe!BindSlot
<1>3. /\ peStage = "bind" /\ peStage' = "bind" /\ peTodo # <<>> /\ peTodo' = Tail(peTodo)
      /\ pe' = pe /\ peMem' = peMem
  BY DEF Pe!BindSlot
<1>4. /\ pe \in PeFiles /\ Apart(peMem) /\ peTodo \in Seq(ImportSet)
      /\ Pe!CanPlanImage /\ Pe!NamesSupported
      /\ \A i \in ImportSet : Pe!Resolve(i) # None
      /\ Pe!TablesApart =>
           (\A i \in ImportSet : i \in ToSet(peTodo) \/ IsBound(i)) /\ SectionsKept(0)
  BY <1>3 DEF PeInv
<1>5. m \in ImportSet /\ peTodo' \in Seq(ImportSet) /\ ToSet(peTodo) = {m} \cup ToSet(peTodo')
  BY <1>1, <1>3, <1>4, TailOf
<1>6. PICK name \in ToSet(Pe!Functions) : m.name = {name} /\ address = Pe!Shim(name)
  BY <1>2, <1>4, <1>5, ResolveIs
<1>7. \A i \in ImportSet : i.slot \in Nat /\ \E q \in Pe!Asked : q.name = i.name /\ q.slot = i.slot
  <2>1. ASSUME NEW i \in ImportSet PROVE i.slot \in Nat /\ [name |-> i.name, slot |-> i.slot] \in Pe!Asked
    BY <1>4, ImportFacts
  <2>2. QED BY <2>1
<1>8. ASSUME Pe!TablesApart PROVE SectionsKept(0)'
  <2>1. m.slot \in Pe!Slots BY <1>5, <1>7 DEF Pe!Slots
  <2>2. m.slot \in Nat /\ SectionsKept(0) BY <1>4, <1>5, <1>7, <1>8
  <2>3. QED BY <1>2, <1>3, <1>4, <2>1, <2>2, KeptElsewhere
<1>9. ASSUME Pe!TablesApart, NEW i \in ImportSet, i \notin ToSet(peTodo') PROVE IsBound(i)'
  <2>1. PICK B \in Nat : B = Pe!LoadBase BY <1>4, PeFileFacts
  <2>2. \A a : Pe!PeWord(a)' = IF a = B + m.slot THEN address ELSE Pe!PeWord(a)
    BY <1>2, <2>1, WordAfter
  <2>3. IsBound(i)' = \A x \in i.name : Pe!PeWord(B + i.slot)' = Pe!Shim(x)
    BY <1>3, <2>1, PeStands DEF IsBound, Pe!PeWord
  <2>4. CASE i.slot = m.slot
    <3>1. PICK p \in Pe!Asked, q \in Pe!Asked :
            p.name = i.name /\ p.slot = i.slot /\ q.name = m.name /\ q.slot = m.slot
      BY <1>5, <1>7
    <3>2. i.name = m.name BY <1>9, <2>4, <3>1 DEF Pe!TablesApart
    <3>3. QED BY <1>6, <2>2, <2>3, <2>4, <3>2
  <2>5. CASE i.slot # m.slot
    <3>1. IsBound(i) BY <1>4, <1>5, <1>9, <2>5
    <3>2. i.slot \in Nat /\ m.slot \in Nat BY <1>5, <1>7
    <3>3. B + i.slot # B + m.slot BY <2>1, <2>5, <3>2
    <3>4. QED BY <2>1, <2>2, <2>3, <3>1, <3>3 DEF IsBound
  <2>6. QED BY <2>4, <2>5
<1>10. QED BY <1>3, <1>4, <1>5, <1>8, <1>9, PeStands DEF PeInv

LEMMA BoundKeeps == PeInv /\ Pe!Bound => PeInv'
<1> SUFFICES ASSUME PeInv, Pe!Bound PROVE PeInv' OBVIOUS
<1>1. /\ peStage = "bind" /\ peStage' = "patch" /\ peTodo = <<>> /\ peTodo' = Pe!Relocations
      /\ pe' = pe /\ peMem' = peMem /\ peWords' = peWords
  BY DEF Pe!Bound
<1>2. ToSet(peTodo) = {} BY <1>1 DEF ToSet
<1>3. /\ pe \in PeFiles /\ Apart(peMem) /\ Pe!CanPlanImage /\ Pe!NamesSupported
      /\ Pe!TablesApart => (\A m \in ImportSet : IsBound(m)) /\ SectionsKept(0)
  BY <1>1, <1>2 DEF PeInv
<1>4. RemainsOf(Pe!Relocations, 0)'
  <2>1. PICK R : R = Pe!Relocations OBVIOUS
  <2>2. R \in Seq(ToSet(pe.relocations)) BY <1>3, <2>1, RelocationFacts
  <2>3. 0 + Len(R) = Len(R) /\ \A i \in 1 .. Len(R) : 0 + i = i BY <2>2
  <2>4. (Pe!Relocations)' = R /\ peTodo' = R BY <1>1, <2>1, PeStands
  <2>5. QED BY <1>1, <2>2, <2>3, <2>4 DEF RemainsOf
<1>5. \A m : IsBound(m)' = IsBound(m) BY <1>1, PeStands DEF IsBound, Pe!PeWord
<1>6. SectionsKept(0)' = SectionsKept(0)
  BY <1>1, PeStands DEF SectionsKept, Pe!PeWord, Pe!Raw, Length, Pe!Longer
<1>7. \E n \in Nat :
        /\ RemainsOf(Pe!Relocations, n)'
        /\ Pe!TablesApart' => (\A m \in ImportSet' : IsBound(m)') /\ SectionsKept(n)'
  BY <1>1, <1>3, <1>4, <1>5, <1>6, PeStands
<1>8. QED BY <1>1, <1>3, <1>7, PeStands DEF PeInv

LEMMA PatchKeeps == PeInv /\ Pe!Patch => PeInv'
<1> SUFFICES ASSUME PeInv, Pe!Patch PROVE PeInv' OBVIOUS
<1>1. PICK r : r = Head(peTodo) OBVIOUS
<1>2. PICK R : R = Pe!Relocations OBVIOUS
<1>3. /\ peStage = "patch" /\ peStage' = "patch" /\ peTodo # <<>> /\ peTodo' = Tail(peTodo)
      /\ pe' = pe /\ peMem' = peMem
      /\ peWords' = Pe!PeWritten(Pe!LoadBase + r.rva, Pe!PeWord(Pe!LoadBase + r.rva) + Pe!Delta)
  BY <1>1 DEF Pe!Patch
<1>4. pe \in PeFiles /\ Apart(peMem) /\ Pe!CanPlanImage /\ Pe!NamesSupported BY <1>3 DEF PeInv
<1>5. PICK n \in Nat :
        /\ RemainsOf(R, n)
        /\ Pe!TablesApart => (\A m \in ImportSet : IsBound(m)) /\ SectionsKept(n)
  BY <1>2, <1>3 DEF PeInv
<1>6. R \in Seq(ToSet(pe.relocations)) /\ \A i \in 1 .. Len(R) : R[i].rva \in Nat
  BY <1>2, <1>4, RelocationFacts
<1>7. /\ r = R[n + 1] /\ n + 1 \in 1 .. Len(R) /\ RemainsOf(R, n + 1)'
  <2>1. /\ peTodo \in Seq(ToSet(pe.relocations)) /\ n + Len(peTodo) = Len(R)
        /\ \A i \in 1 .. Len(peTodo) : peTodo[i] = R[n + i]
    BY <1>5 DEF RemainsOf
  <2>2. /\ peTodo' \in Seq(ToSet(pe.relocations)) /\ Len(peTodo') = Len(peTodo) - 1 /\ Len(peTodo) \in Nat \ {0}
        /\ r = peTodo[1] /\ \A i \in 1 .. Len(peTodo') : peTodo'[i] = peTodo[i + 1]
    BY <1>1, <1>3, <2>1, TailOf
  <2>3. \A i \in 1 .. Len(peTodo') : i + 1 \in 1 .. Len(peTodo) /\ n + (i + 1) = n + 1 + i BY <2>2
  <2>4. \A i \in 1 .. Len(peTodo') : peTodo'[i] = R[n + 1 + i] BY <2>1, <2>2, <2>3
  <2>5. n + 1 + Len(peTodo') = Len(R)
    <3>1. PICK L \in Nat \ {0} : L = Len(peTodo) BY <2>2
    <3>2. n + 1 + (L - 1) = n + L BY <3>1
    <3>3. QED BY <2>1, <2>2, <3>1, <3>2
  <2>6. r = R[n + 1] /\ n + 1 \in 1 .. Len(R) BY <2>1, <2>2
  <2>7. RemainsOf(R, n + 1)' BY <1>2, <1>3, <2>2, <2>4, <2>5, PeStands DEF RemainsOf
  <2>8. QED BY <2>6, <2>7
<1>8. r.rva \in Nat BY <1>6, <1>7
<1>9. PICK B \in Nat : B = Pe!LoadBase BY <1>4, PeFileFacts
<1>10. \A a : Pe!PeWord(a)' = IF a = B + r.rva THEN Pe!PeWord(B + r.rva) + Pe!Delta ELSE Pe!PeWord(a)
  BY <1>3, <1>9, WordAfter
<1>11. ASSUME Pe!TablesApart, NEW m \in ImportSet PROVE IsBound(m)'
  <2>1. IsBound(m) BY <1>5, <1>11
  <2>2. m.slot \in Nat /\ m.slot \in Pe!Slots BY <1>4, ImportFacts DEF Pe!Slots
  <2>3. r.rva \notin Pe!Slots BY <1>2, <1>6, <1>7, <1>11 DEF Pe!TablesApart
  <2>4. B + m.slot # B + r.rva BY <1>8, <1>9, <2>2, <2>3
  <2>5. IsBound(m)' = \A x \in m.name : Pe!PeWord(B + m.slot)' = Pe!Shim(x)
    BY <1>3, <1>9, PeStands DEF IsBound, Pe!PeWord
  <2>6. QED BY <1>9, <1>10, <2>1, <2>4, <2>5 DEF IsBound
<1>12. ASSUME Pe!TablesApart PROVE SectionsKept(n + 1)'
  <2> DEFINE moved(s, k, j) == \E i \in 1 .. j : R[i].rva = s.rva + k
  <2>1. ASSUME NEW s \in ToSet(pe.sections), NEW k \in 0 .. Length(s) - 1, s.rva + k \notin Pe!Slots
        PROVE  Pe!PeWord(B + s.rva + k)' = Pe!Raw(s, k) + (IF moved(s, k, n + 1) THEN Pe!Delta ELSE 0)
    <3>1. s.rva \in Nat /\ Length(s) \in Nat /\ Pe!Delta \in Int BY <1>4, PeFileFacts
    <3>2. Pe!Raw(s, k) \in Int
      <4>1. k \in Int /\ k >= 0 BY <3>1
      <4>2. QED BY <1>4, <4>1, PeFileFacts
    <3>3. Pe!PeWord(B + s.rva + k) = Pe!Raw(s, k) + (IF moved(s, k, n) THEN Pe!Delta ELSE 0)
      BY <1>2, <1>5, <1>9, <1>12, <2>1 DEF SectionsKept
    <3>4. moved(s, k, n + 1) <=> moved(s, k, n) \/ r.rva = s.rva + k
      <4>1. \A i \in 1 .. n + 1 : i \in 1 .. n \/ i = n + 1 OBVIOUS
      <4>2. 1 .. n \subseteq 1 .. n + 1 /\ n + 1 \in 1 .. n + 1 OBVIOUS
      <4>3. QED BY <1>7, <4>1, <4>2
    <3>5. CASE r.rva = s.rva + k
      <4>1. ~moved(s, k, n)
        <5> SUFFICES ASSUME NEW i \in 1 .. n, R[i].rva = s.rva + k PROVE FALSE OBVIOUS
        <5>1. i \in DOMAIN R /\ n + 1 \in DOMAIN R /\ i # n + 1 BY <1>6, <1>7
        <5>2. QED BY <1>2, <1>7, <1>12, <3>5, <5>1 DEF Pe!TablesApart
      <4>2. B + s.rva + k = B + r.rva BY <1>9, <3>1, <3>5
      <4>3. Pe!PeWord(B + r.rva) = Pe!Raw(s, k) BY <3>2, <3>3, <4>1, <4>2
      <4>4. QED BY <1>10, <3>4, <3>5, <4>2, <4>3
    <3>6. CASE r.rva # s.rva + k
      <4>1. B + s.rva + k # B + r.rva BY <1>8, <1>9, <3>1, <3>6
      <4>2. QED BY <1>10, <3>3, <3>4, <3>6, <4>1
    <3>7. QED BY <3>5, <3>6
  <2> HIDE DEF moved
  <2>2. \A s : Length(s)' = Length(s) /\ \A k : Pe!Raw(s, k)' = Pe!Raw(s, k)
    BY DEF Length, Pe!Longer, Pe!Raw
  <2>3. (Pe!LoadBase)' = B /\ (Pe!Delta)' = Pe!Delta /\ (Pe!Relocations)' = R /\ (Pe!Slots)' = Pe!Slots
    BY <1>2, <1>3, <1>9, PeStands
  <2>4. \A s, k : (Pe!PeWord(Pe!LoadBase + s.rva + k))' = Pe!PeWord(B + s.rva + k)' BY <2>3 DEF Pe!PeWord
  <2>5. QED BY <1>3, <2>1, <2>2, <2>3, <2>4 DEF SectionsKept, moved
<1>13. \E j \in Nat :
        /\ RemainsOf(Pe!Relocations, j)'
        /\ Pe!TablesApart' => (\A m \in ImportSet' : IsBound(m)') /\ SectionsKept(j)'
  <2>1. n + 1 \in Nat /\ RemainsOf(Pe!Relocations, n + 1)' = RemainsOf(R, n + 1)'
    BY <1>2, <1>3, PeStands DEF RemainsOf
  <2>2. QED BY <1>3, <1>7, <1>11, <1>12, <2>1, PeStands
<1>14. QED BY <1>3, <1>4, <1>13, PeStands DEF PeInv

LEMMA ShimFacts ==
  ASSUME pe \in PeFiles
  PROVE  /\ \A name \in ToSet(Pe!Functions) :
              /\ Pe!Shim(name) \in Nat
              /\ Pe!ShimRegion(name) \in Region /\ "x" \in Pe!ShimRegion(name).perm
              /\ Pe!ShimRegion(name).base = Pe!Shim(name)
              /\ Pe!ShimRegion(name).end = Pe!Shim(name) + PageSize
         /\ \A x, y \in ToSet(Pe!Functions) :
              Pe!ShimRegion(x) # Pe!ShimRegion(y) => ~Overlaps(Pe!ShimRegion(x), Pe!ShimRegion(y))
<1>1. PageSize \in Nat \ {0} BY PageSizeAssumption
<1>2. Pe!ShimBase \in Nat
  <2>1. PICK n \in Nat : n = Pe!LoadBase + pe.size BY PeFileFacts
  <2>2. n % PageSize \in 0 .. PageSize - 1 BY <1>1, <2>1
  <2>3. AlignUp(n) \in Nat BY <1>1, <2>1, <2>2 DEF AlignUp, AlignDown, PageOffset
  <2>4. QED BY <2>1, <2>3, PeMemory DEF Pe!ShimBase
<1> DEFINE at(name) == CHOOSE n \in 0 .. Len(Pe!Functions) - 1 : Pe!Functions[n + 1] = name
<1>3. \A name \in ToSet(Pe!Functions) : at(name) \in 0 .. 6 /\ Pe!Functions[at(name) + 1] = name
  <2> SUFFICES ASSUME NEW name \in ToSet(Pe!Functions)
               PROVE  at(name) \in 0 .. 6 /\ Pe!Functions[at(name) + 1] = name
    OBVIOUS
  <2>1. 0 .. Len(Pe!Functions) - 1 = 0 .. 6 BY FunctionNames
  <2>2. \E n \in 0 .. 6 : Pe!Functions[n + 1] = name BY FunctionNames
  <2>3. QED BY <2>1, <2>2
<1>4. \A name : Pe!Shim(name) = Pe!ShimBase + PageSize * at(name) BY DEF Pe!Shim
<1> HIDE DEF at
<1>5. ASSUME NEW name \in ToSet(Pe!Functions)
      PROVE  /\ Pe!Shim(name) \in Nat
             /\ Pe!ShimRegion(name) = [base |-> Pe!Shim(name), end |-> Pe!Shim(name) + PageSize,
                                       perm |-> {"r", "w", "x"}]
  <2>1. PICK n \in Nat : n = at(name) BY <1>3
  <2>2. PageSize * n \in Nat BY <1>1
  <2>3. Pe!Shim(name) \in Nat BY <1>2, <1>4, <2>1, <2>2
  <2>4. QED BY <2>3 DEF Pe!ShimRegion, Pe!RegionAt
<1>6. ASSUME NEW x \in ToSet(Pe!Functions), NEW y \in ToSet(Pe!Functions), at(x) < at(y)
      PROVE  Pe!Shim(x) + PageSize <= Pe!Shim(y)
  <2>1. PICK i \in Nat, j \in Nat : i = at(x) /\ j = at(y) BY <1>3
  <2>2. j - i - 1 \in Nat /\ j = i + 1 + (j - i - 1) BY <1>6, <2>1
  <2>3. PICK d \in Nat : j = i + 1 + d BY <2>2
  <2>4. PageSize * j = PageSize * i + PageSize + PageSize * d BY <1>1, <2>3
  <2>5. PageSize * d \in Nat /\ PageSize * i \in Nat /\ PageSize * j \in Nat BY <1>1
  <2>6. QED BY <1>1, <1>2, <1>4, <2>1, <2>4, <2>5
<1>7. ASSUME NEW x \in ToSet(Pe!Functions), NEW y \in ToSet(Pe!Functions), Pe!ShimRegion(x) # Pe!ShimRegion(y)
      PROVE  ~Overlaps(Pe!ShimRegion(x), Pe!ShimRegion(y))
  <2>1. x # y BY <1>7
  <2>2. at(x) \in 0 .. 6 /\ at(y) \in 0 .. 6 /\ at(x) # at(y) BY <1>3, <2>1
  <2>3. at(x) < at(y) \/ at(y) < at(x) BY <2>2
  <2>4. Pe!Shim(x) + PageSize <= Pe!Shim(y) \/ Pe!Shim(y) + PageSize <= Pe!Shim(x) BY <1>6, <2>3
  <2>5. Pe!Shim(x) \in Nat /\ Pe!Shim(y) \in Nat BY <1>5
  <2>6. /\ Pe!ShimRegion(x).base = Pe!Shim(x) /\ Pe!ShimRegion(x).end = Pe!Shim(x) + PageSize
        /\ Pe!ShimRegion(y).base = Pe!Shim(y) /\ Pe!ShimRegion(y).end = Pe!Shim(y) + PageSize
    BY <1>5
  <2>7. QED BY <1>1, <2>4, <2>5, <2>6 DEF Overlaps
<1>8. ASSUME NEW name \in ToSet(Pe!Functions)
      PROVE  /\ Pe!ShimRegion(name) \in Region /\ "x" \in Pe!ShimRegion(name).perm
             /\ Pe!ShimRegion(name).base = Pe!Shim(name)
             /\ Pe!ShimRegion(name).end = Pe!Shim(name) + PageSize
  BY <1>1, <1>5 DEF Region, Perms
<1>9. QED BY <1>5, <1>7, <1>8

\* Regions added together to a memory that has room for each, and apart from one another.
LEMMA ShimsApart ==
  ASSUME pe \in PeFiles, Apart(peMem), Pe!ShimsFit
  PROVE  /\ Apart(Pe!WithShims)
         /\ \A name \in ToSet(Pe!Functions) : Pe!ShimRegion(name) \in Pe!WithShims.regions
<1> DEFINE F == ToSet(Pe!Functions)
           added == {Pe!ShimRegion(name) : name \in F}
<1>1. PICK A, B, R : peMem = [min |-> A, max |-> B, regions |-> R] /\ A \in Nat /\ B \in Nat /\ R \in SUBSET Region
  BY DEF Apart, Memory
<1>2. Pe!WithShims = [min |-> A, max |-> B, regions |-> R \cup added]
  BY <1>1, FunctionNames DEF Pe!WithShims
<1>3. \A r \in added : CanAdd(peMem, r) BY FunctionNames, PeMemory DEF Pe!ShimsFit
<1>4. \A r \in added : r \in Region /\ r.base < r.end
  <2> SUFFICES ASSUME NEW name \in F PROVE Pe!ShimRegion(name) \in Region /\ Pe!ShimRegion(name).base < Pe!ShimRegion(name).end
    OBVIOUS
  <2>1. QED BY ShimFacts, PageSizeAssumption
<1>5. \A r, s \in added : r # s => ~Overlaps(r, s) BY ShimFacts
<1> HIDE DEF added
<1>6. \A r \in added : A <= r.base /\ r.end <= B /\ \A s \in R : ~Overlaps(r, s) /\ ~Overlaps(s, r)
  BY <1>1, <1>3, <1>4 DEF CanAdd, Overlaps, Region
<1>7. /\ \A s \in R : A <= s.base /\ s.base < s.end /\ s.end <= B
      /\ \A s, t \in R : s # t => ~Overlaps(s, t)
  BY <1>1 DEF Apart
<1>8. Pe!WithShims \in Memory BY <1>1, <1>2, <1>4 DEF Memory
<1>9. Apart(Pe!WithShims) BY <1>2, <1>4, <1>5, <1>6, <1>7, <1>8 DEF Apart
<1>10. QED BY <1>2, <1>9 DEF added

LEMMA FurnishKeeps == PeInv /\ Pe!Furnish => PeInv'
<1> SUFFICES ASSUME PeInv, Pe!Furnish PROVE PeInv' OBVIOUS
<1>1. PICK W : W = Pe!WithShims OBVIOUS
<1>2. PICK S : S = Pe!AlignUp(PeStack) OBVIOUS
<1>3. PICK b : b = Pe!FromBelow(W, PeStack) OBVIOUS
<1>4. /\ peStage = "patch" /\ peStage' = "running" /\ peTodo = <<>> /\ pe' = pe /\ peWords' = peWords
      /\ Pe!ShimsFit /\ Pe!CanMap(W, PeStack)
      /\ peMem' = Add(W, RegionAt(b, S, {"r", "w"}))
      /\ peStackPointer' = b + PeStack - PageSize
  BY <1>1, <1>2, <1>3, PeMemory DEF Pe!Furnish, Pe!MapFromBelow
<1>5. pe \in PeFiles /\ Apart(peMem) /\ Pe!CanPlanImage /\ Pe!NamesSupported
  BY <1>4 DEF PeInv
<1>6. Apart(W) /\ \A name \in ToSet(Pe!Functions) : Pe!ShimRegion(name) \in W.regions
  BY <1>1, <1>4, <1>5, ShimsApart
<1>7. S \in Nat /\ PeStack <= S /\ PeStack \in Nat /\ PeStack >= 2 * PageSize /\ PageSize \in Nat \ {0}
  <2>1. PeStack \in Nat /\ PeStack >= 2 * PageSize /\ PageSize \in Nat \ {0}
    BY PeAssumption, PageSizeAssumption
  <2>2. PeStack % PageSize \in 0 .. PageSize - 1 /\ S = AlignUp(PeStack) BY <1>2, <2>1, PeMemory
  <2>3. QED BY <2>1, <2>2 DEF AlignUp, AlignDown, PageOffset
<1>8. b \in Nat /\ CanAdd(W, RegionAt(b, S, {}))
  <2>1. PICK free : free = Pe!Candidates(W, S) OBVIOUS
  <2>2. free = {a \in W.min .. W.max - S : Pe!PageOffset(a) = 0 /\ CanAdd(W, RegionAt(a, S, {}))}
    BY <2>1, PeMemory DEF Pe!Candidates
  <2>3. W.min \in Nat /\ W.max \in Nat BY <1>6 DEF Apart, Memory
  <2>4. free \subseteq Nat BY <1>7, <2>2, <2>3
  <2>5. free # {} BY <1>2, <1>4, <2>1 DEF Pe!CanMap
  <2>6. \E a \in free : Pe!IsLowestOf(a, free) BY <2>4, <2>5, Least DEF Pe!IsLowestOf
  <2>7. b \in free
    <3>1. b = CHOOSE a \in free : Pe!IsLowestOf(a, free) BY <1>2, <1>3, <2>1 DEF Pe!FromBelow
    <3>2. QED BY <2>6, <3>1
  <2>8. QED BY <2>2, <2>4, <2>7
<1>9. PICK r : r = [base |-> b, end |-> b + S, perm |-> {"r", "w"}] OBVIOUS
<1>10. r = RegionAt(b, S, {"r", "w"}) /\ r \in Region /\ r.base < r.end
  BY <1>7, <1>8, <1>9 DEF RegionAt, Region, Perms
<1>11. CanAdd(W, r) BY <1>8, <1>9 DEF CanAdd, RegionAt, Overlaps
<1>12. Apart(peMem') BY <1>4, <1>6, <1>10, <1>11, AddKeepsApart
<1>13. peMem'.regions = W.regions \cup {r}
  <2>1. peMem' = Add(W, r) BY <1>4, <1>10
  <2>2. QED BY <1>6, <2>1 DEF Add, Apart, Memory
<1>14. Writable(peMem', peStackPointer' - PageSize, 2 * PageSize)
  <2>1. Within(peStackPointer' - PageSize, 2 * PageSize, r)
    BY <1>4, <1>7, <1>8, <1>9 DEF Within
  <2>2. r \in peMem'.regions /\ "w" \in r.perm BY <1>9, <1>13
  <2>3. QED BY <2>1, <2>2 DEF Writable
<1>15. ASSUME Pe!TablesApart
       PROVE  (\A m \in ImportSet : IsBound(m)) /\ SectionsKept(Len(Pe!Relocations))
  <2>1. PICK n \in Nat :
          /\ RemainsOf(Pe!Relocations, n)
          /\ (\A m \in ImportSet : IsBound(m)) /\ SectionsKept(n)
    BY <1>4, <1>15 DEF PeInv
  <2>2. n = Len(Pe!Relocations)
    <3>1. Len(peTodo) = 0 BY <1>4
    <3>2. QED BY <2>1, <3>1 DEF RemainsOf
  <2>3. QED BY <2>1, <2>2
<1>16. \A m : IsBound(m)' = IsBound(m) BY <1>4, PeStands DEF IsBound, Pe!PeWord
<1>17. SectionsKept(Len(Pe!Relocations))' = SectionsKept(Len(Pe!Relocations))
  BY <1>4, PeStands DEF SectionsKept, Pe!PeWord, Pe!Raw, Length, Pe!Longer
<1>18. \A name \in ToSet(Pe!Functions) : (Pe!ShimRegion(name))' \in peMem'.regions
  BY <1>4, <1>6, <1>13, PeStands
<1>19. (Pe!Functions)' = Pe!Functions BY DEF Pe!Functions
<1>20. QED
  BY <1>4, <1>5, <1>12, <1>14, <1>15, <1>16, <1>17, <1>18, <1>19, PeStands DEF PeInv

LEMMA PeKeeps == PeInv /\ (Pe!PeNext \/ UNCHANGED peVars) => PeInv'
<1> SUFFICES ASSUME PeInv, Pe!PeNext \/ UNCHANGED peVars PROVE PeInv' OBVIOUS
<1>1. CASE UNCHANGED peVars BY <1>1, PeStays DEF peVars
<1>2. CASE Pe!Plan BY <1>2, PlanKeeps
<1>3. CASE Pe!MapSection BY <1>3, MapSectionKeeps
<1>4. CASE Pe!ResolveImports BY <1>4, ResolveImportsKeeps
<1>5. CASE Pe!BindSlot BY <1>5, BindSlotKeeps
<1>6. CASE Pe!Bound BY <1>6, BoundKeeps
<1>7. CASE Pe!Patch BY <1>7, PatchKeeps
<1>8. CASE Pe!Furnish BY <1>8, FurnishKeeps
<1>9. CASE Pe!PeFail BY <1>9, PeStays DEF Pe!PeFail
<1>10. QED
  BY <1>1, <1>2, <1>3, <1>4, <1>5, <1>6, <1>7, <1>8, <1>9
  DEF Pe!PeNext, Pe!CannotPlan, Pe!CannotMapSection, Pe!CannotResolve, Pe!CannotBind,
      Pe!CannotPatch, Pe!CannotFurnish

LEMMA PeInvTells == PeInv => ImageIsBound
<1> SUFFICES ASSUME PeInv, peStage = "running" PROVE ImageIsBound
  BY DEF ImageIsBound, Pe!ImageIsBound
<1>1. /\ pe \in PeFiles /\ Apart(peMem) /\ Pe!CanPlanImage /\ Pe!NamesSupported
      /\ Pe!TablesApart => (\A m \in ImportSet : IsBound(m)) /\ SectionsKept(Len(Pe!Relocations))
      /\ \A name \in ToSet(Pe!Functions) : Pe!ShimRegion(name) \in peMem.regions
      /\ Writable(peMem, peStackPointer - PageSize, 2 * PageSize)
  BY DEF PeInv
<1>2. ASSUME Pe!TablesApart, NEW q \in Pe!Asked, NEW name \in q.name
      PROVE  /\ Pe!PeWord(Pe!LoadBase + q.slot) = Pe!Shim(name)
             /\ \E r \in peMem.regions : Pe!Within(Pe!Shim(name), PageSize, r) /\ "x" \in r.perm
  <2>1. PICK m \in ImportSet : m.name = q.name /\ m.slot = q.slot BY <1>1, ImportFacts
  <2>2. Pe!PeWord(Pe!LoadBase + q.slot) = Pe!Shim(name) BY <1>1, <1>2, <2>1 DEF IsBound
  <2>3. PICK i \in DOMAIN Pe!Imports : Pe!Imports[i] = m BY <1>1, ImportFacts DEF ToSet
  <2>4. name \in ToSet(Pe!Functions) BY <1>1, <2>1, <2>3, FunctionNames DEF Pe!NamesSupported
  <2>5. PICK r : r = Pe!ShimRegion(name) OBVIOUS
  <2>6. r \in peMem.regions /\ r.base = Pe!Shim(name) /\ r.end = Pe!Shim(name) + PageSize /\ "x" \in r.perm
        /\ Pe!Shim(name) \in Nat
    BY <1>1, <2>4, <2>5, ShimFacts
  <2>7. Pe!Within(Pe!Shim(name), PageSize, r) BY <2>6, PageSizeAssumption DEF Pe!Within
  <2>8. QED BY <2>2, <2>6, <2>7
<1>3. ASSUME Pe!TablesApart, NEW s \in ToSet(pe.sections), NEW k \in 0 .. Length(s) - 1, s.rva + k \notin Pe!Slots
      PROVE  Pe!PeWord(Pe!LoadBase + s.rva + k) = Pe!Expected(s, k)
  <2>1. PICK R : R = Pe!Relocations OBVIOUS
  <2>2. R \in Seq(ToSet(pe.relocations)) BY <1>1, <2>1, RelocationFacts
  <2>3. (\E r \in Pe!ToSet(R) : r.rva = s.rva + k) <=> \E i \in 1 .. Len(R) : R[i].rva = s.rva + k
    BY <2>2 DEF Pe!ToSet
  <2>4. QED BY <1>1, <1>3, <2>1, <2>3 DEF SectionsKept, Pe!Expected
<1>4. \A s : Pe!Longer(s.vsize, Len(s.raw)) = Length(s) BY DEF Length
<1>5. Pe!Apart(peMem) /\ Pe!Writable(peMem, peStackPointer - PageSize, 2 * PageSize)
  BY <1>1, PeMemory
<1>6. QED BY <1>2, <1>3, <1>4, <1>5, PeMemory DEF ImageIsBound, Pe!ImageIsBound

LEMMA RunnerIsPe == [RunnerNext]_runnerVars => Pe!PeNext \/ UNCHANGED peVars
<1> SUFFICES ASSUME [RunnerNext]_runnerVars PROVE Pe!PeNext \/ UNCHANGED peVars OBVIOUS
<1>1. CASE LoadPe BY <1>1 DEF LoadPe
<1>2. CASE UNCHANGED peVars BY <1>2
<1>3. CASE RunnerNext /\ ~LoadPe
  BY <1>2, <1>3
  DEF RunnerNext, Begin, Reject, Describe, Report, LoadMacho, LoadStatic, LoadDynamic, Exit, GiveUp, Answered
<1>4. QED BY <1>1, <1>2, <1>3 DEF runnerVars

\* A Windows program starts with its regions apart and room around its stack
\* pointer, whatever its tables are. If no word is named twice by them (TablesApart),
\* it has its imports bound and its words relocated, and nothing else in its
\* sections changed; of a file whose tables overlap, that is not said.
THEOREM ImageIsAlwaysBound == RunnerSpec => []ImageIsBound
<1>1. RunnerInit => PeInv
  <2>1. RunnerInit => Pe!PeInit BY DEF RunnerInit
  <2>2. QED BY <2>1, PeStarts
<1>2. PeInv /\ [RunnerNext]_runnerVars => PeInv' BY RunnerIsPe, PeKeeps
<1>3. QED BY <1>1, <1>2, PeInvTells, PTL DEF RunnerSpec, runnerVars
-----------------------------------------------------------------------------
(* The loader of static programs.                                          *)

LEMMA StaticFileFacts ==
  ASSUME elf \in StaticFiles
  PROVE  /\ elf.length \in Nat /\ elf.headers \in Nat
         /\ elf.segments \in Seq(Static!Segments)
         /\ \A s \in Static!Segments :
              /\ s.vaddr \in Nat /\ s.offset \in Nat /\ s.filesz \in Nat /\ s.memsz \in Nat
              /\ Static!Larger(s.filesz, s.memsz) \in Nat
              /\ s.filesz <= Static!Larger(s.filesz, s.memsz) /\ s.memsz <= Static!Larger(s.filesz, s.memsz)
         /\ \A t \in elf.tls : /\ elf.tls = {t} /\ t.offset \in Nat /\ t.filesz \in Nat
                               /\ t.memsz \in Nat /\ t.align \in Nat
         /\ \A name \in DOMAIN elf.symbols : elf.symbols[name] \in Nat
         /\ elf.resolvers \in Seq(Static!ToSet(elf.resolvers))
         /\ \A r \in Static!ToSet(elf.resolvers) : r.at \in Nat /\ \A impl \in r.impl : r.impl = {impl}
<1>1. Static!Segments = ToSet(elf.segments) /\ Static!ToSet(elf.resolvers) = ToSet(elf.resolvers)
  BY DEF Static!Segments, Static!ToSet, ToSet
<1>2. /\ elf.length \in Nat /\ elf.headers \in Nat
      /\ elf.segments \in Seq(ToSet(elf.segments))
      /\ elf.resolvers \in Seq(ToSet(elf.resolvers))
      /\ \A name \in DOMAIN elf.symbols : elf.symbols[name] \in Nat
  BY StaticAssumption
<1>3. ASSUME NEW s \in ToSet(elf.segments)
      PROVE  /\ s.vaddr \in Nat /\ s.offset \in Nat /\ s.filesz \in Nat /\ s.memsz \in Nat
             /\ Static!Larger(s.filesz, s.memsz) \in Nat
             /\ s.filesz <= Static!Larger(s.filesz, s.memsz) /\ s.memsz <= Static!Larger(s.filesz, s.memsz)
  <2>1. s.vaddr \in Nat /\ s.offset \in Nat /\ s.filesz \in Nat /\ s.memsz \in Nat BY StaticAssumption
  <2>2. QED BY <2>1 DEF Static!Larger
<1>4. ASSUME NEW t \in elf.tls
      PROVE elf.tls = {t} /\ t.offset \in Nat /\ t.filesz \in Nat /\ t.memsz \in Nat /\ t.align \in Nat
  <2>1. t.offset \in Nat /\ t.filesz \in Nat /\ t.memsz \in Nat /\ t.align \in Nat BY StaticAssumption
  <2>2. elf.tls \in Option(elf.tls) BY StaticAssumption
  <2>3. elf.tls = {t} BY <2>2 DEF Option, None, Some
  <2>4. QED BY <2>1, <2>3
<1>5. ASSUME NEW r \in ToSet(elf.resolvers) PROVE r.at \in Nat /\ \A impl \in r.impl : r.impl = {impl}
  <2>1. r.at \in Nat /\ r.impl \in Option(r.impl) BY StaticAssumption
  <2>2. QED BY <2>1 DEF Option, None, Some
<1>6. QED BY <1>1, <1>2, <1>3, <1>4, <1>5

LEMMA StaticAligned ==
  ASSUME NEW n \in Nat
  PROVE  /\ Static!PageOffset(n) \in Nat
         /\ Static!AlignDown(n) \in Int /\ Static!AlignDown(n) = n - Static!PageOffset(n)
         /\ Static!AlignUp(n) \in Int /\ n <= Static!AlignUp(n)
<1>1. StaticPageSize \in Nat \ {0} BY StaticAssumption
<1>2. (n % StaticPageSize) \in 0 .. StaticPageSize - 1 BY <1>1, SMT
<1>3. PICK o \in 0 .. StaticPageSize - 1 : Static!PageOffset(n) = o BY <1>2 DEF Static!PageOffset
<1>4. Static!AlignDown(n) = n - o BY <1>3 DEF Static!AlignDown
<1>5. Static!AlignUp(n) = IF o = 0 THEN n ELSE n - o + StaticPageSize BY <1>3, <1>4 DEF Static!AlignUp
<1>6. QED BY <1>1, <1>3, <1>4, <1>5

\* The region of a segment holds its words.
LEMMA SegmentInRegion ==
  ASSUME elf \in StaticFiles, NEW s \in Static!Segments
  PROVE  /\ Static!SegmentRegion(s).base \in Int /\ Static!SegmentRegion(s).end \in Int
         /\ Static!SegmentRegion(s).base <= s.vaddr
         /\ s.vaddr + Static!Larger(s.filesz, s.memsz) <= Static!SegmentRegion(s).end
<1>1. s.vaddr \in Nat /\ Static!Larger(s.filesz, s.memsz) \in Nat BY StaticFileFacts
<1>2. PICK o \in Nat : o = Static!PageOffset(s.vaddr) /\ Static!AlignDown(s.vaddr) = s.vaddr - o
  BY <1>1, StaticAligned
<1>3. PICK n \in Nat : n = Static!Larger(s.filesz, s.memsz) BY <1>1
<1>4. o + n \in Nat OBVIOUS
<1>5. PICK size \in Int : size = Static!AlignUp(o + n) /\ o + n <= size BY <1>4, StaticAligned
<1>6. Static!SegmentRegion(s).base = s.vaddr - o /\ Static!SegmentRegion(s).end = s.vaddr - o + size
  BY <1>2, <1>3, <1>5 DEF Static!SegmentRegion, Static!RegionAt
<1>7. QED BY <1>1, <1>2, <1>3, <1>5, <1>6

LEMMA UppermostExists ==
  ASSUME elf \in StaticFiles, Static!CanLoad
  PROVE  \E s \in Static!Segments : Static!IsUppermost(s, Static!Segments)
<1> DEFINE at == {s.vaddr : s \in Static!Segments}
<1>1. PICK N \in Nat : DOMAIN elf.segments = 1 .. N BY StaticFileFacts, LenProperties
<1>2. Static!Segments = {elf.segments[k] : k \in 1 .. N} BY <1>1 DEF Static!Segments, Static!ToSet
<1>3. IsFiniteSet(at)
  <2> DEFINE f == [k \in 1 .. N |-> elf.segments[k].vaddr]
  <2>1. f \in Surjection(1 .. N, at) BY <1>2 DEF Surjection
  <2>2. IsFiniteSet(1 .. N) BY FS_Interval
  <2> HIDE DEF f, at
  <2>3. QED BY <2>1, <2>2, FS_Surjection
<1>4. at \subseteq Nat /\ at # {} BY StaticFileFacts DEF Static!CanLoad, Static!CanPlan
<1>5. PICK top \in at : \A n \in at : n <= top
  <2> HIDE DEF at
  <2>1. QED BY <1>3, <1>4, MaxIs
<1>6. QED BY <1>5 DEF Static!IsUppermost

\* The stack is above the segments, and a page of it holds what the program finds.
LEMMA StaticPlaces ==
  ASSUME elf \in StaticFiles, Static!CanLoad
  PROVE  /\ Static!StackStart \in Int /\ Static!StackEnd \in Int
         /\ Static!StackEnd = Static!StackStart + StaticPageSize
         /\ \A s \in Static!Segments :
              s.vaddr + Static!Larger(s.filesz, s.memsz) <= Static!StackStart - 1
<1> DEFINE S == Static!Segments
<1>1. PICK up \in S : Static!IsUppermost(up, S) /\ up = CHOOSE s \in S : Static!IsUppermost(s, S)
  BY UppermostExists
<1>2. up.vaddr \in Nat /\ up.filesz \in Nat /\ up.memsz \in Nat BY StaticFileFacts
<1>3. PICK filled \in Int : filled = Static!AlignUp(up.filesz) /\ up.filesz <= filled BY <1>2, StaticAligned
<1>4. PICK last \in Nat : /\ last = Static!Larger(up.vaddr + up.memsz, up.vaddr + filled)
                         /\ up.vaddr <= last
                         /\ up.vaddr + Static!Larger(up.filesz, up.memsz) <= last
  BY <1>2, <1>3 DEF Static!Larger
<1>5. PICK top \in Int : top = Static!PlannedTop(S) /\ last <= top
  BY <1>1, <1>3, <1>4, StaticAligned DEF Static!PlannedTop, Static!PlannedEnd
<1>6. PICK room \in Int : room = Static!AlignUp(StaticStack) /\ StaticStack <= room
  BY StaticAssumption, StaticAligned
<1>7. StaticPageSize \in Nat /\ StaticStack \in Nat \ {0} BY StaticAssumption
<1>8. Static!StackEnd = top + room + StaticPageSize
  BY <1>5, <1>6 DEF Static!StackEnd, Static!StaticStackEnd
<1>9. Static!StackStart = top + room BY <1>5, <1>6, <1>7, <1>8 DEF Static!StackStart
<1>10. ASSUME NEW s \in S PROVE s.vaddr + Static!Larger(s.filesz, s.memsz) <= top
  <2>1. CASE s = up
    <3>1. Static!Larger(up.filesz, up.memsz) \in Nat BY StaticFileFacts
    <3>2. QED BY <1>2, <1>4, <1>5, <2>1, <3>1
  <2>2. CASE s # up
    <3>1. s.vaddr <= up.vaddr BY <1>1 DEF Static!IsUppermost
    <3>2. ~Static!Overlaps(Static!SegmentRegion(s), Static!SegmentRegion(up))
      BY <2>2 DEF Static!CanLoad, Static!SegmentsFit
    <3>3. s.vaddr # up.vaddr
      <4>1. PICK m \in DOMAIN elf.segments, n \in DOMAIN elf.segments : s = elf.segments[m] /\ up = elf.segments[n]
        BY DEF Static!Segments, Static!ToSet
      <4>2. QED BY <2>2, <4>1 DEF Static!CanLoad
    <3>4. s.vaddr \in Nat /\ Static!Larger(s.filesz, s.memsz) \in Nat BY StaticFileFacts
    <3>5. Static!Larger(up.filesz, up.memsz) \in Nat BY StaticFileFacts
    <3>6. /\ Static!SegmentRegion(s).base \in Int /\ Static!SegmentRegion(s).end \in Int
          /\ Static!SegmentRegion(s).base <= s.vaddr
          /\ s.vaddr + Static!Larger(s.filesz, s.memsz) <= Static!SegmentRegion(s).end
      BY SegmentInRegion
    <3>7. /\ Static!SegmentRegion(up).base \in Int /\ Static!SegmentRegion(up).end \in Int
          /\ Static!SegmentRegion(up).base <= up.vaddr
          /\ up.vaddr + Static!Larger(up.filesz, up.memsz) <= Static!SegmentRegion(up).end
      BY SegmentInRegion
    <3>8. Static!SegmentRegion(s).end <= Static!SegmentRegion(up).base
      BY <1>2, <3>1, <3>2, <3>3, <3>4, <3>5, <3>6, <3>7 DEF Static!Overlaps
    <3>9. QED BY <1>2, <1>4, <1>5, <3>4, <3>6, <3>7, <3>8
  <2>3. QED BY <2>1, <2>2
<1>11. QED
  <2>1. \A s \in S : s.vaddr + Static!Larger(s.filesz, s.memsz) \in Int BY StaticFileFacts
  <2>2. QED BY <1>5, <1>6, <1>7, <1>8, <1>9, <1>10, <2>1

\* An address is a word of one segment only.
LEMMA SegmentsApart ==
  ASSUME elf \in StaticFiles, Static!CanLoad, NEW s \in Static!Segments, NEW t \in Static!Segments, NEW a \in Int,
         s.vaddr <= a, a < s.vaddr + Static!Larger(s.filesz, s.memsz),
         t.vaddr <= a, a < t.vaddr + Static!Larger(t.filesz, t.memsz)
  PROVE  s = t
<1> SUFFICES ASSUME s # t PROVE FALSE OBVIOUS
<1>1. ~Static!Overlaps(Static!SegmentRegion(s), Static!SegmentRegion(t)) BY DEF Static!CanLoad, Static!SegmentsFit
<1>2. /\ s.vaddr \in Nat /\ Static!Larger(s.filesz, s.memsz) \in Nat
      /\ t.vaddr \in Nat /\ Static!Larger(t.filesz, t.memsz) \in Nat
  BY StaticFileFacts
<1>3. /\ Static!SegmentRegion(s).base \in Int /\ Static!SegmentRegion(s).end \in Int
      /\ Static!SegmentRegion(s).base <= s.vaddr
      /\ s.vaddr + Static!Larger(s.filesz, s.memsz) <= Static!SegmentRegion(s).end
  BY SegmentInRegion
<1>4. /\ Static!SegmentRegion(t).base \in Int /\ Static!SegmentRegion(t).end \in Int
      /\ Static!SegmentRegion(t).base <= t.vaddr
      /\ t.vaddr + Static!Larger(t.filesz, t.memsz) <= Static!SegmentRegion(t).end
  BY SegmentInRegion
<1>5. QED BY <1>1, <1>2, <1>3, <1>4 DEF Static!Overlaps

\* What has been written: words and what they hold, of the stack, the segments,
\* the symbol for the random bytes, and the thread-local block.
StackTold ==
  {<<Static!StackStart, 1>>, <<Static!StackStart + 1, Static!NameAddress>>,
   <<Static!StackStart + 2, 0>>, <<Static!StackStart + 3, 0>>,
   <<Static!RandomAddress, -2>>, <<Static!RandomAddress + 1, -3>>, <<Static!NameAddress, Static!NameText>>}
  \cup {<<Static!StackStart + 3 + k, Static!Auxiliary[k]>> : k \in 1 .. 24}

CellsOfSegment(s) == {k \in Nat : k < Static!Larger(s.filesz, s.memsz) /\ s.vaddr + k \notin Static!Patched}

SegmentsTold ==
  UNION {{<<s.vaddr + k, Static!Content(s, k)>> : k \in CellsOfSegment(s)} : s \in Static!Segments}

RandomTold ==
  IF Static!RandomIsSet THEN {<<elf.symbols["_dl_random"], Static!RandomAddress>>} ELSE {}

BlockTold ==
  UNION {{<<Static!BlockStart(t) + k, Static!FileWord(t.offset + k)>> : k \in 0 .. t.filesz - 1} :
           t \in {u \in elf.tls : u.offset + u.filesz <= elf.length}}

AreHeld(told) == \A w \in told : Static!ElfWord(w[1]) = w[2]

SlotIsOwn(r) == \A q \in Static!ToSet(elf.resolvers) : q.at = r.at => q = r

SlotsHold ==
  \A r \in Static!ToSet(elf.resolvers) \ Static!ToSet(elfTodo) : SlotIsOwn(r) => Static!ElfWord(r.at) \in r.impl

StaticInv ==
  /\ elf \in StaticFiles
  /\ elfStage \in {"symbols", "tls", "resolve", "running"} => Static!CanLoad /\ elfStackPointer = Static!StackStart
  /\ elfStage = "resolve" => elfTodo \in Seq(Static!ToSet(elf.resolvers))
  /\ elfStage = "running" => elfTodo = <<>>
  /\ Static!BlockFits /\ Static!PatchesItself =>
       /\ elfStage \in {"symbols", "tls", "resolve", "running"} => AreHeld(StackTold) /\ AreHeld(SegmentsTold)
       /\ elfStage \in {"tls", "resolve", "running"} => AreHeld(RandomTold)
       /\ elfStage \in {"resolve", "running"} => AreHeld(BlockTold) /\ SlotsHold

LEMMA StaticStands ==
  ASSUME elf' = elf
  PROVE  /\ (Static!StackStart)' = Static!StackStart /\ (Static!StackEnd)' = Static!StackEnd
         /\ (Static!CanLoad)' = Static!CanLoad
         /\ (Static!BlockFits)' = Static!BlockFits /\ (Static!PatchesItself)' = Static!PatchesItself
         /\ StackTold' = StackTold /\ SegmentsTold' = SegmentsTold /\ RandomTold' = RandomTold
         /\ BlockTold' = BlockTold
         /\ \A r : SlotIsOwn(r)' = SlotIsOwn(r)
<1>1. (Static!Segments)' = Static!Segments BY DEF Static!Segments
<1>2. (Static!StackEnd)' = Static!StackEnd BY <1>1 DEF Static!StackEnd
<1>3. (Static!StackStart)' = Static!StackStart BY <1>2 DEF Static!StackStart
<1>4. (Static!NameAddress)' = Static!NameAddress BY <1>2 DEF Static!NameAddress
<1>5. (Static!RandomAddress)' = Static!RandomAddress BY <1>4 DEF Static!RandomAddress
<1>6. (Static!HeadersAddress)' = Static!HeadersAddress BY DEF Static!HeadersAddress
<1>7. (Static!Auxiliary)' = Static!Auxiliary BY <1>5, <1>6 DEF Static!Auxiliary
<1>8. (Static!Preset)' = Static!Preset
  <2>1. (Static!ThreadLocals)' = Static!ThreadLocals BY DEF Static!ThreadLocals
  <2>2. QED BY <2>1 DEF Static!Preset
<1>9. (Static!Patched)' = Static!Patched BY <1>8 DEF Static!Patched
<1>10. (Static!CanLoad)' = Static!CanLoad BY <1>1 DEF Static!CanLoad
<1>11. \A t : (Static!BlockStart(t))' = Static!BlockStart(t) BY <1>2 DEF Static!BlockStart, Static!ThreadBase
<1>12. (Static!BlockFits)' = Static!BlockFits BY <1>2, <1>11 DEF Static!BlockFits
<1>13. (Static!PatchesItself)' = Static!PatchesItself BY <1>1, <1>9 DEF Static!PatchesItself
<1>14. (Static!RandomIsSet)' = Static!RandomIsSet BY <1>8 DEF Static!RandomIsSet
<1>15. \A s, k : (Static!Content(s, k))' = Static!Content(s, k) BY DEF Static!Content
<1>16. \A r : SlotIsOwn(r)' = SlotIsOwn(r) BY DEF SlotIsOwn
<1>17. StackTold' = StackTold BY <1>3, <1>4, <1>5, <1>7 DEF StackTold, Static!NameText
<1>18. SegmentsTold' = SegmentsTold
  <2>1. \A s : CellsOfSegment(s)' = CellsOfSegment(s) BY <1>9 DEF CellsOfSegment
  <2>2. QED BY <1>1, <1>15, <2>1 DEF SegmentsTold
<1>19. RandomTold' = RandomTold BY <1>5, <1>8, <1>14 DEF RandomTold
<1>20. BlockTold' = BlockTold BY <1>11 DEF BlockTold
<1>21. QED BY <1>2, <1>3, <1>10, <1>12, <1>13, <1>16, <1>17, <1>18, <1>19, <1>20

LEMMA WordAfterWrite ==
  ASSUME NEW later, elfWords' = Static!Over(later, elfWords)
  PROVE  \A a : Static!ElfWord(a)' = IF a \in DOMAIN later THEN later[a] ELSE Static!ElfWord(a)
<1> DEFINE after == Static!Over(later, elfWords)
<1>1. DOMAIN after = DOMAIN later \cup DOMAIN elfWords BY DEF Static!Over
<1>2. \A a \in DOMAIN after : after[a] = IF a \in DOMAIN later THEN later[a] ELSE elfWords[a] BY DEF Static!Over
<1> HIDE DEF after
<1>3. \A a : Static!ElfWord(a)' = IF a \in DOMAIN after THEN after[a] ELSE 0 BY DEF Static!ElfWord, after
<1>4. QED BY <1>1, <1>2, <1>3 DEF Static!ElfWord

\* What is elsewhere stays.
LEMMA HeldElsewhere ==
  ASSUME NEW later, elfWords' = Static!Over(later, elfWords),
         NEW told, AreHeld(told), \A w \in told : w[1] \notin DOMAIN later
  PROVE  \A w \in told : Static!ElfWord(w[1])' = w[2]
BY WordAfterWrite DEF AreHeld

\* A step that writes nothing.
LEMMA StaticStays ==
  ASSUME StaticInv, elf' = elf, elfWords' = elfWords, elfStackPointer' = elfStackPointer, elfTodo' = elfTodo,
         elfStage' \in {elfStage, "failed"}
  PROVE  StaticInv'
<1>1. \A a : Static!ElfWord(a)' = Static!ElfWord(a) BY DEF Static!ElfWord
<1>2. /\ AreHeld(StackTold)' = AreHeld(StackTold) /\ AreHeld(SegmentsTold)' = AreHeld(SegmentsTold)
      /\ AreHeld(RandomTold)' = AreHeld(RandomTold) /\ AreHeld(BlockTold)' = AreHeld(BlockTold)
  BY <1>1, StaticStands DEF AreHeld
<1>3. SlotsHold' = SlotsHold
  <2>1. \A r : Static!ElfWord(r.at)' = Static!ElfWord(r.at) BY <1>1
  <2>2. \A r : SlotIsOwn(r)' = SlotIsOwn(r) BY StaticStands
  <2>3. QED BY <2>1, <2>2 DEF SlotsHold, Static!ToSet
<1>4. /\ (Static!CanLoad)' = Static!CanLoad /\ (Static!BlockFits)' = Static!BlockFits
      /\ (Static!PatchesItself)' = Static!PatchesItself /\ (Static!StackStart)' = Static!StackStart
  BY StaticStands
<1>5. (Static!ToSet(elf.resolvers))' = Static!ToSet(elf.resolvers) BY DEF Static!ToSet
<1>6. QED BY <1>2, <1>3, <1>4, <1>5 DEF StaticInv

\* Where these words are: those that are patched in the segments, those below the
\* stack, in it and above it.
LEMMA PatchedBelow ==
  ASSUME elf \in StaticFiles, Static!CanLoad, Static!PatchesItself
  PROVE  \A a \in Static!Patched : a \in Int /\ a < Static!StackStart - 1
<1> SUFFICES ASSUME NEW a \in Static!Patched PROVE a \in Int /\ a < Static!StackStart - 1 OBVIOUS
<1>1. PICK s \in Static!Segments : a \in s.vaddr .. s.vaddr + s.memsz - 1 BY DEF Static!PatchesItself
<1>2. /\ s.vaddr \in Nat /\ s.memsz \in Nat /\ Static!Larger(s.filesz, s.memsz) \in Nat
      /\ s.memsz <= Static!Larger(s.filesz, s.memsz)
  BY StaticFileFacts
<1>3. Static!StackStart \in Int /\ s.vaddr + Static!Larger(s.filesz, s.memsz) <= Static!StackStart - 1
  BY StaticPlaces
<1>4. QED BY <1>1, <1>2, <1>3

LEMMA StackNames ==
  ASSUME elf \in StaticFiles, Static!CanLoad
  PROVE  /\ Static!NameAddress \in Int /\ Static!RandomAddress \in Int
         /\ Static!NameAddress = Static!StackStart + StaticPageSize - 1
         /\ Static!RandomAddress = Static!StackStart + StaticPageSize - 3
<1>1. StaticPageSize \in Nat BY StaticAssumption
<1>2. /\ Static!StackStart \in Int /\ Static!StackEnd \in Int
      /\ Static!StackEnd = Static!StackStart + StaticPageSize
  BY StaticPlaces
<1>3. QED BY <1>1, <1>2 DEF Static!NameAddress, Static!RandomAddress

LEMMA StackToldIn ==
  ASSUME elf \in StaticFiles, Static!CanLoad
  PROVE  \A w \in StackTold : w[1] \in Int /\ Static!StackStart <= w[1] /\ w[1] < Static!StackEnd
<1>1. PICK P \in Nat : P = StaticPageSize /\ P >= 32 BY StaticAssumption
<1>2. PICK b \in Int : b = Static!StackStart /\ Static!StackEnd = b + P BY <1>1, StaticPlaces
<1>3. Static!NameAddress = b + P - 1 /\ Static!RandomAddress = b + P - 3 BY <1>1, <1>2, StackNames
<1>4. SUFFICES ASSUME NEW w \in StackTold PROVE w[1] \in Int /\ b <= w[1] /\ w[1] < b + P BY <1>2
<1>5. w[1] \in {b, b + 1, b + 2, b + 3, b + P - 3, b + P - 3 + 1, b + P - 1} \cup {b + 3 + k : k \in 1 .. 24}
  BY <1>2, <1>3 DEF StackTold
<1>6. QED BY <1>1, <1>5

LEMMA SegmentsToldBelow ==
  ASSUME elf \in StaticFiles, Static!CanLoad
  PROVE  \A w \in SegmentsTold : w[1] \in Int /\ w[1] < Static!StackStart - 1 /\ w[1] \notin Static!Patched
<1> SUFFICES ASSUME NEW w \in SegmentsTold
             PROVE  w[1] \in Int /\ w[1] < Static!StackStart - 1 /\ w[1] \notin Static!Patched
  OBVIOUS
<1>1. PICK s \in Static!Segments : \E k \in CellsOfSegment(s) : w = <<s.vaddr + k, Static!Content(s, k)>>
  BY DEF SegmentsTold
<1>2. PICK k \in CellsOfSegment(s) : w = <<s.vaddr + k, Static!Content(s, k)>> BY <1>1
<1>3. w[1] = s.vaddr + k /\ k \in Nat /\ k < Static!Larger(s.filesz, s.memsz) /\ s.vaddr + k \notin Static!Patched
  BY <1>2 DEF CellsOfSegment
<1>4. s.vaddr \in Nat /\ Static!Larger(s.filesz, s.memsz) \in Nat BY StaticFileFacts
<1>5. Static!StackStart \in Int /\ s.vaddr + Static!Larger(s.filesz, s.memsz) <= Static!StackStart - 1
  BY StaticPlaces
<1>6. QED BY <1>3, <1>4, <1>5

LEMMA BlockToldAbove ==
  ASSUME elf \in StaticFiles, Static!CanLoad, Static!BlockFits
  PROVE  /\ \A w \in BlockTold : w[1] \in Int /\ w[1] >= Static!StackEnd
         /\ \A t \in elf.tls : Static!BlockStart(t) \in Int /\ Static!BlockStart(t) >= Static!StackEnd
<1>1. ASSUME NEW t \in elf.tls PROVE Static!BlockStart(t) \in Int /\ Static!BlockStart(t) >= Static!StackEnd
  <2>1. t.memsz \in Nat /\ t.align \in Nat BY StaticFileFacts
  <2>2. Static!RoundTo(t.memsz, t.align) \in Int
    <3>1. CASE t.align <= 1 BY <2>1, <3>1 DEF Static!RoundTo
    <3>2. CASE ~(t.align <= 1)
      <4>1. PICK m \in Nat, n \in Nat \ {0} : m = t.memsz + t.align - 1 /\ n = t.align BY <2>1, <3>2
      <4>2. PICK q \in Int : q = m \div n BY <4>1, SMT
      <4>3. q * n \in Int BY <4>1
      <4>4. QED BY <3>2, <4>1, <4>2, <4>3 DEF Static!RoundTo
    <3>3. QED BY <3>1, <3>2
  <2>3. Static!ThreadBase \in Int
    <3>1. PICK P \in Nat : P = StaticPageSize BY StaticAssumption
    <3>2. P \div 2 \in Int BY <3>1, SMT
    <3>3. Static!StackEnd \in Int BY StaticPlaces
    <3>4. QED BY <3>1, <3>2, <3>3 DEF Static!ThreadBase
  <2>4. QED BY <2>2, <2>3 DEF Static!BlockStart, Static!BlockFits
<1>2. ASSUME NEW w \in BlockTold PROVE w[1] \in Int /\ w[1] >= Static!StackEnd
  <2>1. PICK t \in elf.tls : \E k \in 0 .. t.filesz - 1 : w = <<Static!BlockStart(t) + k, Static!FileWord(t.offset + k)>>
    BY DEF BlockTold
  <2>2. PICK k \in 0 .. t.filesz - 1 : w = <<Static!BlockStart(t) + k, Static!FileWord(t.offset + k)>> BY <2>1
  <2>3. w[1] = Static!BlockStart(t) + k /\ k \in Nat BY <2>2
  <2>4. Static!StackEnd \in Int BY StaticPlaces
  <2>5. QED BY <1>1, <2>3, <2>4
<1>3. QED BY <1>1, <1>2

LEMMA RandomToldIsPatched ==
  \A w \in RandomTold : w[1] \in Static!Patched
BY DEF RandomTold, Static!RandomIsSet, Static!Patched

LEMMA PlacedWords ==
  ASSUME NEW start \in Int, NEW N \in Nat, NEW content, DOMAIN content = 1 .. N
  PROVE  /\ \A a \in DOMAIN Static!Placed(start, content) : a \in Int /\ start <= a /\ a < start + N
         /\ \A k \in 1 .. N : /\ start + k - 1 \in DOMAIN Static!Placed(start, content)
                              /\ Static!Placed(start, content)[start + k - 1] = content[k]
<1> DEFINE at == {start + k - 1 : k \in DOMAIN content}
<1>1. Static!Placed(start, content) = [a \in at |-> content[a - start + 1]] BY DEF Static!Placed
<1>2. \A a \in at : a \in Int /\ start <= a /\ a < start + N OBVIOUS
<1>3. \A k \in 1 .. N : start + k - 1 \in at OBVIOUS
<1> HIDE DEF at
<1>4. ASSUME NEW k \in 1 .. N PROVE Static!Placed(start, content)[start + k - 1] = content[k]
  <2>1. start + k - 1 - start + 1 = k OBVIOUS
  <2>2. Static!Placed(start, content)[start + k - 1] = content[start + k - 1 - start + 1] BY <1>1, <1>3
  <2>3. QED BY <2>1, <2>2
<1>5. QED BY <1>1, <1>2, <1>3, <1>4

-----------------------------------------------------------------------------
(* Its steps.                                                              *)

LEMMA StaticStarts == Static!ElfInit => StaticInv
BY DEF Static!ElfInit, StaticInv

LEMMA SetSymbolsKeeps == StaticInv /\ Static!SetSymbols => StaticInv'
<1> SUFFICES ASSUME StaticInv, Static!SetSymbols PROVE StaticInv' OBVIOUS
<1> DEFINE later == [a \in {elf.symbols[name] : name \in Static!Preset} |-> Static!PresetAt(a)]
<1>1. /\ elf' = elf /\ elfStackPointer' = elfStackPointer /\ elfStage = "symbols" /\ elfStage' = "tls"
      /\ elfWords' = Static!Over(later, elfWords)
  BY DEF Static!SetSymbols
<1>2. elf \in StaticFiles /\ Static!CanLoad /\ elfStackPointer = Static!StackStart BY <1>1 DEF StaticInv
<1>3. DOMAIN later \subseteq Static!Patched BY DEF Static!Patched
<1>4. ASSUME Static!BlockFits, Static!PatchesItself
      PROVE  AreHeld(StackTold)' /\ AreHeld(SegmentsTold)' /\ AreHeld(RandomTold)'
  <2>1. AreHeld(StackTold) /\ AreHeld(SegmentsTold) BY <1>1, <1>4 DEF StaticInv
  <2>2. \A w \in StackTold : w[1] \notin DOMAIN later
    <3>1. \A w \in StackTold : w[1] \in Int /\ Static!StackStart <= w[1] BY <1>2, StackToldIn
    <3>2. \A a \in Static!Patched : a \in Int /\ a < Static!StackStart - 1 BY <1>2, <1>4, PatchedBelow
    <3>3. Static!StackStart \in Int BY <1>2, StaticPlaces
    <3> HIDE DEF later
    <3>4. QED BY <1>3, <3>1, <3>2, <3>3
  <2>3. \A w \in SegmentsTold : w[1] \notin DOMAIN later
    <3> HIDE DEF later
    <3>1. QED BY <1>2, <1>3, SegmentsToldBelow
  <2>4. \A w \in RandomTold : w[1] \in DOMAIN later /\ later[w[1]] = w[2]
    <3>1. CASE Static!RandomIsSet
      <4>1. "_dl_random" \in Static!Preset BY <3>1 DEF Static!RandomIsSet
      <4>2. PICK at : at = elf.symbols["_dl_random"] OBVIOUS
      <4>3. at \in DOMAIN later BY <4>1, <4>2
      <4>4. \A name \in Static!Preset \cap Static!Locks : elf.symbols[name] # at
        BY <3>1, <4>2 DEF Static!RandomIsSet
      <4>5. Static!PresetAt(at) = Static!RandomAddress BY <4>1, <4>2, <4>4 DEF Static!PresetAt
      <4>6. later[at] = Static!RandomAddress BY <4>3, <4>5
      <4> HIDE DEF later
      <4>7. QED BY <3>1, <4>2, <4>3, <4>6 DEF RandomTold
    <3>2. CASE ~Static!RandomIsSet BY <3>2 DEF RandomTold
    <3>3. QED BY <3>1, <3>2
  <2> HIDE DEF later
  <2>5. \A w \in StackTold : Static!ElfWord(w[1])' = w[2] BY <1>1, <2>1, <2>2, HeldElsewhere
  <2>6. \A w \in SegmentsTold : Static!ElfWord(w[1])' = w[2] BY <1>1, <2>1, <2>3, HeldElsewhere
  <2>7. \A w \in RandomTold : Static!ElfWord(w[1])' = w[2] BY <1>1, <2>4, WordAfterWrite
  <2>8. QED BY <1>1, <2>5, <2>6, <2>7, StaticStands DEF AreHeld
<1> HIDE DEF later
<1>5. QED BY <1>1, <1>2, <1>4, StaticStands DEF StaticInv

LEMMA InstallTlsKeeps == StaticInv /\ Static!InstallTls => StaticInv'
<1> SUFFICES ASSUME StaticInv, Static!InstallTls PROVE StaticInv' OBVIOUS
<1> DEFINE later == Static!Placed(Static!TlsImage.start, Static!TlsImage.content)
<1>1. /\ elf' = elf /\ elfStackPointer' = elfStackPointer /\ elfStage = "tls" /\ elfStage' = "resolve"
      /\ elfWords' = Static!Over(later, elfWords) /\ elfTodo' = elf.resolvers
  BY DEF Static!InstallTls
<1>2. elf \in StaticFiles /\ Static!CanLoad /\ elfStackPointer = Static!StackStart BY <1>1 DEF StaticInv
<1>3. elfTodo' \in Seq(Static!ToSet(elf.resolvers)) /\ (Static!ToSet(elf.resolvers))' = Static!ToSet(elf.resolvers)
  BY <1>1, <1>2, StaticFileFacts DEF Static!ToSet
<1>4. ASSUME Static!BlockFits, Static!PatchesItself
      PROVE  AreHeld(StackTold)' /\ AreHeld(SegmentsTold)' /\ AreHeld(RandomTold)' /\ AreHeld(BlockTold)' /\ SlotsHold'
  <2>1. AreHeld(StackTold) /\ AreHeld(SegmentsTold) /\ AreHeld(RandomTold) BY <1>1, <1>4 DEF StaticInv
  <2>2. /\ \A a \in DOMAIN later : a \in Int /\ a >= Static!StackEnd
        /\ \A w \in BlockTold : w[1] \in DOMAIN later /\ later[w[1]] = w[2]
    <3>1. CASE \E t \in elf.tls : t.offset + t.filesz <= elf.length
      <4>1. PICK t \in elf.tls : t.offset + t.filesz <= elf.length BY <3>1
      <4>2. elf.tls = {t} /\ t.offset \in Nat /\ t.filesz \in Nat BY <1>2, StaticFileFacts
      <4>3. t = CHOOSE u \in elf.tls : TRUE BY <4>2
      <4>4. PICK b \in Int : b = Static!BlockStart(t) /\ b >= Static!StackEnd BY <1>2, <1>4, BlockToldAbove
      <4>5. PICK content : content = [k \in 1 .. t.filesz |-> Static!FileWord(t.offset + k - 1)] OBVIOUS
      <4>6. Static!TlsImage = [start |-> b, content |-> content] BY <3>1, <4>3, <4>4, <4>5 DEF Static!TlsImage
      <4>7. later = Static!Placed(b, content) BY <4>6
      <4>8. DOMAIN content = 1 .. t.filesz BY <4>5
      <4> HIDE DEF later
      <4>9. \A a \in DOMAIN later : a \in Int /\ b <= a BY <4>2, <4>7, <4>8, PlacedWords
      <4>10. ASSUME NEW k \in 0 .. t.filesz - 1
             PROVE  b + k \in DOMAIN later /\ later[b + k] = Static!FileWord(t.offset + k)
        <5>1. PICK j \in 1 .. t.filesz : j = k + 1 BY <4>2
        <5>2. b + j - 1 = b + k /\ t.offset + j - 1 = t.offset + k BY <4>2, <5>1
        <5>3. b + j - 1 \in DOMAIN later /\ later[b + j - 1] = content[j] BY <4>2, <4>7, <4>8, PlacedWords
        <5>4. content[j] = Static!FileWord(t.offset + j - 1) BY <4>5
        <5>5. QED BY <5>2, <5>3, <5>4
      <4>11. \A w \in BlockTold : \E k \in 0 .. t.filesz - 1 : w = <<b + k, Static!FileWord(t.offset + k)>>
        BY <4>2, <4>4 DEF BlockTold
      <4>12. \A w \in BlockTold : w[1] \in DOMAIN later /\ later[w[1]] = w[2] BY <4>10, <4>11
      <4>13. Static!StackEnd \in Int BY <1>2, StaticPlaces
      <4>14. QED BY <4>4, <4>9, <4>12, <4>13
    <3>2. CASE ~\E t \in elf.tls : t.offset + t.filesz <= elf.length
      <4>1. Static!TlsImage = [start |-> 0, content |-> <<>>] BY <3>2 DEF Static!TlsImage
      <4>2. DOMAIN later = {} BY <4>1 DEF Static!Placed
      <4>3. BlockTold = {} BY <3>2 DEF BlockTold
      <4>4. QED BY <4>2, <4>3
    <3>3. QED BY <3>1, <3>2
  <2> HIDE DEF later
  <2>3. Static!StackStart \in Int /\ Static!StackEnd \in Int /\ Static!StackStart <= Static!StackEnd
    BY <1>2, StaticPlaces, StaticAssumption
  <2>4. \A w \in StackTold : w[1] \notin DOMAIN later BY <1>2, <2>2, <2>3, StackToldIn
  <2>5. \A w \in SegmentsTold : w[1] \notin DOMAIN later BY <1>2, <2>2, <2>3, SegmentsToldBelow
  <2>6. \A w \in RandomTold : w[1] \notin DOMAIN later
    <3>1. \A w \in RandomTold : w[1] \in Int /\ w[1] < Static!StackStart - 1
      BY <1>2, <1>4, RandomToldIsPatched, PatchedBelow
    <3>2. QED BY <2>2, <2>3, <3>1
  <2>7. \A w \in StackTold : Static!ElfWord(w[1])' = w[2] BY <1>1, <2>1, <2>4, HeldElsewhere
  <2>8. \A w \in SegmentsTold : Static!ElfWord(w[1])' = w[2] BY <1>1, <2>1, <2>5, HeldElsewhere
  <2>9. \A w \in RandomTold : Static!ElfWord(w[1])' = w[2] BY <1>1, <2>1, <2>6, HeldElsewhere
  <2>10. \A w \in BlockTold : Static!ElfWord(w[1])' = w[2] BY <1>1, <2>2, WordAfterWrite
  <2>11. SlotsHold' BY <1>1 DEF SlotsHold, Static!ToSet
  <2>12. QED BY <1>1, <2>7, <2>8, <2>9, <2>10, <2>11, StaticStands DEF AreHeld
<1> HIDE DEF later
<1>5. QED BY <1>1, <1>2, <1>3, <1>4, StaticStands DEF StaticInv

LEMMA ResolveFunctionKeeps == StaticInv /\ Static!ResolveFunction => StaticInv'
<1> SUFFICES ASSUME StaticInv, Static!ResolveFunction PROVE StaticInv' OBVIOUS
<1>1. PICK impl \in Head(elfTodo).impl :
        elfWords' = Static!Over([a \in {Head(elfTodo).at} |-> impl],
                                Static!Over([a \in {elfStackPointer - 1} |-> 0], elfWords))
  BY DEF Static!ResolveFunction
<1>2. /\ elf' = elf /\ elfStackPointer' = elfStackPointer /\ elfStage = "resolve" /\ elfStage' = elfStage
      /\ elfTodo # <<>> /\ elfTodo' = Tail(elfTodo)
  BY DEF Static!ResolveFunction
<1>3. elf \in StaticFiles /\ Static!CanLoad /\ elfStackPointer = Static!StackStart BY <1>2 DEF StaticInv
<1> DEFINE slots == Static!ToSet(elf.resolvers)
<1>4. elfTodo \in Seq(slots) /\ slots' = slots BY <1>2 DEF StaticInv, Static!ToSet
<1>5. PICK r \in slots : r = Head(elfTodo) /\ Static!ToSet(elfTodo) = {r} \cup Static!ToSet(Tail(elfTodo))
  <2>1. Static!ToSet(elfTodo) = ToSet(elfTodo) /\ Static!ToSet(Tail(elfTodo)) = ToSet(Tail(elfTodo))
    BY DEF Static!ToSet, ToSet
  <2> HIDE DEF slots
  <2>2. QED BY <1>2, <1>4, <2>1, TailOf
<1>6. elfTodo' \in Seq(slots)
  <2> HIDE DEF slots
  <2>1. QED BY <1>2, <1>4, TailOf
<1> DEFINE below == Static!StackStart - 1
           later == [a \in {r.at, below} |-> IF a = r.at THEN impl ELSE 0]
<1>7. elfWords' = Static!Over(later, elfWords)
  <2>1. elfWords' = Static!Over([a \in {r.at} |-> impl], Static!Over([a \in {below} |-> 0], elfWords))
    BY <1>1, <1>3, <1>5
  <2>2. Static!Over([a \in {r.at} |-> impl], Static!Over([a \in {below} |-> 0], elfWords))
          = [a \in {r.at} \cup ({below} \cup DOMAIN elfWords) |->
               IF a \in {r.at} THEN impl ELSE IF a \in {below} THEN 0 ELSE elfWords[a]]
    BY DEF Static!Over
  <2>3. Static!Over(later, elfWords)
          = [a \in {r.at, below} \cup DOMAIN elfWords |->
               IF a \in {r.at, below} THEN IF a = r.at THEN impl ELSE 0 ELSE elfWords[a]]
    BY DEF Static!Over
  <2>4. QED BY <2>1, <2>2, <2>3
<1>8. ASSUME Static!BlockFits, Static!PatchesItself
      PROVE  AreHeld(StackTold)' /\ AreHeld(SegmentsTold)' /\ AreHeld(RandomTold)' /\ AreHeld(BlockTold)' /\ SlotsHold'
  <2>1. /\ AreHeld(StackTold) /\ AreHeld(SegmentsTold) /\ AreHeld(RandomTold) /\ AreHeld(BlockTold)
        /\ SlotsHold
    BY <1>2, <1>8 DEF StaticInv
  <2>2. \A q \in slots : q.at \in Static!Patched BY DEF Static!Patched
  <2>3. Static!StackStart \in Int /\ Static!StackEnd \in Int /\ Static!StackStart <= Static!StackEnd
    BY <1>3, StaticPlaces, StaticAssumption
  <2>4. below \in Int /\ below < Static!StackStart /\ \A a \in Static!Patched : a \in Int /\ a < below
    BY <1>3, <1>8, <2>3, PatchedBelow
  <2>5. DOMAIN later = {r.at, below} /\ later[r.at] = impl /\ r.at \in Static!Patched BY <2>2
  <2> HIDE DEF later
  <2>6. \A w \in StackTold : w[1] \notin DOMAIN later
    BY <1>3, <2>3, <2>4, <2>5, StackToldIn
  <2>7. \A w \in SegmentsTold : w[1] \notin DOMAIN later
    BY <1>3, <2>3, <2>4, <2>5, SegmentsToldBelow
  <2>8. \A w \in RandomTold : w[1] \notin DOMAIN later
    <3>1. \A w \in RandomTold : w[1] # r.at BY DEF RandomTold, Static!RandomIsSet
    <3>2. \A w \in RandomTold : w[1] # below
      <4>1. \A w \in RandomTold : w[1] \in Static!Patched BY RandomToldIsPatched
      <4> HIDE DEF below
      <4>2. QED BY <2>4, <4>1
    <3>3. QED BY <2>5, <3>1, <3>2
  <2>9. \A w \in BlockTold : w[1] \notin DOMAIN later
    BY <1>3, <1>8, <2>3, <2>4, <2>5, BlockToldAbove
  <2>10. \A w \in StackTold : Static!ElfWord(w[1])' = w[2] BY <1>7, <2>1, <2>6, HeldElsewhere
  <2>11. \A w \in SegmentsTold : Static!ElfWord(w[1])' = w[2] BY <1>7, <2>1, <2>7, HeldElsewhere
  <2>12. \A w \in RandomTold : Static!ElfWord(w[1])' = w[2] BY <1>7, <2>1, <2>8, HeldElsewhere
  <2>13. \A w \in BlockTold : Static!ElfWord(w[1])' = w[2] BY <1>7, <2>1, <2>9, HeldElsewhere
  <2>14. SlotsHold'
    <3> SUFFICES ASSUME NEW q \in slots, q \notin Static!ToSet(Tail(elfTodo)), SlotIsOwn(q)
                 PROVE  Static!ElfWord(q.at)' \in q.impl
      <4>1. \A q : SlotIsOwn(q)' = SlotIsOwn(q) BY <1>2, StaticStands
      <4>2. (Static!ToSet(elfTodo))' = Static!ToSet(Tail(elfTodo)) BY <1>2 DEF Static!ToSet
      <4>3. QED BY <1>4, <4>1, <4>2 DEF SlotsHold
    <3>1. CASE q = r
      <4>1. Static!ElfWord(q.at)' = impl BY <1>7, <2>5, <3>1, WordAfterWrite
      <4>2. QED BY <1>1, <1>5, <3>1, <4>1
    <3>2. CASE q # r
      <4>1. q.at # r.at BY <3>2 DEF SlotIsOwn
      <4>2. q.at # below
        <5>1. q.at \in Static!Patched BY <2>2
        <5> HIDE DEF below
        <5>2. QED BY <2>4, <5>1
      <4>3. Static!ElfWord(q.at)' = Static!ElfWord(q.at) BY <1>7, <2>5, <4>1, <4>2, WordAfterWrite
      <4>4. q \notin Static!ToSet(elfTodo) BY <1>5, <3>2
      <4>5. QED BY <2>1, <4>3, <4>4 DEF SlotsHold
    <3>3. QED BY <3>1, <3>2
  <2>15. QED BY <1>2, <2>10, <2>11, <2>12, <2>13, <2>14, StaticStands DEF AreHeld
<1> HIDE DEF later, below
<1>9. QED BY <1>2, <1>3, <1>4, <1>6, <1>8, StaticStands DEF StaticInv

LEMMA BeginKeeps == StaticInv /\ Static!Begin => StaticInv'
<1> SUFFICES ASSUME StaticInv, Static!Begin PROVE StaticInv' OBVIOUS
<1>1. /\ elf' = elf /\ elfStackPointer' = elfStackPointer /\ elfStage = "resolve" /\ elfStage' = "running"
      /\ elfWords' = elfWords /\ elfTodo' = elfTodo /\ elfTodo = <<>>
  BY DEF Static!Begin
<1>2. \A a : Static!ElfWord(a)' = Static!ElfWord(a) BY <1>1 DEF Static!ElfWord
<1>3. /\ AreHeld(StackTold)' = AreHeld(StackTold) /\ AreHeld(SegmentsTold)' = AreHeld(SegmentsTold)
      /\ AreHeld(RandomTold)' = AreHeld(RandomTold) /\ AreHeld(BlockTold)' = AreHeld(BlockTold)
  BY <1>1, <1>2, StaticStands DEF AreHeld
<1>4. SlotsHold' = SlotsHold
  <2>1. \A r : Static!ElfWord(r.at)' = Static!ElfWord(r.at) BY <1>2
  <2>2. \A r : SlotIsOwn(r)' = SlotIsOwn(r) BY <1>1, StaticStands
  <2>3. QED BY <1>1, <2>1, <2>2 DEF SlotsHold, Static!ToSet
<1>5. QED BY <1>1, <1>3, <1>4, StaticStands DEF StaticInv

LEMMA BehindOther ==
  ASSUME NEW u, NEW s, NEW t, NEW m \in Nat, NEW n \in Nat,
         \A i \in 1 .. m + n : u[i] = IF i <= m THEN s[i] ELSE t[i - m]
  PROVE  (\A i \in 1 .. m : u[i] = s[i]) /\ (\A k \in 1 .. n : u[m + k] = t[k])
<1>4. \A i \in 1 .. m : i \in 1 .. m + n /\ i <= m OBVIOUS
<1>5. \A i \in 1 .. m : u[i] = s[i] BY <1>4
<1>6. ASSUME NEW k \in 1 .. n PROVE u[m + k] = t[k]
  <2>1. m + k \in 1 .. m + n /\ ~(m + k <= m) /\ m + k - m = k OBVIOUS
  <2>2. u[m + k] = t[m + k - m] BY <2>1
  <2>3. QED BY <2>1, <2>2
<1>7. QED BY <1>5, <1>6

\* The words of the initial stack.
LEMMA StackText ==
  ASSUME elf \in StaticFiles, Static!CanLoad
  PROVE  \A w \in StackTold : w[1] \in DOMAIN Static!InitialStack /\ Static!InitialStack[w[1]] = w[2]
<1> DEFINE b == Static!StackStart
<1>1. b \in Int /\ Static!RandomAddress \in Int /\ Static!NameAddress \in Int
  BY StaticPlaces, StackNames
<1>2. Static!NameAddress = Static!RandomAddress + 2 /\ b + 28 < Static!RandomAddress
  <2>1. StaticPageSize \in Nat /\ StaticPageSize >= 32 BY StaticAssumption
  <2>2. /\ Static!NameAddress = b + StaticPageSize - 1
        /\ Static!RandomAddress = b + StaticPageSize - 3
    BY StackNames
  <2> HIDE DEF b
  <2>3. QED BY <1>1, <2>1, <2>2
<1>3. PICK low : low = <<1, Static!NameAddress, 0, 0>> \o Static!Auxiliary OBVIOUS
<1>4. PICK high : high = Static!RandomBytes \o <<Static!NameText>> OBVIOUS
<1>5. DOMAIN high = 1 .. 3 /\ high[1] = -2 /\ high[2] = -3 /\ high[3] = Static!NameText
  <2>1. PICK two, one : two = Static!RandomBytes /\ one = <<Static!NameText>> OBVIOUS
  <2>2. two \in Seq(Int) /\ Len(two) = 2 /\ two[1] = -2 /\ two[2] = -3 BY <2>1 DEF Static!RandomBytes
  <2>3. one \in Seq(Int) /\ Len(one) = 1 /\ one[1] = Static!NameText BY <2>1 DEF Static!NameText
  <2>4. PICK m \in Nat, n \in Nat : m = 2 /\ n = 1 OBVIOUS
  <2>5. /\ DOMAIN high = 1 .. m + n
        /\ \A i \in 1 .. m : high[i] = two[i]
        /\ \A k \in 1 .. n : high[m + k] = one[k]
    <3>1. Len(two) = m /\ Len(one) = n /\ m \in Nat /\ n \in Nat BY <2>2, <2>3, <2>4
    <3>2. high = two \o one BY <1>4, <2>1
    <3>3. PICK S : two \in Seq(S) /\ one \in Seq(S) BY <2>2, <2>3
    <3>4. /\ high \in Seq(S) /\ Len(high) = Len(two) + Len(one)
          /\ \A i \in 1 .. Len(two) + Len(one) : high[i] = IF i <= Len(two) THEN two[i] ELSE one[i - Len(two)]
      BY <3>2, <3>3, ConcatProperties
    <3>5. \A i \in 1 .. m + n : high[i] = IF i <= m THEN two[i] ELSE one[i - m] BY <3>1, <3>4
    <3>6. DOMAIN high = 1 .. m + n BY <3>1, <3>4
    <3>7. m \in Nat /\ n \in Nat BY <3>1
    <3>8. QED BY <3>5, <3>6, <3>7, BehindOther
  <2>6. 1 \in 1 .. m /\ 2 \in 1 .. m /\ 1 \in 1 .. n /\ m + 1 = 3 /\ m + n = 3 BY <2>4
  <2>7. high[1] = two[1] /\ high[2] = two[2] /\ high[m + 1] = one[1] BY <2>5, <2>6
  <2>8. QED BY <2>2, <2>3, <2>5, <2>6, <2>7
<1>6. /\ DOMAIN low = 1 .. 28
      /\ low[1] = 1 /\ low[2] = Static!NameAddress /\ low[3] = 0 /\ low[4] = 0
      /\ \A k \in 1 .. 24 : low[4 + k] = Static!Auxiliary[k]
  <2>1. PICK h, a, c, e : h = Static!HeadersAddress /\ a = Static!RandomAddress /\ c = elf.headerCount /\ e = elf.entry
    OBVIOUS
  <2>2. Static!Auxiliary = <<3, h, 4, 56, 5, c, 6, 4096, 9, e, 11, 0, 12, 0, 13, 0, 14, 0, 23, 0, 25, a, 0, 0>>
    BY <2>1 DEF Static!Auxiliary
  <2> DEFINE X == {1, Static!NameAddress, 0}
             Y == {3, h, 4, 56, 5, c, 6, 4096, 9, e, 11, 0, 12, 13, 14, 23, 25, a}
  <2>3. PICK four, rest : four = <<1, Static!NameAddress, 0, 0>> /\ rest = Static!Auxiliary OBVIOUS
  <2>4. rest \in Seq(X \cup Y) /\ Len(rest) = 24 BY <2>2, <2>3
  <2>5. four \in Seq(X \cup Y) /\ Len(four) = 4 BY <2>3
  <2> HIDE DEF X, Y
  <2>6. PICK m \in Nat, n \in Nat : m = 4 /\ n = 24 OBVIOUS
  <2>7. /\ DOMAIN low = 1 .. m + n
        /\ \A i \in 1 .. m : low[i] = four[i]
        /\ \A k \in 1 .. n : low[m + k] = rest[k]
    <3>1. Len(four) = m /\ Len(rest) = n /\ m \in Nat /\ n \in Nat BY <2>4, <2>5, <2>6
    <3>2. low = four \o rest BY <1>3, <2>3
    <3>3. PICK S : four \in Seq(S) /\ rest \in Seq(S) BY <2>4, <2>5
    <3>4. /\ low \in Seq(S) /\ Len(low) = Len(four) + Len(rest)
          /\ \A i \in 1 .. Len(four) + Len(rest) : low[i] = IF i <= Len(four) THEN four[i] ELSE rest[i - Len(four)]
      BY <3>2, <3>3, ConcatProperties
    <3>5. \A i \in 1 .. m + n : low[i] = IF i <= m THEN four[i] ELSE rest[i - m] BY <3>1, <3>4
    <3>6. DOMAIN low = 1 .. m + n BY <3>1, <3>4
    <3>7. m \in Nat /\ n \in Nat BY <3>1
    <3>8. QED BY <3>5, <3>6, <3>7, BehindOther
  <2>8. 1 \in 1 .. m /\ 2 \in 1 .. m /\ 3 \in 1 .. m /\ 4 \in 1 .. m /\ m + n = 28 BY <2>6
  <2>9. low[1] = four[1] /\ low[2] = four[2] /\ low[3] = four[3] /\ low[4] = four[4] BY <2>7, <2>8
  <2>10. QED BY <2>3, <2>6, <2>7, <2>8, <2>9
<1>7. PICK text : text = Static!Placed(b, low) OBVIOUS
<1>8. PICK marks : marks = Static!Placed(Static!RandomAddress, high) OBVIOUS
<1>9. /\ \A a \in DOMAIN text : a \in Int /\ b <= a /\ a < b + 28
      /\ \A k \in 1 .. 28 : b + k - 1 \in DOMAIN text /\ text[b + k - 1] = low[k]
  <2> HIDE DEF b
  <2>1. PICK N \in Nat : N = 28 OBVIOUS
  <2>2. DOMAIN low = 1 .. N BY <1>6, <2>1
  <2>3. /\ \A a \in DOMAIN text : a \in Int /\ b <= a /\ a < b + N
        /\ \A k \in 1 .. N : b + k - 1 \in DOMAIN text /\ text[b + k - 1] = low[k]
    BY <1>1, <1>7, <2>2, PlacedWords
  <2>4. QED BY <2>1, <2>3
<1>10. /\ \A a \in DOMAIN marks : a \in Int /\ Static!RandomAddress <= a
       /\ \A k \in 1 .. 3 : /\ Static!RandomAddress + k - 1 \in DOMAIN marks
                            /\ marks[Static!RandomAddress + k - 1] = high[k]
  <2>1. PICK N \in Nat : N = 3 OBVIOUS
  <2>2. PICK at \in Int : at = Static!RandomAddress BY <1>1
  <2>3. DOMAIN high = 1 .. N /\ marks = Static!Placed(at, high) BY <1>5, <1>8, <2>1, <2>2
  <2>4. /\ \A a \in DOMAIN marks : a \in Int /\ at <= a /\ a < at + N
        /\ \A k \in 1 .. N : at + k - 1 \in DOMAIN marks /\ marks[at + k - 1] = high[k]
    BY <2>3, PlacedWords
  <2>5. QED BY <2>1, <2>2, <2>4
<1>11. Static!InitialStack = Static!Over(marks, text) BY <1>3, <1>4, <1>7, <1>8 DEF Static!InitialStack
<1>12. PICK stack : stack = Static!InitialStack OBVIOUS
<1>13. /\ \A a \in DOMAIN marks : a \in DOMAIN stack /\ stack[a] = marks[a]
       /\ \A a \in DOMAIN text : a \notin DOMAIN marks => a \in DOMAIN stack /\ stack[a] = text[a]
  BY <1>11, <1>12 DEF Static!Over
<1> HIDE DEF b
<1>14. ASSUME NEW k \in 1 .. 28 PROVE b + k - 1 \in DOMAIN stack /\ stack[b + k - 1] = low[k]
  <2>1. b + k - 1 \notin DOMAIN marks BY <1>1, <1>2, <1>10
  <2>2. QED BY <1>9, <1>13, <2>1
<1>15. ASSUME NEW k \in 1 .. 3
       PROVE Static!RandomAddress + k - 1 \in DOMAIN stack /\ stack[Static!RandomAddress + k - 1] = high[k]
  BY <1>10, <1>13
<1>16. /\ b + 1 - 1 = b /\ b + 2 - 1 = b + 1 /\ b + 3 - 1 = b + 2 /\ b + 4 - 1 = b + 3
       /\ Static!RandomAddress + 1 - 1 = Static!RandomAddress
       /\ Static!RandomAddress + 2 - 1 = Static!RandomAddress + 1
       /\ Static!RandomAddress + 3 - 1 = Static!NameAddress
  BY <1>1, <1>2
<1>17. /\ b \in DOMAIN stack /\ stack[b] = 1
       /\ b + 1 \in DOMAIN stack /\ stack[b + 1] = Static!NameAddress
       /\ b + 2 \in DOMAIN stack /\ stack[b + 2] = 0 /\ b + 3 \in DOMAIN stack /\ stack[b + 3] = 0
  <2>1. 1 \in 1 .. 28 /\ 2 \in 1 .. 28 /\ 3 \in 1 .. 28 /\ 4 \in 1 .. 28 OBVIOUS
  <2>2. QED BY <1>6, <1>14, <1>16, <2>1
<1>18. /\ Static!RandomAddress \in DOMAIN stack /\ stack[Static!RandomAddress] = -2
       /\ Static!RandomAddress + 1 \in DOMAIN stack /\ stack[Static!RandomAddress + 1] = -3
       /\ Static!NameAddress \in DOMAIN stack /\ stack[Static!NameAddress] = Static!NameText
  <2>1. 1 \in 1 .. 3 /\ 2 \in 1 .. 3 /\ 3 \in 1 .. 3 OBVIOUS
  <2>2. QED BY <1>5, <1>15, <1>16, <2>1
<1>19. ASSUME NEW k \in 1 .. 24 PROVE b + 3 + k \in DOMAIN stack /\ stack[b + 3 + k] = Static!Auxiliary[k]
  <2>1. PICK j \in 1 .. 28 : j = 4 + k OBVIOUS
  <2>2. b + j - 1 = b + 3 + k BY <1>1, <2>1
  <2>3. QED BY <1>6, <1>14, <2>1, <2>2
<1>20. QED BY <1>12, <1>17, <1>18, <1>19 DEF StackTold, b

LEMMA LoadStaticKeeps == StaticInv /\ Static!Load => StaticInv'
<1> SUFFICES ASSUME StaticInv, Static!Load PROVE StaticInv' OBVIOUS
<1>1. /\ elf' = elf /\ elfStackPointer' = Static!StackStart /\ elfStage = "load" /\ elfStage' = "symbols"
      /\ elfWords' = Static!Over(Static!InitialStack, Static!SegmentWords) /\ Static!CanLoad
  BY DEF Static!Load
<1>2. elf \in StaticFiles BY DEF StaticInv
<1>3. PICK stack : stack = Static!InitialStack OBVIOUS
<1>4. PICK cells : cells = Static!SegmentWords OBVIOUS
<1>5. \A a : Static!ElfWord(a)' = IF a \in DOMAIN stack THEN stack[a] ELSE IF a \in DOMAIN cells THEN cells[a] ELSE 0
  <2>1. PICK all : all = Static!Over(stack, cells) OBVIOUS
  <2>2. /\ DOMAIN all = DOMAIN stack \cup DOMAIN cells
        /\ \A a \in DOMAIN all : all[a] = IF a \in DOMAIN stack THEN stack[a] ELSE cells[a]
    BY <2>1 DEF Static!Over
  <2>3. elfWords' = all BY <1>1, <1>3, <1>4, <2>1
  <2>4. \A a : Static!ElfWord(a)' = IF a \in DOMAIN all THEN all[a] ELSE 0 BY <2>3 DEF Static!ElfWord
  <2>5. QED BY <2>2, <2>4
<1>6. \A a \in DOMAIN stack : a \in Int /\ a >= Static!StackStart
  <2>1. PICK low, high : /\ low = <<1, Static!NameAddress, 0, 0>> \o Static!Auxiliary
                         /\ high = Static!RandomBytes \o <<Static!NameText>>
    OBVIOUS
  <2>2. DOMAIN stack = DOMAIN Static!Placed(Static!RandomAddress, high) \cup DOMAIN Static!Placed(Static!StackStart, low)
    BY <1>3, <2>1 DEF Static!InitialStack, Static!Over
  <2>3. \A start, content : DOMAIN Static!Placed(start, content) = {start + k - 1 : k \in DOMAIN content}
    BY DEF Static!Placed
  <2>4. DOMAIN low \subseteq Nat \ {0} /\ DOMAIN high \subseteq Nat \ {0} BY <2>1
  <2>5. Static!StackStart \in Int /\ Static!RandomAddress \in Int /\ Static!StackStart <= Static!RandomAddress
    BY <1>1, <1>2, StaticPlaces, StackNames, StaticAssumption
  <2>6. ASSUME NEW a \in DOMAIN stack PROVE a \in Int /\ a >= Static!StackStart
    <3>1. PICK start \in {Static!RandomAddress, Static!StackStart}, content \in {low, high} :
            a \in DOMAIN Static!Placed(start, content)
      BY <2>2, <2>6
    <3>2. \E k \in DOMAIN content : a = start + k - 1
      <4>1. DOMAIN Static!Placed(start, content) = {start + k - 1 : k \in DOMAIN content} BY <2>3
      <4>2. QED BY <3>1, <4>1
    <3>5. PICK k \in DOMAIN content : a = start + k - 1 BY <3>2
    <3>3. k \in Nat \ {0} BY <2>4
    <3>6. QED BY <2>5, <3>3, <3>5
  <2>7. QED BY <2>6
<1>7. ASSUME NEW w \in SegmentsTold PROVE w[1] \in DOMAIN cells /\ cells[w[1]] = w[2]
  <2>1. PICK s \in Static!Segments : \E k \in CellsOfSegment(s) : w = <<s.vaddr + k, Static!Content(s, k)>>
    BY DEF SegmentsTold
  <2>2. PICK k \in CellsOfSegment(s) : w = <<s.vaddr + k, Static!Content(s, k)>> BY <2>1
  <2>3. k \in Nat /\ k < Static!Larger(s.filesz, s.memsz) /\ s.vaddr \in Nat
        /\ Static!Larger(s.filesz, s.memsz) \in Nat
    BY <1>2, StaticFileFacts DEF CellsOfSegment
  <2>4. PICK a \in Nat : a = s.vaddr + k BY <2>3
  <2>5. /\ a \in s.vaddr .. s.vaddr + Static!Larger(s.filesz, s.memsz) - 1
        /\ a >= s.vaddr /\ a < s.vaddr + Static!Larger(s.filesz, s.memsz) /\ a - s.vaddr = k
    BY <2>3, <2>4
  <2>6. (CHOOSE t \in Static!Segments : a >= t.vaddr /\ a < t.vaddr + Static!Larger(t.filesz, t.memsz)) = s
    <3>1. ASSUME NEW t \in Static!Segments, a >= t.vaddr, a < t.vaddr + Static!Larger(t.filesz, t.memsz)
          PROVE  t = s
      <4>1. t.vaddr \in Nat BY <1>2, StaticFileFacts
      <4>2. t.vaddr <= a /\ s.vaddr <= a BY <2>3, <2>5, <3>1, <4>1
      <4>3. QED BY <1>1, <1>2, <2>5, <3>1, <4>2, SegmentsApart
    <3>2. QED BY <2>5, <3>1
  <2>7. a \in DOMAIN cells BY <1>4, <2>5 DEF Static!SegmentWords
  <2>8. cells[a] = Static!Content(s, k) BY <1>4, <2>5, <2>6, <2>7 DEF Static!SegmentWords
  <2>9. w[1] = a /\ w[2] = Static!Content(s, k) BY <2>2, <2>4
  <2>10. QED BY <2>7, <2>8, <2>9
<1>8. \A w \in StackTold : Static!ElfWord(w[1])' = w[2] BY <1>1, <1>2, <1>3, <1>5, StackText
<1>9. \A w \in SegmentsTold : Static!ElfWord(w[1])' = w[2]
  <2>1. \A w \in SegmentsTold : w[1] \notin DOMAIN stack
    <3>1. \A w \in SegmentsTold : w[1] \in Int /\ w[1] < Static!StackStart - 1 BY <1>1, <1>2, SegmentsToldBelow
    <3>2. Static!StackStart \in Int BY <1>1, <1>2, StaticPlaces
    <3>3. QED BY <1>6, <3>1, <3>2
  <2>2. QED BY <1>5, <1>7, <2>1
<1>10. AreHeld(StackTold)' /\ AreHeld(SegmentsTold)' BY <1>1, <1>8, <1>9, StaticStands DEF AreHeld
<1>11. QED BY <1>1, <1>2, <1>10, StaticStands DEF StaticInv

LEMMA StaticKeeps == StaticInv /\ (Static!ElfNext \/ UNCHANGED elfVars) => StaticInv'
<1> SUFFICES ASSUME StaticInv, Static!ElfNext \/ UNCHANGED elfVars PROVE StaticInv' OBVIOUS
<1>1. CASE UNCHANGED elfVars BY <1>1, StaticStays DEF elfVars
<1>2. CASE Static!Load BY <1>2, LoadStaticKeeps
<1>3. CASE Static!SetSymbols BY <1>3, SetSymbolsKeeps
<1>4. CASE Static!InstallTls BY <1>4, InstallTlsKeeps
<1>5. CASE Static!ResolveFunction BY <1>5, ResolveFunctionKeeps
<1>6. CASE Static!Begin BY <1>6, BeginKeeps
<1>7. CASE Static!ElfFail BY <1>7, StaticStays DEF Static!ElfFail
<1>8. QED
  BY <1>1, <1>2, <1>3, <1>4, <1>5, <1>6, <1>7
  DEF Static!ElfNext, Static!CannotLoad, Static!CannotSetSymbols, Static!CannotInstallTls,
      Static!CannotResolveFunction

\* What the start code finds under a tag, if no earlier entry has it.
LEMMA AuxiliaryFound ==
  ASSUME elf \in StaticFiles, Static!CanLoad, elfStackPointer = Static!StackStart, AreHeld(StackTold),
         NEW tag, NEW m \in 0 .. 11,
         Static!Auxiliary[2 * m + 1] = tag,
         \A l \in 0 .. m - 1 : Static!Auxiliary[2 * l + 1] \notin {0, tag}
  PROVE  Static!AuxiliaryAt(tag) = Static!Auxiliary[2 * m + 2]
<1> DEFINE at(n) == elfStackPointer + 4 + 2 * n
           found(n) == Static!ElfWord(at(n)) = tag /\ \A l \in 0 .. n - 1 : Static!ElfWord(at(l)) \notin {0, tag}
<1>1. elfStackPointer \in Int BY StaticPlaces
<1>2. ASSUME NEW n \in 0 .. 11
      PROVE  /\ Static!ElfWord(at(n)) = Static!Auxiliary[2 * n + 1]
             /\ Static!ElfWord(at(n) + 1) = Static!Auxiliary[2 * n + 2]
  <2>1. ASSUME NEW k \in 1 .. 24 PROVE Static!ElfWord(elfStackPointer + 3 + k) = Static!Auxiliary[k]
    <3>1. <<elfStackPointer + 3 + k, Static!Auxiliary[k]>> \in StackTold BY DEF StackTold
    <3>2. QED BY <3>1 DEF AreHeld
  <2>2. PICK i \in 1 .. 24, j \in 1 .. 24 : i = 2 * n + 1 /\ j = 2 * n + 2 OBVIOUS
  <2>3. elfStackPointer + 3 + i = at(n) /\ elfStackPointer + 3 + j = at(n) + 1 BY <1>1, <2>2
  <2>4. Static!ElfWord(elfStackPointer + 3 + i) = Static!Auxiliary[i] /\ Static!ElfWord(elfStackPointer + 3 + j) = Static!Auxiliary[j]
    BY <2>1
  <2>5. QED BY <2>2, <2>3, <2>4
<1>3. found(m)
  <2>1. \A l \in 0 .. m - 1 : l \in 0 .. 11 OBVIOUS
  <2>2. QED BY <1>2, <2>1
<1>4. ASSUME NEW n \in 0 .. 31, found(n) PROVE n = m
  <2>1. CASE n < m
    <3>1. n \in 0 .. m - 1 BY <2>1
    <3>2. QED BY <1>3, <1>4, <3>1
  <2>2. CASE m < n
    <3>1. m \in 0 .. n - 1 BY <2>2
    <3>2. QED BY <1>3, <1>4, <3>1
  <2>3. QED BY <2>1, <2>2
<1>5. m \in 0 .. 31 OBVIOUS
<1>6. m = CHOOSE n \in 0 .. 31 : found(n) BY <1>3, <1>4, <1>5
<1>7. Static!AuxiliaryAt(tag) = Static!ElfWord(at(m) + 1) BY <1>6 DEF Static!AuxiliaryAt
<1>8. QED BY <1>2, <1>7

LEMMA AuxiliaryTells ==
  ASSUME elf \in StaticFiles, Static!CanLoad, elfStackPointer = Static!StackStart, AreHeld(StackTold)
  PROVE  /\ Static!AuxiliaryAt(3) = Static!HeadersAddress /\ Static!AuxiliaryAt(5) = elf.headerCount
         /\ Static!AuxiliaryAt(9) = elf.entry /\ Static!AuxiliaryAt(25) = Static!RandomAddress
<1>1. PICK h, a, c, e : h = Static!HeadersAddress /\ a = Static!RandomAddress /\ c = elf.headerCount /\ e = elf.entry
  OBVIOUS
<1>2. PICK x : x = Static!Auxiliary OBVIOUS
<1>3. x = <<3, h, 4, 56, 5, c, 6, 4096, 9, e, 11, 0, 12, 0, 13, 0, 14, 0, 23, 0, 25, a, 0, 0>>
  BY <1>1, <1>2 DEF Static!Auxiliary
<1>4. /\ x[1] = 3 /\ x[3] = 4 /\ x[5] = 5 /\ x[7] = 6 /\ x[9] = 9 /\ x[11] = 11 /\ x[13] = 12 /\ x[15] = 13
      /\ x[17] = 14 /\ x[19] = 23 /\ x[21] = 25
      /\ x[2] = h /\ x[6] = c /\ x[10] = e /\ x[22] = a
  BY <1>3
<1>5. \A l \in 0 .. 9 : x[2 * l + 1] \in {3, 4, 5, 6, 9, 11, 12, 13, 14, 23}
  <2>1. \A l \in 0 .. 9 : l = 0 \/ l = 1 \/ l = 2 \/ l = 3 \/ l = 4 \/ l = 5 \/ l = 6 \/ l = 7 \/ l = 8 \/ l = 9 OBVIOUS
  <2>2. QED BY <1>4, <2>1
<1>6. Static!AuxiliaryAt(25) = a
  <2>1. PICK m \in 0 .. 11 : m = 10 OBVIOUS
  <2>2. 2 * m + 1 = 21 /\ 2 * m + 2 = 22 /\ m - 1 = 9 BY <2>1
  <2>3. Static!Auxiliary[2 * m + 1] = 25 BY <1>2, <1>4, <2>2
  <2>4. \A l \in 0 .. m - 1 : Static!Auxiliary[2 * l + 1] \notin {0, 25} BY <1>2, <1>5, <2>2
  <2>5. Static!AuxiliaryAt(25) = Static!Auxiliary[2 * m + 2] BY <2>3, <2>4, AuxiliaryFound
  <2>6. QED BY <1>2, <1>4, <2>2, <2>5
<1>7. Static!AuxiliaryAt(9) = e
  <2>1. PICK m \in 0 .. 11 : m = 4 OBVIOUS
  <2>2. 2 * m + 1 = 9 /\ 2 * m + 2 = 10 /\ m - 1 = 3 BY <2>1
  <2>3. Static!Auxiliary[2 * m + 1] = 9 BY <1>2, <1>4, <2>2
  <2>4. \A l \in 0 .. m - 1 : Static!Auxiliary[2 * l + 1] \notin {0, 9}
    <3>1. \A l \in 0 .. 3 : l = 0 \/ l = 1 \/ l = 2 \/ l = 3 OBVIOUS
    <3>2. \A l \in 0 .. 3 : x[2 * l + 1] \in {3, 4, 5, 6} BY <1>4, <3>1
    <3>3. QED BY <1>2, <2>2, <3>2
  <2>5. Static!AuxiliaryAt(9) = Static!Auxiliary[2 * m + 2] BY <2>3, <2>4, AuxiliaryFound
  <2>6. QED BY <1>2, <1>4, <2>2, <2>5
<1>8. Static!AuxiliaryAt(5) = c
  <2>1. PICK m \in 0 .. 11 : m = 2 OBVIOUS
  <2>2. 2 * m + 1 = 5 /\ 2 * m + 2 = 6 /\ m - 1 = 1 BY <2>1
  <2>3. Static!Auxiliary[2 * m + 1] = 5 BY <1>2, <1>4, <2>2
  <2>4. \A l \in 0 .. m - 1 : Static!Auxiliary[2 * l + 1] \notin {0, 5}
    <3>1. \A l \in 0 .. 1 : l = 0 \/ l = 1 OBVIOUS
    <3>2. \A l \in 0 .. 1 : x[2 * l + 1] \in {3, 4} BY <1>4, <3>1
    <3>3. QED BY <1>2, <2>2, <3>2
  <2>5. Static!AuxiliaryAt(5) = Static!Auxiliary[2 * m + 2] BY <2>3, <2>4, AuxiliaryFound
  <2>6. QED BY <1>2, <1>4, <2>2, <2>5
<1>9. Static!AuxiliaryAt(3) = h
  <2>1. PICK m \in 0 .. 11 : m = 0 OBVIOUS
  <2>2. 2 * m + 1 = 1 /\ 2 * m + 2 = 2 /\ 0 .. m - 1 = {} BY <2>1
  <2>3. Static!Auxiliary[2 * m + 1] = 3 BY <1>2, <1>4, <2>2
  <2>4. Static!AuxiliaryAt(3) = Static!Auxiliary[2 * m + 2] BY <2>2, <2>3, AuxiliaryFound
  <2>5. QED BY <1>2, <1>4, <2>2, <2>4
<1>10. QED BY <1>1, <1>6, <1>7, <1>8, <1>9

\* Where AT_PHDR points: to the first segment that has the headers.
LEMMA HeadersFound ==
  ASSUME elf \in StaticFiles, Static!HeadersMapped
  PROVE  \E s \in Static!Segments :
           /\ s.offset <= elf.headers /\ elf.headers < s.offset + s.filesz
           /\ Static!HeadersAddress = s.vaddr + (elf.headers - s.offset)
<1> DEFINE holders == {n \in DOMAIN elf.segments :
                         LET s == elf.segments[n] IN elf.headers >= s.offset /\ elf.headers < s.offset + s.filesz}
<1>1. PICK N \in Nat : DOMAIN elf.segments = 1 .. N BY StaticFileFacts, LenProperties
<1>2. \A n \in 1 .. N : elf.segments[n] \in Static!Segments BY <1>1 DEF Static!Segments, Static!ToSet
<1>3. holders \subseteq Nat BY <1>1
<1>4. holders # {}
  <2>1. PICK s \in Static!Segments : elf.headers \in s.offset .. s.offset + s.filesz - 1 BY DEF Static!HeadersMapped
  <2>2. PICK n \in DOMAIN elf.segments : s = elf.segments[n] BY DEF Static!Segments, Static!ToSet
  <2>3. s.offset \in Nat /\ s.filesz \in Nat /\ elf.headers \in Nat BY StaticFileFacts
  <2>4. elf.headers >= s.offset /\ elf.headers < s.offset + s.filesz BY <2>1, <2>3
  <2>5. n \in holders BY <2>2, <2>4
  <2>6. QED BY <2>5
<1>5. PICK n \in holders : \A m \in holders : n <= m
  <2> HIDE DEF holders
  <2>1. QED BY <1>3, <1>4, Least
<1>6. n = CHOOSE i \in holders : \A m \in holders : i <= m
  <2> HIDE DEF holders
  <2>1. \A i \in holders : (\A m \in holders : i <= m) => i = n BY <1>3, <1>5
  <2>2. QED BY <1>5, <2>1
<1>7. PICK s \in Static!Segments : s = elf.segments[n] BY <1>1, <1>2
<1>8. Static!HeadersAddress = s.vaddr + elf.headers - s.offset BY <1>4, <1>6, <1>7 DEF Static!HeadersAddress
<1>9. elf.headers >= s.offset /\ elf.headers < s.offset + s.filesz BY <1>5, <1>7
<1>10. elf.headers \in Nat BY StaticFileFacts
<1>11. s.vaddr \in Nat /\ s.offset \in Nat BY StaticFileFacts
<1>12. s.vaddr + elf.headers - s.offset = s.vaddr + (elf.headers - s.offset) BY <1>10, <1>11
<1>13. QED BY <1>8, <1>9, <1>11, <1>12

LEMMA StaticInvTells == StaticInv => StartIsSound
<1> SUFFICES ASSUME StaticInv, elfStage = "running", Static!BlockFits, Static!PatchesItself
             PROVE  /\ Static!StackTells
                    /\ Static!RandomIsSet => Static!ElfWord(elf.symbols["_dl_random"]) = Static!AuxiliaryAt(25)
                    /\ \A s \in Static!Segments : \A k \in 0 .. s.memsz - 1 :
                         s.vaddr + k \notin Static!Patched => Static!ElfWord(s.vaddr + k) = Static!Content(s, k)
                    /\ \A r \in Static!ToSet(elf.resolvers) :
                         (\A q \in Static!ToSet(elf.resolvers) : q.at = r.at => q = r) => Static!ElfWord(r.at) \in r.impl
                    /\ \A t \in elf.tls : t.offset + t.filesz <= elf.length =>
                         \A k \in 0 .. t.filesz - 1 :
                           Static!ElfWord(Static!BlockStart(t) + k) = Static!FileWord(t.offset + k)
  BY DEF StartIsSound, Static!StartIsSound
<1>1. /\ elf \in StaticFiles /\ Static!CanLoad /\ elfStackPointer = Static!StackStart /\ elfTodo = <<>>
      /\ AreHeld(StackTold) /\ AreHeld(SegmentsTold) /\ AreHeld(RandomTold) /\ AreHeld(BlockTold) /\ SlotsHold
  BY DEF StaticInv
<1>2. ASSUME NEW s \in Static!Segments, NEW k \in Nat, k < Static!Larger(s.filesz, s.memsz),
             s.vaddr + k \notin Static!Patched
      PROVE  Static!ElfWord(s.vaddr + k) = Static!Content(s, k)
  <2>1. k \in CellsOfSegment(s) BY <1>2 DEF CellsOfSegment
  <2>2. <<s.vaddr + k, Static!Content(s, k)>> \in SegmentsTold BY <2>1 DEF SegmentsTold
  <2>3. QED BY <1>1, <2>2 DEF AreHeld
<1>3. /\ Static!AuxiliaryAt(3) = Static!HeadersAddress /\ Static!AuxiliaryAt(5) = elf.headerCount
      /\ Static!AuxiliaryAt(9) = elf.entry /\ Static!AuxiliaryAt(25) = Static!RandomAddress
  BY <1>1, AuxiliaryTells
<1>4. Static!StackTells
  <2>1. /\ Static!ElfWord(elfStackPointer) = 1
        /\ Static!ElfWord(elfStackPointer + 1) = Static!NameAddress
        /\ Static!ElfWord(elfStackPointer + 2) = 0 /\ Static!ElfWord(elfStackPointer + 3) = 0
        /\ Static!ElfWord(Static!RandomAddress) = -2 /\ Static!ElfWord(Static!RandomAddress + 1) = -3
        /\ Static!ElfWord(Static!NameAddress) = Static!NameText
    <3>1. \A w \in {<<Static!StackStart, 1>>, <<Static!StackStart + 1, Static!NameAddress>>,
                    <<Static!StackStart + 2, 0>>, <<Static!StackStart + 3, 0>>,
                    <<Static!RandomAddress, -2>>, <<Static!RandomAddress + 1, -3>>,
                    <<Static!NameAddress, Static!NameText>>} : Static!ElfWord(w[1]) = w[2]
      BY <1>1 DEF AreHeld, StackTold
    <3>2. QED BY <1>1, <3>1
  <2>2. [k \in 1 .. 2 |-> Static!ElfWord(Static!AuxiliaryAt(25) + k - 1)] = Static!RandomBytes
    <3>1. PICK at \in Int : at = Static!RandomAddress BY <1>1, StackNames
    <3>2. at + 1 - 1 = at /\ at + 2 - 1 = at + 1 BY <3>1
    <3>3. \A k \in 1 .. 2 : k = 1 \/ k = 2 OBVIOUS
    <3>4. PICK bytes : bytes = Static!RandomBytes OBVIOUS
    <3>5. bytes = [k \in 1 .. 2 |-> bytes[k]] /\ bytes[1] = -2 /\ bytes[2] = -3 BY <3>4 DEF Static!RandomBytes
    <3>6. \A k \in 1 .. 2 : Static!ElfWord(at + k - 1) = bytes[k] BY <2>1, <3>1, <3>2, <3>3, <3>5
    <3>7. [k \in 1 .. 2 |-> Static!ElfWord(at + k - 1)] = bytes BY <3>5, <3>6
    <3>8. QED BY <1>3, <3>1, <3>4, <3>7
  <2>3. ASSUME Static!HeadersMapped, Static!AuxiliaryAt(3) \notin Static!Patched
        PROVE  Static!ElfWord(Static!AuxiliaryAt(3)) = Static!FileWord(elf.headers)
    <3>1. PICK s \in Static!Segments :
            /\ s.offset <= elf.headers /\ elf.headers < s.offset + s.filesz
            /\ Static!HeadersAddress = s.vaddr + (elf.headers - s.offset)
      BY <1>1, <2>3, HeadersFound
    <3>2. /\ s.vaddr \in Nat /\ s.offset \in Nat /\ s.filesz \in Nat /\ elf.headers \in Nat
          /\ Static!Larger(s.filesz, s.memsz) \in Nat /\ s.filesz <= Static!Larger(s.filesz, s.memsz)
      BY <1>1, StaticFileFacts
    <3>3. PICK k \in Nat : k = elf.headers - s.offset BY <3>1, <3>2
    <3>4. k < s.filesz /\ k < Static!Larger(s.filesz, s.memsz) /\ s.offset + k = elf.headers
      BY <3>1, <3>2, <3>3
    <3>5. Static!ElfWord(s.vaddr + k) = Static!Content(s, k) BY <1>2, <1>3, <2>3, <3>1, <3>3, <3>4
    <3>6. Static!Content(s, k) = Static!FileWord(elf.headers)
      BY <2>3, <3>4 DEF Static!Content, Static!HeadersMapped
    <3>7. QED BY <1>3, <3>1, <3>3, <3>5, <3>6
  <2>4. QED BY <1>3, <2>1, <2>2, <2>3 DEF Static!StackTells
<1>5. ASSUME Static!RandomIsSet PROVE Static!ElfWord(elf.symbols["_dl_random"]) = Static!AuxiliaryAt(25)
  <2>1. <<elf.symbols["_dl_random"], Static!RandomAddress>> \in RandomTold BY <1>5 DEF RandomTold
  <2>2. QED BY <1>1, <1>3, <2>1 DEF AreHeld
<1>6. ASSUME NEW s \in Static!Segments, NEW k \in 0 .. s.memsz - 1, s.vaddr + k \notin Static!Patched
      PROVE  Static!ElfWord(s.vaddr + k) = Static!Content(s, k)
  <2>1. /\ s.memsz \in Nat /\ Static!Larger(s.filesz, s.memsz) \in Nat
        /\ s.memsz <= Static!Larger(s.filesz, s.memsz)
    BY <1>1, StaticFileFacts
  <2>2. k \in Nat /\ k < Static!Larger(s.filesz, s.memsz) BY <2>1
  <2>3. QED BY <1>2, <1>6, <2>2
<1>7. ASSUME NEW r \in Static!ToSet(elf.resolvers), \A q \in Static!ToSet(elf.resolvers) : q.at = r.at => q = r
      PROVE  Static!ElfWord(r.at) \in r.impl
  <2>1. r \notin Static!ToSet(elfTodo) BY <1>1 DEF Static!ToSet
  <2>2. SlotIsOwn(r) BY <1>7 DEF SlotIsOwn
  <2>3. QED BY <1>1, <2>1, <2>2 DEF SlotsHold
<1>8. ASSUME NEW t \in elf.tls, t.offset + t.filesz <= elf.length, NEW k \in 0 .. t.filesz - 1
      PROVE  Static!ElfWord(Static!BlockStart(t) + k) = Static!FileWord(t.offset + k)
  <2>1. <<Static!BlockStart(t) + k, Static!FileWord(t.offset + k)>> \in BlockTold BY <1>8 DEF BlockTold
  <2>2. QED BY <1>1, <2>1 DEF AreHeld
<1>9. QED BY <1>4, <1>5, <1>6, <1>7, <1>8

LEMMA RunnerIsStatic == [RunnerNext]_runnerVars => Static!ElfNext \/ UNCHANGED elfVars
<1> SUFFICES ASSUME [RunnerNext]_runnerVars PROVE Static!ElfNext \/ UNCHANGED elfVars OBVIOUS
<1>1. CASE LoadStatic BY <1>1 DEF LoadStatic
<1>2. CASE UNCHANGED elfVars BY <1>2
<1>3. CASE RunnerNext /\ ~LoadStatic
  BY <1>2, <1>3
  DEF RunnerNext, Begin, Reject, Describe, Report, LoadPe, LoadMacho, LoadDynamic, Exit, GiveUp, Answered
<1>4. QED BY <1>1, <1>2, <1>3 DEF runnerVars

\* A static program starts with what its stack says where its stack says it, and with
\* its segments, its thread-local block and its resolved slots as they should be, if
\* its block does not reach down into the stack (BlockFits) and the symbols and slots
\* that the loader sets are words of its own segments (PatchesItself). Of a larger
\* block, which is written over the stack, nothing is said.
THEOREM StartIsAlwaysSound == RunnerSpec => []StartIsSound
<1>1. RunnerInit => StaticInv
  <2>1. RunnerInit => Static!ElfInit BY DEF RunnerInit
  <2>2. QED BY <2>1, StaticStarts
<1>2. StaticInv /\ [RunnerNext]_runnerVars => StaticInv' BY RunnerIsStatic, StaticKeeps
<1>3. QED BY <1>1, <1>2, StaticInvTells, PTL DEF RunnerSpec, runnerVars
=============================================================================
