---------------------------- MODULE MachoImage ----------------------------
(***************************************************************************)
(* execute_macho_with_sink of macho_runtime.rs up to the first             *)
(* instruction, and parse_macho64 of parser/macho.rs, which it asks for    *)
(* the entry point: two walks over the load commands of one file.  Sizes,  *)
(* offsets and addresses count words of 8 bytes.  A file is                *)
(* [runnable, length, ncmds, cmdsSize, commands], a command                *)
(* [kind, size, ...] with the fields of its kind; what follows the         *)
(* commands of a file is zero.                                             *)
(***************************************************************************)
EXTENDS GuestMemory, SequencesExt, Options

CONSTANTS
  MachoFiles,
  MachoMin, MachoMax,   \* 0x1000_0000 and 0x7fff_ffff_ffff
  MachoStackBase,       \* 0x7000_0000_0000
  MachoStack

MachoHeader == 4   \* 32, 72 and 24 bytes
SegmentSize == 9
MainSize == 3

VARIABLES
  macho,
  machoStage,
  machoAt,       \* the loop: [next, offset]
  machoTodo,     \* regions: the segments found
  entryoff,
  machoMem,
  fileAt         \* which word of the file an address holds; -1 for zero fill

machoVars == <<macho, machoStage, machoAt, machoTodo, entryoff, machoMem, fileAt>>

CommandsEnd == MachoHeader + macho.cmdsSize

Command(k) ==
  IF k <= Len(macho.commands) THEN macho.commands[k] ELSE [kind |-> "zero", size |-> 0]

Complete(k, offset) == Command(k).size >= 1 /\ offset + Command(k).size <= CommandsEnd

-----------------------------------------------------------------------------
(* parse_macho_inner: from the first command to the first that is broken,   *)
(* however many the header counts.                                         *)

Offset(k) ==
  LET after[n \in Nat] == IF n = 0 THEN MachoHeader ELSE after[n - 1] + Command(n).size
  IN  after[k - 1]

WalkedTo(k) == \A j \in 1 .. k : Complete(j, Offset(j))

Walked == {k \in DOMAIN macho.commands : WalkedTo(k)}

\* A segment command is read if the file goes on far enough.
ParsedSegments ==
  LET read == {k \in Walked : macho.commands[k].kind = "segment" /\ Offset(k) + SegmentSize <= macho.length}
  IN  [n \in 1 .. Cardinality(read) |->
         macho.commands[CHOOSE k \in read : Cardinality({j \in read : j <= k}) = n]]

\* The last LC_MAIN.
ParsedMain ==
  LET read == {k \in Walked : macho.commands[k].kind = "main" /\ Offset(k) + MainSize <= macho.length}
  IN  IF read = {} THEN None ELSE Some(macho.commands[CHOOSE k \in read : \A j \in read : j <= k].entryoff)

MutHolds(s, position) ==
  s.filesize > 0 /\ position >= s.fileoff /\ position <= s.fileoff + s.filesize

Holds(s, position) ==
  s.filesize > 0 /\ position >= s.fileoff /\ position < s.fileoff + s.filesize

\* resolve_entry_address: by the first segment that holds the position, or the
\* position itself; no LC_MAIN is 0.
EntryPoint ==
  LET holders(position) == {n \in DOMAIN ParsedSegments : Holds(ParsedSegments[n], position)}
      address(position) ==
        IF holders(position) = {} THEN position
        ELSE LET s == ParsedSegments[CHOOSE n \in holders(position) : \A m \in holders(position) : n <= m]
             IN  s.vmaddr + position - s.fileoff
  IN  IF ParsedMain = None THEN 0 ELSE address(CHOOSE position \in ParsedMain : TRUE)

-----------------------------------------------------------------------------
(* execute_macho_with_sink, which walks as many commands as the header says. *)

MachoInit ==
  /\ macho \in MachoFiles
  /\ machoStage = "header" /\ machoAt = [next |-> 1, offset |-> MachoHeader]
  /\ machoTodo = <<>> /\ entryoff = None
  /\ machoMem = [min |-> MachoMin, max |-> MachoMax, regions |-> {}] /\ fileAt = <<>>

MachoFail ==
  /\ machoStage' = "failed"
  /\ UNCHANGED <<macho, machoAt, machoTodo, entryoff, machoMem, fileAt>>

\* Little-endian, x86_64, MH_EXECUTE, and its commands in the file.
HeaderSound == macho.runnable /\ CommandsEnd <= macho.length

Header ==
  /\ machoStage = "header" /\ HeaderSound
  /\ machoStage' = "walk"
  /\ UNCHANGED <<macho, machoAt, machoTodo, entryoff, machoMem, fileAt>>

CannotRead == machoStage = "header" /\ ~HeaderSound /\ MachoFail

Walking == machoStage = "walk" /\ machoAt.next <= macho.ncmds

CommandSound ==
  LET c == Command(machoAt.next)
  IN  /\ machoAt.offset + 1 <= CommandsEnd
      /\ Complete(machoAt.next, machoAt.offset)
      /\ c.kind = "segment" /\ c.size >= SegmentSize =>
           c.fileoff + c.filesize <= macho.length /\ c.filesize <= c.vmsize

TakeCommand ==
  /\ Walking /\ CommandSound
  /\ LET c == Command(machoAt.next)
     IN  /\ machoTodo' = IF c.kind = "segment" /\ c.size >= SegmentSize THEN Append(machoTodo, c) ELSE machoTodo
         /\ entryoff' = IF c.kind = "main" /\ c.size >= MainSize THEN Some(c.entryoff) ELSE entryoff
         /\ machoAt' = [next |-> machoAt.next + 1, offset |-> machoAt.offset + c.size]
  /\ UNCHANGED <<macho, machoStage, machoMem, fileAt>>

BrokenCommand == Walking /\ ~CommandSound /\ MachoFail

HasEntry == entryoff # None /\ 0 \notin entryoff /\ EntryPoint # 0

Enter ==
  /\ machoStage = "walk" /\ machoAt.next > macho.ncmds /\ HasEntry
  /\ machoStage' = "map"
  /\ UNCHANGED <<macho, machoAt, machoTodo, entryoff, machoMem, fileAt>>

CannotEnter == machoStage = "walk" /\ machoAt.next > macho.ncmds /\ ~HasEntry /\ MachoFail

SegmentRegion(c) == RegionAt(c.vmaddr, c.vmsize, c.perm)

\* add_region: nothing below MachoMin, where __PAGEZERO is.
MapSegment ==
  /\ machoStage = "map" /\ machoTodo # <<>>
  /\ LET c == Head(machoTodo)
     IN  /\ CanAdd(machoMem, SegmentRegion(c))
         /\ machoMem' = Add(machoMem, SegmentRegion(c))
         /\ fileAt' = [a \in DOMAIN fileAt \cup CellsOf(SegmentRegion(c)) |->
                         IF a \notin CellsOf(SegmentRegion(c)) THEN fileAt[a]
                         ELSE IF a - c.vmaddr < c.filesize THEN c.fileoff + a - c.vmaddr
                         ELSE -1]
  /\ machoTodo' = Tail(machoTodo)
  /\ UNCHANGED <<macho, machoStage, machoAt, entryoff>>

CannotMapSegment ==
  /\ machoStage = "map" /\ machoTodo # <<>> /\ ~CanAdd(machoMem, SegmentRegion(Head(machoTodo)))
  /\ MachoFail

StackRegion == RegionAt(MachoStackBase, AlignUp(MachoStack), {"r", "w"})

Start ==
  /\ machoStage = "map" /\ machoTodo = <<>> /\ CanAdd(machoMem, StackRegion)
  /\ machoMem' = Add(machoMem, StackRegion)
  /\ machoStage' = "running"
  /\ UNCHANGED <<macho, machoAt, machoTodo, entryoff, fileAt>>

CannotStart ==
  /\ machoStage = "map" /\ machoTodo = <<>> /\ ~CanAdd(machoMem, StackRegion)
  /\ MachoFail

MachoNext ==
  \/ Header \/ CannotRead \/ TakeCommand \/ BrokenCommand \/ Enter \/ CannotEnter
  \/ MapSegment \/ CannotMapSegment \/ Start \/ CannotStart

-----------------------------------------------------------------------------
\* The header counts the commands that fit, and they have their sizes.
CommandsCounted ==
  /\ macho.ncmds = Len(macho.commands) /\ Walked = DOMAIN macho.commands
  /\ \A k \in Walked :
       /\ macho.commands[k].kind = "segment" => macho.commands[k].size >= SegmentSize
       /\ macho.commands[k].kind = "main" => macho.commands[k].size >= MainSize

\* EntryIsMapped: when a program starts whose header counts just the commands that
\* fit, its entry point is the address at which the word of the file that LC_MAIN
\* names was mapped, if a segment has it: the segment that is found for the entry
\* point is the one the word was mapped from. Of other files, where the two walks
\* over the commands may end at different ones, nothing is said.
EntryIsMapped ==
  machoStage = "running" /\ CommandsCounted =>
    \A position \in entryoff :
      (\E n \in DOMAIN ParsedSegments : Holds(ParsedSegments[n], position))
        => EntryPoint \in DOMAIN fileAt /\ fileAt[EntryPoint] = position
=============================================================================
