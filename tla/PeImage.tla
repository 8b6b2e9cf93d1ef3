------------------------------ MODULE PeImage ------------------------------
(***************************************************************************)
(* execute_pe32_plus_console of parser/pe.rs up to the first instruction:  *)
(* a PE32+ program is planned, its sections are mapped, its imports bound  *)
(* to the stubs of seven functions, its words relocated, and it gets the   *)
(* stubs and a stack.  An address counts words of 8 bytes.  A program is   *)
(* what pe_layout and the readers of the tables give:                      *)
(* [sound, base, at, entry, size, sections, imports, closed, thunks,       *)
(* relocations].                                                           *)
(***************************************************************************)
EXTENDS GuestMemory, SequencesExt, Options

CONSTANTS
  PeFiles,
  PeRoom,    \* 0x30000, above the image
  PeStack    \* 0x10000

VARIABLES
  pe,
  peStage,
  peTodo,    \* what the loop of this stage still has to go through
  peMem, peWords,
  peStackPointer

peVars == <<pe, peStage, peTodo, peMem, peWords, peStackPointer>>

PeWord(at) == IF at \in DOMAIN peWords THEN peWords[at] ELSE 0

PeWritten(at, value) == [a \in DOMAIN peWords \cup {at} |-> IF a = at THEN value ELSE peWords[a]]

LoadBase == IF pe.at = None THEN pe.base ELSE CHOOSE b \in pe.at : TRUE

Delta == LoadBase - pe.base

Longer(a, b) == IF a < b THEN b ELSE a

-----------------------------------------------------------------------------
(* What the file says.                                                     *)

\* One entry for each thunk, read from OriginalFirstThunk if there is one, and
\* placed in FirstThunk; no name is an ordinal.
Lookup(d) == IF d.lookup # 0 THEN d.lookup ELSE d.table

MutImports ==
  FlattenSeq([i \in DOMAIN pe.imports |->
    LET d == pe.imports[i]
    IN  [k \in DOMAIN pe.thunks[Lookup(d)] |->
           [dll |-> d.dll, name |-> pe.thunks[Lookup(d)][k], slot |-> Lookup(d) + k - 1]]])

Imports ==
  FlattenSeq([i \in DOMAIN pe.imports |->
    LET d == pe.imports[i]
    IN  [k \in DOMAIN pe.thunks[Lookup(d)] |->
           [dll |-> d.dll, name |-> pe.thunks[Lookup(d)][k], slot |-> d.table + k - 1]]])

\* Entries of kind 0 are padding.
Relocations ==
  LET entries == {k \in DOMAIN pe.relocations : pe.relocations[k].kind # 0}
  IN  [n \in 1 .. Cardinality(entries) |->
         pe.relocations[CHOOSE k \in entries : Cardinality({j \in entries : j <= k}) = n]]

\* A section is [name, rva, vsize, raw, inFile].  One that ends beyond the image
\* is taken if its place in the file is sound.
SectionSound(s) ==
  s.inFile \/ (s.raw = <<>> /\ s.rva + Longer(s.vsize, Len(s.raw)) <= pe.size)

CanPlanImage ==
  /\ pe.sound /\ pe.closed
  /\ pe.size # 0 /\ pe.entry < pe.size
  /\ \A i \in DOMAIN pe.sections : SectionSound(pe.sections[i])
  /\ \A i \in DOMAIN pe.imports : Lookup(pe.imports[i]) \in DOMAIN pe.thunks

-----------------------------------------------------------------------------
(* The functions, in the order of their pages above the image.              *)

Functions == <<"WriteFile", "WriteConsoleA", "WriteConsoleW", "GetStdHandle",
               "GetConsoleMode", "SetConsoleMode", "ExitProcess">>

ShimBase == AlignUp(LoadBase + pe.size)

Shim(name) == ShimBase + PageSize * (CHOOSE n \in 0 .. Len(Functions) - 1 : Functions[n + 1] = name)

\* PeApiAddressMap::resolve.
Resolve(import) ==
  CASE import.dll \in {"kernel32.dll", "kernelbase.dll"} ->
         {Shim(name) : name \in import.name \cap ToSet(Functions)}
    [] import.dll = "ntdll.dll" ->
         {Shim(IF name = "NtWriteFile" THEN "WriteFile" ELSE "ExitProcess") :
            name \in import.name \cap {"NtWriteFile", "RtlExitUserProcess"}}
    [] OTHER -> None

\* No name that is not one of the seven, whatever the library; ordinals pass.
NamesSupported == \A i \in DOMAIN Imports : Imports[i].name \subseteq ToSet(Functions)

-----------------------------------------------------------------------------
PeInit ==
  /\ pe \in PeFiles
  /\ peStage = "plan" /\ peTodo = <<>>
  /\ peMem = [min |-> 0, max |-> 0, regions |-> {}]
  /\ peWords = <<>> /\ peStackPointer = 0

PeFail ==
  /\ peStage' = "failed"
  /\ UNCHANGED <<pe, peTodo, peMem, peWords, peStackPointer>>

Plan ==
  /\ peStage = "plan" /\ CanPlanImage /\ NamesSupported
  /\ peStage' = "map" /\ peTodo' = pe.sections
  /\ peMem' = [min |-> LoadBase, max |-> LoadBase + pe.size + PeRoom, regions |-> {}]
  /\ UNCHANGED <<pe, peWords, peStackPointer>>

CannotPlan == peStage = "plan" /\ (CanPlanImage => ~NamesSupported) /\ PeFail

\* By name: the characteristics of a section are not looked at.
PermOf(s) ==
  CASE s.name = ".text" -> {"r", "x"}
    [] s.name \in {".data", ".rdata"} -> {"r", "w"}
    [] OTHER -> {"r", "w", "x"}

SectionRegion(s) ==
  RegionAt(LoadBase + s.rva, Longer(Longer(s.vsize, Len(s.raw)), PageSize), PermOf(s))

Raw(s, k) == IF k < Len(s.raw) THEN s.raw[k + 1] ELSE 0

MapSection ==
  /\ peStage = "map" /\ peTodo # <<>>
  /\ LET s == Head(peTodo)
     IN  /\ CanAdd(peMem, SectionRegion(s))
         /\ peMem' = Add(peMem, SectionRegion(s))
         /\ peWords' = [a \in DOMAIN peWords \cup CellsOf(SectionRegion(s)) |->
                          IF a \in CellsOf(SectionRegion(s)) THEN Raw(s, a - LoadBase - s.rva) ELSE peWords[a]]
  /\ peTodo' = Tail(peTodo)
  /\ UNCHANGED <<pe, peStage, peStackPointer>>

CannotMapSection ==
  /\ peStage = "map" /\ peTodo # <<>> /\ ~CanAdd(peMem, SectionRegion(Head(peTodo)))
  /\ PeFail

\* resolve_pe32_plus_imports, of all of them before the first is written.
ResolveImports ==
  /\ peStage = "map" /\ peTodo = <<>>
  /\ \A i \in DOMAIN Imports : Resolve(Imports[i]) # None
  /\ peStage' = "bind" /\ peTodo' = Imports
  /\ UNCHANGED <<pe, peMem, peWords, peStackPointer>>

CannotResolve ==
  /\ peStage = "map" /\ peTodo = <<>>
  /\ \E i \in DOMAIN Imports : Resolve(Imports[i]) = None
  /\ PeFail

BindSlot ==
  /\ peStage = "bind" /\ peTodo # <<>>
  /\ LET at == LoadBase + Head(peTodo).slot
     IN  /\ Writable(peMem, at, 1)
         /\ \E address \in Resolve(Head(peTodo)) : peWords' = PeWritten(at, address)
  /\ peTodo' = Tail(peTodo)
  /\ UNCHANGED <<pe, peStage, peMem, peStackPointer>>

CannotBind ==
  /\ peStage = "bind" /\ peTodo # <<>> /\ ~Writable(peMem, LoadBase + Head(peTodo).slot, 1)
  /\ PeFail

Bound ==
  /\ peStage = "bind" /\ peTodo = <<>>
  /\ peStage' = "patch" /\ peTodo' = Relocations
  /\ UNCHANGED <<pe, peMem, peWords, peStackPointer>>

\* DIR64; the word is read first, and keeps its sign.
CanPatch(r) ==
  LET at == LoadBase + r.rva
  IN  /\ r.kind = 10
      /\ Readable(peMem, at, 1) /\ Writable(peMem, at, 1)
      /\ PeWord(at) + Delta >= 0

Patch ==
  /\ peStage = "patch" /\ peTodo # <<>> /\ CanPatch(Head(peTodo))
  /\ LET at == LoadBase + Head(peTodo).rva
     IN  peWords' = PeWritten(at, PeWord(at) + Delta)
  /\ peTodo' = Tail(peTodo)
  /\ UNCHANGED <<pe, peStage, peMem, peStackPointer>>

CannotPatch == peStage = "patch" /\ peTodo # <<>> /\ ~CanPatch(Head(peTodo)) /\ PeFail

ShimRegion(name) == RegionAt(Shim(name), PageSize, {"r", "w", "x"})

ShimsFit == \A name \in ToSet(Functions) : CanAdd(peMem, ShimRegion(name))

WithShims == [peMem EXCEPT !.regions = @ \cup {ShimRegion(name) : name \in ToSet(Functions)}]

\* The stubs, and a stack at the lowest free pages, with one page above its pointer.
Furnish ==
  /\ peStage = "patch" /\ peTodo = <<>> /\ ShimsFit /\ CanMap(WithShims, PeStack)
  /\ peMem' = MapFromBelow(WithShims, PeStack, {"r", "w"})
  /\ peStackPointer' = FromBelow(WithShims, PeStack) + PeStack - PageSize
  /\ peStage' = "running"
  /\ UNCHANGED <<pe, peTodo, peWords>>

CannotFurnish ==
  /\ peStage = "patch" /\ peTodo = <<>> /\ ~(ShimsFit /\ CanMap(WithShims, PeStack))
  /\ PeFail

PeNext ==
  \/ Plan \/ CannotPlan \/ MapSection \/ CannotMapSection
  \/ ResolveImports \/ CannotResolve \/ BindSlot \/ CannotBind \/ Bound
  \/ Patch \/ CannotPatch \/ Furnish \/ CannotFurnish

-----------------------------------------------------------------------------
\* What the tables of the file ask for, and where.
Asked ==
  UNION {{[name |-> pe.thunks[Lookup(d)][k], slot |-> d.table + k - 1] : k \in DOMAIN pe.thunks[Lookup(d)]} :
           d \in ToSet(pe.imports)}

Slots == {q.slot : q \in Asked}

\* No word is named twice by the tables.
TablesApart ==
  /\ \A q, r \in Asked : q.slot = r.slot => q = r
  /\ \A i, j \in DOMAIN Relocations : Relocations[i].rva = Relocations[j].rva => i = j
  /\ \A i \in DOMAIN Relocations : Relocations[i].rva \notin Slots

\* A word of a section: as the file has it, and moved if a relocation names it.
Expected(s, k) ==
  Raw(s, k) + (IF \E r \in ToSet(Relocations) : r.rva = s.rva + k THEN Delta ELSE 0)

\* ImageIsBound: a program that starts, if no word is named twice by its tables
\* (where the last write would decide), finds in each slot of its import table the
\* stub of the function it asked for there, in memory it can execute, and every
\* other word of its sections as the file has it, moved by the distance from the
\* preferred base where, and only where, a relocation names it; and its stack has
\* room on both sides of the pointer.
ImageIsBound ==
  peStage = "running" =>
    /\ TablesApart =>
         /\ \A q \in Asked : \A name \in q.name :
              /\ PeWord(LoadBase + q.slot) = Shim(name)
              /\ \E r \in peMem.regions : Within(Shim(name), PageSize, r) /\ "x" \in r.perm
         /\ \A s \in ToSet(pe.sections) : \A k \in 0 .. Longer(s.vsize, Len(s.raw)) - 1 :
              s.rva + k \notin Slots => PeWord(LoadBase + s.rva + k) = Expected(s, k)
    /\ Apart(peMem)
    /\ Writable(peMem, peStackPointer - PageSize, 2 * PageSize)
=============================================================================
