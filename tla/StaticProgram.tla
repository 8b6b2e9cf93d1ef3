--------------------------- MODULE StaticProgram ---------------------------
(***************************************************************************)
(* execute_elf_with_sink of elf/mod.rs up to the first instruction of a    *)
(* static program: what it takes, the image with what the words hold, the  *)
(* initial stack, thread-local storage, the symbols it sets for glibc, and *)
(* the calls of the IFUNC resolvers.  Sizes, offsets and addresses count   *)
(* words of 8 bytes; the name takes one, the bytes of AT_RANDOM take two.  *)
(* A file is [runnable, entry, length, headers, headerCount, segments,     *)
(* tls, symbols, resolvers], its segments the PT_LOAD ones: a header of    *)
(* another kind, or an empty one, with the address of one is left out.     *)
(***************************************************************************)
EXTENDS GuestLayout, SequencesExt, Options

CONSTANTS
  StaticFiles,
  StaticStack   \* 8 MiB

VARIABLES
  elf,
  elfStage,
  elfTodo,      \* the resolvers still to run
  elfMem, elfWords,
  elfStackPointer

elfVars == <<elf, elfStage, elfTodo, elfMem, elfWords, elfStackPointer>>

\* Words that are not addresses.
NameText == -1
RandomBytes == <<-2, -3>>
FileWord(position) == -10 - position

ElfWord(at) == IF at \in DOMAIN elfWords THEN elfWords[at] ELSE 0

Placed(start, content) ==
  [a \in {start + k - 1 : k \in DOMAIN content} |-> content[a - start + 1]]

\* What was written last counts.
Over(later, earlier) ==
  [a \in DOMAIN later \cup DOMAIN earlier |-> IF a \in DOMAIN later THEN later[a] ELSE earlier[a]]

-----------------------------------------------------------------------------
(* Places.                                                                 *)

Segments == ToSet(elf.segments)

ThreadLocals == elf.tls # None

StackEnd == StaticStackEnd(PlannedTop(Segments), StaticStack)

\* One page for what the program finds on its stack.
StackStart == StackEnd - PageSize

NameAddress == StackEnd - 1

RandomAddress == NameAddress - 2

\* tls_base: in the third of the pages above the stack, half of it for the TCB.
ThreadBase == StackEnd + 2 * PageSize + PageSize \div 2

RoundTo(n, align) == IF align <= 1 THEN n ELSE ((n + align - 1) \div align) * align

\* The block ends at tls_base; FS starts 0x100 above it, until glibc sets it.
BlockStart(tls) == ThreadBase - RoundTo(tls.memsz, tls.align)

MutHeadersAddress ==
  LET holders == {n \in DOMAIN elf.segments :
                    LET s == elf.segments[n] IN elf.headers >= s.offset /\ elf.headers < s.offset + s.filesz}
  IN  IF holders = {} THEN elf.headers
      ELSE LET s == elf.segments[CHOOSE n \in holders : \A m \in holders : n <= m]
           IN  s.vaddr + elf.headers

\* The program headers, in the first segment that has them, or their offset.
HeadersAddress ==
  LET holders == {n \in DOMAIN elf.segments :
                    LET s == elf.segments[n] IN elf.headers >= s.offset /\ elf.headers < s.offset + s.filesz}
  IN  IF holders = {} THEN elf.headers
      ELSE LET s == elf.segments[CHOOSE n \in holders : \A m \in holders : n <= m]
           IN  s.vaddr + elf.headers - s.offset

\* AT_PHDR, AT_PHENT, AT_PHNUM, AT_PAGESZ, AT_ENTRY, AT_UID, AT_EUID, AT_GID,
\* AT_EGID, AT_SECURE, AT_RANDOM and AT_NULL.
Auxiliary ==
  <<3, HeadersAddress, 4, 56, 5, elf.headerCount, 6, 4096, 9, elf.entry, 11, 0, 12, 0,
    13, 0, 14, 0, 23, 0, 25, RandomAddress, 0, 0>>

InitialStack ==
  Over(Placed(RandomAddress, RandomBytes \o <<NameText>>),
       Placed(StackStart, <<1, NameAddress, 0, 0>> \o Auxiliary))

-----------------------------------------------------------------------------
ElfInit ==
  /\ elf \in StaticFiles
  /\ elfStage = "load" /\ elfTodo = <<>>
  /\ elfMem = [min |-> 0, max |-> 0, regions |-> {}]
  /\ elfWords = <<>> /\ elfStackPointer = 0

ElfFail ==
  /\ elfStage' = "failed"
  /\ UNCHANGED <<elf, elfTodo, elfMem, elfWords, elfStackPointer>>

\* x86_64, ET_EXEC, with an entry point, and segments that begin in the file.  Two
\* at one address both get the words of the first, which add_region then refuses.
CanLoad ==
  /\ elf.runnable /\ elf.entry # 0
  /\ \A m, n \in DOMAIN elf.segments : elf.segments[m].vaddr = elf.segments[n].vaddr => m = n
  /\ CanPlan(Segments) /\ SegmentsFit(Segments)
  /\ \A s \in Segments : s.offset <= elf.length

\* build_image: what the file does not have of a segment is zero.
Content(s, k) ==
  IF k < s.filesz /\ s.offset + k < elf.length THEN FileWord(s.offset + k) ELSE 0

SegmentWords ==
  [a \in UNION {s.vaddr .. s.vaddr + Larger(s.filesz, s.memsz) - 1 : s \in Segments} |->
     LET s == CHOOSE t \in Segments : a >= t.vaddr /\ a < t.vaddr + Larger(t.filesz, t.memsz)
     IN  Content(s, a - s.vaddr)]

Load ==
  /\ elfStage = "load" /\ CanLoad
  /\ elfMem' = StaticImage(Segments, StaticStack, ThreadLocals).mem
  /\ elfWords' = Over(InitialStack, SegmentWords)
  /\ elfStackPointer' = StackStart
  /\ elfStage' = "symbols"
  /\ UNCHANGED <<elf, elfTodo>>

CannotLoad == elfStage = "load" /\ ~CanLoad /\ ElfFail

\* What glibc shall find, set in this order: one thread, the random bytes, open locks.
Locks == {"lock", "__libc_lock_lock", "__libc_lock_recursive_lock"}

Preset ==
  IF ThreadLocals THEN DOMAIN elf.symbols \cap ({"__libc_single_threaded", "_dl_random"} \cup Locks) ELSE {}

\* Of names with one address the last in that order counts.
PresetAt(a) ==
  IF \E name \in Preset \cap Locks : elf.symbols[name] = a THEN 0
  ELSE IF "_dl_random" \in Preset /\ elf.symbols["_dl_random"] = a THEN RandomAddress
  ELSE 1

SetSymbols ==
  /\ elfStage = "symbols"
  /\ \A name \in Preset : Writable(elfMem, elf.symbols[name], 1)
  /\ elfWords' = Over([a \in {elf.symbols[name] : name \in Preset} |-> PresetAt(a)], elfWords)
  /\ elfStage' = "tls"
  /\ UNCHANGED <<elf, elfTodo, elfMem, elfStackPointer>>

CannotSetSymbols ==
  /\ elfStage = "symbols" /\ \E name \in Preset : ~Writable(elfMem, elf.symbols[name], 1)
  /\ ElfFail

\* An image that is not all in the file is left out.
TlsImage ==
  IF \E tls \in elf.tls : tls.offset + tls.filesz <= elf.length
  THEN LET tls == CHOOSE t \in elf.tls : TRUE
       IN  [start |-> BlockStart(tls), content |-> [k \in 1 .. tls.filesz |-> FileWord(tls.offset + k - 1)]]
  ELSE [start |-> 0, content |-> <<>>]

TlsFits == TlsImage.content = <<>> \/ Writable(elfMem, TlsImage.start, Len(TlsImage.content))

InstallTls ==
  /\ elfStage = "tls" /\ TlsFits
  /\ elfWords' = Over(Placed(TlsImage.start, TlsImage.content), elfWords)
  /\ elfStage' = "resolve" /\ elfTodo' = elf.resolvers
  /\ UNCHANGED <<elf, elfMem, elfStackPointer>>

CannotInstallTls == elfStage = "tls" /\ ~TlsFits /\ ElfFail

\* resolve_irelative_relocs: a resolver [at, impl] runs, below a return address
\* of 0 on the stack, and its answer is written.
CanResolve(r) == r.impl # None /\ Writable(elfMem, r.at, 1)

ResolveFunction ==
  /\ elfStage = "resolve" /\ elfTodo # <<>> /\ CanResolve(Head(elfTodo))
  /\ \E impl \in Head(elfTodo).impl : 
       elfWords' = Over([a \in {Head(elfTodo).at} |-> impl],
                        Over([a \in {elfStackPointer - 1} |-> 0], elfWords))
  /\ elfTodo' = Tail(elfTodo)
  /\ UNCHANGED <<elf, elfStage, elfMem, elfStackPointer>>

CannotResolveFunction ==
  /\ elfStage = "resolve" /\ elfTodo # <<>> /\ ~CanResolve(Head(elfTodo))
  /\ ElfFail

Begin ==
  /\ elfStage = "resolve" /\ elfTodo = <<>>
  /\ elfStage' = "running"
  /\ UNCHANGED <<elf, elfTodo, elfMem, elfWords, elfStackPointer>>

ElfNext ==
  \/ Load \/ CannotLoad \/ SetSymbols \/ CannotSetSymbols \/ InstallTls \/ CannotInstallTls
  \/ ResolveFunction \/ CannotResolveFunction \/ Begin

-----------------------------------------------------------------------------
(* What a program's start finds.                                           *)

\* The first entry with the tag, as the start code walks them.
AuxiliaryAt(tag) ==
  LET at(n) == elfStackPointer + 4 + 2 * n
      n == CHOOSE m \in 0 .. 31 : ElfWord(at(m)) = tag /\ \A l \in 0 .. m - 1 : ElfWord(at(l)) \notin {0, tag}
  IN  ElfWord(at(n) + 1)

Patched == {elf.symbols[name] : name \in Preset} \cup {r.at : r \in ToSet(elf.resolvers)}

\* Nothing keeps a file from naming words of its stack.
PatchesItself ==
  \A a \in Patched : \E s \in Segments : a \in s.vaddr .. s.vaddr + s.memsz - 1

\* Neither a lock nor the slot of a resolver has the address of _dl_random.
RandomIsSet ==
  /\ "_dl_random" \in Preset
  /\ \A name \in Preset \cap Locks : elf.symbols[name] # elf.symbols["_dl_random"]
  /\ elf.symbols["_dl_random"] \notin {r.at : r \in ToSet(elf.resolvers)}

\* Nothing keeps a larger block from reaching down into the stack.
BlockFits == \A tls \in elf.tls : BlockStart(tls) >= StackEnd

HeadersMapped ==
  elf.headers < elf.length /\ \E s \in Segments : elf.headers \in s.offset .. s.offset + s.filesz - 1

StackTells ==
  /\ ElfWord(elfStackPointer) = 1 /\ ElfWord(ElfWord(elfStackPointer + 1)) = NameText
  /\ ElfWord(elfStackPointer + 2) = 0 /\ ElfWord(elfStackPointer + 3) = 0
  /\ [k \in 1 .. 2 |-> ElfWord(AuxiliaryAt(25) + k - 1)] = RandomBytes
  /\ AuxiliaryAt(9) = elf.entry /\ AuxiliaryAt(5) = elf.headerCount
  /\ HeadersMapped /\ AuxiliaryAt(3) \notin Patched => ElfWord(AuxiliaryAt(3)) = FileWord(elf.headers)

\* StartIsSound: when a static program starts whose symbols and slots are its own
\* words and whose thread-local block stays above the stack (a larger one is written
\* over it), its stack says where its headers, its name and its random bytes are, and they are there, also where _dl_random
\* says so; its segments hold the words of the file, but for the symbols and the
\* slots of resolvers that were set; and its thread-local block holds its image
\* up to tls_base.
StartIsSound ==
  elfStage = "running" /\ BlockFits /\ PatchesItself =>
    /\ StackTells
    /\ RandomIsSet => ElfWord(elf.symbols["_dl_random"]) = AuxiliaryAt(25)
    /\ \A s \in Segments : \A k \in 0 .. s.memsz - 1 :
         s.vaddr + k \notin Patched => ElfWord(s.vaddr + k) = Content(s, k)
    /\ \A r \in ToSet(elf.resolvers) :
         (\A q \in ToSet(elf.resolvers) : q.at = r.at => q = r) => ElfWord(r.at) \in r.impl
    /\ \A tls \in elf.tls : tls.offset + tls.filesz <= elf.length =>
         \A k \in 0 .. tls.filesz - 1 : ElfWord(BlockStart(tls) + k) = FileWord(tls.offset + k)
=============================================================================
