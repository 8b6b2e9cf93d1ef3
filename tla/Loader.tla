------------------------------- MODULE Loader -------------------------------
(***************************************************************************)
(* DynamicElfLoader of elf/dynamic_loader.rs: load_combined_dynamic, which *)
(* puts a program, the libraries of its dependency graph and its linker    *)
(* into one memory, gives each a block of thread-local storage and applies *)
(* their relocations, and the calls of the IFUNC resolvers that            *)
(* execute_combined makes before the first instruction.  An address counts *)
(* words of 8 bytes.  An object is what plan_dynamic_load and the readers  *)
(* of symbols and relocations give: [sound, needed, interp, segments,      *)
(* header, plt, data, tls, symbols, relocs].                               *)
(***************************************************************************)
EXTENDS GuestLayout, Dependencies, SequencesExt

CONSTANTS
  Preferred,      \* 0x700000
  LibraryOffset,  \* 0x1000000
  LinkerOffset,   \* 0x2000000
  StackSize,
  TcbOffset, TcbReserved,   \* 0x800 and 0x800, from the window and from the thread pointer
  DtvPointer, Dtv,          \* 0x4000 and 0x5000, from the thread pointer
  MaxVersions               \* pages of a version table: a bound of the model

\* What plan_dynamic_load and the readers of tables can find in a file.
ASSUME ObjectsAssumption ==
  /\ {Preferred, LibraryOffset, LinkerOffset, StackSize, TcbOffset, TcbReserved, DtvPointer, Dtv} \subseteq Nat
  /\ DtvPointer < Dtv
  /\ \A s \in Systems : \A p \in {q \in DOMAIN s.objects : s.objects[q].sound} :
       LET o == s.objects[p]
       IN  /\ IsFiniteSet(o.segments) /\ o.segments # {}
           /\ \A g \in o.segments : g.vaddr \in Nat /\ g.memsz \in Nat
           /\ o.tls \in Option(o.tls)
           /\ \A t \in o.tls : t.memsz \in Nat /\ t.align \in Nat /\ t.image \in Seq(ToSet(t.image))
           /\ o.symbols \in Seq(ToSet(o.symbols))
           /\ \A d \in ToSet(o.symbols) : d.value \in Nat
           /\ o.relocs \in Seq(ToSet(o.relocs))
           /\ \A r \in ToSet(o.relocs) : r.at \in Nat /\ r.sym \in Option(r.sym) /\ r.addend \in Option(r.addend)
           /\ \A r \in ToSet(o.relocs) : r.addend \subseteq Int

VARIABLES
  stage,
  todo,      \* what the loop of this stage still has to go through
  linker,    \* the path of the PT_INTERP object
  images,    \* load order: program, libraries, linker; [path, base] each
  mem, words,
  blocks,    \* the start of each installed TLS block, by place in images
  applied    \* relocations applied: [image, reloc, addend], the table's addend or the word's

loaderVars == <<stage, todo, linker, images, mem, words, blocks, applied>>
vars == <<graphVars, loaderVars>>

Or(option, default) == IF option = None THEN default ELSE CHOOSE x \in option : TRUE

Word(at) == IF at \in DOMAIN words THEN words[at] ELSE 0

\* Memory with content, a function, written from start on.
Written(start, content) ==
  LET new == {start + k : k \in DOMAIN content}
  IN  [a \in DOMAIN words \cup new |-> IF a \in new THEN content[a - start] ELSE words[a]]

\* The entries of a sequence that are in S, in their order.
Only(seq, S) ==
  LET kept == {k \in DOMAIN seq : seq[k] \in S}
  IN  [n \in 1 .. Cardinality(kept) |->
         seq[CHOOSE k \in kept : Cardinality({j \in kept : j <= k}) = n]]

-----------------------------------------------------------------------------
(* Places.                                                                 *)

Object(image) == system.objects[image.path]

Bias(image) == image.base - AlignDown(Min({s.vaddr : s \in Object(image).segments}))

EndOf(image) == Max({AlignUp(Bias(image) + s.vaddr + s.memsz) : s \in Object(image).segments})

\* map_dynamic_object: one region, with every permission a segment has.
RegionOf(image) ==
  [base |-> image.base, end |-> EndOf(image), perm |-> UNION {s.perm : s \in Object(image).segments}]

Top == Max({EndOf(images[i]) : i \in DOMAIN images})

ThreadPointer == TlsBase(Top, StackSize) + TcbOffset

TlsEnd == TlsBase(Top, StackSize) + TlsPages * PageSize

-----------------------------------------------------------------------------
(* Symbols.  A table is filled in load order by insertion of what is not    *)
(* there yet.                                                              *)

Named(name, entries) == {n \in DOMAIN entries : entries[n].name = name}

MutFirstWins(entries) ==
  [name \in {e.name : e \in ToSet(entries)} |-> entries[Max(Named(name, entries))].value]

FirstWins(entries) ==
  [name \in {e.name : e \in ToSet(entries)} |-> entries[Min(Named(name, entries))].value]

Symbols(i) == Object(images[i]).symbols

Defined(i) == Only(Symbols(i), {s \in ToSet(Symbols(i)) : s.defined})

ThreadLocal(i) == Only(Symbols(i), {s \in ToSet(Symbols(i)) : s.defined /\ s.tls})

Table(chosen, symbols(_), value(_, _)) ==
  FirstWins(FlattenSeq([i \in DOMAIN images |->
    IF i \notin chosen THEN <<>>
    ELSE [k \in DOMAIN symbols(i) |-> [name |-> symbols(i)[k].name, value |-> value(i, symbols(i)[k])]]]))

\* CrossObjectSymbolResolver::from_objects.
Addresses == Table(DOMAIN images, Defined, LAMBDA i, s : Bias(images[i]) + s.value)

WithTls == {i \in DOMAIN images : Object(images[i]).tls # None}

\* Blocks have numbers from 1 in load order, wherever they lie.
ModuleId(i) == Cardinality({j \in WithTls : j <= i})

Owners == Table(WithTls, Defined, LAMBDA i, s : ModuleId(i))

MutThreadLocals ==
  Table(WithTls, ThreadLocal, LAMBDA i, s : [module |-> Cardinality({j \in WithTls : blocks[j] <= blocks[i]}),
                                             start |-> blocks[i], offset |-> s.value])

\* TlsContext.
ThreadLocals ==
  Table(WithTls, ThreadLocal, LAMBDA i, s : [module |-> ModuleId(i), start |-> blocks[i], offset |-> s.value])

\* TlsContext::get_addr, for __tls_get_addr.
TlsAddress(module, offset) ==
  {ThreadLocals[n].start + offset : n \in {m \in DOMAIN ThreadLocals : ThreadLocals[m].module = module}}

-----------------------------------------------------------------------------
(* Opening the program, its linker and its libraries.                       *)

Init ==
  /\ GraphInit
  /\ stage = "open" /\ todo = <<>>
  /\ linker = None /\ images = <<>>
  /\ mem = [min |-> 0, max |-> 0, regions |-> {}]
  /\ words = <<>> /\ blocks = <<>> /\ applied = <<>>

Fail ==
  /\ stage' = "failed"
  /\ UNCHANGED <<graphVars, todo, linker, images, mem, words, blocks, applied>>

\* resolve_controlled_path: the file of that name in the first root that has one.
Candidate(n, name) == Canonical([dir |-> system.roots[n], name |-> name])

IsFile(p) == p.dir \in system.allowed /\ p \in DOMAIN system.objects

ControlledPath(name) ==
  LET found == {n \in DOMAIN system.roots : IsFile(Candidate(n, name))}
  IN  IF found = {} THEN None ELSE Some(Candidate(Min(found), name))

OpensLinker(p) == Usable(p) /\ system.objects[p].interp = None

Open ==
  /\ stage = "open"
  /\ Usable(Root)
  /\ LET interp == UNION {ControlledPath(name) : name \in system.objects[Root].interp}
     IN  /\ system.objects[Root].interp # None => interp # None
         /\ \A p \in interp : OpensLinker(p)
         /\ linker' = interp
  /\ stage' = "graph"
  /\ UNCHANGED <<graphVars, todo, images, mem, words, blocks, applied>>

CannotOpen ==
  /\ stage = "open"
  /\ \/ ~Usable(Root)
     \/ \E name \in system.objects[Root].interp :
          \A p \in ControlledPath(name) : ~OpensLinker(p)
  /\ Fail

Walk ==
  /\ stage = "graph"
  /\ GraphNext
  /\ stage' = CASE walk' = "done" -> "place"
                [] walk' \in Refusals -> "failed"
                [] OTHER -> "graph"
  /\ todo' = IF walk' = "done" THEN nodes' ELSE todo
  /\ UNCHANGED <<linker, images, mem, words, blocks, applied>>

\* load_dependency_objects, which gives the program a second place too.
Place ==
  /\ stage = "place" /\ todo # <<>>
  /\ images' = Append(images, [path |-> Head(todo),
                               base |-> IF images = <<>> THEN Preferred + LibraryOffset
                                        ELSE EndOf(Last(images)) + PageSize])
  /\ todo' = Tail(todo)
  /\ UNCHANGED <<graphVars, stage, linker, mem, words, blocks, applied>>

Arrange ==
  /\ stage = "place" /\ todo = <<>>
  /\ LET libraries == Only(images, {m \in ToSet(images) : m.path \notin {Root} \cup linker})
         last == IF linker = None THEN <<>>
                 ELSE <<[path |-> Or(linker, Root), base |-> Preferred + LinkerOffset]>>
         loaded == <<[path |-> Root, base |-> Preferred]>> \o libraries \o last
     IN  /\ images' = loaded
         /\ todo' = [i \in DOMAIN loaded |-> i]
         /\ mem' = [CombinedImage(Preferred, Max({EndOf(loaded[i]) : i \in DOMAIN loaded}), {}, StackSize).mem
                      EXCEPT !.regions = {}]
  /\ stage' = "map"
  /\ UNCHANGED <<graphVars, linker, words, blocks, applied>>

\* map_dynamic_object, of the program, then the libraries, then the linker.
MapImage ==
  /\ stage = "map" /\ todo # <<>>
  /\ LET image == images[Head(todo)]
     IN  /\ CanAdd(mem, RegionOf(image))
         /\ mem' = Add(mem, RegionOf(image))
         /\ words' = Written(Bias(image), Object(image).data)
  /\ todo' = Tail(todo)
  /\ UNCHANGED <<graphVars, stage, linker, images, blocks, applied>>

CannotMap ==
  /\ stage = "map" /\ todo # <<>>
  /\ ~CanAdd(mem, RegionOf(images[Head(todo)]))
  /\ Fail

\* The windows, and a TCB that points to itself.
Reserve ==
  /\ stage = "map" /\ todo = <<>>
  /\ mem' = [mem EXCEPT !.regions = @ \cup CombinedWindows(Top, StackSize)]
  /\ words' = Written(ThreadPointer, [k \in {0, 2} |-> ThreadPointer])
  /\ stage' = "tls"
  /\ UNCHANGED <<graphVars, todo, linker, images, blocks, applied>>

-----------------------------------------------------------------------------
(* Thread-local storage: blocks go up from the TCB in order of alignment,   *)
(* those of one alignment in load order.                                   *)

Tls(i) == CHOOSE tls \in Object(images[i]).tls : TRUE

Before(i, j) == Tls(i).align < Tls(j).align \/ (Tls(i).align = Tls(j).align /\ i <= j)

Cursor == Max({ThreadPointer + TcbReserved} \cup {blocks[i] + Tls(i).memsz : i \in DOMAIN blocks})

BlockStart(i) ==
  LET align == IF Tls(i).align = 0 THEN 1 ELSE Tls(i).align
  IN  ((Cursor + align - 1) \div align) * align

BlockFits(i) == Len(Tls(i).image) <= Tls(i).memsz /\ BlockStart(i) + Tls(i).memsz <= TlsEnd

IsNextBlock(i) == i \in WithTls \ DOMAIN blocks /\ \A j \in WithTls \ DOMAIN blocks : Before(i, j)

\* One round of install_tls_images; what the image leaves is zero.
InstallBlock ==
  /\ stage = "tls"
  /\ \E i \in WithTls :
       /\ IsNextBlock(i) /\ BlockFits(i)
       /\ blocks' = [j \in DOMAIN blocks \cup {i} |-> IF j = i THEN BlockStart(i) ELSE blocks[j]]
       /\ words' = Written(BlockStart(i), [k \in 0 .. Tls(i).memsz - 1 |->
                                             IF k < Len(Tls(i).image) THEN Tls(i).image[k + 1] ELSE 0])
  /\ UNCHANGED <<graphVars, stage, todo, linker, images, mem, applied>>

DtvStart == ThreadPointer + Dtv

DtvEnd == DtvStart + 1 + Cardinality(WithTls)

\* build_dtv: a generation and the start of each block by its number, and the
\* pointer to it.  Both lie above the blocks only if these are small.
BuildDtv ==
  /\ stage = "tls" /\ WithTls = DOMAIN blocks
  /\ WithTls # {} => DtvEnd <= TlsEnd
  /\ words' = IF WithTls = {} THEN words
              ELSE Written(ThreadPointer,
                     [k \in {DtvPointer, Dtv} \cup {Dtv + ModuleId(i) : i \in WithTls} |->
                        IF k = DtvPointer THEN DtvStart
                        ELSE IF k = Dtv THEN 1
                        ELSE blocks[CHOOSE i \in WithTls : Dtv + ModuleId(i) = k]])
  /\ stage' = "prepare"
  /\ UNCHANGED <<graphVars, todo, linker, images, mem, blocks, applied>>

NoRoomForTls ==
  /\ stage = "tls"
  /\ \/ \E i \in WithTls : IsNextBlock(i) /\ ~BlockFits(i)
     \/ WithTls # {} /\ WithTls = DOMAIN blocks /\ DtvEnd > TlsEnd
  /\ Fail

-----------------------------------------------------------------------------
(* What ld.so finds prepared.                                              *)

HeapStart == CombinedHeap(Top, StackSize)

Program == images[1]

\* A linker has _rtld_global, the weights are there, the headers are mapped.
Prepared ==
  /\ linker # None =>
       /\ \E s \in ToSet(Object(Last(images)).symbols) : s.name = "_rtld_global" /\ s.defined
       /\ system.weights
  /\ Object(Program).header # None

Work ==
  FlattenSeq([i \in DOMAIN images |->
    [k \in DOMAIN Object(images[i]).relocs |-> [image |-> i, reloc |-> Object(images[i]).relocs[k]]]])

\* PreExecState::inject.  Tag 2 is DT_PLTRELSZ, not the dynamic section: with a
\* PLT, initialize_link_map_info walks the bytes at that number for entries, and
\* finds nothing, runs into unmapped memory, or makes a version table.
Prepare ==
  /\ stage = "prepare" /\ Prepared
  /\ words' = Written(HeapStart,
                [k \in {0, 5, 6} |-> IF k = 5 THEN HeapStart
                                    ELSE Bias(Program) + (IF k = 6 THEN Or(Object(Program).header, 0) ELSE 0)])
  /\ \/ UNCHANGED mem
     \/ /\ Object(Program).plt
        /\ \E pages \in 1 .. MaxVersions :
             /\ CanMap(mem, pages * PageSize)
             /\ mem' = MapFromBelow(mem, pages * PageSize, ReadWrite)
  /\ todo' = Work
  /\ stage' = "relocate"
  /\ UNCHANGED <<graphVars, linker, images, blocks, applied>>

CannotPrepare ==
  /\ stage = "prepare"
  /\ ~Prepared \/ Object(Program).plt
  /\ Fail

-----------------------------------------------------------------------------
(* apply_x86_64_relocations_with_tls.  A relocation is                      *)
(* [kind, at, sym, addend, size, plt, impl]; the value is None when it      *)
(* cannot be had.                                                          *)

Optional == {"_ITM_deregisterTMCloneTable", "_ITM_registerTMCloneTable", "__gmon_start__"}

Target(i, r) == Bias(images[i]) + r.at

\* The symbol's entry in a table, or None.
Found(r, table) == {table[name] : name \in r.sym \cap DOMAIN table}

DtpMod(r, at) ==
  LET known == {tls.module : tls \in Found(r, ThreadLocals)}
  IN  Or(known, Or(Found(r, Owners), Word(at)))

DtpOff(r, at) ==
  Or({tls.offset + Or(r.addend, 0) : tls \in Found(r, ThreadLocals)}, Or(r.addend, Word(at)))

TpOff(r, at) ==
  Or({tls.start + tls.offset + Or(r.addend, 0) - ThreadPointer : tls \in Found(r, ThreadLocals)},
     Or(r.addend, Word(at)))

Bind(r, at) ==
  IF r.sym = None THEN Some(Or(r.addend, Word(at)))
  ELSE {address + Or(r.addend, Word(at)) :
          address \in IF Found(r, Addresses) = None /\ r.sym \subseteq Optional
                      THEN {0} ELSE Found(r, Addresses)}

\* The value of a symbol shorter than a word is taken for 0.
CopyWord(r) == {IF r.size = 0 THEN 0 ELSE Word(source) : source \in Found(r, Addresses)}

Value(i, r) ==
  LET at == Target(i, r)
      bias == Bias(images[i])
  IN  CASE r.kind = "relative" -> Some(bias + Or(r.addend, Word(at)))
        [] r.kind = "irelative" -> {bias + addend : addend \in r.addend}
        [] r.kind = "dtpmod" -> Some(DtpMod(r, at))
        [] r.kind = "dtpoff" -> Some(DtpOff(r, at))
        [] r.kind = "tpoff" -> Some(TpOff(r, at))
        [] r.kind = "bind" -> Bind(r, at)
        [] r.kind = "copy" -> CopyWord(r)
        [] OTHER -> None

\* COPY moves the whole symbol before the word is written like any other.
Content(i, r) ==
  LET value == CHOOSE v \in Value(i, r) : TRUE
  IN  IF r.kind = "copy"
      THEN [k \in 0 .. Larger(r.size, 1) - 1 |->
              IF k = 0 THEN value ELSE Word((CHOOSE a \in Found(r, Addresses) : TRUE) + k)]
      ELSE [k \in {0} |-> value]

CanApply(i, r) ==
  /\ Value(i, r) # None
  /\ Writable(mem, Target(i, r), 1)
  /\ r.kind = "copy" =>
       /\ \A source \in Found(r, Addresses) : Readable(mem, source, Larger(r.size, 1))
       /\ Writable(mem, Target(i, r), Larger(r.size, 1))

Relocate ==
  /\ stage = "relocate" /\ todo # <<>>
  /\ LET i == Head(todo).image
         r == Head(todo).reloc
     IN  \/ /\ r.kind = "none"
            /\ UNCHANGED <<words, applied>>
         \/ /\ r.kind # "none" /\ CanApply(i, r)
            /\ words' = Written(Target(i, r), Content(i, r))
            /\ applied' = Append(applied, [image |-> i, reloc |-> r,
                                           addend |-> Or(r.addend, Word(Target(i, r)))])
  /\ todo' = Tail(todo)
  /\ UNCHANGED <<graphVars, stage, linker, images, mem, blocks>>

CannotRelocate ==
  /\ stage = "relocate" /\ todo # <<>>
  /\ Head(todo).reloc.kind # "none" /\ ~CanApply(Head(todo).image, Head(todo).reloc)
  /\ Fail

-----------------------------------------------------------------------------
(* The resolvers, in the order linker, libraries, program.                  *)

IsResolver(w) == w.reloc.kind = "irelative" /\ w.reloc.plt

Resolvers ==
  LET of(S) == Only(Work, {w \in ToSet(Work) : IsResolver(w) /\ w.image \in S})
      last == IF linker = None THEN {} ELSE {Len(images)}
  IN  of(last) \o of(DOMAIN images \ (last \cup {1})) \o of({1})

\* The decision needs the weights whether there is a linker or not.
Decide ==
  /\ stage = "relocate" /\ todo = <<>> /\ system.weights
  /\ todo' = Resolvers
  /\ stage' = "resolve"
  /\ UNCHANGED <<graphVars, linker, images, mem, words, blocks, applied>>

CannotDecide ==
  /\ stage = "relocate" /\ todo = <<>> /\ ~system.weights
  /\ Fail

\* resolve_irelative_relocs: the resolver runs, and what it returns is written.
RunResolver ==
  /\ stage = "resolve" /\ todo # <<>>
  /\ LET i == Head(todo).image
         r == Head(todo).reloc
     IN  /\ r.impl # None /\ Writable(mem, Target(i, r), 1)
         /\ words' = Written(Target(i, r), [k \in {0} |-> Bias(images[i]) + Or(r.impl, 0)])
  /\ todo' = Tail(todo)
  /\ UNCHANGED <<graphVars, stage, linker, images, mem, blocks, applied>>

ResolverFails ==
  /\ stage = "resolve" /\ todo # <<>>
  /\ \/ Head(todo).reloc.impl = None
     \/ ~Writable(mem, Target(Head(todo).image, Head(todo).reloc), 1)
  /\ Fail

Run ==
  /\ stage = "resolve" /\ todo = <<>>
  /\ stage' = "running"
  /\ UNCHANGED <<graphVars, todo, linker, images, mem, words, blocks, applied>>

\* What follows is the processor's.
Ended == stage \in {"running", "failed"} /\ UNCHANGED vars

Next ==
  \/ Open \/ CannotOpen \/ Walk \/ Place \/ Arrange
  \/ MapImage \/ CannotMap \/ Reserve
  \/ InstallBlock \/ BuildDtv \/ NoRoomForTls
  \/ Prepare \/ CannotPrepare \/ Relocate \/ CannotRelocate
  \/ Decide \/ CannotDecide \/ RunResolver \/ ResolverFails \/ Run
  \/ Ended

Spec == Init /\ [][Next]_vars

-----------------------------------------------------------------------------
Definers(name, symbols(_)) == {i \in DOMAIN images : \E s \in ToSet(symbols(i)) : s.name = name}

\* The definition of a name in the first object, in load order, that has one.
FirstDefinition(name, symbols(_)) ==
  LET i == Min(Definers(name, symbols))
      k == Min({n \in DOMAIN symbols(i) : symbols(i)[n].name = name})
  IN  [image |-> i, value |-> symbols(i)[k].value]

\* The words that a relocation is for.
Touched(w) ==
  LET length == IF w.reloc.kind = "copy" THEN Larger(w.reloc.size, 1) ELSE 1
  IN  {Target(w.image, w.reloc) + k : k \in 0 .. length - 1}

\* No relocation after the n-th that was applied, and no resolver, is for its slot.
Lasts(n) ==
  LET slot == Target(applied[n].image, applied[n].reloc)
  IN  /\ \A m \in n + 1 .. Len(applied) : slot \notin Touched(applied[m])
      /\ \A w \in ToSet(Work) : IsResolver(w) => slot \notin Touched(w)

\* BindingsFollowLoadOrder: when the first instruction runs, a GLOB_DAT, JUMP_SLOT or
\* 64 slot holds the address its name has in the first object that defines it, program
\* before libraries before linker, or 0 for the three optional names, plus the table's
\* addend or, without one, what the word held: objects that share a symbol agree where
\* it is.  Where several relocations are for one word, this is said of the last, and
\* of none if a resolver runs for the word, whose answer is the program's own.
BindingsFollowLoadOrder ==
  stage = "running" =>
    \A n \in {m \in DOMAIN applied : applied[m].reloc.kind = "bind" /\ Lasts(m)} :
      \A name \in applied[n].reloc.sym :
        LET d == FirstDefinition(name, Defined)
        IN  Word(Target(applied[n].image, applied[n].reloc)) =
              (IF Definers(name, Defined) = {} THEN 0 ELSE Bias(images[d.image]) + d.value)
                + applied[n].addend

DtvCells == {DtvStart + k : k \in 0 .. Cardinality(WithTls)} \cup {ThreadPointer + DtvPointer}

\* The thread-local symbols that TlsContext knows.
ThreadSymbols(i) == IF i \in WithTls THEN ThreadLocal(i) ELSE <<>>

BlocksApart ==
  \A i \in WithTls :
    /\ blocks[i] >= ThreadPointer + TcbReserved
    /\ Tls(i).align # 0 => blocks[i] % Tls(i).align = 0
    /\ \A j \in WithTls \ {i} :
         blocks[i] + Tls(i).memsz <= blocks[j] \/ blocks[j] + Tls(j).memsz <= blocks[i]

\* No relocation is for the word: nothing keeps one from naming words of the TLS window.
Unnamed(a) == \A w \in ToSet(Work) : w.reloc.kind # "none" => a \notin Touched(w)

BlocksHold ==
  \A i \in WithTls : \A k \in DOMAIN Tls(i).image :
    LET a == blocks[i] + k - 1
    IN  a \notin DtvCells /\ Unnamed(a) => Word(a) = Tls(i).image[k]

VariablesAgree ==
  \A n \in {m \in DOMAIN applied : Lasts(m)} :
    \A name \in {s \in applied[n].reloc.sym : Definers(s, ThreadSymbols) # {}} :
      LET r == applied[n].reloc
          d == FirstDefinition(name, ThreadSymbols)
          slot == Word(Target(applied[n].image, r))
          entry == DtvStart + ModuleId(d.image)
          variable == blocks[d.image] + d.value + Or(r.addend, 0)
      IN  /\ r.kind = "dtpmod" =>
               slot = ModuleId(d.image) /\ (Unnamed(entry) => Word(entry) = blocks[d.image])
          /\ r.kind = "dtpoff" => TlsAddress(ModuleId(d.image), slot) = {variable}
          /\ r.kind = "tpoff" => ThreadPointer + slot = variable

\* ThreadStorageAgrees: when the first instruction runs, the blocks are apart and
\* aligned, and hold their images but for the words that the DTV is put on or a
\* relocation names; and slots that no later relocation and no resolver is for speak of
\* one address of a thread-local variable, in the block of the first object that defines
\* it: the module number through its DTV entry (unless a relocation names that), the
\* offset through TlsContext::get_addr as the relocations had it, and the distance
\* from the thread pointer.  The program's own __tls_get_addr is not spoken of:
\* execute_combined keeps no TlsContext for the run, and its answer is 0.
ThreadStorageAgrees == stage = "running" => BlocksApart /\ BlocksHold /\ VariablesAgree
=============================================================================
