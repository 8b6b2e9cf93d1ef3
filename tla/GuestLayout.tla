---------------------------- MODULE GuestLayout ----------------------------
(***************************************************************************)
(* Where the loaders put what a program starts with: ElfLoader of          *)
(* elf/mod.rs for a static program, DynamicElfLoader of                    *)
(* elf/dynamic_loader.rs for a program with its libraries.  Above the      *)
(* segments come the stack, the TLS window, the heap that brk hands out,   *)
(* and room for mmap, which goes down from the upper bound.                *)
(***************************************************************************)
EXTENDS GuestMemory

CONSTANTS
  HeapSize,    \* 8 MiB
  BumpSize,    \* 1 MiB, for the allocator ld.so starts with
  TlsPages,    \* 8, for programs with libraries
  MmapRoom     \* above the heap: 256 MiB, or 1.25 GiB for static programs

ASSUME LayoutAssumption ==
  /\ HeapSize \in Nat \ {0} /\ BumpSize \in Nat \ {0} /\ TlsPages \in Nat \ {0} /\ MmapRoom \in Nat
  /\ PageOffset(HeapSize) = 0 /\ PageOffset(BumpSize) = 0

ReadWrite == {"r", "w"}

\* The guarantee of a loader: one meaning for each address, whole pages, and the
\* heap mapped.
Sound(image) ==
  /\ Apart(image.mem) /\ WholePages(Mapped(image.mem))
  /\ image.heapStart \in Nat /\ image.heapEnd \in Nat /\ image.heapStart <= image.heapEnd
  /\ image.heapStart .. image.heapEnd - 1 \subseteq Mapped(image.mem)

-----------------------------------------------------------------------------
(* A static program.  Its PT_LOAD segments, [vaddr, filesz, memsz, perm],   *)
(* may not start before the lower neighbour ends, and take whole pages,     *)
(* which add_region then keeps apart.                                       *)

Larger(a, b) == IF a < b THEN b ELSE a

Segment == [vaddr : Nat, filesz : Nat, memsz : Nat, perm : Perms]

IsLowest(s, S) == s \in S /\ \A t \in S : s.vaddr <= t.vaddr

IsUppermost(s, S) == s \in S /\ \A t \in S : t.vaddr <= s.vaddr

\* plan_segments, which leaves a program without segments or with such a pair.
CanPlan(S) ==
  /\ S # {}
  /\ \A s, t \in S : s # t /\ s.vaddr <= t.vaddr => s.vaddr + s.memsz <= t.vaddr

PlannedEnd(s) == AlignUp(Larger(s.vaddr + s.memsz, s.vaddr + AlignUp(s.filesz)))

PlannedBase(S) == AlignDown((CHOOSE s \in S : IsLowest(s, S)).vaddr)

PlannedTop(S) == PlannedEnd(CHOOSE s \in S : IsUppermost(s, S))

\* Segments that are not executable are writable, as before RELRO.
SegmentRegion(s) ==
  RegionAt(AlignDown(s.vaddr), AlignUp(PageOffset(s.vaddr) + Larger(s.filesz, s.memsz)),
           IF "x" \in s.perm THEN s.perm ELSE s.perm \cup {"w"})

SegmentsFit(S) == \A s, t \in S : s # t => ~Overlaps(SegmentRegion(s), SegmentRegion(t))

StaticStackEnd(top, stack) == top + AlignUp(stack) + PageSize

\* The gap of the TLS pages is left when the program has no PT_TLS.
StaticWindows(top, stack, hasTls) ==
  LET stackEnd == StaticStackEnd(top, stack)
  IN  {RegionAt(top, AlignUp(stack) + PageSize, ReadWrite),
       RegionAt(stackEnd + 3 * PageSize, HeapSize, ReadWrite)}
      \cup (IF hasTls THEN {RegionAt(stackEnd, 3 * PageSize, ReadWrite)} ELSE {})

StaticImage(S, stack, hasTls) ==
  LET top == PlannedTop(S)
      heap == StaticStackEnd(top, stack) + 3 * PageSize
  IN  [mem |-> [min |-> PlannedBase(S), max |-> heap + HeapSize + MmapRoom,
                regions |-> {SegmentRegion(s) : s \in S} \cup StaticWindows(top, stack, hasTls)],
       heapStart |-> heap,
       heapEnd |-> heap + HeapSize]

-----------------------------------------------------------------------------
(* A program with libraries, whose objects end at top.                     *)

TlsBase(top, stack) == top + stack

BumpBase(top, stack) == TlsBase(top, stack) + TlsPages * PageSize + PageSize

CombinedHeap(top, stack) == BumpBase(top, stack) + BumpSize + PageSize

CombinedWindows(top, stack) ==
  {RegionAt(top, stack, ReadWrite),
   RegionAt(TlsBase(top, stack), TlsPages * PageSize, ReadWrite),
   RegionAt(BumpBase(top, stack), BumpSize, ReadWrite),
   RegionAt(CombinedHeap(top, stack), HeapSize, ReadWrite)}

CombinedImage(preferred, top, objects, stack) ==
  [mem |-> [min |-> preferred, max |-> CombinedHeap(top, stack) + HeapSize + MmapRoom,
            regions |-> objects \cup CombinedWindows(top, stack)],
   heapStart |-> CombinedHeap(top, stack),
   heapEnd |-> CombinedHeap(top, stack) + HeapSize]
=============================================================================
