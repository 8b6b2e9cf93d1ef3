---------------------------- MODULE GuestMemory ----------------------------
(***************************************************************************)
(* MemoryModel of elf/runtime.rs: the address space of a guest program, a  *)
(* vector of regions kept in order of address.  The order is only one of   *)
(* lookup, so a memory is a SET of regions with its two bounds; what bytes *)
(* hold is left out.  An operation that can fail is a condition, named     *)
(* Can..., and what it makes of a memory when that holds.                  *)
(***************************************************************************)
EXTENDS Integers, FiniteSets

CONSTANT PageSize   \* 4096

ASSUME PageSizeAssumption == PageSize \in Nat \ {0}

Perms == SUBSET {"r", "w", "x"}

Region == [base : Nat, end : Nat, perm : Perms]

Memory == [min : Nat, max : Nat, regions : SUBSET Region]

\* How far n is above the page it is in.
PageOffset(n) == n % PageSize

AlignDown(n) == n - PageOffset(n)

AlignUp(n) == IF PageOffset(n) = 0 THEN n ELSE AlignDown(n) + PageSize

RegionAt(base, size, perm) == [base |-> base, end |-> base + size, perm |-> perm]

Overlaps(r, s) == r.base < s.end /\ s.base < r.end

\* The whole of addr .. addr+len-1 is in r: an access never spans two regions.
Within(addr, len, r) == addr >= r.base /\ addr + len <= r.end

CellsOf(r) == r.base .. r.end - 1

Mapped(m) == UNION {CellsOf(r) : r \in m.regions}

Readable(m, addr, len) == \E r \in m.regions : Within(addr, len, r) /\ "r" \in r.perm

Writable(m, addr, len) == \E r \in m.regions : Within(addr, len, r) /\ "w" \in r.perm

\* Every address has one meaning.
Apart(m) ==
  /\ m \in Memory
  /\ \A r \in m.regions : m.min <= r.base /\ r.base < r.end /\ r.end <= m.max
  /\ \A r, s \in m.regions : r # s => ~Overlaps(r, s)

PageOf(n) == AlignDown(n) .. AlignDown(n) + PageSize - 1

\* A page is mapped as a whole or not at all.
WholePages(cells) == \A c \in cells : PageOf(c) \subseteq cells

-----------------------------------------------------------------------------
CanAdd(m, r) ==
  /\ r.base >= m.min /\ r.end <= m.max
  /\ \A s \in m.regions : ~Overlaps(r, s)

Add(m, r) == [m EXCEPT !.regions = @ \cup {r}]

\* A region that covers the whole range, which is then cut into at most three.
\* The end of the range need not be the end of a page.
CanProtect(m, addr, len) ==
  /\ len # 0 /\ PageOffset(addr) = 0
  /\ \E r \in m.regions : Within(addr, len, r)

MutCutOf(r, addr, len, perm) ==
  {[base |-> addr, end |-> addr + len, perm |-> perm]}
    \cup (IF r.base < addr THEN {[r EXCEPT !.end = addr]} ELSE {})
    \cup (IF addr + len < r.end THEN {[r EXCEPT !.base = addr]} ELSE {})

CutOf(r, addr, len, perm) ==
  {[base |-> addr, end |-> addr + len, perm |-> perm]}
    \cup (IF r.base < addr THEN {[r EXCEPT !.end = addr]} ELSE {})
    \cup (IF addr + len < r.end THEN {[r EXCEPT !.base = addr + len]} ELSE {})

Protect(m, addr, len, perm) ==
  LET r == CHOOSE s \in m.regions : Within(addr, len, s)
  IN  [m EXCEPT !.regions = (@ \ {r}) \cup CutOf(r, addr, len, perm)]

-----------------------------------------------------------------------------
(* mmap_anonymous_private_topdown: the highest page at which the range is   *)
(* free, in whole pages.                                                   *)

MutCandidates(m, size) ==
  {b \in m.min .. m.max - size : PageOffset(b) = 0 /\ \A s \in m.regions : ~Within(b, size, s)}

Candidates(m, size) ==
  {b \in m.min .. m.max - size : PageOffset(b) = 0 /\ CanAdd(m, RegionAt(b, size, {}))}

IsHighest(b, S) == b \in S /\ \A c \in S : c <= b

CanMap(m, len) ==
  LET free == Candidates(m, AlignUp(len))
  IN  len # 0 /\ \E b \in free : IsHighest(b, free)

TopDown(m, len) ==
  LET free == Candidates(m, AlignUp(len))
  IN  CHOOSE b \in free : IsHighest(b, free)

\* mmap_anonymous_private: the lowest such page.
IsLowestOf(b, S) == b \in S /\ \A c \in S : b <= c

FromBelow(m, len) ==
  LET free == Candidates(m, AlignUp(len))
  IN  CHOOSE b \in free : IsLowestOf(b, free)

MapFromBelow(m, len, perm) == Add(m, RegionAt(FromBelow(m, len), AlignUp(len), perm))

Map(m, len, perm) == Add(m, RegionAt(TopDown(m, len), AlignUp(len), perm))
=============================================================================
