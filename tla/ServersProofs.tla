--------------------------- MODULE ServersProofs ---------------------------
(***************************************************************************)
(* What the servers of system calls keep.  The guest's kernel and its      *)
(* emulation: the operations on a memory keep its regions apart and change *)
(* its address space as AddressSpace.tla allows, and what brk has granted  *)
(* stays mapped.  The executor on the host: its pipes, for every set of    *)
(* descriptors, counts and paths.  The pipeline of the rule table, for     *)
(* every set of events, networks and outputs; the local engine, for every  *)
(* captured call with every argument.  And what is shown of the kernel     *)
(* holds where any of the servers may serve.                               *)
(***************************************************************************)
EXTENDS Servers, SequenceTheorems, FiniteSetTheorems, TLAPS

-----------------------------------------------------------------------------
(* Pages.                                                                  *)

LEMMA OffsetRange ==
  ASSUME NEW n \in Int PROVE PageOffset(n) \in 0 .. PageSize - 1
BY PageSizeAssumption, SMT DEF PageOffset

LEMMA AlignDownType ==
  ASSUME NEW n \in Int PROVE AlignDown(n) \in Int /\ AlignDown(n) <= n
BY OffsetRange, PageSizeAssumption DEF AlignDown

LEMMA AlignUpType ==
  ASSUME NEW n \in Nat PROVE AlignUp(n) \in Nat /\ AlignUp(n) >= n
BY OffsetRange, PageSizeAssumption DEF AlignUp, AlignDown

\* Division by pages.
LEMMA Quotient ==
  ASSUME NEW n \in Int
  PROVE  \E q \in Int, r \in 0 .. PageSize - 1 : n = PageSize * q + r /\ r = PageOffset(n)
<1>1. n = PageSize * (n \div PageSize) + (n % PageSize) /\ n \div PageSize \in Int BY PageSizeAssumption, SMT
<1>2. (n % PageSize) \in 0 .. PageSize - 1 BY PageSizeAssumption, SMT
<1>3. QED BY <1>1, <1>2 DEF PageOffset

LEMMA NextMultiple ==
  ASSUME NEW a \in Int, NEW b \in Int, a < b PROVE PageSize * a + PageSize <= PageSize * b
<1>1. PageSize * (b - a) >= PageSize BY PageSizeAssumption, SMT
<1>2. PageSize * (b - a) = PageSize * b - PageSize * a BY PageSizeAssumption, SMT
<1>3. PageSize * a \in Int /\ PageSize * b \in Int BY PageSizeAssumption
<1>4. QED BY <1>1, <1>2, <1>3, PageSizeAssumption

LEMMA OffsetIsUnique ==
  ASSUME NEW n \in Int, NEW q \in Int, NEW r \in 0 .. PageSize - 1, n = PageSize * q + r
  PROVE  PageOffset(n) = r
<1>1. PageSize * q \in Int BY PageSizeAssumption
<1>3. PICK k \in Int, s \in 0 .. PageSize - 1 : n = PageSize * k + s /\ s = PageOffset(n) BY Quotient
<1>4. PageSize * k \in Int BY PageSizeAssumption
<1>5. PageSize * q + r = PageSize * k + s BY <1>3
<1>6. CASE q < k
  <2>1. PageSize * q + PageSize <= PageSize * k BY <1>6, NextMultiple
  <2>2. QED BY <1>1, <1>4, <1>5, <2>1, PageSizeAssumption
<1>7. CASE k < q
  <2>1. PageSize * k + PageSize <= PageSize * q BY <1>7, NextMultiple
  <2>2. QED BY <1>1, <1>4, <1>5, <2>1, PageSizeAssumption
<1>8. CASE q = k
  <2>1. PageSize * q = PageSize * k BY <1>8
  <2>2. r \in Int /\ s \in Int BY PageSizeAssumption
  <2>3. r = s BY <1>1, <1>4, <1>5, <2>1, <2>2
  <2>4. QED BY <1>3, <2>3
<1>9. QED BY <1>6, <1>7, <1>8

\* The pages that hold n cells, after a whole number of pages.
LEMMA AlignUpShift ==
  ASSUME NEW a \in Int, PageOffset(a) = 0, NEW b \in Int
  PROVE  AlignUp(a + b) = a + AlignUp(b)
<1>1. PICK j \in Int, z \in 0 .. PageSize - 1 : a = PageSize * j + z /\ z = PageOffset(a) BY Quotient
<1>2. PICK k \in Int, r \in 0 .. PageSize - 1 : b = PageSize * k + r /\ r = PageOffset(b) BY Quotient
<1>3. PageSize * j \in Int /\ PageSize * k \in Int BY PageSizeAssumption
<1>4. PageSize * (j + k) = PageSize * j + PageSize * k BY PageSizeAssumption, SMT
<1>5. a = PageSize * j
  <2>1. z = 0 BY <1>1
  <2>2. a = PageSize * j + 0 BY <1>1, <2>1
  <2>3. QED BY <1>3, <2>2
<1>8. a + b = PageSize * (j + k) + r BY <1>2, <1>3, <1>4, <1>5, PageSizeAssumption
<1>6. PageOffset(a + b) = r BY <1>4, <1>8, OffsetIsUnique
<1>7. QED BY <1>2, <1>6, PageSizeAssumption DEF AlignUp, AlignDown

LEMMA AlignUpMonotonic ==
  ASSUME NEW a \in Int, NEW b \in Int, a <= b PROVE AlignUp(a) <= AlignUp(b)
<1>1. PICK j \in Int, r \in 0 .. PageSize - 1 : a = PageSize * j + r /\ r = PageOffset(a) BY Quotient
<1>2. PICK k \in Int, s \in 0 .. PageSize - 1 : b = PageSize * k + s /\ s = PageOffset(b) BY Quotient
<1>3. PageSize * j \in Int /\ PageSize * k \in Int BY PageSizeAssumption
<1>4. CASE k < j
  <2>1. PageSize * k + PageSize <= PageSize * j BY <1>4, NextMultiple
  <2>2. QED BY <1>1, <1>2, <1>3, <2>1, PageSizeAssumption
<1>5. CASE j < k
  <2>1. PageSize * j + PageSize <= PageSize * k BY <1>5, NextMultiple
  <2>2. QED BY <1>1, <1>2, <1>3, <2>1, PageSizeAssumption DEF AlignUp, AlignDown
<1>6. CASE j = k
  BY <1>1, <1>2, <1>3, <1>6, PageSizeAssumption DEF AlignUp, AlignDown
<1>7. QED BY <1>4, <1>5, <1>6

LEMMA AlignDownMonotonic ==
  ASSUME NEW a \in Int, NEW b \in Int, a <= b PROVE AlignDown(a) <= AlignDown(b)
<1>1. PICK j \in Int, r \in 0 .. PageSize - 1 : a = PageSize * j + r /\ r = PageOffset(a) BY Quotient
<1>2. PICK k \in Int, s \in 0 .. PageSize - 1 : b = PageSize * k + s /\ s = PageOffset(b) BY Quotient
<1>3. PageSize * j \in Int /\ PageSize * k \in Int BY PageSizeAssumption
<1>4. CASE k < j
  <2>1. PageSize * k + PageSize <= PageSize * j BY <1>4, NextMultiple
  <2>2. QED BY <1>1, <1>2, <1>3, <2>1, PageSizeAssumption
<1>5. CASE j < k
  <2>1. PageSize * j + PageSize <= PageSize * k BY <1>5, NextMultiple
  <2>2. QED BY <1>1, <1>2, <1>3, <2>1, PageSizeAssumption DEF AlignDown
<1>6. CASE j = k
  BY <1>1, <1>2, <1>3, <1>6, PageSizeAssumption DEF AlignDown
<1>7. QED BY <1>4, <1>5, <1>6

LEMMA AlignDownIsPage ==
  ASSUME NEW n \in Nat PROVE AlignDown(n) \in Nat /\ PageOffset(AlignDown(n)) = 0
<1>1. PICK q \in Int, r \in 0 .. PageSize - 1 : n = PageSize * q + r /\ r = PageOffset(n) BY Quotient
<1>2. PageSize * q \in Int BY PageSizeAssumption
<1>3. AlignDown(n) = PageSize * q BY <1>1, <1>2, PageSizeAssumption DEF AlignDown
<1>4. ~(q < 0)
  <2>1. SUFFICES ASSUME q < 0 PROVE FALSE OBVIOUS
  <2>2. PageSize * q + PageSize <= PageSize * 0 BY <2>1, NextMultiple
  <2>3. PageSize * 0 = 0 BY PageSizeAssumption
  <2>4. QED BY <1>1, <1>2, <2>2, <2>3, PageSizeAssumption
<1>5. PageSize * q >= 0 BY <1>4, PageSizeAssumption, SMT
<1>6. AlignDown(n) = PageSize * q + 0 BY <1>2, <1>3
<1>7. AlignDown(n) \in Nat BY <1>2, <1>3, <1>5
<1>8. PageOffset(AlignDown(n)) = 0
  <2>1. 0 \in 0 .. PageSize - 1 BY PageSizeAssumption
  <2>2. AlignDown(n) \in Int BY <1>7
  <2>3. QED BY <1>6, <2>1, <2>2, OffsetIsUnique, Zenon
<1>9. QED BY <1>7, <1>8

LEMMA WholeMultiple ==
  ASSUME NEW n \in Int, PageOffset(n) = 0 PROVE \E q \in Int : n = PageSize * q
<1>1. PICK q \in Int, r \in 0 .. PageSize - 1 : n = PageSize * q + r /\ r = PageOffset(n) BY Quotient
<1>2. PageSize * q \in Int BY PageSizeAssumption
<1>3. r = 0 BY <1>1
<1>4. n = PageSize * q
  <2>1. n = PageSize * q + 0 BY <1>1, <1>3
  <2>2. QED BY <1>2, <2>1
<1>5. QED BY <1>4

LEMMA MultipleIsWhole ==
  ASSUME NEW q \in Int PROVE PageOffset(PageSize * q) = 0
<1>1. PageSize * q \in Int /\ 0 \in 0 .. PageSize - 1 BY PageSizeAssumption
<1>2. PageSize * q = PageSize * q + 0 BY <1>1
<1>3. QED BY <1>1, <1>2, OffsetIsUnique, Zenon

LEMMA OffsetSum ==
  ASSUME NEW a \in Int, PageOffset(a) = 0, NEW b \in Int, PageOffset(b) = 0
  PROVE  PageOffset(a + b) = 0
<1>1. PICK j \in Int : a = PageSize * j BY WholeMultiple
<1>2. PICK k \in Int : b = PageSize * k BY WholeMultiple
<1>3. PageSize * (j + k) = PageSize * j + PageSize * k BY PageSizeAssumption, SMT
<1>4. PageOffset(PageSize * (j + k)) = 0 BY MultipleIsWhole
<1>5. QED BY <1>1, <1>2, <1>3, <1>4

LEMMA AlignUpIsPage ==
  ASSUME NEW n \in Nat PROVE PageOffset(AlignUp(n)) = 0
<1>1. CASE PageOffset(n) = 0 BY <1>1 DEF AlignUp
<1>2. CASE PageOffset(n) # 0
  <2>1. AlignDown(n) \in Int /\ PageOffset(AlignDown(n)) = 0 BY AlignDownIsPage
  <2>2. PageSize = PageSize * 1 BY PageSizeAssumption
  <2>3. PageOffset(PageSize) = 0 BY <2>2, MultipleIsWhole
  <2>4. PageOffset(AlignDown(n) + PageSize) = 0 BY <2>1, <2>3, PageSizeAssumption, OffsetSum
  <2>5. QED BY <1>2, <2>4 DEF AlignUp
<1>3. QED BY <1>1, <1>2

\* A cell is in its page, which is the page of the page's first cell.
LEMMA PageAround ==
  ASSUME NEW c \in Nat PROVE c \in PageOf(c) /\ PageOf(AlignDown(c)) = PageOf(c)
<1>1. AlignDown(c) \in Nat /\ PageOffset(AlignDown(c)) = 0 BY AlignDownIsPage
<1>2. AlignDown(AlignDown(c)) = AlignDown(c) BY <1>1 DEF AlignDown
<1>3. c \in AlignDown(c) .. AlignDown(c) + PageSize - 1
  BY <1>1, OffsetRange, PageSizeAssumption DEF AlignDown
<1>4. QED BY <1>2, <1>3 DEF PageOf

\* A range that starts and ends at pages consists of pages.
LEMMA WholeRange ==
  ASSUME NEW b \in Nat, PageOffset(b) = 0, NEW e \in Nat, PageOffset(e) = 0
  PROVE  WholePages(b .. e - 1)
<1>1. SUFFICES ASSUME NEW c \in b .. e - 1 PROVE PageOf(c) \subseteq b .. e - 1 BY DEF WholePages
<1>2. c \in Int /\ AlignDown(c) \in Int BY AlignDownType
<1>3. b <= AlignDown(c)
  <2>1. AlignDown(b) = b BY DEF AlignDown
  <2>2. QED BY <1>1, <1>2, <2>1, AlignDownMonotonic
<1>4. AlignDown(c) + PageSize <= e
  <2>1. PICK q \in Int, r \in 0 .. PageSize - 1 : c = PageSize * q + r /\ r = PageOffset(c) BY <1>2, Quotient
  <2>2. PICK k \in Int : e = PageSize * k BY WholeMultiple
  <2>3. PageSize * q \in Int /\ PageSize * k \in Int BY PageSizeAssumption
  <2>4. AlignDown(c) = PageSize * q BY <2>1, <2>3, PageSizeAssumption DEF AlignDown
  <2>5. CASE q < k BY <2>2, <2>4, <2>5, NextMultiple
  <2>6. CASE k < q
    <3>1. PageSize * k + PageSize <= PageSize * q BY <2>6, NextMultiple
    <3>2. QED BY <1>1, <2>1, <2>2, <2>3, <3>1, PageSizeAssumption
  <2>7. CASE q = k
    <3>1. e <= c BY <2>1, <2>2, <2>3, <2>7, PageSizeAssumption
    <3>2. QED BY <1>1, <3>1
  <2>8. QED BY <2>5, <2>6, <2>7
<1>5. QED BY <1>2, <1>3, <1>4, PageSizeAssumption DEF PageOf

LEMMA WholeUnion ==
  ASSUME NEW A, NEW B, WholePages(A), WholePages(B) PROVE WholePages(A \cup B)
BY Zenon DEF WholePages

LEMMA WholeRegions ==
  ASSUME NEW m,
         \A r \in m.regions : /\ r.base \in Nat /\ PageOffset(r.base) = 0
                              /\ r.end \in Nat /\ PageOffset(r.end) = 0
  PROVE  WholePages(Mapped(m))
<1>1. SUFFICES ASSUME NEW c \in Mapped(m) PROVE PageOf(c) \subseteq Mapped(m) BY DEF WholePages
<1>2. PICK r \in m.regions : c \in CellsOf(r) BY <1>1 DEF Mapped
<1>3. WholePages(CellsOf(r)) BY WholeRange DEF CellsOf
<1>4. QED BY <1>2, <1>3 DEF WholePages, Mapped

-----------------------------------------------------------------------------
(* Layouts.                                                                *)

\* A segment's pages lie between those of the lowest and the uppermost.
LEMMA SegmentsBetween ==
  ASSUME NEW S \in SUBSET Segment, CanPlan(S), SegmentsFit(S),
         \A s \in S : Larger(s.filesz, s.memsz) # 0,
         NEW low \in S, IsLowest(low, S), NEW up \in S, IsUppermost(up, S), NEW s \in S
  PROVE  /\ SegmentRegion(s) \in Region
         /\ AlignDown(low.vaddr) <= SegmentRegion(s).base
         /\ SegmentRegion(s).base < SegmentRegion(s).end
         /\ SegmentRegion(s).end <= PlannedEnd(up)
<1> DEFINE size(t) == AlignUp(PageOffset(t.vaddr) + Larger(t.filesz, t.memsz))
<1>1. ASSUME NEW t \in S
      PROVE  /\ t.vaddr \in Nat /\ t.filesz \in Nat /\ t.memsz \in Nat /\ t.perm \in Perms
             /\ AlignDown(t.vaddr) \in Nat /\ PageOffset(AlignDown(t.vaddr)) = 0
             /\ size(t) \in Nat \ {0}
             /\ AlignDown(t.vaddr) + size(t) = AlignUp(t.vaddr + Larger(t.filesz, t.memsz))
  <2>1. t.vaddr \in Nat /\ t.filesz \in Nat /\ t.memsz \in Nat /\ t.perm \in Perms BY DEF Segment
  <2>2. AlignDown(t.vaddr) \in Nat /\ PageOffset(AlignDown(t.vaddr)) = 0 BY <2>1, AlignDownIsPage
  <2>7. Larger(t.filesz, t.memsz) \in Nat \ {0} BY <2>1 DEF Larger
  <2>8. PageOffset(t.vaddr) \in Nat BY <2>1, OffsetRange, PageSizeAssumption
  <2>9. size(t) \in Nat \ {0} BY <2>7, <2>8, AlignUpType
  <2>10. t.vaddr + Larger(t.filesz, t.memsz)
           = AlignDown(t.vaddr) + (PageOffset(t.vaddr) + Larger(t.filesz, t.memsz))
    BY <2>1, <2>7, <2>8 DEF AlignDown
  <2>11. AlignUp(t.vaddr + Larger(t.filesz, t.memsz)) = AlignDown(t.vaddr) + size(t)
    BY <2>2, <2>7, <2>8, <2>10, AlignUpShift
  <2>12. QED BY <2>1, <2>2, <2>9, <2>11
<1>2. ASSUME NEW t \in S
      PROVE  /\ SegmentRegion(t) \in Region
             /\ SegmentRegion(t).base = AlignDown(t.vaddr)
             /\ SegmentRegion(t).end = AlignDown(t.vaddr) + size(t)
  <2> DEFINE perm == IF "x" \in t.perm THEN t.perm ELSE t.perm \cup {"w"}
  <2>1. perm \in Perms BY <1>1 DEF Perms
  <2>2. SegmentRegion(t) = [base |-> AlignDown(t.vaddr), end |-> AlignDown(t.vaddr) + size(t), perm |-> perm]
    BY DEF SegmentRegion, RegionAt
  <2> HIDE DEF perm, size
  <2>3. AlignDown(t.vaddr) + size(t) \in Nat BY <1>1
  <2>4. QED BY <1>1, <2>1, <2>2, <2>3 DEF Region
<1> HIDE DEF size
<1>3. AlignDown(low.vaddr) <= AlignDown(s.vaddr)
  <2>1. low.vaddr <= s.vaddr BY DEF IsLowest
  <2>2. QED BY <1>1, <2>1, AlignDownMonotonic
<1>4. SegmentRegion(up).end <= PlannedEnd(up)
  <2>1. up.vaddr \in Nat /\ up.filesz \in Nat /\ up.memsz \in Nat BY <1>1
  <2>2. AlignUp(up.filesz) \in Nat /\ AlignUp(up.filesz) >= up.filesz BY <2>1, AlignUpType
  <2>3. /\ up.vaddr + Larger(up.filesz, up.memsz) \in Int
        /\ Larger(up.vaddr + up.memsz, up.vaddr + AlignUp(up.filesz)) \in Int
        /\ up.vaddr + Larger(up.filesz, up.memsz) <= Larger(up.vaddr + up.memsz, up.vaddr + AlignUp(up.filesz))
    BY <2>1, <2>2 DEF Larger
  <2>4. QED BY <1>1, <1>2, <2>3, AlignUpMonotonic DEF PlannedEnd
<1>5. SegmentRegion(s).end <= SegmentRegion(up).end
  <2>1. CASE s = up BY <1>1, <1>2, <2>1
  <2>2. CASE s # up
    <3>1. ~Overlaps(SegmentRegion(s), SegmentRegion(up)) BY <2>2 DEF SegmentsFit
    <3>2. s.vaddr <= up.vaddr BY DEF IsUppermost
    <3>3. AlignDown(s.vaddr) <= AlignDown(up.vaddr) BY <1>1, <3>2, AlignDownMonotonic
    <3>4. size(s) \in Nat \ {0} /\ size(up) \in Nat \ {0} BY <1>1
    <3>5. AlignDown(s.vaddr) \in Nat /\ AlignDown(up.vaddr) \in Nat BY <1>1
    <3>6. QED BY <1>2, <3>1, <3>3, <3>4, <3>5 DEF Overlaps
  <2>3. QED BY <2>1, <2>2
<1>6. PlannedEnd(up) \in Int
  <2>1. up.vaddr \in Nat /\ up.filesz \in Nat /\ up.memsz \in Nat BY <1>1
  <2>2. AlignUp(up.filesz) \in Nat BY <2>1, AlignUpType
  <2>3. Larger(up.vaddr + up.memsz, up.vaddr + AlignUp(up.filesz)) \in Nat BY <2>1, <2>2 DEF Larger
  <2>4. QED BY <2>3, AlignUpType DEF PlannedEnd
<1>7. QED BY <1>1, <1>2, <1>3, <1>4, <1>5, <1>6 DEF Region

LEMMA SegmentIsPaged ==
  ASSUME NEW s \in Segment
  PROVE  PageOffset(SegmentRegion(s).base) = 0 /\ PageOffset(SegmentRegion(s).end) = 0
<1> DEFINE size == AlignUp(PageOffset(s.vaddr) + Larger(s.filesz, s.memsz))
<1>1. s.vaddr \in Nat /\ s.filesz \in Nat /\ s.memsz \in Nat BY DEF Segment
<1>2. PageOffset(s.vaddr) + Larger(s.filesz, s.memsz) \in Nat
  BY <1>1, OffsetRange, PageSizeAssumption DEF Larger
<1>3. AlignDown(s.vaddr) \in Nat /\ PageOffset(AlignDown(s.vaddr)) = 0 BY <1>1, AlignDownIsPage
<1>4. size \in Nat /\ PageOffset(size) = 0 BY <1>2, AlignUpType, AlignUpIsPage
<1>5. SegmentRegion(s).base = AlignDown(s.vaddr) /\ SegmentRegion(s).end = AlignDown(s.vaddr) + size
  BY DEF SegmentRegion, RegionAt
<1> HIDE DEF size
<1>6. QED BY <1>3, <1>4, <1>5, OffsetSum

-----------------------------------------------------------------------------
(* Memories.                                                               *)

\* A range that can be added, as a region with any permission, keeps a memory apart.
LEMMA AddApart ==
  ASSUME NEW m, Apart(m), NEW base \in Int, NEW size \in Nat, size # 0, NEW perm \in Perms,
         CanAdd(m, RegionAt(base, size, perm))
  PROVE  /\ Apart(Add(m, RegionAt(base, size, perm)))
         /\ SpaceOf(m) \subseteq SpaceOf(Add(m, RegionAt(base, size, perm)))
<1> DEFINE r == RegionAt(base, size, perm)
           n == Add(m, r)
<1>1. m \in Memory BY DEF Apart
<1>2. base >= m.min /\ base + size <= m.max BY DEF CanAdd, RegionAt
<1>3. r \in Region BY <1>1, <1>2 DEF RegionAt, Region, Memory
<1>4. n \in Memory /\ n.regions = m.regions \cup {r} /\ n.min = m.min /\ n.max = m.max
  BY <1>1, <1>3 DEF Memory, Add
<1>5. \A s \in n.regions : n.min <= s.base /\ s.base < s.end /\ s.end <= n.max
  <2>1. r.base < r.end /\ r.base >= m.min /\ r.end <= m.max BY <1>2 DEF RegionAt
  <2>2. QED BY <1>1, <1>3, <1>4, <2>1 DEF Apart, Memory, Region
<1>6. \A s, t \in n.regions : s # t => ~Overlaps(s, t)
  <2>1. \A s \in m.regions : ~Overlaps(r, s) /\ ~Overlaps(s, r) BY DEF CanAdd, Overlaps
  <2>2. QED BY <1>4, <2>1 DEF Apart
<1>7. SpaceOf(m) \subseteq SpaceOf(n) BY <1>4 DEF SpaceOf
<1>8. QED BY <1>4, <1>5, <1>6, <1>7 DEF Apart

\* The highest free range is free, and becomes a region.
LEMMA MapApart ==
  ASSUME NEW m, Apart(m), NEW len \in Nat, NEW perm \in Perms, CanMap(m, len)
  PROVE  /\ Apart(Map(m, len, perm)) /\ SpaceOf(m) \subseteq SpaceOf(Map(m, len, perm))
         /\ TopDown(m, len) \in Nat /\ PageOffset(TopDown(m, len)) = 0
         /\ RegionAt(TopDown(m, len), AlignUp(len), perm) \in Map(m, len, perm).regions
         /\ \A r \in m.regions : ~Overlaps(RegionAt(TopDown(m, len), AlignUp(len), {}), r)
<1> DEFINE b == TopDown(m, len)
           size == AlignUp(len)
<1>1. m \in Memory /\ m.min \in Nat /\ m.max \in Nat BY DEF Apart, Memory
<1>2. size \in Nat /\ size # 0 BY AlignUpType DEF CanMap
<1>3. b \in Candidates(m, size) BY DEF CanMap, TopDown, IsHighest
<1>4. b \in Nat /\ PageOffset(b) = 0 /\ CanAdd(m, RegionAt(b, size, {}))
  BY <1>1, <1>2, <1>3 DEF Candidates
<1>5. CanAdd(m, RegionAt(b, size, perm)) BY <1>4 DEF CanAdd, RegionAt, Overlaps
<1>6. Apart(Map(m, len, perm)) /\ SpaceOf(m) \subseteq SpaceOf(Map(m, len, perm))
  BY <1>2, <1>4, <1>5, AddApart DEF Map
<1>7. RegionAt(b, size, perm) \in Map(m, len, perm).regions BY <1>1 DEF Map, Add, Memory
<1>8. QED BY <1>4, <1>6, <1>7 DEF CanAdd

\* The cells of a set of regions, each with its permission.
Painted(R) == UNION {CellsOf(r) \X {r.perm} : r \in R}

LEMMA InPainted ==
  ASSUME NEW R, NEW x
  PROVE  x \in Painted(R) <=> \E r \in R : x \in CellsOf(r) \X {r.perm}
BY DEF Painted

LEMMA PaintedUnion ==
  ASSUME NEW R, NEW S PROVE Painted(R \cup S) = Painted(R) \cup Painted(S)
BY InPainted

\* The parts of a region: within it, apart, and its cells together.
LEMMA CutParts ==
  ASSUME NEW r \in Region, NEW addr \in Nat, NEW len \in Nat, len # 0, NEW perm \in Perms,
         Within(addr, len, r)
  PROVE  /\ \A s \in CutOf(r, addr, len, perm) :
              s \in Region /\ r.base <= s.base /\ s.base < s.end /\ s.end <= r.end
         /\ \A s, t \in CutOf(r, addr, len, perm) : s # t => ~Overlaps(s, t)
         /\ Painted(CutOf(r, addr, len, perm)) =
              ((addr .. addr + len - 1) \X {perm})
                \cup ((CellsOf(r) \ (addr .. addr + len - 1)) \X {r.perm})
<1> DEFINE mid == [base |-> addr, end |-> addr + len, perm |-> perm]
           low == [r EXCEPT !.end = addr]
           high == [r EXCEPT !.base = addr + len]
           cut == CutOf(r, addr, len, perm)
<1>1. /\ r.base \in Nat /\ r.end \in Nat /\ r.perm \in Perms
      /\ addr >= r.base /\ addr + len <= r.end
  BY DEF Region, Within
<1>2. mid \in Region BY DEF Region
<1>3. low \in Region /\ low.base = r.base /\ low.end = addr /\ low.perm = r.perm BY <1>1 DEF Region
<1>4. high \in Region /\ high.base = addr + len /\ high.end = r.end /\ high.perm = r.perm
  BY <1>1 DEF Region
<1>5. cut = {mid} \cup (IF r.base < addr THEN {low} ELSE {}) \cup (IF addr + len < r.end THEN {high} ELSE {})
  BY DEF CutOf
<1> HIDE DEF mid, low, high, cut
<1>6. mid.base = addr /\ mid.end = addr + len /\ mid.perm = perm BY DEF mid
<1>7. \A s \in cut : s \in Region /\ r.base <= s.base /\ s.base < s.end /\ s.end <= r.end
  BY <1>1, <1>2, <1>3, <1>4, <1>5, <1>6
<1>8. \A s, t \in cut : s # t => ~Overlaps(s, t)
  BY <1>1, <1>3, <1>4, <1>5, <1>6 DEF Overlaps
<1>9. Painted(cut) =
        ((addr .. addr + len - 1) \X {perm}) \cup ((CellsOf(r) \ (addr .. addr + len - 1)) \X {r.perm})
  <2>1. CellsOf(mid) = addr .. addr + len - 1 BY <1>6 DEF CellsOf
  <2>2. r.base < addr => CellsOf(low) = r.base .. addr - 1 BY <1>3 DEF CellsOf
  <2>3. addr + len < r.end => CellsOf(high) = addr + len .. r.end - 1 BY <1>4 DEF CellsOf
  <2>4. CellsOf(r) \ (addr .. addr + len - 1) = (r.base .. addr - 1) \cup (addr + len .. r.end - 1)
    BY <1>1 DEF CellsOf
  <2>5. ~(r.base < addr) => r.base .. addr - 1 = {} BY <1>1
  <2>6. ~(addr + len < r.end) => addr + len .. r.end - 1 = {} BY <1>1
  <2>7. Painted(cut) =
          (CellsOf(mid) \X {mid.perm})
            \cup (IF r.base < addr THEN CellsOf(low) \X {low.perm} ELSE {})
            \cup (IF addr + len < r.end THEN CellsOf(high) \X {high.perm} ELSE {})
    BY <1>5 DEF Painted
  <2>8. QED BY <1>3, <1>4, <1>6, <2>1, <2>2, <2>3, <2>4, <2>5, <2>6, <2>7
<1>10. QED BY <1>7, <1>8, <1>9 DEF cut

\* What mprotect makes of an address space: the cells of the range get the
\* permission, all others keep theirs.
Repainted(sp, addr, len, perm) ==
  {x \in sp : x[1] \notin addr .. addr + len - 1} \cup ((addr .. addr + len - 1) \X {perm})

LEMMA ProtectApart ==
  ASSUME NEW m, Apart(m), NEW addr \in Nat, NEW len \in Nat, NEW perm \in Perms,
         CanProtect(m, addr, len)
  PROVE  /\ Apart(Protect(m, addr, len, perm))
         /\ SpaceOf(Protect(m, addr, len, perm)) = Repainted(SpaceOf(m), addr, len, perm)
         /\ addr .. addr + len - 1 \subseteq Mapped(m)
<1> DEFINE r == CHOOSE s \in m.regions : Within(addr, len, s)
           cut == CutOf(r, addr, len, perm)
           n == Protect(m, addr, len, perm)
           range == addr .. addr + len - 1
<1>1. m \in Memory /\ m.regions \subseteq Region BY DEF Apart, Memory
<1>2. r \in m.regions /\ Within(addr, len, r) BY DEF CanProtect
<1>3. r \in Region /\ len # 0 BY <1>1, <1>2 DEF CanProtect
<1> HIDE DEF r
<1>4. \A s \in cut : s \in Region /\ r.base <= s.base /\ s.base < s.end /\ s.end <= r.end
  BY <1>2, <1>3, CutParts
<1>5. \A s, t \in cut : s # t => ~Overlaps(s, t) BY <1>2, <1>3, CutParts
<1>6. Painted(cut) =
        (range \X {perm}) \cup ((CellsOf(r) \ range) \X {r.perm})
  BY <1>2, <1>3, CutParts
<1>7. n = [m EXCEPT !.regions = (m.regions \ {r}) \cup cut] BY DEF Protect, r
<1> HIDE DEF cut, n
<1>8. n \in Memory /\ n.regions = (m.regions \ {r}) \cup cut /\ n.min = m.min /\ n.max = m.max
  BY <1>1, <1>4, <1>7 DEF Memory
<1>9. \A s \in n.regions : n.min <= s.base /\ s.base < s.end /\ s.end <= n.max
  <2>1. \A s \in m.regions : m.min <= s.base /\ s.base < s.end /\ s.end <= m.max BY DEF Apart
  <2>2. \A s \in cut : m.min <= s.base /\ s.base < s.end /\ s.end <= m.max
    BY <1>1, <1>2, <1>3, <1>4, <2>1 DEF Memory, Region
  <2>3. QED BY <1>8, <2>1, <2>2
<1>10. \A s, t \in n.regions : s # t => ~Overlaps(s, t)
  <2>1. ASSUME NEW s \in cut, NEW t \in m.regions \ {r} PROVE ~Overlaps(s, t) /\ ~Overlaps(t, s)
    <3>1. ~Overlaps(r, t) /\ ~Overlaps(t, r) BY <1>2 DEF Apart
    <3>2. t \in Region /\ s \in Region BY <1>1, <1>4
    <3>3. QED BY <1>3, <1>4, <3>1, <3>2 DEF Overlaps, Region
  <2>2. QED BY <1>5, <1>8, <2>1 DEF Apart
<1>11. SpaceOf(n) = Repainted(SpaceOf(m), addr, len, perm)
  <2>1. SpaceOf(n) = Painted(m.regions \ {r}) \cup Painted(cut)
    BY <1>8, PaintedUnion DEF SpaceOf, Painted
  <2>2. SpaceOf(m) = Painted(m.regions \ {r}) \cup (CellsOf(r) \X {r.perm})
    <3>1. m.regions = (m.regions \ {r}) \cup {r} BY <1>2
    <3>2. Painted({r}) = CellsOf(r) \X {r.perm} BY DEF Painted
    <3>3. SpaceOf(m) = Painted(m.regions) BY DEF SpaceOf, Painted
    <3>4. QED BY <3>1, <3>2, <3>3, PaintedUnion
  <2>3. range \subseteq CellsOf(r) BY <1>2, <1>3 DEF CellsOf, Within, Region
  <2>4. ASSUME NEW s \in m.regions \ {r} PROVE CellsOf(s) \cap CellsOf(r) = {}
    <3>1. ~Overlaps(r, s) /\ s \in Region BY <1>1, <1>2 DEF Apart
    <3>2. QED BY <1>3, <3>1 DEF Overlaps, CellsOf, Region
  <2>5. \A x \in Painted(m.regions \ {r}) : x[1] \notin range
    BY <2>3, <2>4, InPainted
  <2>6. \A x \in (CellsOf(r) \X {r.perm}) :
          (x \in (CellsOf(r) \ range) \X {r.perm}) <=> x[1] \notin range
    OBVIOUS
  <2>7. (CellsOf(r) \ range) \X {r.perm} \subseteq CellsOf(r) \X {r.perm} OBVIOUS
  <2> HIDE DEF range
  <2>8. QED BY <1>6, <2>1, <2>2, <2>5, <2>6, <2>7 DEF Repainted, range
<1>12. range \subseteq Mapped(m) BY <1>2, <1>3 DEF Mapped, CellsOf, Within, Region
<1>13. QED BY <1>8, <1>9, <1>10, <1>11, <1>12 DEF Apart, n

\* A page that arch_prctl may add.
LEMMA BackApart ==
  ASSUME NEW m, Apart(m), NEW addr \in Int, CanBack(m, addr)
  PROVE  Apart(Back(m, addr)) /\ SpaceOf(m) \subseteq SpaceOf(Back(m, addr))
<1>1. CASE Readable(m, AlignDown(addr), 1) BY <1>1 DEF Back
<1>2. CASE ~Readable(m, AlignDown(addr), 1)
  <2>1. CanAdd(m, RegionAt(AlignDown(addr), PageSize, ReadWrite)) BY <1>2 DEF CanBack, Page
  <2>2. ReadWrite \in Perms BY DEF ReadWrite, Perms
  <2>3. QED BY <1>2, <2>1, <2>2, AddApart, AlignDownType, PageSizeAssumption DEF Back, Page
<1>3. QED BY <1>1, <1>2

\* A memory that is apart is an address space in which each cell has one meaning.
LEMMA ApartHasOneMeaning ==
  ASSUME NEW m, Apart(m) PROVE Space!OneMeaning(SpaceOf(m))
<1>1. m.regions \subseteq Region BY DEF Apart, Memory
<1>2. SpaceOf(m) \subseteq Nat \X Perms BY <1>1 DEF SpaceOf, CellsOf, Region
<1>3. ASSUME NEW x \in SpaceOf(m), NEW y \in SpaceOf(m), x[1] = y[1] PROVE x = y
  <2>1. PICK r \in m.regions : x \in CellsOf(r) \X {r.perm} BY DEF SpaceOf
  <2>2. PICK s \in m.regions : y \in CellsOf(s) \X {s.perm} BY DEF SpaceOf
  <2>3. r \in Region /\ s \in Region BY <1>1
  <2>4. Overlaps(r, s) BY <1>3, <2>1, <2>2, <2>3 DEF CellsOf, Overlaps, Region
  <2>5. r = s BY <2>4 DEF Apart
  <2>6. QED BY <1>3, <2>1, <2>2, <2>5
<1>4. QED BY <1>2, <1>3 DEF Space!OneMeaning

LEMMA MappedIsSpace ==
  ASSUME NEW m PROVE Mapped(m) = Space!Cells(SpaceOf(m))
<1>1. \A c : c \in Mapped(m) <=> \E r \in m.regions : c \in CellsOf(r) BY DEF Mapped
<1>2. SpaceOf(m) = Painted(m.regions) BY DEF SpaceOf, Painted
<1>3. \A c : c \in Space!Cells(SpaceOf(m)) <=> \E x \in Painted(m.regions) : c = x[1]
  BY <1>2 DEF Space!Cells
<1>4. ASSUME NEW c, NEW r \in m.regions, c \in CellsOf(r) PROVE \E x \in Painted(m.regions) : c = x[1]
  <2>1. <<c, r.perm>> \in Painted(m.regions) BY <1>4, InPainted
  <2>2. QED BY <2>1
<1>5. ASSUME NEW x \in Painted(m.regions) PROVE \E r \in m.regions : x[1] \in CellsOf(r)
  BY InPainted
<1>6. \A c : c \in Mapped(m) => c \in Space!Cells(SpaceOf(m)) BY <1>1, <1>3, <1>4
<1>7. \A c : c \in Space!Cells(SpaceOf(m)) => c \in Mapped(m) BY <1>1, <1>3, <1>5
<1>8. QED BY <1>6, <1>7

\* A fresh mapping whose permission is set at once takes no cell from another.
LEMMA MapThenProtectApart ==
  ASSUME NEW m, Apart(m), NEW len \in Nat, NEW perm \in Perms, CanMap(m, len)
  PROVE  LET n == Protect(Map(m, len, ReadWrite), TopDown(m, len), AlignUp(len), perm)
         IN  Apart(n) /\ SpaceOf(m) \subseteq SpaceOf(n)
<1> DEFINE filled == Map(m, len, ReadWrite)
           b == TopDown(m, len)
           size == AlignUp(len)
           n == Protect(filled, b, size, perm)
<1>1. ReadWrite \in Perms BY DEF ReadWrite, Perms
<1>2. /\ Apart(filled) /\ SpaceOf(m) \subseteq SpaceOf(filled)
      /\ b \in Nat /\ PageOffset(b) = 0
      /\ RegionAt(b, size, ReadWrite) \in filled.regions
      /\ \A r \in m.regions : ~Overlaps(RegionAt(b, size, {}), r)
  BY <1>1, MapApart
<1>3. size \in Nat /\ size # 0 BY AlignUpType DEF CanMap
<1> HIDE DEF filled, b, size
<1>4. CanProtect(filled, b, size) BY <1>2, <1>3 DEF CanProtect, Within, RegionAt
<1>5. Apart(n) /\ SpaceOf(n) = Repainted(SpaceOf(filled), b, size, perm)
  BY <1>2, <1>3, <1>4, ProtectApart
<1>6. ASSUME NEW x \in SpaceOf(m) PROVE x[1] \notin b .. b + size - 1
  <2>1. PICK r \in m.regions : x \in CellsOf(r) \X {r.perm} BY DEF SpaceOf
  <2>2. r \in Region BY DEF Apart, Memory
  <2>3. ~Overlaps(RegionAt(b, size, {}), r) BY <1>2
  <2>4. QED BY <1>2, <1>3, <2>1, <2>2, <2>3 DEF Overlaps, RegionAt, CellsOf, Region
<1>7. SpaceOf(m) \subseteq SpaceOf(n) BY <1>2, <1>5, <1>6 DEF Repainted
<1>8. QED BY <1>5, <1>7 DEF n, filled, b, size

-----------------------------------------------------------------------------
(* Which cells are mapped.                                                 *)

\* A region of whole pages maps its cells and no other.
LEMMA AddMaps ==
  ASSUME NEW m, Apart(m), WholePages(Mapped(m)),
         NEW base \in Nat, PageOffset(base) = 0, NEW size \in Nat, PageOffset(size) = 0, NEW perm
  PROVE  LET n == Add(m, RegionAt(base, size, perm))
         IN  Mapped(n) = Mapped(m) \cup (base .. base + size - 1) /\ WholePages(Mapped(n))
<1> DEFINE r == RegionAt(base, size, perm)
           n == Add(m, r)
<1>1. n.regions = m.regions \cup {r} BY DEF Apart, Memory, Add
<1>2. CellsOf(r) = base .. base + size - 1 BY DEF CellsOf, RegionAt
<1> HIDE DEF r, n
<1>3. Mapped(n) = Mapped(m) \cup (base .. base + size - 1) BY <1>1, <1>2 DEF Mapped
<1>4. PageOffset(base + size) = 0 /\ base + size \in Nat BY OffsetSum
<1>5. WholePages(base .. base + size - 1) BY <1>4, WholeRange
<1>6. WholePages(Mapped(n)) BY <1>3, <1>5, WholeUnion
<1>7. QED BY <1>3, <1>6 DEF n, r

LEMMA MapKeepsPages ==
  ASSUME NEW m, Apart(m), WholePages(Mapped(m)), NEW len \in Nat, NEW perm \in Perms, CanMap(m, len)
  PROVE  WholePages(Mapped(Map(m, len, perm)))
<1>1. TopDown(m, len) \in Nat /\ PageOffset(TopDown(m, len)) = 0 BY MapApart
<1>2. AlignUp(len) \in Nat /\ PageOffset(AlignUp(len)) = 0 BY AlignUpType, AlignUpIsPage
<1>3. QED BY <1>1, <1>2, AddMaps DEF Map

\* A protection maps and unmaps nothing.
LEMMA RepaintedCells ==
  ASSUME NEW m, NEW n, NEW addr \in Nat, NEW len \in Nat, NEW perm,
         addr .. addr + len - 1 \subseteq Mapped(m),
         SpaceOf(n) = Repainted(SpaceOf(m), addr, len, perm)
  PROVE  Mapped(n) = Mapped(m)
<1> DEFINE range == addr .. addr + len - 1
<1>1. ASSUME NEW c \in Mapped(m) PROVE c \in Mapped(n)
  <2>1. PICK x \in SpaceOf(m) : c = x[1] BY <1>1, MappedIsSpace DEF Space!Cells
  <2>2. CASE c \in range
    <3>1. <<c, perm>> \in SpaceOf(n) /\ <<c, perm>>[1] = c BY <2>2 DEF Repainted
    <3>2. QED BY <3>1, MappedIsSpace DEF Space!Cells
  <2>3. CASE c \notin range
    <3>1. x \in SpaceOf(n) BY <2>1, <2>3 DEF Repainted
    <3>2. QED BY <2>1, <3>1, MappedIsSpace DEF Space!Cells
  <2>4. QED BY <2>2, <2>3
<1>2. ASSUME NEW c \in Mapped(n) PROVE c \in Mapped(m)
  <2>1. PICK x \in SpaceOf(n) : c = x[1] BY <1>2, MappedIsSpace DEF Space!Cells
  <2>2. CASE x \in SpaceOf(m) BY <2>1, <2>2, MappedIsSpace DEF Space!Cells
  <2>3. CASE x \in range \X {perm} BY <2>1, <2>3
  <2>4. QED BY <2>1, <2>2, <2>3 DEF Repainted
<1>3. QED BY <1>1, <1>2

LEMMA MapThenProtectKeepsPages ==
  ASSUME NEW m, Apart(m), WholePages(Mapped(m)), NEW len \in Nat, NEW perm \in Perms, CanMap(m, len)
  PROVE  WholePages(Mapped(Protect(Map(m, len, ReadWrite), TopDown(m, len), AlignUp(len), perm)))
<1> DEFINE filled == Map(m, len, ReadWrite)
           b == TopDown(m, len)
           size == AlignUp(len)
<1>1. ReadWrite \in Perms BY DEF ReadWrite, Perms
<1>2. /\ Apart(filled) /\ b \in Nat /\ PageOffset(b) = 0
      /\ RegionAt(b, size, ReadWrite) \in filled.regions
  BY <1>1, MapApart
<1>3. WholePages(Mapped(filled)) BY <1>1, MapKeepsPages
<1>4. size \in Nat /\ size # 0 BY AlignUpType DEF CanMap
<1> HIDE DEF filled, b, size
<1>5. CanProtect(filled, b, size) BY <1>2, <1>4 DEF CanProtect, Within, RegionAt
<1>6. /\ SpaceOf(Protect(filled, b, size, perm)) = Repainted(SpaceOf(filled), b, size, perm)
      /\ b .. b + size - 1 \subseteq Mapped(filled)
  BY <1>2, <1>4, <1>5, ProtectApart
<1>7. Mapped(Protect(filled, b, size, perm)) = Mapped(filled) BY <1>2, <1>4, <1>6, RepaintedCells
<1>8. QED BY <1>3, <1>7 DEF filled, b, size

\* The page that arch_prctl looks for is mapped afterwards, with the address it
\* was looked for.
LEMMA BackMaps ==
  ASSUME NEW m, Apart(m), WholePages(Mapped(m)), NEW addr \in Int, CanBack(m, addr)
  PROVE  WholePages(Mapped(Back(m, addr))) /\ addr \in Mapped(Back(m, addr))
<1> DEFINE p == AlignDown(addr)
<1>1. m \in Memory /\ \A r \in m.regions : r \in Region BY DEF Apart, Memory
<1>2. p \in Int /\ p <= addr BY AlignDownType
<1>3. p \in Nat
  <2>1. CASE Readable(m, p, 1)
    <3>1. PICK r \in m.regions : p >= r.base /\ r.base \in Nat BY <1>1, <2>1 DEF Readable, Within, Region
    <3>2. QED BY <1>2, <3>1
  <2>2. CASE CanAdd(m, Page(addr)) BY <1>1, <1>2, <2>2 DEF CanAdd, Page, RegionAt, Memory
  <2>3. QED BY <2>1, <2>2 DEF CanBack
<1>4. addr \in Nat BY <1>2, <1>3
<1>5. PageOffset(p) = 0 /\ addr \in PageOf(p) BY <1>4, AlignDownIsPage, PageAround
<1>6. CASE Readable(m, p, 1)
  <2>1. PICK r \in m.regions : Within(p, 1, r) BY <1>6 DEF Readable
  <2>2. p \in CellsOf(r) BY <1>1, <1>3, <2>1 DEF Within, CellsOf, Region
  <2>3. p \in Mapped(m) BY <2>2 DEF Mapped
  <2>4. addr \in Mapped(m) BY <1>5, <2>3 DEF WholePages
  <2>5. QED BY <1>6, <2>4 DEF Back
<1>7. CASE ~Readable(m, p, 1)
  <2>1. Back(m, addr) = Add(m, RegionAt(p, PageSize, ReadWrite)) BY <1>7 DEF Back, Page
  <2>2. PageOffset(PageSize) = 0
    <3>1. PageSize = PageSize * 1 BY PageSizeAssumption
    <3>2. QED BY <3>1, MultipleIsWhole
  <2>3. /\ Mapped(Back(m, addr)) = Mapped(m) \cup (p .. p + PageSize - 1)
        /\ WholePages(Mapped(Back(m, addr)))
    BY <1>3, <1>5, <2>1, <2>2, AddMaps, PageSizeAssumption
  <2>4. AlignDown(p) = p BY <1>3, <1>5 DEF AlignDown
  <2>5. addr \in p .. p + PageSize - 1 BY <1>5, <2>4 DEF PageOf
  <2>6. QED BY <2>3, <2>5
<1>8. QED BY <1>6, <1>7

LEMMA MappedGrows ==
  ASSUME NEW m, NEW n, SpaceOf(m) \subseteq SpaceOf(n) PROVE Mapped(m) \subseteq Mapped(n)
BY MappedIsSpace DEF Space!Cells

LEMMA WritableIsMapped ==
  ASSUME NEW m, Apart(m), NEW addr \in Int, Writable(m, addr, 1) PROVE addr \in Mapped(m)
<1>1. PICK r \in m.regions : Within(addr, 1, r) BY DEF Writable
<1>2. r \in Region BY DEF Apart, Memory
<1>3. addr \in CellsOf(r) BY <1>1, <1>2 DEF Within, CellsOf, Region
<1>4. QED BY <1>3 DEF Mapped

-----------------------------------------------------------------------------
(* The kernel.                                                             *)

\* The bounds of the heap are those of an image that is sound, and no step
\* takes its cells away; pages are mapped whole, so a page of which arch_prctl
\* could read the start has the word above the thread pointer; a PT_TLS comes
\* from a file that is known.
IInv ==
  /\ guest \in Guests /\ Apart(mem) /\ WholePages(Mapped(mem))
  /\ guest.image.heapStart .. guest.image.heapEnd - 1 \subseteq Mapped(mem)
  /\ brk \in Nat /\ brk <= guest.image.heapEnd
  /\ tls \subseteq TlsImages
  /\ \A d \in DOMAIN files : files[d].name \in DOMAIN Files

LEMMA InitIInv ==
  ASSUME Init PROVE IInv
<1>1. guest \in Guests /\ Sound(guest.image) BY GuestsAssumption DEF Init
<1>2. DOMAIN files = {} BY DEF Init
<1>3. QED BY <1>1, <1>2 DEF Init, IInv, Sound, None

\* What one call does to the memory.
Grows == /\ Apart(mem') /\ WholePages(Mapped(mem'))
         /\ SpaceOf(mem) \subseteq SpaceOf(mem')

Repaints ==
  /\ Apart(mem')
  /\ \E addr \in Nat, len \in Nat \ {0}, perm \in Perms :
       /\ addr .. addr + len - 1 \subseteq Mapped(mem)
       /\ SpaceOf(mem') = Repainted(SpaceOf(mem), addr, len, perm)

\* The pages that arch_prctl adds, up to the one it cannot add.
LEMMA BackedApart ==
  ASSUME IInv, NEW addr \in Addresses, NEW n \in 0 .. 3, n <= Len(ToBack(addr)),
         \A k \in 1 .. n : CanBack(Backed(addr, k - 1), ToBack(addr)[k])
  PROVE  /\ Apart(Backed(addr, n)) /\ SpaceOf(mem) \subseteq SpaceOf(Backed(addr, n))
         /\ WholePages(Mapped(Backed(addr, n)))
         /\ \A k \in 1 .. n : ToBack(addr)[k] \in Mapped(Backed(addr, n))
<1> DEFINE to == ToBack(addr)
           one == Back(mem, to[1])
           two == Back(one, to[2])
           three == Back(two, to[3])
<1>1. addr \in Nat /\ TlsSlots[1] \in Nat /\ TlsSlots[2] \in Nat BY ArgumentsAssumption
<1>2. to[1] \in Int /\ to[2] \in Int BY <1>1 DEF ToBack
<1>3. n = 3 => to[3] \in Int
  <2>1. SUFFICES ASSUME n = 3 PROVE to[3] \in Int OBVIOUS
  <2>2. tls # None BY <2>1 DEF ToBack
  <2>3. TlsImage \in TlsImages BY <2>2 DEF IInv, TlsImage, None
  <2>4. BlockStart(addr) \in Int BY <1>1, <2>3 DEF BlockStart, TlsImages
  <2>5. QED BY <2>2, <2>4 DEF ToBack
<1>4. Apart(mem) /\ WholePages(Mapped(mem)) BY DEF IInv
<1>5. n >= 1 => /\ Apart(one) /\ SpaceOf(mem) \subseteq SpaceOf(one)
                /\ WholePages(Mapped(one)) /\ to[1] \in Mapped(one)
  <2>1. SUFFICES ASSUME n >= 1
                 PROVE  /\ Apart(one) /\ SpaceOf(mem) \subseteq SpaceOf(one)
                        /\ WholePages(Mapped(one)) /\ to[1] \in Mapped(one)
    OBVIOUS
  <2>2. CanBack(mem, to[1]) BY <2>1 DEF Backed
  <2>3. QED BY <1>2, <1>4, <2>2, BackApart, BackMaps
<1>6. n >= 2 => /\ Apart(two) /\ SpaceOf(mem) \subseteq SpaceOf(two)
                /\ WholePages(Mapped(two)) /\ to[1] \in Mapped(two) /\ to[2] \in Mapped(two)
  <2>1. SUFFICES ASSUME n >= 2
                 PROVE  /\ Apart(two) /\ SpaceOf(mem) \subseteq SpaceOf(two)
                        /\ WholePages(Mapped(two)) /\ to[1] \in Mapped(two) /\ to[2] \in Mapped(two)
    OBVIOUS
  <2>2. CanBack(one, to[2]) BY <2>1 DEF Backed
  <2>3. Apart(two) /\ SpaceOf(one) \subseteq SpaceOf(two) BY <1>2, <1>5, <2>1, <2>2, BackApart
  <2>4. WholePages(Mapped(two)) /\ to[2] \in Mapped(two) BY <1>2, <1>5, <2>1, <2>2, BackMaps
  <2>5. Mapped(one) \subseteq Mapped(two) BY <2>3, MappedGrows
  <2>6. QED BY <1>5, <2>1, <2>3, <2>4, <2>5
<1>7. n = 3 => /\ Apart(three) /\ SpaceOf(mem) \subseteq SpaceOf(three) /\ WholePages(Mapped(three))
               /\ to[1] \in Mapped(three) /\ to[2] \in Mapped(three) /\ to[3] \in Mapped(three)
  <2>1. SUFFICES ASSUME n = 3
                 PROVE  /\ Apart(three) /\ SpaceOf(mem) \subseteq SpaceOf(three)
                        /\ WholePages(Mapped(three))
                        /\ to[1] \in Mapped(three) /\ to[2] \in Mapped(three) /\ to[3] \in Mapped(three)
    OBVIOUS
  <2>2. CanBack(two, to[3]) BY <2>1 DEF Backed
  <2>3. Apart(three) /\ SpaceOf(two) \subseteq SpaceOf(three) BY <1>3, <1>6, <2>1, <2>2, BackApart
  <2>4. WholePages(Mapped(three)) /\ to[3] \in Mapped(three) BY <1>3, <1>6, <2>1, <2>2, BackMaps
  <2>5. Mapped(two) \subseteq Mapped(three) BY <2>3, MappedGrows
  <2>6. QED BY <1>6, <2>1, <2>3, <2>4, <2>5
<1>8. Backed(addr, n) = IF n = 3 THEN three ELSE IF n = 2 THEN two ELSE IF n = 1 THEN one ELSE mem
  BY DEF Backed
<1>9. QED BY <1>4, <1>5, <1>6, <1>7, <1>8

LEMMA SetFsGrows ==
  ASSUME IInv, NEW addr \in Addresses, SetFs(addr) PROVE Grows
<1> DEFINE to == ToBack(addr)
<1>1. Len(to) \in 2 .. 3 /\ DOMAIN to = 1 .. Len(to) BY DEF ToBack
<1>2. CASE \E n \in DOMAIN to : BackingFailsAt(addr, n) /\ mem' = Backed(addr, n - 1)
  <2>1. PICK n \in DOMAIN to : BackingFailsAt(addr, n) /\ mem' = Backed(addr, n - 1) BY <1>2
  <2>2. n - 1 \in 0 .. 3 /\ n - 1 <= Len(to) BY <1>1, <2>1
  <2>3. \A k \in 1 .. n - 1 : CanBack(Backed(addr, k - 1), to[k]) BY <2>1 DEF BackingFailsAt
  <2>4. QED BY <2>1, <2>2, <2>3, BackedApart DEF Grows
<1>3. CASE (\A n \in DOMAIN to : ~BackingFailsAt(addr, n)) /\ mem' = Backed(addr, Len(to))
  <2>1. CanBack(Backed(addr, 0), to[1]) BY <1>1, <1>3 DEF BackingFailsAt
  <2>2. CanBack(Backed(addr, 1), to[2]) BY <1>1, <1>3, <2>1 DEF BackingFailsAt
  <2>3. Len(to) = 3 => CanBack(Backed(addr, 2), to[3]) BY <1>1, <1>3, <2>1, <2>2 DEF BackingFailsAt
  <2>4. \A k \in 1 .. Len(to) : CanBack(Backed(addr, k - 1), to[k]) BY <1>1, <2>1, <2>2, <2>3
  <2>5. QED BY <1>1, <1>3, <2>4, BackedApart DEF Grows
<1>4. QED BY <1>2, <1>3 DEF SetFs

\* When arch_prctl succeeds, all it wrote and the words libc writes are mapped.
LEMMA SetFsBacks ==
  ASSUME IInv, NEW addr \in Addresses, SetFs(addr), fs' # fs
  PROVE  /\ fs' = Some(addr)
         /\ {addr, addr + GuardOffset, addr + TlsSlots[1], addr + TlsSlots[2]} \subseteq Mapped(mem')
<1> DEFINE to == ToBack(addr)
<1>1. Len(to) \in 2 .. 3 /\ DOMAIN to = 1 .. Len(to) BY DEF ToBack
<1>2. /\ fs' = Some(addr) /\ \A n \in DOMAIN to : ~BackingFailsAt(addr, n)
      /\ mem' = Backed(addr, Len(to)) /\ ThreadPointerWritable(mem', addr)
  BY DEF SetFs
<1>3. \A k \in 1 .. Len(to) : CanBack(Backed(addr, k - 1), to[k])
  <2>1. CanBack(Backed(addr, 0), to[1]) BY <1>1, <1>2 DEF BackingFailsAt
  <2>2. CanBack(Backed(addr, 1), to[2]) BY <1>1, <1>2, <2>1 DEF BackingFailsAt
  <2>3. Len(to) = 3 => CanBack(Backed(addr, 2), to[3]) BY <1>1, <1>2, <2>1, <2>2 DEF BackingFailsAt
  <2>4. QED BY <1>1, <2>1, <2>2, <2>3
<1>4. Apart(mem') /\ to[1] \in Mapped(mem') /\ to[2] \in Mapped(mem') BY <1>1, <1>2, <1>3, BackedApart
<1>5. to[1] = addr + TlsSlots[1] /\ to[2] = addr + TlsSlots[2] BY DEF ToBack
<1>6. addr \in Int /\ addr + GuardOffset \in Int BY ArgumentsAssumption
<1>7. addr \in Mapped(mem') /\ addr + GuardOffset \in Mapped(mem')
  BY <1>2, <1>4, <1>6, WritableIsMapped DEF ThreadPointerWritable
<1>8. QED BY <1>2, <1>4, <1>5, <1>7

LEMMA SameMemoryGrows == ASSUME IInv, UNCHANGED mem PROVE Grows
BY DEF IInv, Grows

\* A call adds to the memory or repaints a range of it.
LEMMA StepOfMemory ==
  ASSUME IInv, [Next]_vars PROVE Grows \/ Repaints
<1> USE DEF IInv
<1>1. CASE UNCHANGED vars BY <1>1, SameMemoryGrows DEF vars
<1>2. CASE \E b \in Buffers : AnswerAt(b.at, b.len) BY <1>2, SameMemoryGrows DEF AnswerAt
<1>3. CASE \E fd \in {0, 1}, b \in Buffers : Write(fd, b.at, b.len) BY <1>3, SameMemoryGrows DEF Write
<1>4. CASE \E atCwd \in BOOLEAN, b \in Buffers, f \in DOMAIN Files : OpenAt(atCwd, b.at, b.len, f)
  BY <1>4, SameMemoryGrows DEF OpenAt
<1>5. CASE \E d \in Fds, b \in Buffers : Read(d, b.at, b.len) BY <1>5, SameMemoryGrows DEF Read
<1>6. CASE \E d \in Fds, b \in Buffers, o \in Lengths : PRead(d, b.at, b.len, o)
  BY <1>6, SameMemoryGrows DEF PRead
<1>7. CASE \E a \in Addresses : Brk(a) BY <1>7, SameMemoryGrows DEF Brk
<1>8. ASSUME NEW a \in Addresses, NEW n \in Lengths, NEW p \in Protections, MProtect(a, n, p)
      PROVE  Grows \/ Repaints
  <2>1. a \in Nat /\ n \in Nat /\ p \in Perms BY ArgumentsAssumption
  <2>2. CASE UNCHANGED mem BY <2>2, SameMemoryGrows
  <2>3. CASE n # 0 /\ CanProtect(mem, a, n) /\ mem' = Protect(mem, a, n, p)
    <3>1. /\ Apart(mem') /\ SpaceOf(mem') = Repainted(SpaceOf(mem), a, n, p)
          /\ a .. a + n - 1 \subseteq Mapped(mem)
      BY <2>1, <2>3, ProtectApart
    <3>2. n \in Nat \ {0} BY <2>1, <2>3
    <3>3. QED BY <2>1, <3>1, <3>2 DEF Repaints
  <2>4. QED BY <1>8, <2>2, <2>3 DEF MProtect
<1>9. ASSUME NEW n \in Lengths, NEW p \in Protections, MMapAnonymous(n, p) PROVE Grows
  <2>1. n \in Nat /\ p \in Perms BY ArgumentsAssumption
  <2>2. CASE UNCHANGED mem BY <2>2, SameMemoryGrows
  <2>3. CASE CanMap(mem, n) /\ mem' = Map(mem, n, p) BY <2>1, <2>3, MapApart, MapKeepsPages DEF Grows
  <2>4. QED BY <1>9, <2>2, <2>3 DEF MMapAnonymous
<1>10. ASSUME NEW d \in Fds, NEW n \in Lengths, NEW p \in Protections, MMapData(d, n, p) PROVE Grows
  <2>1. n \in Nat /\ p \in Perms BY ArgumentsAssumption
  <2>2. CASE UNCHANGED mem BY <2>2, SameMemoryGrows
  <2>3. CASE CanMap(mem, n) /\ mem' = Map(mem, n, ReadWrite)
    <3>1. ReadWrite \in Perms BY DEF ReadWrite, Perms
    <3>2. QED BY <2>1, <2>3, <3>1, MapApart, MapKeepsPages DEF Grows
  <2>4. CASE CanMap(mem, n) /\ mem' = Protect(Map(mem, n, ReadWrite), TopDown(mem, n), AlignUp(n), p)
    BY <2>1, <2>4, MapThenProtectApart, MapThenProtectKeepsPages DEF Grows
  <2>5. QED BY <1>10, <2>2, <2>3, <2>4 DEF MMapData
<1>11. ASSUME NEW d \in Fds, NEW n \in Lengths, MMapElf(d, n) PROVE Grows
  <2> DEFINE size == IF n < Files[files[d].name].span THEN Files[files[d].name].span ELSE n
  <2>1. d \in DOMAIN files BY <1>11 DEF MMapElf
  <2>2. n \in Nat /\ Files[files[d].name].span \in Nat BY <2>1, ArgumentsAssumption
  <2>3. size \in Nat /\ ReadWrite \in Perms BY <2>2 DEF ReadWrite, Perms
  <2>4. CASE UNCHANGED mem BY <2>4, SameMemoryGrows
  <2>5. CASE CanMap(mem, size) /\ mem' = Map(mem, size, ReadWrite) BY <2>3, <2>5, MapApart, MapKeepsPages DEF Grows
  <2>6. QED BY <1>11, <2>4, <2>5 DEF MMapElf
<1>12. CASE \E a \in Addresses : SetFs(a) BY <1>12, SetFsGrows
<1>13. CASE AnswerOnly \/ Unsupported \/ Exit BY <1>13, SameMemoryGrows DEF AnswerOnly, Unsupported, Exit
<1>14. QED
  BY <1>1, <1>2, <1>3, <1>4, <1>5, <1>6, <1>7, <1>8, <1>9, <1>10, <1>11, <1>12, <1>13 DEF Next

\* Neither takes a mapped cell away, or part of a page.
LEMMA MappedStays ==
  ASSUME IInv, Grows \/ Repaints PROVE Mapped(mem) \subseteq Mapped(mem') /\ WholePages(Mapped(mem'))
<1>1. CASE Grows BY <1>1, MappedGrows DEF Grows
<1>2. CASE Repaints
  <2>1. Mapped(mem') = Mapped(mem) BY <1>2, RepaintedCells DEF Repaints
  <2>2. QED BY <2>1 DEF IInv
<1>3. QED BY <1>1, <1>2

LEMMA NextIInv ==
  ASSUME IInv, [Next]_vars PROVE IInv'
<1> USE DEF IInv
<1>1. Apart(mem') BY StepOfMemory DEF Grows, Repaints
<1>2. Mapped(mem) \subseteq Mapped(mem') /\ WholePages(Mapped(mem')) BY StepOfMemory, MappedStays
<1>3. guest' = guest
  BY DEF Next, vars, Called, AnswerAt, Write, OpenAt, Read, PRead, Brk, MProtect, MMapAnonymous,
         MMapData, MMapElf, SetFs, AnswerOnly, Unsupported, Exit
<1>4. brk' \in Nat /\ brk' <= guest.image.heapEnd
  <2>1. CASE brk' = brk BY <2>1
  <2>2. ASSUME NEW a \in Addresses, Brk(a) PROVE brk' \in Nat /\ brk' <= guest.image.heapEnd
    <3>1. a \in Nat /\ guest.image.heapEnd \in Nat BY ArgumentsAssumption, GuestsAssumption DEF Sound
    <3>2. QED BY <2>2, <3>1 DEF Brk
  <2>3. QED
    BY <2>1, <2>2 DEF Next, vars, AnswerAt, Write, OpenAt, Read, PRead, MProtect, MMapAnonymous,
       MMapData, MMapElf, SetFs, AnswerOnly, Unsupported, Exit
<1>5. tls' \subseteq TlsImages
  <2>1. CASE tls' = tls BY <2>1
  <2>2. ASSUME NEW d \in Fds, NEW n \in Lengths, MMapElf(d, n), tls' # tls PROVE tls' \subseteq TlsImages
    <3>1. d \in DOMAIN files /\ tls' = Files[files[d].name].tls BY <2>2 DEF MMapElf
    <3>2. QED BY <3>1, ArgumentsAssumption
  <2>3. QED
    BY <2>1, <2>2 DEF Next, vars, AnswerAt, Write, OpenAt, Read, PRead, Brk, MProtect, MMapAnonymous,
       MMapData, SetFs, AnswerOnly, Unsupported, Exit
<1>6. \A d \in DOMAIN files' : files'[d].name \in DOMAIN Files
  <2>1. CASE files' = files BY <2>1
  <2>2. ASSUME NEW atCwd \in BOOLEAN, NEW b \in Buffers, NEW f \in DOMAIN Files, OpenAt(atCwd, b.at, b.len, f)
        PROVE  \A d \in DOMAIN files' : files'[d].name \in DOMAIN Files
    <3>1. CASE files' = files BY <3>1
    <3>2. CASE files' = [d \in DOMAIN files \cup {nextFd} |->
                           IF d = nextFd THEN [name |-> f, offset |-> 0] ELSE files[d]]
      BY <3>2
    <3>3. QED BY <2>2, <3>1, <3>2 DEF OpenAt
  <2>3. ASSUME NEW d \in Fds, NEW b \in Buffers, Read(d, b.at, b.len)
        PROVE  \A e \in DOMAIN files' : files'[e].name \in DOMAIN Files
    <3>1. CASE files' = files BY <3>1
    <3>2. CASE \E end : files' = [files EXCEPT ![d].offset = end]
      <4>1. PICK end : files' = [files EXCEPT ![d].offset = end] BY <3>2
      <4>2. ASSUME NEW e \in DOMAIN files' PROVE files'[e].name = files[e].name BY <4>1
      <4>3. QED BY <4>1, <4>2
    <3>3. QED BY <2>3, <3>1, <3>2 DEF Read
  <2>4. QED
    BY <2>1, <2>2, <2>3 DEF Next, vars, AnswerAt, Write, PRead, Brk, MProtect, MMapAnonymous,
       MMapData, MMapElf, SetFs, AnswerOnly, Unsupported, Exit
<1>7. QED BY <1>1, <1>2, <1>3, <1>4, <1>5, <1>6

\* What a descriptor has delivered are the positions before its own.
ReadsInv ==
  /\ DOMAIN delivered = DOMAIN files
  /\ \A d \in DOMAIN files :
       /\ files[d] \in [name : DOMAIN Files, offset : Nat]
       /\ files[d].offset <= Files[files[d].name].size
       /\ delivered[d] = [i \in 1 .. files[d].offset |-> i]

LEMMA PositionsFollow ==
  ASSUME NEW start \in Nat, NEW end \in Nat, start <= end
  PROVE  [i \in 1 .. start |-> i] \o Positions(start, end) = [i \in 1 .. end |-> i]
<1> DEFINE before == [i \in 1 .. start |-> i]
           new == [i \in 1 .. end - start |-> start + i]
<1>1. before \in Seq(Nat) /\ Len(before) = start BY DEF before
<1>2. end - start \in Nat /\ new \in Seq(Nat) /\ Len(new) = end - start BY DEF new
<1>3. before \o new = [i \in 1 .. start + (end - start) |->
                          IF i <= start THEN before[i] ELSE new[i - start]]
  BY <1>1, <1>2
<1>4. start + (end - start) = end OBVIOUS
<1>5. \A i \in 1 .. end : (IF i <= start THEN before[i] ELSE new[i - start]) = i OBVIOUS
<1> HIDE DEF before, new
<1>6. before \o new = [i \in 1 .. end |-> i] BY <1>3, <1>4, <1>5
<1>7. QED BY <1>6 DEF before, new, Positions

LEMMA ReadReads ==
  ASSUME IInv, ReadsInv, NEW d \in Fds, NEW b \in Buffers, Read(d, b.at, b.len), b.len \in Nat
  PROVE  ReadsInv'
<1>1. CASE UNCHANGED <<files, delivered>> BY <1>1 DEF ReadsInv
<1>2. CASE /\ d \in DOMAIN files
           /\ files' = [files EXCEPT ![d].offset = ReadEnd(files[d].name, files[d].offset, b.len)]
           /\ delivered' = [delivered EXCEPT ![d] =
                @ \o Positions(files[d].offset, ReadEnd(files[d].name, files[d].offset, b.len))]
  <2> DEFINE name == files[d].name
             start == files[d].offset
             end == ReadEnd(name, start, b.len)
  <2>1. /\ files' = [files EXCEPT ![d].offset = end]
        /\ delivered' = [delivered EXCEPT ![d] = @ \o Positions(start, end)]
    BY <1>2
  <2>2. name \in DOMAIN Files /\ Files[name].size \in Nat /\ start \in Nat /\ start <= Files[name].size
    BY <1>2, ArgumentsAssumption DEF IInv, ReadsInv
  <2>3. end \in Nat /\ start <= end /\ end <= Files[name].size BY <2>2 DEF ReadEnd
  <2>4. delivered[d] \o Positions(start, end) = [i \in 1 .. end |-> i]
    BY <1>2, <2>2, <2>3, PositionsFollow DEF ReadsInv
  <2>5. DOMAIN files' = DOMAIN files /\ DOMAIN delivered' = DOMAIN files BY <2>1 DEF ReadsInv
  <2>6. delivered'[d] = [i \in 1 .. end |-> i] /\ \A e \in DOMAIN files : e # d => delivered'[e] = delivered[e]
    BY <1>2, <2>1, <2>4 DEF ReadsInv
  <2> HIDE DEF end
  <2>7. /\ files'[d].offset = end /\ files'[d].name = name
        /\ files'[d] \in [name : DOMAIN Files, offset : Nat]
        /\ \A e \in DOMAIN files : e # d => files'[e] = files[e]
    <3>1. files[d] \in [name : DOMAIN Files, offset : Nat] BY <1>2 DEF ReadsInv
    <3>2. files'[d] = [files[d] EXCEPT !.offset = end] BY <1>2, <2>1
    <3>3. \A e \in DOMAIN files : e # d => files'[e] = files[e] BY <1>2, <2>1
    <3>4. QED BY <2>3, <3>1, <3>2, <3>3
  <2>8. QED BY <2>3, <2>5, <2>6, <2>7 DEF ReadsInv
<1>3. QED BY <1>1, <1>2 DEF Read

LEMMA OpenReads ==
  ASSUME IInv, ReadsInv, NEW atCwd, NEW addr, NEW len, NEW name \in DOMAIN Files, OpenAt(atCwd, addr, len, name)
  PROVE  ReadsInv'
<1>1. CASE UNCHANGED <<files, delivered>> BY <1>1 DEF ReadsInv
<1>2. CASE /\ files' = [d \in DOMAIN files \cup {nextFd} |->
                          IF d = nextFd THEN [name |-> name, offset |-> 0] ELSE files[d]]
           /\ delivered' = [d \in DOMAIN delivered \cup {nextFd} |->
                              IF d = nextFd THEN <<>> ELSE delivered[d]]
  <2>1. <<>> = [i \in 1 .. 0 |-> i] OBVIOUS
  <2>2. 0 \in Nat /\ 0 <= Files[name].size BY ArgumentsAssumption
  <2>3. DOMAIN delivered' = DOMAIN files' BY <1>2 DEF ReadsInv
  <2>4. ASSUME NEW d \in DOMAIN files'
        PROVE  /\ files'[d] \in [name : DOMAIN Files, offset : Nat]
               /\ files'[d].offset <= Files[files'[d].name].size
               /\ delivered'[d] = [i \in 1 .. files'[d].offset |-> i]
    <3>1. CASE d = nextFd BY <1>2, <2>1, <2>2, <3>1
    <3>2. CASE d # nextFd
      <4>1. d \in DOMAIN files /\ files'[d] = files[d] /\ delivered'[d] = delivered[d]
        BY <1>2, <3>2 DEF ReadsInv
      <4>2. QED BY <4>1 DEF ReadsInv
    <3>3. QED BY <3>1, <3>2
  <2>5. QED BY <2>3, <2>4 DEF ReadsInv
<1>3. QED BY <1>1, <1>2 DEF OpenAt

LEMMA NextReads ==
  ASSUME IInv, ReadsInv, [Next]_vars PROVE ReadsInv'
<1>1. CASE UNCHANGED <<files, delivered>> BY <1>1 DEF ReadsInv
<1>2. ASSUME NEW atCwd \in BOOLEAN, NEW b \in Buffers, NEW f \in DOMAIN Files, OpenAt(atCwd, b.at, b.len, f)
      PROVE  ReadsInv'
  BY <1>2, OpenReads
<1>3. ASSUME NEW d \in Fds, NEW b \in Buffers, Read(d, b.at, b.len) PROVE ReadsInv'
  BY <1>3, ReadReads, ArgumentsAssumption
<1>4. QED
  BY <1>1, <1>2, <1>3 DEF Next, vars, AnswerAt, Write, PRead, Brk, MProtect, MMapAnonymous,
     MMapData, MMapElf, SetFs, AnswerOnly, Unsupported, Exit

\* Cells that are added were free.
LEMMA GrowingMapsCells ==
  ASSUME IInv, Grows PROVE Space!MapCells
<1> DEFINE old == SpaceOf(mem)
           now == SpaceOf(mem')
<1>1. Space!OneMeaning(now) BY ApartHasOneMeaning DEF Grows
<1>2. old \subseteq now BY DEF Grows
<1>3. Space!New = now \ old BY DEF Space!New, SpaceOf
<1> HIDE DEF old, now
<1>4. Space!OneMeaning(Space!New) BY <1>1, <1>3 DEF Space!OneMeaning
<1>5. Space!Cells(Space!New) \cap Space!Cells(old) = {}
  BY <1>1, <1>2, <1>3 DEF Space!OneMeaning, Space!Cells
<1>6. QED BY <1>2, <1>4, <1>5 DEF Space!MapCells, old, now, SpaceOf

\* Repainting changes the cells of one interval, which were mapped.
LEMMA RepaintingProtectsCells ==
  ASSUME IInv, Repaints PROVE Space!ProtectCells
<1> DEFINE old == SpaceOf(mem)
           now == SpaceOf(mem')
<1>1. PICK addr \in Nat, len \in Nat \ {0}, perm \in Perms :
        /\ addr .. addr + len - 1 \subseteq Mapped(mem)
        /\ now = Repainted(old, addr, len, perm)
  BY DEF Repaints
<1> DEFINE range == addr .. addr + len - 1
<1>2. range \subseteq Space!Cells(old) BY <1>1, MappedIsSpace
<1>3. Space!New = now \ old BY DEF Space!New, SpaceOf
<1>4. Space!OneMeaning(old) BY ApartHasOneMeaning DEF IInv
<1> HIDE DEF old, now
<1>5. now = {x \in old : x[1] \notin range} \cup (range \X {perm}) BY <1>1 DEF Repainted
<1>6. Space!New \subseteq range \X {perm} BY <1>3, <1>5
<1>7. ASSUME NEW x \in Space!New, NEW y \in Space!New, NEW c \in x[1] .. y[1] PROVE <<c, perm>> \in now
  <2>1. x[1] \in range /\ y[1] \in range BY <1>6
  <2>2. c \in range BY <2>1
  <2>3. QED BY <1>5, <2>2
<1>8. ASSUME NEW x \in now PROVE x \in {z \in old : z[1] \notin Space!Cells(Space!New)} \cup Space!New
  <2>1. SUFFICES ASSUME x \notin Space!New PROVE x[1] \notin Space!Cells(Space!New) /\ x \in old
    BY <1>3
  <2>2. x \in old BY <1>3, <2>1
  <2>3. ASSUME NEW y \in Space!New, y[1] = x[1] PROVE FALSE
    <3>1. y[1] \in range /\ y \in range \X {perm} /\ y \notin old BY <1>3, <1>6
    <3>2. x \in range \X {perm} BY <1>5, <2>3, <3>1
    <3>3. x = y BY <2>3, <3>1, <3>2
    <3>4. QED BY <2>2, <3>1, <3>3
  <2>4. QED BY <2>2, <2>3 DEF Space!Cells
<1>9. ASSUME NEW x \in old, x[1] \notin Space!Cells(Space!New) PROVE x \in now
  <2>1. CASE x[1] \notin range BY <1>5, <2>1
  <2>2. CASE x[1] \in range
    <3>1. <<x[1], perm>> \in now BY <1>5, <2>2
    <3>2. <<x[1], perm>> \in old
      <4>1. <<x[1], perm>>[1] = x[1] OBVIOUS
      <4>2. QED BY <1>3, <1>9, <3>1, <4>1 DEF Space!Cells
    <3>3. x = <<x[1], perm>> BY <1>4, <3>2 DEF Space!OneMeaning
    <3>4. QED BY <3>1, <3>3
  <2>3. QED BY <2>1, <2>2
<1>10. now = {x \in old : x[1] \notin Space!Cells(Space!New)} \cup Space!New
  <2>1. Space!New \subseteq now BY <1>3
  <2>2. QED BY <1>8, <1>9, <2>1
<1>11. Space!New \subseteq Space!Cells(old) \X {perm} BY <1>2, <1>6
<1>12. QED BY <1>7, <1>10, <1>11 DEF Space!ProtectCells, old, now, SpaceOf

-----------------------------------------------------------------------------
(* Theorems.                                                               *)

\* The loader of static programs leaves a sound image: whatever segments and
\* stack a program asks for, once they are planned and added, the windows
\* above them are apart from them and from each other, and the heap is mapped.
THEOREM StaticImageIsSound ==
  ASSUME NEW S \in SUBSET Segment, CanPlan(S), SegmentsFit(S),
         \A s \in S : Larger(s.filesz, s.memsz) # 0,
         \E s : IsLowest(s, S), \E s : IsUppermost(s, S),
         NEW stack \in Nat, NEW hasTls \in BOOLEAN
  PROVE  Sound(StaticImage(S, stack, hasTls))
<1> DEFINE low == CHOOSE s \in S : IsLowest(s, S)
           up == CHOOSE s \in S : IsUppermost(s, S)
           base == PlannedBase(S)
           top == PlannedTop(S)
           stackEnd == StaticStackEnd(top, stack)
           heap == stackEnd + 3 * PageSize
           segments == {SegmentRegion(s) : s \in S}
           windows == StaticWindows(top, stack, hasTls)
           m == StaticImage(S, stack, hasTls).mem
<1>1. low \in S /\ IsLowest(low, S) BY DEF IsLowest
<1>2. up \in S /\ IsUppermost(up, S) BY DEF IsUppermost
<1>3. base = AlignDown(low.vaddr) /\ top = PlannedEnd(up) BY DEF PlannedBase, PlannedTop
<1> HIDE DEF low, up
<1>4. \A r \in segments : r \in Region /\ base <= r.base /\ r.base < r.end /\ r.end <= top
  BY <1>1, <1>2, <1>3, SegmentsBetween
<1>5. base \in Nat /\ top \in Nat /\ base <= top
  <2>1. low.vaddr \in Nat BY <1>1 DEF Segment
  <2>2. base \in Nat BY <1>3, <2>1, AlignDownIsPage
  <2>3. up.vaddr \in Nat /\ up.filesz \in Nat /\ up.memsz \in Nat BY <1>2 DEF Segment
  <2>4. AlignUp(up.filesz) \in Nat BY <2>3, AlignUpType
  <2>5. Larger(up.vaddr + up.memsz, up.vaddr + AlignUp(up.filesz)) \in Nat BY <2>3, <2>4 DEF Larger
  <2>6. top \in Nat BY <1>3, <2>5, AlignUpType DEF PlannedEnd
  <2>7. SegmentRegion(low) \in segments BY <1>1
  <2>8. QED BY <1>4, <2>2, <2>6, <2>7 DEF Region
<1>6. AlignUp(stack) \in Nat BY AlignUpType
<1>7. stackEnd \in Nat /\ top < stackEnd /\ heap \in Nat /\ heap = stackEnd + 3 * PageSize /\ stackEnd < heap
  BY <1>5, <1>6, PageSizeAssumption DEF StaticStackEnd
<1>8. stackEnd = top + (AlignUp(stack) + PageSize) BY <1>5, <1>6, PageSizeAssumption DEF StaticStackEnd
<1>9. ReadWrite \in Perms BY DEF ReadWrite, Perms
<1> DEFINE stackWindow == RegionAt(top, AlignUp(stack) + PageSize, ReadWrite)
           heapWindow == RegionAt(stackEnd + 3 * PageSize, HeapSize, ReadWrite)
           tlsWindow == RegionAt(stackEnd, 3 * PageSize, ReadWrite)
<1>10. windows = {stackWindow, heapWindow} \cup (IF hasTls THEN {tlsWindow} ELSE {})
  BY DEF StaticWindows
<1>11. /\ m.min = base /\ m.max = heap + HeapSize + MmapRoom /\ m.regions = segments \cup windows
       /\ m = [min |-> m.min, max |-> m.max, regions |-> m.regions]
       /\ StaticImage(S, stack, hasTls).heapStart = heap
       /\ StaticImage(S, stack, hasTls).heapEnd = heap + HeapSize
  BY DEF StaticImage
<1> HIDE DEF base, top, stackEnd, heap, segments, windows, m
<1>12. /\ stackWindow = [base |-> top, end |-> stackEnd, perm |-> ReadWrite]
       /\ heapWindow = [base |-> heap, end |-> heap + HeapSize, perm |-> ReadWrite]
       /\ tlsWindow = [base |-> stackEnd, end |-> heap, perm |-> ReadWrite]
  BY <1>7, <1>8 DEF RegionAt
<1> HIDE DEF stackWindow, heapWindow, tlsWindow
<1>13. \A r \in windows :
         r \in Region /\ top <= r.base /\ r.base < r.end /\ r.end <= heap + HeapSize
  BY <1>5, <1>7, <1>9, <1>10, <1>12, LayoutAssumption DEF Region
<1>14. \A r, s \in windows : r # s => ~Overlaps(r, s)
  BY <1>5, <1>7, <1>10, <1>12, LayoutAssumption DEF Overlaps
<1>15. \A r, s \in segments : r # s => ~Overlaps(r, s) BY DEF segments, SegmentsFit
<1>16. \A r \in segments, s \in windows : ~Overlaps(r, s) /\ ~Overlaps(s, r)
  BY <1>4, <1>5, <1>13 DEF Overlaps, Region
<1>17. Apart(m)
  <2>1. m \in Memory BY <1>4, <1>5, <1>7, <1>11, <1>13, LayoutAssumption DEF Memory
  <2>2. \A r \in m.regions : m.min <= r.base /\ r.base < r.end /\ r.end <= m.max
    <3>1. \A r \in segments : m.min <= r.base /\ r.base < r.end /\ r.end <= m.max
      BY <1>4, <1>5, <1>7, <1>11, LayoutAssumption DEF Region
    <3>2. \A r \in windows : m.min <= r.base /\ r.base < r.end /\ r.end <= m.max
      BY <1>5, <1>7, <1>11, <1>13, LayoutAssumption DEF Region
    <3>3. QED BY <1>11, <3>1, <3>2
  <2>3. \A r, s \in m.regions : r # s => ~Overlaps(r, s) BY <1>11, <1>14, <1>15, <1>16
  <2>4. QED BY <2>1, <2>2, <2>3 DEF Apart
<1>18. heap .. heap + HeapSize - 1 \subseteq Mapped(m)
  <2>1. heapWindow \in m.regions BY <1>10, <1>11
  <2>2. CellsOf(heapWindow) = heap .. heap + HeapSize - 1 BY <1>7, <1>12, LayoutAssumption DEF CellsOf
  <2>3. QED BY <2>1, <2>2 DEF Mapped
<1>19. WholePages(Mapped(m))
  <2>1. PageOffset(top) = 0
    <3>1. up.vaddr \in Nat /\ up.filesz \in Nat /\ up.memsz \in Nat BY <1>2 DEF Segment
    <3>2. AlignUp(up.filesz) \in Nat BY <3>1, AlignUpType
    <3>3. Larger(up.vaddr + up.memsz, up.vaddr + AlignUp(up.filesz)) \in Nat BY <3>1, <3>2 DEF Larger
    <3>4. QED BY <1>3, <3>3, AlignUpIsPage DEF PlannedEnd
  <2>2. PageOffset(PageSize) = 0 /\ PageOffset(3 * PageSize) = 0 /\ 3 * PageSize \in Int
    <3>1. PageSize = PageSize * 1 /\ 3 * PageSize = PageSize * 3 BY PageSizeAssumption
    <3>2. PageOffset(PageSize * 1) = 0 /\ PageOffset(PageSize * 3) = 0 BY MultipleIsWhole
    <3>3. QED BY <3>1, <3>2, PageSizeAssumption
  <2>3. PageOffset(stackEnd) = 0
    <3>1. PageOffset(AlignUp(stack)) = 0 BY AlignUpIsPage
    <3>2. PageOffset(AlignUp(stack) + PageSize) = 0 BY <1>6, <2>2, <3>1, OffsetSum, PageSizeAssumption
    <3>3. QED BY <1>5, <1>6, <1>8, <2>1, <3>2, OffsetSum, PageSizeAssumption
  <2>4. PageOffset(heap) = 0 BY <1>7, <2>2, <2>3, OffsetSum
  <2>5. PageOffset(heap + HeapSize) = 0 BY <1>7, <2>4, OffsetSum, LayoutAssumption
  <2>6. \A r \in windows : PageOffset(r.base) = 0 /\ PageOffset(r.end) = 0
    BY <1>10, <1>12, <2>1, <2>3, <2>4, <2>5
  <2>7. \A r \in segments : PageOffset(r.base) = 0 /\ PageOffset(r.end) = 0
    BY SegmentIsPaged DEF segments
  <2>8. \A r \in m.regions : r.base \in Nat /\ r.end \in Nat BY <1>4, <1>11, <1>13 DEF Region
  <2>9. QED BY <1>11, <2>6, <2>7, <2>8, WholeRegions
<1>20. QED BY <1>7, <1>11, <1>17, <1>18, <1>19, LayoutAssumption DEF Sound, m

\* So does the loader of programs with libraries, once their objects are mapped
\* apart from each other.
THEOREM CombinedImageIsSound ==
  ASSUME NEW preferred \in Nat, NEW top \in Nat, preferred <= top, NEW objects \in SUBSET Region,
         \A r \in objects : preferred <= r.base /\ r.base < r.end /\ r.end <= top,
         \A r, s \in objects : r # s => ~Overlaps(r, s),
         PageOffset(top) = 0, \A r \in objects : PageOffset(r.base) = 0 /\ PageOffset(r.end) = 0,
         NEW stack \in Nat \ {0}, PageOffset(stack) = 0
  PROVE  Sound(CombinedImage(preferred, top, objects, stack))
<1> DEFINE image == CombinedImage(preferred, top, objects, stack)
           m == image.mem
           tlsAt == TlsBase(top, stack)
           tlsEnd == tlsAt + TlsPages * PageSize
           bump == BumpBase(top, stack)
           heap == CombinedHeap(top, stack)
           windows == CombinedWindows(top, stack)
<1>1. TlsPages * PageSize \in Nat /\ TlsPages * PageSize > 0
  BY LayoutAssumption, PageSizeAssumption, SMT
<1>2. /\ tlsAt \in Nat /\ tlsEnd \in Nat /\ bump \in Nat /\ heap \in Nat
      /\ tlsAt = top + stack /\ tlsAt < tlsEnd
      /\ bump = tlsEnd + PageSize /\ heap = bump + BumpSize + PageSize
  BY <1>1, LayoutAssumption, PageSizeAssumption DEF TlsBase, BumpBase, CombinedHeap
<1>3. ReadWrite \in Perms BY DEF ReadWrite, Perms
<1> DEFINE stackWindow == [base |-> top, end |-> tlsAt, perm |-> ReadWrite]
           tlsWindow == [base |-> tlsAt, end |-> tlsEnd, perm |-> ReadWrite]
           bumpWindow == [base |-> bump, end |-> bump + BumpSize, perm |-> ReadWrite]
           heapWindow == [base |-> heap, end |-> heap + HeapSize, perm |-> ReadWrite]
<1>4. windows = {stackWindow, tlsWindow, bumpWindow, heapWindow}
  BY DEF CombinedWindows, RegionAt, TlsBase
<1>5. /\ m = [min |-> preferred, max |-> heap + HeapSize + MmapRoom, regions |-> objects \cup windows]
      /\ image.heapStart = heap /\ image.heapEnd = heap + HeapSize
  BY DEF CombinedImage
<1> HIDE DEF tlsAt, tlsEnd, bump, heap, windows, m, image
<1>6. \A r \in windows : r \in Region /\ top <= r.base /\ r.base < r.end /\ r.end <= heap + HeapSize
  BY <1>2, <1>3, <1>4, LayoutAssumption, PageSizeAssumption DEF Region
<1>7. \A r, s \in windows : r # s => ~Overlaps(r, s)
  BY <1>2, <1>4, LayoutAssumption, PageSizeAssumption DEF Overlaps
<1>8. \A r \in objects, s \in windows : ~Overlaps(r, s) /\ ~Overlaps(s, r)
  BY <1>6 DEF Overlaps, Region
<1>9. heap + HeapSize + MmapRoom \in Nat /\ heap + HeapSize <= heap + HeapSize + MmapRoom
      /\ top <= heap + HeapSize
  BY <1>2, LayoutAssumption, PageSizeAssumption
<1>10. Apart(m)
  <2>1. m \in Memory BY <1>5, <1>6, <1>9 DEF Memory
  <2>2. \A r \in m.regions : m.min <= r.base /\ r.base < r.end /\ r.end <= m.max
    <3>1. \A r \in objects : m.min <= r.base /\ r.base < r.end /\ r.end <= m.max
      BY <1>2, <1>5, <1>9, LayoutAssumption DEF Region
    <3>2. \A r \in windows : m.min <= r.base /\ r.base < r.end /\ r.end <= m.max
      BY <1>2, <1>5, <1>6, <1>9, LayoutAssumption DEF Region
    <3>3. QED BY <1>5, <3>1, <3>2
  <2>3. \A r, s \in m.regions : r # s => ~Overlaps(r, s) BY <1>5, <1>7, <1>8
  <2>4. QED BY <2>1, <2>2, <2>3 DEF Apart
<1>11. heap .. heap + HeapSize - 1 \subseteq Mapped(m)
  <2>1. heapWindow \in m.regions BY <1>4, <1>5
  <2>2. CellsOf(heapWindow) = heap .. heap + HeapSize - 1 BY <1>2, LayoutAssumption DEF CellsOf
  <2>3. QED BY <2>1, <2>2 DEF Mapped
<1>12. WholePages(Mapped(m))
  <2>1. PageOffset(PageSize) = 0 /\ PageOffset(TlsPages * PageSize) = 0
    <3>1. PageSize = PageSize * 1 /\ TlsPages * PageSize = PageSize * TlsPages
      BY PageSizeAssumption, LayoutAssumption, SMT
    <3>2. PageOffset(PageSize * 1) = 0 /\ PageOffset(PageSize * TlsPages) = 0
      BY MultipleIsWhole, LayoutAssumption
    <3>3. QED BY <3>1, <3>2
  <2>2. PageOffset(tlsAt) = 0 BY <1>2, OffsetSum
  <2>3. PageOffset(tlsEnd) = 0 BY <1>1, <1>2, <2>1, <2>2, OffsetSum DEF tlsEnd
  <2>4. PageOffset(bump) = 0 BY <1>2, <2>1, <2>3, OffsetSum, PageSizeAssumption
  <2>5. PageOffset(bump + BumpSize) = 0 /\ bump + BumpSize \in Int
    <3>1. bump \in Int /\ BumpSize \in Int /\ PageOffset(BumpSize) = 0 BY <1>2, LayoutAssumption
    <3>2. PageOffset(bump + BumpSize) = 0 BY <2>4, <3>1, OffsetSum
    <3>3. QED BY <3>1, <3>2
  <2>6. PageOffset(heap) = 0 BY <1>2, <2>1, <2>5, OffsetSum, PageSizeAssumption
  <2>7. PageOffset(heap + HeapSize) = 0 BY <1>2, <2>6, OffsetSum, LayoutAssumption
  <2>8. \A r \in windows : PageOffset(r.base) = 0 /\ PageOffset(r.end) = 0
    BY <1>4, <2>2, <2>3, <2>4, <2>5, <2>6, <2>7
  <2>9. \A r \in m.regions : r.base \in Nat /\ r.end \in Nat BY <1>5, <1>6 DEF Region
  <2>10. QED BY <1>5, <2>8, <2>9, WholeRegions
<1>13. Sound(image)
  <2>1. image.mem = m BY DEF m
  <2>2. heap <= heap + HeapSize /\ heap + HeapSize \in Nat BY <1>2, LayoutAssumption
  <2>3. Apart(image.mem) BY <1>10, <2>1
  <2>4. image.heapStart \in Nat /\ image.heapEnd \in Nat /\ image.heapStart <= image.heapEnd
    BY <1>2, <1>5, <2>2
  <2>5. image.heapStart .. image.heapEnd - 1 \subseteq Mapped(image.mem)
    <3>1. image.heapStart = heap /\ image.heapEnd = heap + HeapSize BY <1>5
    <3>2. Mapped(m) = Mapped(image.mem) BY <2>1
    <3>3. image.heapStart .. image.heapEnd - 1 = heap .. heap + HeapSize - 1 BY <1>2, <3>1, LayoutAssumption
    <3>4. QED BY <1>11, <3>2, <3>3
  <2>6. WholePages(Mapped(image.mem)) BY <1>12, <2>1
  <2>7. QED BY <2>3, <2>4, <2>5, <2>6 DEF Sound
<1>14. QED BY <1>13 DEF image

\* Whatever a guest calls, and in whatever order, no two regions of its memory
\* share an address and none leaves the bounds.
THEOREM MemoryStaysApart == Spec => []RegionsApart
<1>1. IInv => RegionsApart BY DEF IInv, RegionsApart
<1>2. QED BY <1>1, InitIInv, NextIInv, PTL DEF Spec

\* Whatever brk has granted is mapped.
THEOREM HeapStaysMapped == Spec => []BrkIsBacked
<1>1. IInv => BrkIsBacked
  <2>1. ASSUME IInv PROVE BrkIsBacked
    <3>1. guest.image.heapStart \in Nat /\ guest.image.heapEnd \in Nat
      BY <2>1, GuestsAssumption DEF IInv, Sound
    <3>2. guest.image.heapStart .. brk - 1 \subseteq guest.image.heapStart .. guest.image.heapEnd - 1
      BY <2>1, <3>1 DEF IInv
    <3>3. QED BY <2>1, <3>2 DEF IInv, BrkIsBacked
  <2>2. QED BY <2>1
<1>2. QED BY <1>1, InitIInv, NextIInv, PTL DEF Spec

\* What libc writes around a thread pointer stays mapped, whatever was mapped or
\* protected since (syscall_bridge.rs:840-887).
THEOREM ThreadPointerStaysBacked == Spec => []ThreadPointerIsBacked
<1>1. Init => IInv /\ ThreadPointerIsBacked BY InitIInv DEF Init, ThreadPointerIsBacked, None
<1>2. ASSUME IInv, ThreadPointerIsBacked, [Next]_vars PROVE ThreadPointerIsBacked'
  <2>1. Mapped(mem) \subseteq Mapped(mem') BY <1>2, StepOfMemory, MappedStays
  <2>2. CASE fs' = fs BY <1>2, <2>1, <2>2 DEF ThreadPointerIsBacked
  <2>3. ASSUME NEW a \in Addresses, SetFs(a), fs' # fs PROVE ThreadPointerIsBacked'
    BY <1>2, <2>3, SetFsBacks DEF ThreadPointerIsBacked, Some
  <2>4. QED
    BY <1>2, <2>2, <2>3 DEF Next, vars, AnswerAt, Write, OpenAt, Read, PRead, Brk, MProtect,
       MMapAnonymous, MMapData, MMapElf, AnswerOnly, Unsupported, Exit
<1>3. QED BY <1>1, <1>2, NextIInv, PTL DEF Spec

\* The READs of a descriptor are contiguous, whatever PREADs, mappings and READs
\* of other descriptors come between them (syscall_bridge.rs:761-782).
THEOREM ReadsStayContiguous == Spec => []ReadsAreContiguous
<1>1. Init => IInv /\ ReadsInv BY InitIInv DEF Init, ReadsInv
<1>2. ReadsInv => ReadsAreContiguous BY DEF ReadsInv, ReadsAreContiguous
<1>3. QED BY <1>1, <1>2, NextIInv, NextReads, PTL DEF Spec

\* The kernel implements AddressSpace: each call maps free cells, or protects one
\* interval of mapped ones, or leaves the address space alone.
THEOREM KernelKeepsAddressSpace == Spec => KeepsAddressSpace
<1>1. Init => Space!Init
  <2>1. Init => Apart(mem) BY InitIInv DEF IInv
  <2>2. QED BY <2>1, ApartHasOneMeaning DEF Space!Init
<1>2. IInv /\ [Next]_vars => [Space!Next]_(SpaceOf(mem))
  BY StepOfMemory, GrowingMapsCells, RepaintingProtectsCells DEF Space!Next
<1>3. QED BY <1>1, <1>2, InitIInv, NextIInv, PTL DEF Spec, KeepsAddressSpace, Space!Spec

-----------------------------------------------------------------------------
(* The emulation.                                                          *)

LEMMA EmulatedCallIsACall == EmulationNext => Next
<1>1. Routed => Next BY DEF Routed, Next
<1>2. ASSUME NEW b \in Buffers, EmulatedWrite(b.at, b.len) PROVE Next
  <2>1. Write(1, b.at, b.len) BY <1>2 DEF EmulatedWrite, Write
  <2>2. QED BY <2>1 DEF Next
<1>3. ASSUME NEW bs \in SUBSET Buffers, EmulatedWritev(bs) PROVE Next
  <2>1. AnswerOnly \/ Unsupported BY <1>3 DEF EmulatedWritev, AnswerOnly, Unsupported
  <2>2. QED BY <2>1 DEF Next
<1>4. ASSUME NEW b \in Buffers, Uname(b.at) PROVE Next
  <2>1. AnswerOnly \/ Unsupported BY <1>4 DEF Uname, AnswerOnly, Unsupported
  <2>2. QED BY <2>1 DEF Next
<1>5. EmulatedExit => Next BY DEF EmulatedExit, Exit, Next
<1>6. Unknown => Next BY DEF Unknown, Unsupported, Next
<1>7. QED BY <1>1, <1>2, <1>3, <1>4, <1>5, <1>6 DEF EmulationNext

\* What the emulation answers itself leaves the memory as the bridge would, so
\* a dynamically linked program keeps the guarantees of a static one.
THEOREM EmulationServesAsKernel ==
  EmulationSpec => KeepsAddressSpace /\ [](RegionsApart /\ BrkIsBacked)
<1>1. EmulationSpec => Spec BY EmulatedCallIsACall, PTL DEF EmulationSpec, Spec
<1>2. QED BY <1>1, MemoryStaysApart, HeapStaysMapped, KernelKeepsAddressSpace, PTL

-----------------------------------------------------------------------------
(* The executor's table: handles and the pipes they share.                 *)

Reports == [succeeded : Nat, failed : Nat, missed : Nat]
Pipes   == [held : Seq(Nat), closed : BOOLEAN, sent : Seq(Nat), got : Seq(Nat)]

\* A handle stands for a file, or for an end of a pipe that was made.
Stands(h) ==
  \/ h.kind = "file"
  \/ \E k \in DOMAIN pipes : h = Host!Reader(k)
  \/ \E k \in DOMAIN pipes, peer \in 0 .. hostNextFd - 1 : h = Host!Writer(peer, k)

\* A writer's peer, as long as its number is taken, is its own pipe's reader.
Paired(h) ==
  h.kind = "writer" /\ h.peer \in DOMAIN handles => handles[h.peer] = Host!Reader(h.pipe)

HostType ==
  /\ report \in Reports /\ pipes \in Seq(Pipes)
  /\ hostNextFd \in Nat /\ DOMAIN handles \subseteq 0 .. hostNextFd - 1

HostInv ==
  /\ HostType
  /\ \A fd \in DOMAIN handles : Stands(handles[fd]) /\ Paired(handles[fd])
  /\ \A k \in DOMAIN pipes : pipes[k].got \o pipes[k].held = pipes[k].sent

LEMMA SameCount == \A S : Rules!Cardinality(S) = Cardinality(S)
  BY DEF Rules!Cardinality, Cardinality

LEMMA Joined == \A a, b, c \in Seq(Nat) : (a \o b) \o c = a \o (b \o c)
  BY ConcatAssociative

\* Numbers are given out upwards, so a new handle takes nobody's peer.
LEMMA Given ==
  ASSUME HostInv, NEW h, Host!Grant(<<h>>), UNCHANGED pipes, Stands(h), Paired(h), report' \in Reports
  PROVE  HostInv'
<1>1. Len(<<h>>) = 1 /\ <<h>>[1] = h OBVIOUS
<1>2. hostNextFd' = hostNextFd + 1 /\ hostNextFd \in Nat BY <1>1 DEF Host!Grant, HostInv, HostType
<1>3. hostNextFd .. hostNextFd + Len(<<h>>) - 1 = {hostNextFd} BY <1>1, <1>2
<1>4. /\ DOMAIN handles' = DOMAIN handles \cup {hostNextFd}
      /\ handles'[hostNextFd] = h
      /\ \A fd \in DOMAIN handles : fd # hostNextFd /\ handles'[fd] = handles[fd]
  <2>1. \A fd \in DOMAIN handles : fd # hostNextFd BY <1>2 DEF HostInv, HostType
  <2>2. handles' = [fd \in DOMAIN handles \cup {hostNextFd} |->
                     IF fd \in {hostNextFd} THEN <<h>>[fd - hostNextFd + 1] ELSE handles[fd]]
    BY <1>3 DEF Host!Grant
  <2>3. hostNextFd - hostNextFd + 1 = 1 BY <1>2
  <2>4. QED BY <1>1, <2>1, <2>2, <2>3
<1>5. ASSUME NEW g, Stands(g), Paired(g) PROVE Stands(g)' /\ Paired(g)'
  <2>1. Stands(g)' BY <1>2, <1>5 DEF Stands, Host!Reader, Host!Writer
  <2>2. g.kind = "writer" => g.peer # hostNextFd
    BY <1>2, <1>5 DEF Stands, Host!Reader, Host!Writer
  <2>3. Paired(g)' BY <1>4, <1>5, <2>2 DEF Paired, Host!Reader
  <2>4. QED BY <2>1, <2>3
<1>6. (\A fd \in DOMAIN handles : Stands(handles[fd]) /\ Paired(handles[fd]))'
  <2>1. ASSUME NEW fd \in DOMAIN handles' PROVE (Stands(handles[fd]) /\ Paired(handles[fd]))'
    BY <1>4, <1>5, <2>1 DEF HostInv, Stands, Paired
  <2>2. QED BY <2>1
<1>7. HostType' BY <1>2, <1>4 DEF HostInv, HostType
<1>8. QED BY <1>6, <1>7 DEF HostInv

\* What changes of the pipes and of the handles that are left.
LEMMA Kept ==
  ASSUME HostInv, DOMAIN handles' \subseteq DOMAIN handles,
         \A fd \in DOMAIN handles' : handles'[fd] = handles[fd], UNCHANGED hostNextFd,
         pipes' \in Seq(Pipes), Len(pipes') = Len(pipes), report' \in Reports,
         \A k \in DOMAIN pipes : pipes'[k].got \o pipes'[k].held = pipes'[k].sent
  PROVE  HostInv'
<1>1. DOMAIN pipes' = DOMAIN pipes BY DEF HostInv, HostType
<1>2. HostType' BY DEF HostInv, HostType
<1>3. ASSUME NEW fd \in DOMAIN handles' PROVE (Stands(handles[fd]) /\ Paired(handles[fd]))'
  <2>1. Stands(handles[fd]) /\ Paired(handles[fd]) BY <1>3 DEF HostInv
  <2>2. Stands(handles[fd])' BY <1>1, <1>3, <2>1 DEF Stands, Host!Reader, Host!Writer
  <2>3. Paired(handles[fd])' BY <1>3, <2>1 DEF Paired, Host!Reader
  <2>4. QED BY <2>2, <2>3
<1>4. QED BY <1>1, <1>2, <1>3 DEF HostInv

LEMMA CloseKeeps ==
  ASSUME HostInv, NEW fd \in DOMAIN handles, handles' = Restrict(handles, DOMAIN handles \ {fd}),
         UNCHANGED hostNextFd, report' \in Reports,
         \/ UNCHANGED pipes
         \/ \E k \in DOMAIN pipes : pipes' = [pipes EXCEPT ![k].closed = TRUE]
  PROVE  HostInv'
<1>1. /\ DOMAIN handles' = DOMAIN handles \ {fd}
      /\ \A d \in DOMAIN handles' : handles'[d] = handles[d]
  BY DEF Restrict
<1>2. pipes \in Seq(Pipes) BY DEF HostInv, HostType
<1>3. CASE UNCHANGED pipes BY <1>1, <1>2, <1>3, Kept DEF HostInv
<1>4. ASSUME NEW k \in DOMAIN pipes, pipes' = [pipes EXCEPT ![k].closed = TRUE] PROVE HostInv'
  <2>1. pipes[k] \in Pipes BY <1>2
  <2>2. [pipes[k] EXCEPT !.closed = TRUE] \in Pipes BY <2>1 DEF Pipes
  <2>3. pipes' = [pipes EXCEPT ![k] = [pipes[k] EXCEPT !.closed = TRUE]] BY <1>4
  <2>4. pipes' \in Seq(Pipes) /\ Len(pipes') = Len(pipes) BY <1>2, <2>2, <2>3
  <2>5. ASSUME NEW l \in DOMAIN pipes PROVE pipes'[l].got \o pipes'[l].held = pipes'[l].sent
    <3>1. /\ pipes'[l].got = pipes[l].got /\ pipes'[l].held = pipes[l].held
          /\ pipes'[l].sent = pipes[l].sent
      BY <1>2, <2>1, <2>3 DEF Pipes
    <3>2. QED BY <3>1 DEF HostInv
  <2>6. QED BY <1>1, <2>4, <2>5, Kept
<1>5. QED BY <1>3, <1>4

\* What is read leaves the front of the buffer.
LEMMA ReadKeeps ==
  ASSUME HostInv, NEW fd \in DOMAIN handles, NEW k \in DOMAIN pipes, handles[fd] = Host!Reader(k),
         NEW count \in Nat, Host!ReadPipe(fd, count), UNCHANGED <<handles, hostNextFd>>,
         report' \in Reports
  PROVE  HostInv'
<1> DEFINE n == Host!Least(count, Len(pipes[k].held))
           front == SubSeq(pipes[k].held, 1, n)
           rest == SubSeq(pipes[k].held, n + 1, Len(pipes[k].held))
<1>1. pipes \in Seq(Pipes) /\ pipes[k] \in Pipes BY DEF HostInv, HostType
<1>2. pipes[k].held \in Seq(Nat) /\ pipes[k].got \in Seq(Nat) /\ Len(pipes[k].held) \in Nat
  BY <1>1 DEF Pipes
<1>3. n \in 0 .. Len(pipes[k].held) BY <1>2 DEF Host!Least
<1>4. pipes' = [pipes EXCEPT ![k] = [pipes[k] EXCEPT !.held = rest, !.got = pipes[k].got \o front]]
  <2>1. handles[fd].pipe = k BY DEF Host!Reader
  <2>2. QED BY <2>1 DEF Host!ReadPipe
<1> HIDE DEF n
<1>5. front \in Seq(Nat) /\ rest \in Seq(Nat)
  <2>1. \A i \in 1 .. Len(pipes[k].held) : pipes[k].held[i] \in Nat BY <1>2
  <2>2. (\A i \in 1 .. n : pipes[k].held[i] \in Nat)
        /\ (\A i \in n + 1 .. Len(pipes[k].held) : pipes[k].held[i] \in Nat)
    BY <1>2, <1>3, <2>1
  <2>3. n \in Int /\ n + 1 \in Int /\ Len(pipes[k].held) \in Int BY <1>2, <1>3
  <2>4. QED BY <2>2, <2>3, SubSeqProperties
<1>6. front \o rest = pipes[k].held
  <2>1. n \in 1 - 1 .. Len(pipes[k].held) /\ Len(pipes[k].held) \in n .. Len(pipes[k].held)
        /\ 1 \in 1 .. Len(pipes[k].held) + 1
    BY <1>2, <1>3
  <2>2. front \o rest = SubSeq(pipes[k].held, 1, Len(pipes[k].held))
    BY <1>2, <2>1, ConcatAdjacentSubSeq
  <2>3. QED BY <1>2, <2>2, SubSeqFull
<1>7. (pipes[k].got \o front) \o rest = pipes[k].sent
  <2> HIDE DEF front, rest
  <2>1. (pipes[k].got \o front) \o rest = pipes[k].got \o (front \o rest)
    BY <1>2, <1>5, Joined
  <2>2. QED BY <1>6, <2>1 DEF HostInv
<1> DEFINE new == [pipes[k] EXCEPT !.held = rest, !.got = pipes[k].got \o front]
<1>8. pipes[k].got \o front \in Seq(Nat) BY <1>2, <1>5, ConcatProperties
<1> HIDE DEF front, rest
<1>9. /\ new \in Pipes /\ new.got = pipes[k].got \o front /\ new.held = rest
      /\ new.sent = pipes[k].sent
  BY <1>1, <1>5, <1>8 DEF Pipes
<1> HIDE DEF new
<1>10. pipes' \in Seq(Pipes) /\ Len(pipes') = Len(pipes) BY <1>1, <1>4, <1>9 DEF new
<1>11. ASSUME NEW l \in DOMAIN pipes PROVE pipes'[l].got \o pipes'[l].held = pipes'[l].sent
  <2>1. CASE l = k
    <3>1. pipes'[k] = new BY <1>1, <1>4 DEF new
    <3>2. QED BY <1>7, <1>9, <2>1, <3>1
  <2>2. CASE l # k BY <1>1, <1>4, <2>2 DEF HostInv
  <2>3. QED BY <2>1, <2>2
<1>12. QED BY <1>10, <1>11, Kept

\* What is written reaches the reader of the writer's own pipe.
LEMMA WriteKeeps ==
  ASSUME HostInv, NEW fd \in DOMAIN handles, Host!Is(fd, "writer"), Host!PeerReads(fd),
         NEW count \in Nat, Host!WritePipe(fd, count), UNCHANGED <<handles, hostNextFd>>,
         report' \in Reports
  PROVE  HostInv'
<1> DEFINE h == handles[fd]
           k == h.pipe
           bytes == Host!Bytes(count)
<1>1. h.kind = "writer" /\ h.peer \in DOMAIN handles
  BY DEF Host!Is, Host!PeerReads, Host!IsOpen
<1>2. Stands(h) /\ Paired(h) BY DEF HostInv
<1>3. k \in DOMAIN pipes BY <1>1, <1>2 DEF Stands, Host!Reader, Host!Writer
<1>4. handles[h.peer] = Host!Reader(k) BY <1>1, <1>2 DEF Paired
<1>5. handles[h.peer].pipe = k BY <1>4 DEF Host!Reader
<1>6. pipes \in Seq(Pipes) BY DEF HostInv, HostType
<1>7. bytes \in Seq(Nat)
  <2>1. Host!Calls \in Nat BY DEF Host!Calls, HostInv, HostType, Reports
  <2>2. QED BY <2>1 DEF Host!Bytes
<1>8. pipes' = [l \in DOMAIN pipes |->
                 [pipes[l] EXCEPT !.held = IF l = k THEN pipes[l].held \o bytes ELSE pipes[l].held,
                                  !.sent = IF l = k THEN pipes[l].sent \o bytes ELSE pipes[l].sent]]
  BY <1>5 DEF Host!WritePipe
<1> HIDE DEF h, k, bytes
<1>9. ASSUME NEW l \in DOMAIN pipes
      PROVE  pipes'[l] \in Pipes /\ pipes'[l].got \o pipes'[l].held = pipes'[l].sent
  <2> pipes[l] \in Pipes BY <1>6
  <2> pipes[l].got \o pipes[l].held = pipes[l].sent BY DEF HostInv
  <2>1. pipes[l] \in Pipes /\ pipes[l].got \o pipes[l].held = pipes[l].sent OBVIOUS
  <2>2. CASE l # k
    <3>1. pipes'[l] = pipes[l] BY <1>8, <2>1, <2>2 DEF Pipes
    <3>2. QED BY <2>1, <3>1
  <2>3. CASE l = k
    <3>1. pipes[l].held \o bytes \in Seq(Nat) /\ pipes[l].sent \o bytes \in Seq(Nat)
      BY <1>7, <2>1, ConcatProperties DEF Pipes
    <3>2. /\ pipes'[l] \in Pipes /\ pipes'[l].got = pipes[l].got
          /\ pipes'[l].held = pipes[l].held \o bytes /\ pipes'[l].sent = pipes[l].sent \o bytes
      BY <1>8, <2>1, <2>3, <3>1 DEF Pipes
    <3>3. pipes[l].got \o (pipes[l].held \o bytes) = (pipes[l].got \o pipes[l].held) \o bytes
      <4>1. pipes[l].held \in Seq(Nat) /\ pipes[l].got \in Seq(Nat) BY <2>1 DEF Pipes
      <4>2. QED BY <1>7, <4>1, Joined
    <3>4. QED BY <2>1, <3>2, <3>3
  <2>4. QED BY <2>2, <2>3
<1>10. pipes' \in Seq(Pipes) /\ Len(pipes') = Len(pipes)
  <2>1. DOMAIN pipes = 1 .. Len(pipes) /\ Len(pipes) \in Nat BY <1>6
  <2>2. DOMAIN pipes' = 1 .. Len(pipes) BY <1>8, <2>1
  <2>3. pipes' = [l \in 1 .. Len(pipes) |-> pipes'[l]] BY <1>8, <2>1
  <2>4. pipes' \in [1 .. Len(pipes) -> Pipes] BY <1>9, <2>1, <2>3
  <2>5. QED BY <2>1, <2>2, <2>4
<1>11. QED BY <1>9, <1>10, Kept

\* A new pipe's ends know each other, and nobody else knows them.
LEMMA CreateKeeps ==
  ASSUME HostInv, report' \in Reports,
         pipes' = Append(pipes, [held |-> <<>>, closed |-> FALSE, sent |-> <<>>, got |-> <<>>]),
         Host!Grant(<<Host!Reader(Len(pipes) + 1), Host!Writer(hostNextFd, Len(pipes) + 1)>>)
  PROVE  HostInv'
<1> DEFINE k == Len(pipes) + 1
           reader == Host!Reader(k)
           writer == Host!Writer(hostNextFd, k)
           empty == [held |-> <<>>, closed |-> FALSE, sent |-> <<>>, got |-> <<>>]
<1>1. pipes \in Seq(Pipes) /\ hostNextFd \in Nat /\ DOMAIN handles \subseteq 0 .. hostNextFd - 1
  BY DEF HostInv, HostType
<1>2. empty \in Pipes BY DEF Pipes
<1>3. /\ pipes' \in Seq(Pipes) /\ DOMAIN pipes' = DOMAIN pipes \cup {k} /\ pipes'[k] = empty
      /\ \A l \in DOMAIN pipes : pipes'[l] = pipes[l]
  <2> HIDE DEF empty
  <2>1. pipes' = Append(pipes, empty) BY DEF empty
  <2>2. QED BY <1>1, <1>2, <2>1, AppendProperties
<1>4. hostNextFd' = hostNextFd + 2 BY <1>1 DEF Host!Grant
<1>5. /\ DOMAIN handles' = DOMAIN handles \cup {hostNextFd, hostNextFd + 1}
      /\ handles'[hostNextFd] = reader /\ handles'[hostNextFd + 1] = writer
      /\ \A fd \in DOMAIN handles : fd \notin {hostNextFd, hostNextFd + 1} /\ handles'[fd] = handles[fd]
  <2> HIDE DEF reader, writer
  <2>1. Len(<<reader, writer>>) = 2 /\ <<reader, writer>>[1] = reader /\ <<reader, writer>>[2] = writer
    OBVIOUS
  <2>2. hostNextFd .. hostNextFd + 2 - 1 = {hostNextFd, hostNextFd + 1} BY <1>1
  <2>3. handles' = [fd \in DOMAIN handles \cup {hostNextFd, hostNextFd + 1} |->
                     IF fd \in {hostNextFd, hostNextFd + 1} THEN <<reader, writer>>[fd - hostNextFd + 1]
                     ELSE handles[fd]]
    BY <2>1, <2>2 DEF Host!Grant, reader, writer
  <2>4. hostNextFd - hostNextFd + 1 = 1 BY <1>1
  <2>5. \A fd \in DOMAIN handles : fd \notin {hostNextFd, hostNextFd + 1} BY <1>1
  <2>6. hostNextFd + 1 # hostNextFd BY <1>1
  <2>7. DOMAIN handles' = DOMAIN handles \cup {hostNextFd, hostNextFd + 1} BY <2>3
  <2>8. handles'[hostNextFd] = reader BY <2>1, <2>3, <2>4
  <2>9. handles'[hostNextFd + 1] = writer
    <3> DEFINE second == hostNextFd + 1
    <3>1. second \in {hostNextFd, second} /\ second - hostNextFd + 1 = 2 BY <1>1
    <3> HIDE DEF second
    <3>2. handles'[second] = <<reader, writer>>[second - hostNextFd + 1] BY <2>3, <3>1 DEF second
    <3>3. QED BY <2>1, <3>1, <3>2 DEF second
  <2>10. \A fd \in DOMAIN handles : handles'[fd] = handles[fd] BY <2>3, <2>5
  <2>11. QED BY <2>5, <2>7, <2>8, <2>9, <2>10
<1>6. HostType' BY <1>1, <1>3, <1>4, <1>5 DEF HostType
<1>7. ASSUME NEW g, Stands(g)
      PROVE  Stands(g)' /\ (g.kind = "writer" => g.peer \in 0 .. hostNextFd - 1)
  <2>1. CASE g.kind = "file" BY <2>1 DEF Stands
  <2>2. CASE \E l \in DOMAIN pipes : g = Host!Reader(l) BY <1>3, <2>2 DEF Stands, Host!Reader
  <2>3. ASSUME NEW l \in DOMAIN pipes, NEW peer \in 0 .. hostNextFd - 1, g = Host!Writer(peer, l)
        PROVE  Stands(g)' /\ g.peer \in 0 .. hostNextFd - 1
    <3>1. l \in DOMAIN pipes' /\ peer \in 0 .. hostNextFd' - 1 BY <1>1, <1>3, <1>4
    <3>2. Stands(g)' BY <2>3, <3>1 DEF Stands, Host!Writer
    <3>3. QED BY <2>3, <3>2 DEF Host!Writer
  <2>4. QED BY <1>7, <2>1, <2>2, <2>3 DEF Stands
<1>8. ASSUME NEW fd \in DOMAIN handles' PROVE (Stands(handles[fd]) /\ Paired(handles[fd]))'
  <2>1. CASE fd \in DOMAIN handles
    <3>1. PICK g : g = handles[fd] OBVIOUS
    <3>2. Stands(g) /\ Paired(g) /\ handles'[fd] = g BY <1>5, <2>1, <3>1 DEF HostInv
    <3>3. Stands(g)' /\ (g.kind = "writer" => g.peer \in 0 .. hostNextFd - 1) BY <1>7, <3>2
    <3>4. g.kind = "writer" /\ g.peer \in DOMAIN handles' => g.peer \in DOMAIN handles
      BY <1>1, <1>5, <3>3
    <3>5. Paired(g)' BY <1>5, <3>2, <3>4 DEF Paired, Host!Reader
    <3>6. QED BY <3>2, <3>3, <3>5 DEF Stands, Paired
  <2>2. CASE fd = hostNextFd
    BY <1>3, <1>5, <2>2 DEF Stands, Paired, Host!Reader
  <2>3. CASE fd = hostNextFd + 1
    <3>1. handles'[fd] = writer /\ handles'[hostNextFd] = reader /\ hostNextFd \in 0 .. hostNextFd' - 1
      BY <1>1, <1>4, <1>5, <2>3
    <3>2. k \in DOMAIN pipes' BY <1>3
    <3>3. Stands(handles[fd])' BY <3>1, <3>2 DEF Stands, Host!Writer
    <3>4. Paired(handles[fd])' BY <3>1 DEF Paired, Host!Writer, Host!Reader
    <3>5. QED BY <3>3, <3>4
  <2>4. QED BY <1>5, <2>1, <2>2, <2>3
<1>9. \A l \in DOMAIN pipes' : pipes'[l].got \o pipes'[l].held = pipes'[l].sent
  <2>1. empty.got \o empty.held = empty.sent
    <3>1. <<>> \in Seq(Nat) OBVIOUS
    <3>2. <<>> \o <<>> = <<>> BY <3>1, ConcatEmptySeq
    <3>3. QED BY <3>2
  <2> HIDE DEF empty
  <2>2. QED BY <1>3, <2>1 DEF HostInv
<1>10. QED BY <1>6, <1>8, <1>9 DEF HostInv

LEMMA CountedReports ==
  ASSUME HostInv, NEW end \in {"succeeded", "failed", "missed"}, Host!Counted(end)
  PROVE  report' \in Reports
<1>1. report \in Reports BY DEF HostInv, HostType
<1>2. report.succeeded \in Nat /\ report.failed \in Nat /\ report.missed \in Nat BY <1>1 DEF Reports
<1>3. report' = [report EXCEPT ![end] = report[end] + 1] BY DEF Host!Counted
<1>4. CASE end = "succeeded" BY <1>1, <1>2, <1>3, <1>4 DEF Reports
<1>5. CASE end = "failed" BY <1>1, <1>2, <1>3, <1>5 DEF Reports
<1>6. CASE end = "missed" BY <1>1, <1>2, <1>3, <1>6 DEF Reports
<1>7. QED BY <1>4, <1>5, <1>6

\* What most calls do to the table of handles, or to the buffers behind it: nothing.
Untouched == UNCHANGED <<handles, hostNextFd, pipes>>

LEMMA UntouchedKeeps == ASSUME HostInv, Untouched, report' \in Reports PROVE HostInv'
  BY DEF HostInv, HostType, Stands, Paired, Untouched

LEMMA RefusedKeeps ==
  ASSUME HostInv, Host!Counted("failed"), UNCHANGED <<Host!table, Host!host, Host!memory, ctrl>>
  PROVE  HostInv'
<1>1. Untouched BY DEF Untouched, Host!table
<1>2. QED BY <1>1, CountedReports, UntouchedKeeps

LEMMA GrantKeeps ==
  ASSUME HostInv, NEW new, Host!Grant(<<new>>), UNCHANGED pipes, report' \in Reports,
         new.kind = "file" \/ \E fd \in DOMAIN handles : new = handles[fd]
  PROVE  HostInv'
<1>1. CASE new.kind = "file"
  <2>1. Stands(new) /\ Paired(new) BY <1>1 DEF Stands, Paired
  <2>2. QED BY <2>1, Given
<1>2. CASE \E fd \in DOMAIN handles : new = handles[fd]
  <2>1. Stands(new) /\ Paired(new) BY <1>2 DEF HostInv
  <2>2. QED BY <2>1, Given
<1>3. QED BY <1>1, <1>2

LEMMA FilesKeep ==
  ASSUME HostInv, NEW p, NEW q,
         \/ Host!CreateFile(p) \/ Host!GetFileAttributes(p) \/ Host!DeleteFile(p)
         \/ Host!MoveFile(p, q) \/ Host!CreateHardLink(p, q)
  PROVE  HostInv'
<1>1. ASSUME Host!Counted("succeeded"), Untouched PROVE HostInv'
  BY <1>1, CountedReports, UntouchedKeeps
<1>2. CASE Host!CreateFile(p)
  <2>1. ASSUME Host!Counted("succeeded"), UNCHANGED pipes,
               Host!Grant(<<Host!FileHandle(Len(opens) + 1, Host!Resolve(p))>>)
        PROVE  HostInv'
    <3>1. PICK new : new = Host!FileHandle(Len(opens) + 1, Host!Resolve(p)) OBVIOUS
    <3>2. new.kind = "file" BY <3>1 DEF Host!FileHandle
    <3>3. QED BY <2>1, <3>1, <3>2, CountedReports, GrantKeeps
  <2>2. QED BY <1>2, <2>1, RefusedKeeps DEF Host!CreateFile, Host!Attempt
<1>3. CASE Host!GetFileAttributes(p)
  BY <1>1, <1>3, RefusedKeeps
  DEF Host!GetFileAttributes, Host!Answer, Host!Attempt, Untouched, Host!table
<1>4. CASE Host!DeleteFile(p)
  BY <1>1, <1>4, RefusedKeeps DEF Host!DeleteFile, Host!Attempt, Untouched, Host!table
<1>5. CASE Host!MoveFile(p, q)
  BY <1>1, <1>5, RefusedKeeps DEF Host!MoveFile, Host!Attempt, Untouched, Host!table
<1>6. CASE Host!CreateHardLink(p, q)
  BY <1>1, <1>6, RefusedKeeps DEF Host!CreateHardLink, Host!Attempt, Untouched, Host!table
<1>7. QED BY <1>2, <1>3, <1>4, <1>5, <1>6

LEMMA ReadingKeeps == ASSUME HostInv, NEW fd, NEW count \in Nat, Host!Read(fd, count) PROVE HostInv'
<1>1. CASE /\ Host!Is(fd, "reader") /\ Host!ReadPipe(fd, count) /\ Host!Counted("succeeded")
           /\ UNCHANGED <<handles, hostNextFd>>
  <2>1. fd \in DOMAIN handles /\ handles[fd].kind = "reader" BY <1>1 DEF Host!Is, Host!IsOpen
  <2>2. Stands(handles[fd]) BY <2>1 DEF HostInv
  <2>3. PICK k \in DOMAIN pipes : handles[fd] = Host!Reader(k)
    BY <2>1, <2>2 DEF Stands, Host!Writer
  <2>4. report' \in Reports BY <1>1, CountedReports
  <2>5. QED BY <1>1, <2>1, <2>3, <2>4, ReadKeeps
<1>2. CASE /\ Host!ReadFile(fd, count) /\ Host!Counted("succeeded")
           /\ UNCHANGED <<handles, hostNextFd>>
  BY <1>2, CountedReports, UntouchedKeeps DEF Host!ReadFile, Untouched
<1>3. QED BY <1>1, <1>2, RefusedKeeps DEF Host!Read, Host!Attempt

LEMMA WritingKeeps == ASSUME HostInv, NEW fd, NEW count \in Nat, Host!Write(fd, count) PROVE HostInv'
<1>1. ASSUME Host!Is(fd, "writer"), Host!PeerReads(fd), Host!WritePipe(fd, count),
             Host!Counted("succeeded"), UNCHANGED <<handles, hostNextFd>>
      PROVE  HostInv'
  <2>1. fd \in DOMAIN handles BY <1>1 DEF Host!Is, Host!IsOpen
  <2>2. report' \in Reports BY <1>1, CountedReports
  <2>3. QED BY <1>1, <2>1, <2>2, WriteKeeps
<1>2. ASSUME Host!WriteFile(fd, count), Host!Counted("succeeded"), UNCHANGED <<handles, hostNextFd>>
      PROVE  HostInv'
  BY <1>2, CountedReports, UntouchedKeeps DEF Host!WriteFile, Untouched
<1>3. ~(Host!Is(fd, "file") /\ Host!Is(fd, "writer")) BY DEF Host!Is
<1>4. QED BY <1>1, <1>2, <1>3, RefusedKeeps DEF Host!Write, Host!Attempt

LEMMA ClosingKeeps == ASSUME HostInv, NEW fd, Host!CloseHandle(fd) PROVE HostInv'
<1>1. ASSUME Host!IsOpen(fd), Host!Counted("succeeded"),
             handles' = Restrict(handles, DOMAIN handles \ {fd}), UNCHANGED hostNextFd,
             pipes' = IF Host!Is(fd, "writer") /\ Host!Is(handles[fd].peer, "reader")
                      THEN [pipes EXCEPT ![handles[handles[fd].peer].pipe].closed = TRUE]
                      ELSE pipes
      PROVE  HostInv'
  <2>1. fd \in DOMAIN handles /\ report' \in Reports BY <1>1, CountedReports DEF Host!IsOpen
  <2>2. CASE Host!Is(fd, "writer") /\ Host!Is(handles[fd].peer, "reader")
    <3>1. PICK peer : peer = handles[fd].peer OBVIOUS
    <3>2. peer \in DOMAIN handles /\ handles[peer].kind = "reader"
      BY <2>2, <3>1 DEF Host!Is, Host!IsOpen
    <3>3. Stands(handles[peer]) BY <3>2 DEF HostInv
    <3>4. PICK k \in DOMAIN pipes : handles[peer] = Host!Reader(k)
      BY <3>2, <3>3 DEF Stands, Host!Writer
    <3>5. pipes' = [pipes EXCEPT ![k].closed = TRUE] BY <1>1, <2>2, <3>1, <3>4 DEF Host!Reader
    <3>6. QED BY <1>1, <2>1, <3>5, CloseKeeps
  <2>3. CASE ~(Host!Is(fd, "writer") /\ Host!Is(handles[fd].peer, "reader"))
    BY <1>1, <2>1, <2>3, CloseKeeps
  <2>4. QED BY <2>2, <2>3
<1>2. \/ /\ Host!IsOpen(fd) /\ Host!Counted("succeeded") /\ UNCHANGED hostNextFd
         /\ handles' = Restrict(handles, DOMAIN handles \ {fd})
         /\ pipes' = IF Host!Is(fd, "writer") /\ Host!Is(handles[fd].peer, "reader")
                     THEN [pipes EXCEPT ![handles[handles[fd].peer].pipe].closed = TRUE]
                     ELSE pipes
      \/ Host!Counted("failed") /\ UNCHANGED <<Host!table, Host!host, Host!memory, ctrl>>
  BY DEF Host!CloseHandle, Host!Attempt, Host!Restrict, Restrict
<1>3. QED BY <1>1, <1>2, RefusedKeeps

LEMMA DuplicatingKeeps == ASSUME HostInv, NEW fd, Host!DuplicateHandle(fd) PROVE HostInv'
<1>1. ASSUME Host!IsOpen(fd), Host!Counted("succeeded"), Host!Grant(<<handles[fd]>>), UNCHANGED pipes
      PROVE  HostInv'
  <2>1. PICK new : new = handles[fd] OBVIOUS
  <2>2. fd \in DOMAIN handles BY <1>1 DEF Host!IsOpen
  <2>3. QED BY <1>1, <2>1, <2>2, CountedReports, GrantKeeps
<1>2. QED BY <1>1, RefusedKeeps DEF Host!DuplicateHandle, Host!Attempt

LEMMA DescriptorsKeep ==
  ASSUME HostInv, NEW fd, NEW n,
         \/ Host!SetFilePointer(fd, n) \/ Host!SetEndOfFile(fd) \/ Host!GetFileInformation(fd)
         \/ Host!GetFinalPathName(fd) \/ Host!FlushFileBuffers(fd) \/ Host!DeviceIoControl(fd)
  PROVE  HostInv'
<1>1. ASSUME Host!Counted("succeeded"), Untouched PROVE HostInv'
  BY <1>1, CountedReports, UntouchedKeeps
<1>2. CASE Host!SetFilePointer(fd, n)
  BY <1>1, <1>2, RefusedKeeps DEF Host!SetFilePointer, Host!Attempt, Untouched
<1>3. CASE Host!SetEndOfFile(fd)
  BY <1>1, <1>3, RefusedKeeps DEF Host!SetEndOfFile, Host!Attempt, Untouched, Host!table
<1>4. ASSUME NEW can, Host!Answer(can) PROVE HostInv'
  BY <1>1, <1>4, RefusedKeeps DEF Host!Answer, Host!Attempt, Untouched, Host!table
<1>5. CASE Host!GetFileInformation(fd) \/ Host!GetFinalPathName(fd) \/ Host!FlushFileBuffers(fd)
           \/ Host!DeviceIoControl(fd)
  BY <1>1, <1>5, RefusedKeeps
  DEF Host!Answer, Host!Attempt, Untouched, Host!table,
      Host!GetFileInformation, Host!GetFinalPathName, Host!FlushFileBuffers, Host!DeviceIoControl
<1>6. QED BY <1>2, <1>3, <1>5

LEMMA OthersKeep ==
  ASSUME HostInv, NEW d, NEW n, NEW enable,
         \/ Host!SetCurrentDirectory(d) \/ Host!CreateDirectory(d) \/ Host!RemoveDirectory(d)
         \/ Host!VirtualAlloc(n) \/ Host!VirtualFree(n) \/ Host!HeapAlloc(n) \/ Host!HeapFree(n)
         \/ Host!SetConsoleCtrlHandler(enable) \/ Host!AnswerAlways \/ Host!Garbled \/ Host!Miss
  PROVE  HostInv'
<1>1. ASSUME NEW end \in {"succeeded", "failed", "missed"}, Host!Counted(end), Untouched PROVE HostInv'
  BY <1>1, CountedReports, UntouchedKeeps
<1> USE DEF Untouched, Host!table, Host!Attempt
<1>2. CASE Host!SetCurrentDirectory(d) \/ Host!CreateDirectory(d) \/ Host!RemoveDirectory(d)
  BY <1>1, <1>2, RefusedKeeps DEF Host!SetCurrentDirectory, Host!CreateDirectory, Host!RemoveDirectory
<1>3. CASE Host!VirtualAlloc(n) \/ Host!VirtualFree(n) \/ Host!HeapAlloc(n) \/ Host!HeapFree(n)
  BY <1>1, <1>3, RefusedKeeps
  DEF Host!VirtualAlloc, Host!VirtualFree, Host!HeapAlloc, Host!HeapFree
<1>4. CASE Host!SetConsoleCtrlHandler(enable)
  BY <1>1, <1>4, RefusedKeeps DEF Host!SetConsoleCtrlHandler
<1>5. CASE Host!AnswerAlways \/ Host!Garbled \/ Host!Miss
  BY <1>1, <1>5, RefusedKeeps DEF Host!AnswerAlways, Host!Garbled, Host!Answer, Host!Miss
<1>6. QED BY <1>2, <1>3, <1>4, <1>5

LEMMA CreatingKeeps == ASSUME HostInv, Host!CreatePipe PROVE HostInv'
  BY CountedReports, CreateKeeps, RefusedKeeps DEF Host!CreatePipe, Host!Attempt

LEMMA HostKeeps == ASSUME HostInv, Host!Next PROVE HostInv'
<1>1. CASE \E p \in Host!PathArgs :
             \/ Host!CreateFile(p) \/ Host!GetFileAttributes(p) \/ Host!DeleteFile(p)
             \/ \E q \in Host!PathArgs : Host!MoveFile(p, q) \/ Host!CreateHardLink(p, q)
  BY <1>1, FilesKeep
<1>2. CASE \E fd \in HostFds :
             \/ \E n \in Counts : Host!Read(fd, n) \/ Host!Write(fd, n)
             \/ Host!CloseHandle(fd) \/ Host!DuplicateHandle(fd)
  BY <1>2, CountsAssumption, ReadingKeeps, WritingKeeps, ClosingKeeps, DuplicatingKeeps
<1>3. CASE \E fd \in HostFds :
             \/ \E n \in Counts \cup {-1} : Host!SetFilePointer(fd, n)
             \/ Host!SetEndOfFile(fd) \/ Host!GetFileInformation(fd) \/ Host!GetFinalPathName(fd)
             \/ Host!FlushFileBuffers(fd) \/ Host!DeviceIoControl(fd)
  BY <1>3, DescriptorsKeep
<1>4. CASE \/ \E d \in Dirs :
                Host!SetCurrentDirectory(d) \/ Host!CreateDirectory(d) \/ Host!RemoveDirectory(d)
           \/ \E n \in Counts :
                Host!VirtualAlloc(n) \/ Host!VirtualFree(n) \/ Host!HeapAlloc(n) \/ Host!HeapFree(n)
           \/ \E enable \in Host!Option(BOOLEAN) : Host!SetConsoleCtrlHandler(enable)
           \/ Host!AnswerAlways \/ Host!Garbled \/ Host!Miss
  BY <1>4, OthersKeep
<1>5. QED BY <1>1, <1>2, <1>3, <1>4, CreatingKeeps DEF Host!Next

LEMMA HostStarts == Host!Init => HostInv
<1> SUFFICES ASSUME Host!Init PROVE HostInv OBVIOUS
<1>1. handles = <<>> /\ pipes = <<>> /\ hostNextFd = 0 BY DEF Host!Init
<1>2. report \in Reports BY DEF Host!Init, Reports
<1>3. DOMAIN handles = {} /\ DOMAIN pipes = {} BY <1>1
<1>4. QED BY <1>1, <1>2, <1>3 DEF HostInv, HostType

\* What has been read from a pipe and what its buffer still holds is what was written
\* to it, and a writer's peer, as long as that number is taken, is its own pipe's
\* reader: whatever is closed, copied or opened in between (alloc_fd, PipeBuffer of
\* executor.rs).
THEOREM PipesStayTogether == ServersSpec => []PipesHoldTogether
<1>1. ServersInit => HostInv BY HostStarts DEF ServersInit
<1>2. HostInv /\ [ServersNext]_<<server, vars, hostVars, rulesVars, engineVars>> => HostInv'
  <2> SUFFICES ASSUME HostInv, [ServersNext]_<<server, vars, hostVars, rulesVars, engineVars>>
               PROVE  HostInv'
    OBVIOUS
  <2>1. CASE UNCHANGED hostVars
    <3>1. Untouched /\ report' = report BY <2>1 DEF Untouched, hostVars
    <3>2. report' \in Reports BY <3>1 DEF HostInv, HostType
    <3>3. QED BY <3>1, <3>2, UntouchedKeeps
  <2>2. CASE Host!Next BY <2>2, HostKeeps
  <2>3. QED BY <2>1, <2>2 DEF ServersNext
<1>3. HostInv => PipesHoldTogether
  BY DEF HostInv, Paired, PipesHoldTogether, Host!PipesHoldTogether, Host!Is, Host!IsOpen
<1>4. QED BY <1>1, <1>2, <1>3, PTL DEF ServersSpec

-----------------------------------------------------------------------------
(* The pipeline: what it counted, recorded and answered.                   *)

Outcomes == {"success", "failure", "user_positive", "user_negative"}

\* The operations of the table, and those the network has words for.
Nameable ==
  {Rules!Mappings[nr] : nr \in DOMAIN Rules!Mappings}
    \cup UNION {{net.dict[nr] : nr \in DOMAIN net.dict} : net \in network}

RulesType ==
  /\ samples \in Seq(Outcomes) /\ missCount \in Nat
  /\ answers \in Seq([nr : {e.nr : e \in Events}, operation : Nameable])
  /\ \A v, w \in network : v = w

\* A network that iterates names only the calls next to its tanh.
LowGuesses ==
  \A i \in DOMAIN answers : \A net \in network :
    answers[i].nr \notin DOMAIN Rules!Mappings /\ net.tIter > 0 => answers[i].operation \in Rules!Low(net)

RulesInv == RulesType /\ LowGuesses /\ Rules!SamplesAddUp

\* Round to the next: a tanh in hundredths is next to -1, 0 or 1.
LEMMA NearestIsLow == ASSUME NEW cell \in -100 .. 100 PROVE Rules!Nearest(cell) \in -1 .. 1
<1>1. CASE cell < 0
  <2>1. 50 - cell \in 51 .. 150 BY <1>1
  <2>2. (50 - cell) \div 100 \in 0 .. 1 BY <2>1
  <2>3. QED BY <1>1, <2>2 DEF Rules!Nearest
<1>2. CASE ~(cell < 0)
  <2>1. 50 + cell \in 50 .. 150 BY <1>2
  <2>2. (50 + cell) \div 100 \in 0 .. 1 BY <2>1
  <2>3. QED BY <1>2, <2>2 DEF Rules!Nearest
<1>3. QED BY <1>1, <1>2

\* What is guessed is a word of the network, one of the low ones if it iterates.
LEMMA Guessed ==
  ASSUME \A v, w \in network : v = w, NEW nr, NEW guess \in Rules!Derivations(nr), NEW d \in guess
  PROVE  /\ Rules!Ready /\ d.operation \notin Rules!DerivedBlocklist /\ d.operation \in Nameable
         /\ \A net \in network : net.tIter > 0 => d.operation \in Rules!Low(net)
<1>1. guess # {} OBVIOUS
<1>2. Rules!Ready /\ network # Rules!None BY <1>1 DEF Rules!Derivations, Rules!None
<1>3. PICK net \in network : \E cell \in Rules!Forward(net, nr) : guess = Rules!Derivable(net, cell)
  BY <1>2 DEF Rules!Derivations
<1> PICK cell \in Rules!Forward(net, nr) : guess = Rules!Derivable(net, cell)
  BY <1>3
<1>4. /\ d.operation \notin Rules!DerivedBlocklist
      /\ \E n \in {Rules!Nearest(cell)} \cap DOMAIN net.dict : d.operation = net.dict[n]
  BY DEF Rules!Derivable, Rules!Decode
<1>5. d.operation \in Nameable BY <1>4 DEF Nameable
<1>6. ASSUME net.tIter > 0 PROVE d.operation \in Rules!Low(net)
  <2>1. net.tIter # 0 BY <1>6
  <2>2. cell \in -100 .. 100 BY <2>1, RulesAssumption DEF Rules!Forward
  <2>3. Rules!Nearest(cell) \in -1 .. 1 BY <2>2, NearestIsLow
  <2>4. QED BY <1>4, <2>3 DEF Rules!Low
<1>7. QED BY <1>2, <1>4, <1>5, <1>6


\* The samples of each outcome are finitely many, and one more sample is one more of
\* its own outcome.
LEMMA Recorded ==
  ASSUME samples \in Seq(Outcomes), NEW o \in Outcomes, Rules!Record(o)
  PROVE  /\ samples' \in Seq(Outcomes)
         /\ Len(samples') \in DOMAIN samples' /\ samples'[Len(samples')] = o
         /\ \A x : /\ Cardinality(Rules!Samples(x)) \in Nat
                   /\ Cardinality(Rules!Samples(x)') =
                        IF o = x THEN Cardinality(Rules!Samples(x)) + 1 ELSE Cardinality(Rules!Samples(x))
<1> DEFINE last == Len(samples) + 1
<1>1. samples' = Append(samples, o) BY DEF Rules!Record
<1>2. /\ samples' \in Seq(Outcomes) /\ Len(samples') \in DOMAIN samples' /\ samples'[Len(samples')] = o
  BY <1>1, AppendProperties
<1>3. Len(samples) \in Nat /\ DOMAIN samples = 1 .. Len(samples) OBVIOUS
<1>4. /\ DOMAIN samples' = DOMAIN samples \cup {last} /\ last \notin DOMAIN samples
      /\ samples'[last] = o /\ \A i \in DOMAIN samples : samples'[i] = samples[i]
  BY <1>1, <1>3, AppendProperties
<1> HIDE DEF last
<1>5. IsFiniteSet(DOMAIN samples) BY <1>3, FS_Interval
<1>6. ASSUME NEW x
      PROVE  /\ Cardinality(Rules!Samples(x)) \in Nat
             /\ Cardinality(Rules!Samples(x)') =
                  IF o = x THEN Cardinality(Rules!Samples(x)) + 1 ELSE Cardinality(Rules!Samples(x))
  <2>1. PICK old : old = Rules!Samples(x) OBVIOUS
  <2>2. PICK new : new = Rules!Samples(x)' OBVIOUS
  <2>3. old \subseteq DOMAIN samples BY <2>1 DEF Rules!Samples
  <2>4. IsFiniteSet(old) /\ Cardinality(old) \in Nat BY <1>5, <2>3, FS_Subset, FS_CardinalityType
  <2>5. CASE o = x
    <3>1. new = old \cup {last} /\ last \notin old BY <1>4, <2>1, <2>2, <2>5 DEF Rules!Samples
    <3>2. Cardinality(new) = Cardinality(old) + 1 BY <2>4, <3>1, FS_AddElement
    <3>3. QED BY <2>1, <2>2, <2>4, <2>5, <3>2
  <2>6. CASE o # x
    <3>1. new = old BY <1>4, <2>1, <2>2, <2>6 DEF Rules!Samples
    <3>2. QED BY <2>1, <2>2, <2>4, <2>6, <3>1
  <2>7. QED BY <2>5, <2>6
<1>7. QED BY <1>2, <1>6

AnswerSet == [nr : {e.nr : e \in Events}, operation : Nameable]

LEMMA Answered ==
  ASSUME RulesType, LowGuesses, NEW nr \in {e.nr : e \in Events}, NEW operation \in Nameable,
         Rules!Answer(nr, operation), UNCHANGED network,
         nr \notin DOMAIN Rules!Mappings =>
           \A net \in network : net.tIter > 0 => operation \in Rules!Low(net)
  PROVE  answers' \in Seq(AnswerSet') /\ Len(answers') = Len(answers) + 1 /\ LowGuesses'
<1> DEFINE a == [nr |-> nr, operation |-> operation]
           last == Len(answers) + 1
<1>1. answers \in Seq(AnswerSet) /\ AnswerSet' = AnswerSet
  BY DEF RulesType, AnswerSet, Nameable
<1>2. a \in AnswerSet BY DEF AnswerSet
<1>3. a.nr = nr /\ a.operation = operation OBVIOUS
<1> HIDE DEF a
<1>4. answers' = Append(answers, a) BY DEF Rules!Answer, a
<1>5. Len(answers) \in Nat /\ DOMAIN answers = 1 .. Len(answers) BY <1>1
<1>6. /\ answers' \in Seq(AnswerSet) /\ Len(answers') = Len(answers) + 1
      /\ DOMAIN answers' = DOMAIN answers \cup {last}
      /\ answers'[last] = a /\ \A i \in DOMAIN answers : answers'[i] = answers[i]
  BY <1>1, <1>2, <1>4, <1>5, AppendProperties
<1>7. LowGuesses' BY <1>3, <1>6 DEF LowGuesses, Rules!Low
<1>8. QED BY <1>1, <1>6, <1>7

\* One event, or one piece of feedback: at most one sample, and what goes with it.
LEMMA PipelineKeeps == ASSUME RulesInv, Rules!Next PROVE RulesInv'
<1> USE DEF RulesInv
<1>1. /\ samples \in Seq(Outcomes) /\ missCount \in Nat /\ answers \in Seq(AnswerSet)
      /\ \A v, w \in network : v = w
  BY DEF RulesType, AnswerSet
<1>2. FallbackThreshold \in Nat BY RulesAssumption
<1>3. Len(answers) \in Nat BY <1>1
<1> USE DEF RulesType, Rules!SamplesAddUp
<1>4. ASSUME NEW o \in {"user_positive", "user_negative"}, driver = "owner", Rules!Record(o),
             UNCHANGED <<missCount, answers, network, driver>>
      PROVE  RulesInv'
  <2>1. o \in Outcomes /\ o # "failure" /\ o # "success" BY DEF Outcomes
  <2>2. AnswerSet' = AnswerSet BY <1>4 DEF AnswerSet, Nameable
  <2>3. RulesType' BY <1>1, <1>4, <2>1, <2>2, Recorded DEF AnswerSet
  <2>4. LowGuesses' BY <1>4 DEF LowGuesses, Rules!Low
  <2>5. Rules!SamplesAddUp' BY <1>1, <1>4, <2>1, Recorded, SameCount
  <2>6. QED BY <2>3, <2>4, <2>5
<1>5. ASSUME NEW nr \in {e.nr : e \in Events}, NEW operation \in Nameable,
             Rules!Answer(nr, operation), Rules!Record("success"), UNCHANGED <<network, driver, missCount, runStatus>>,
             runStatus = "running", driver = "run_b1" => missCount < FallbackThreshold,
             nr \notin DOMAIN Rules!Mappings =>
               \A net \in network : net.tIter > 0 => operation \in Rules!Low(net)
      PROVE  RulesInv'
  <2>1. answers' \in Seq(AnswerSet') /\ Len(answers') = Len(answers) + 1 /\ LowGuesses'
    BY <1>5, Answered
  <2>2. "success" \in Outcomes /\ "success" # "failure" BY DEF Outcomes
  <2>3. RulesType' BY <1>1, <1>5, <2>1, <2>2, Recorded DEF AnswerSet
  <2>4. /\ Cardinality(Rules!Samples("success")') = Cardinality(Rules!Samples("success")) + 1
        /\ Cardinality(Rules!Samples("failure")') = Cardinality(Rules!Samples("failure"))
    BY <1>1, <1>5, <2>2, Recorded
  <2>5. missCount < FallbackThreshold => missCount <= FallbackThreshold /\ missCount # FallbackThreshold
    BY <1>1, <1>2
  <2>6. Rules!SamplesAddUp' BY <1>5, <2>1, <2>4, <2>5, SameCount
  <2>7. QED BY <2>1, <2>3, <2>6
<1>6. ASSUME Rules!Record("failure"), missCount' = missCount + 1,
             UNCHANGED <<network, driver, answers, runStatus>>,
             runStatus = "running", driver = "run_b1" => missCount < FallbackThreshold
      PROVE  RulesInv'
  <2>1. "failure" \in Outcomes /\ "success" # "failure" BY DEF Outcomes
  <2>2. AnswerSet' = AnswerSet BY <1>6 DEF AnswerSet, Nameable
  <2>3. RulesType'
    <3>1. samples' \in Seq(Outcomes) BY <1>1, <1>6, <2>1, Recorded
    <3>2. missCount' \in Nat /\ answers' \in Seq(AnswerSet') BY <1>1, <1>6, <2>2
    <3>3. QED BY <1>1, <1>6, <3>1, <3>2 DEF AnswerSet
  <2>4. LowGuesses' BY <1>6 DEF LowGuesses, Rules!Low
  <2>5. /\ Cardinality(Rules!Samples("success")') = Cardinality(Rules!Samples("success"))
        /\ Cardinality(Rules!Samples("failure")') = Cardinality(Rules!Samples("failure")) + 1
    BY <1>1, <1>6, <2>1, Recorded
  <2>6. Len(samples') \in Rules!Samples("failure")'
    BY <1>1, <1>6, <2>1, Recorded DEF Rules!Samples
  <2>7. missCount < FallbackThreshold => missCount + 1 <= FallbackThreshold BY <1>1, <1>2
  <2>8. Rules!SamplesAddUp' BY <1>6, <2>5, <2>6, <2>7, SameCount
  <2>9. QED BY <2>3, <2>4, <2>8
\* An ending, which leaves what was counted as it is.
<1>7. ASSUME UNCHANGED <<network, driver, samples, missCount, answers>>,
             driver = "run_b1" =>
               /\ runStatus' \in {"unavailable", "failed", "wsl2_fallback"} =>
                    missCount = FallbackThreshold
               /\ runStatus' = "b1_rule" => missCount < FallbackThreshold
      PROVE  RulesInv'
  <2>1. RulesType' BY <1>7 DEF AnswerSet, Nameable
  <2>2. LowGuesses' BY <1>7 DEF LowGuesses, Rules!Low
  <2>3. Rules!SamplesAddUp' BY <1>7 DEF Rules!Samples
  <2>4. QED BY <2>1, <2>2, <2>3
<1>8. ASSUME NEW e \in Events, Rules!Step(e) PROVE RulesInv'
  <2>1. /\ runStatus = "running" /\ UNCHANGED <<network, driver>>
        /\ driver = "run_b1" => missCount < FallbackThreshold
    BY <1>1, <1>2, <1>8 DEF Rules!Step, Rules!ShouldFallback, Rules!built
  <2>2. e.nr \in {x.nr : x \in Events} OBVIOUS
  <2>3. CASE Rules!Mapped(e)
    <3>1. PICK operation \in Rules!Intercept(e.nr) :
            /\ Rules!Record("success") /\ Rules!Answer(e.nr, operation)
            /\ UNCHANGED <<missCount, runStatus>>
      BY <2>3 DEF Rules!Mapped
    <3>2. e.nr \in DOMAIN Rules!Mappings /\ operation = Rules!Mappings[e.nr]
      BY <3>1 DEF Rules!Intercept, Rules!Some, Rules!None
    <3>3. operation \in Nameable BY <3>2 DEF Nameable
    <3>4. QED BY <1>5, <2>1, <2>2, <3>1, <3>2, <3>3
  <2>4. CASE Rules!Blocked(e)
    <3>1. UNCHANGED <<samples, missCount, answers>> /\ runStatus' \in {"blocked", runStatus}
      BY <2>4 DEF Rules!Blocked, Rules!decided
    <3>2. QED BY <1>7, <2>1, <3>1
  <2>5. CASE Rules!Derived(e)
    <3>1. PICK guess \in Rules!Derivations(e.nr) : \E d \in guess :
            /\ Rules!Record("success") /\ Rules!Answer(e.nr, d.operation)
            /\ UNCHANGED <<missCount, runStatus>>
      BY <2>5 DEF Rules!Derived
    <3>2. PICK d \in guess :
            /\ Rules!Record("success") /\ Rules!Answer(e.nr, d.operation)
            /\ UNCHANGED <<missCount, runStatus>>
      BY <3>1
    <3>3. PICK operation : operation = d.operation OBVIOUS
    <3>4. /\ operation \in Nameable
          /\ \A net \in network : net.tIter > 0 => operation \in Rules!Low(net)
      BY <1>1, <3>3, Guessed
    <3>5. QED BY <1>5, <2>1, <2>2, <3>2, <3>3, <3>4
  <2>6. CASE Rules!Missed(e) BY <1>6, <2>1, <2>6 DEF Rules!Missed
  <2>7. QED BY <1>8, <2>3, <2>4, <2>5, <2>6 DEF Rules!Step
<1>9. ASSUME NEW positive \in BOOLEAN, Rules!Feedback(positive) PROVE RulesInv'
  <2>1. PICK o : o = IF positive THEN "user_positive" ELSE "user_negative" OBVIOUS
  <2>2. o \in {"user_positive", "user_negative"} BY <2>1
  <2>3. driver = "owner" /\ Rules!Record(o) /\ UNCHANGED <<missCount, answers, network, driver>>
    BY <1>9, <2>1 DEF Rules!Feedback, Rules!built
  <2>4. QED BY <1>4, <2>2, <2>3
<1>10. CASE Rules!Finish
  <2>1. /\ driver = "run_b1" /\ UNCHANGED <<network, driver, samples, missCount, answers>>
        /\ runStatus' \in IF Rules!ShouldFallback THEN {"unavailable", "failed", "wsl2_fallback"}
                          ELSE {"b1_rule"}
    BY <1>10 DEF Rules!Finish, Rules!built, Rules!decided
  <2>2. missCount <= FallbackThreshold BY <2>1
  <2>3. /\ Rules!ShouldFallback => missCount = FallbackThreshold
        /\ ~Rules!ShouldFallback => missCount < FallbackThreshold
    BY <1>1, <1>2, <2>2 DEF Rules!ShouldFallback
  <2>4. QED BY <1>7, <2>1, <2>3
<1>11. QED BY <1>8, <1>9, <1>10 DEF Rules!Next

LEMMA PipelineStarts == Rules!Init => RulesInv
<1> SUFFICES ASSUME Rules!Init PROVE RulesInv OBVIOUS
<1>1. PICK s \in Setups : network = Rules!Build(s.model) BY DEF Rules!Init
<1>2. samples = <<>> /\ answers = <<>> /\ missCount = 0 /\ runStatus = "running" BY DEF Rules!Init
<1>3. FallbackThreshold \in Nat \ {0} BY RulesAssumption
<1>4. ASSUME NEW v \in network, NEW w \in network PROVE v = w
  <2>1. PICK f \in s.model.file :
          v = [tIter |-> f.tIter, dict |-> f.dict, confidence |-> s.model.confidence]
    BY <1>1, <1>4 DEF Rules!Build
  <2>2. PICK g \in s.model.file :
          w = [tIter |-> g.tIter, dict |-> g.dict, confidence |-> s.model.confidence]
    BY <1>1, <1>4 DEF Rules!Build
  <2>3. f = g BY RulesAssumption
  <2>4. QED BY <2>1, <2>2, <2>3
<1>5. RulesType BY <1>2, <1>4 DEF RulesType
<1>6. LowGuesses BY <1>2 DEF LowGuesses
<1>7. Rules!SamplesAddUp
  <2>1. \A x : Rules!Samples(x) = {} BY <1>2 DEF Rules!Samples
  <2>2. \A x : Cardinality(Rules!Samples(x)) = 0 BY <2>1, FS_EmptySet
  <2>3. Len(answers) = 0 BY <1>2
  <2>4. QED BY <1>2, <1>3, <2>2, <2>3, SameCount DEF Rules!SamplesAddUp
<1>8. QED BY <1>5, <1>6, <1>7 DEF RulesInv

\* The counter of misses, the telemetry and the answers of the pipeline tell the same
\* story, run_b1 falls back exactly at the threshold (step, run_b1), and what is
\* guessed is only what a tanh can name and is allowed (try_derive, shadow_suggestion,
\* controlled_guidance of agent.rs).
THEOREM PipelineIsHonest == ServersSpec => []PipelineTells
<1>1. ServersInit => RulesInv BY PipelineStarts DEF ServersInit
<1>2. RulesInv /\ [ServersNext]_<<server, vars, hostVars, rulesVars, engineVars>> => RulesInv'
  <2> SUFFICES ASSUME RulesInv, [ServersNext]_<<server, vars, hostVars, rulesVars, engineVars>>
               PROVE  RulesInv'
    OBVIOUS
  <2>1. CASE UNCHANGED rulesVars
    BY <2>1 DEF rulesVars, RulesInv, RulesType, LowGuesses, Nameable, Rules!Low, Rules!Samples,
                Rules!SamplesAddUp
  <2>2. CASE Rules!Next BY <2>2, PipelineKeeps
  <2>3. QED BY <2>1, <2>2 DEF ServersNext
<1>3. RulesInv => PipelineTells
  <2> SUFFICES ASSUME RulesInv PROVE Rules!GuessesAreBounded BY DEF RulesInv, PipelineTells
  <2>1. \A v, w \in network : v = w BY DEF RulesInv, RulesType
  <2>2. ASSUME NEW e \in Events, NEW program \in Programs, NEW guess \in Rules!Derivations(e.nr),
               NEW d \in Rules!Suggested(program, e.nr, guess)
        PROVE  /\ e.nr \notin DOMAIN Rules!Mappings /\ d.operation \notin Rules!DerivedBlocklist
               /\ Rules!Ready /\ \A net \in network : net.tIter > 0 => d.operation \in Rules!Low(net)
    <3>1. d \in guess /\ Rules!Intercept(e.nr) = Rules!None
      BY DEF Rules!Suggested, Rules!Suggestion
    <3>2. e.nr \notin DOMAIN Rules!Mappings BY <3>1 DEF Rules!Intercept, Rules!Some, Rules!None
    <3>3. QED BY <2>1, <3>1, <3>2, Guessed
  <2>3. QED BY <2>2 DEF RulesInv, LowGuesses, Rules!GuessesAreBounded
<1>4. QED BY <1>1, <1>2, <1>3, PTL DEF ServersSpec

-----------------------------------------------------------------------------
(* The engine: its report says what happened to the calls.                  *)

MapperTable ==
  Engine!FileRows \cup Engine!MemoryRows \cup Engine!FileSystemRows \cup Engine!ProcessRows \cup Engine!DirectoryRows

\* Where the interceptor's table and the mapper's have the same call, they have
\* the same operation for it.
LEMMA TablesAgree ==
  \A nr \in DOMAIN Engine!MapperRows : nr \in DOMAIN Engine!Mappings =>
    Engine!MapperRows[nr].operation = Engine!Mappings[nr]
<1>1. ASSUME NEW t \in Engine!Table, NEW r \in Engine!FileRows, r.nr = t.nr PROVE r.operation = t.operation
  BY <1>1 DEF Engine!Table, Engine!FileRows, Engine!Row, Engine!Rule
<1>2. ASSUME NEW t \in Engine!Table, NEW r \in Engine!MemoryRows, r.nr = t.nr PROVE r.operation = t.operation
  BY <1>2 DEF Engine!Table, Engine!MemoryRows, Engine!Row, Engine!Rule
<1>3. ASSUME NEW t \in Engine!Table, NEW r \in Engine!FileSystemRows, r.nr = t.nr PROVE r.operation = t.operation
  BY <1>3 DEF Engine!Table, Engine!FileSystemRows, Engine!Row, Engine!Rule
<1>4. ASSUME NEW t \in Engine!Table, NEW r \in Engine!ProcessRows, r.nr = t.nr PROVE r.operation = t.operation
  BY <1>4 DEF Engine!Table, Engine!ProcessRows, Engine!Row, Engine!Rule
<1>5. ASSUME NEW t \in Engine!Table, NEW r \in Engine!DirectoryRows, r.nr = t.nr PROVE r.operation = t.operation
  BY <1>5 DEF Engine!Table, Engine!DirectoryRows, Engine!Row, Engine!Rule
<1>6. \A t \in Engine!Table, r \in MapperTable : r.nr = t.nr => r.operation = t.operation
  BY <1>1, <1>2, <1>3, <1>4, <1>5 DEF MapperTable
<1>7. ASSUME NEW nr \in DOMAIN Engine!MapperRows, nr \in DOMAIN Engine!Mappings
      PROVE  Engine!MapperRows[nr].operation = Engine!Mappings[nr]
  <2>1. Engine!MapperRows = [n \in {r.nr : r \in MapperTable} |-> CHOOSE r \in MapperTable : r.nr = n]
    BY DEF Engine!MapperRows, MapperTable
  <2>2. PICK r \in MapperTable : r.nr = nr /\ Engine!MapperRows[nr] = r BY <1>7, <2>1
  <2>3. Engine!Mappings = [n \in {t.nr : t \in Engine!Table} |-> (CHOOSE t \in Engine!Table : t.nr = n).operation]
    BY DEF Engine!Mappings
  <2>4. PICK t \in Engine!Table : t.nr = nr /\ Engine!Mappings[nr] = t.operation BY <1>7, <2>3
  <2>5. QED BY <1>6, <2>2, <2>4
<1>8. QED BY <1>7

-----------------------------------------------------------------------------
(* What the engine asks for.                                                *)

\* One entry of the history says what EngineTells says of each.
Reported(e) ==
  /\ job.by # "pilot" /\ e.nr \in DOMAIN Engine!Mappings => e.operation = Engine!Mappings[e.nr]
  /\ e.nr \in {9, 10} /\ Len(e.args) >= 3 /\ "meaning" \in DOMAIN e.args[3] =>
       LET wanted == {r \in {1, 2, 4} : \E n \in e.from[3].number : Engine!HasBit(n, r)}
           given == Engine!RightsOf(e.args[3].meaning)
       IN  wanted \subseteq given /\ (4 \in given => 4 \in wanted)

\* Arguments as captured, of which none has been converted.
Raw(args) ==
  /\ args \in Seq(Range(args))
  /\ \A i \in DOMAIN args :
       DOMAIN args[i] = {"text", "number", "decimal"} /\ args[i].number \in Option(args[i].number)

LEMMA CallsAreRaw ==
  ASSUME NEW j \in Jobs
  PROVE  /\ Len(j.calls) \in Nat /\ DOMAIN j.calls = 1 .. Len(j.calls) /\ j.calls \in Seq(Range(j.calls))
         /\ \A i \in DOMAIN j.calls : Raw(j.calls[i].args)
<1>1. j.calls \in Seq(Range(j.calls)) BY JobsAssumption
<1>2. ASSUME NEW i \in DOMAIN j.calls PROVE Raw(j.calls[i].args)
  <2>1. j.calls[i] \in Range(j.calls) BY <1>2 DEF Range
  <2>2. PICK c \in Range(j.calls) : c = j.calls[i] BY <2>1
  <2>3. /\ c.args \in Seq(Range(c.args))
        /\ \A a \in Range(c.args) :
             DOMAIN a = {"text", "number", "decimal"} /\ a.number \in Option(a.number)
    BY <2>2, JobsAssumption
  <2>4. PICK args : args = c.args OBVIOUS
  <2>5. \A k \in DOMAIN args : args[k] \in Range(args) BY DEF Range
  <2>6. Raw(args) BY <2>3, <2>4, <2>5 DEF Raw
  <2>7. QED BY <2>2, <2>4, <2>6
<1>3. QED BY <1>1, <1>2

LEMMA RawHasNoMeaning ==
  ASSUME NEW args, Raw(args), Len(args) >= 3 PROVE "meaning" \notin DOMAIN args[3]
<1>1. 3 \in DOMAIN args BY DEF Raw
<1>2. QED BY <1>1 DEF Raw

\* The rights that a converted protection gives.
LEMMA ProtectionsAgree ==
  ASSUME NEW n
  PROVE  LET wanted == {r \in {1, 2, 4} : Engine!HasBit(n, r)}
             given == Engine!RightsOf(Engine!PageProtection(n))
         IN  wanted \subseteq given /\ (4 \in given => 4 \in wanted)
<1> DEFINE may == {r \in {1, 2, 4} : Engine!HasBit(n, r)}
           given == Engine!RightsOf(Engine!PageProtection(n))
<1>1. may \subseteq {1, 2, 4} OBVIOUS
<1>2. Engine!PageProtection(n) =
        CASE 4 \in may -> IF 2 \in may THEN "EXECUTE_READWRITE"
                          ELSE IF 1 \in may THEN "EXECUTE_READ" ELSE "EXECUTE"
          [] 4 \notin may -> IF 2 \in may THEN "READWRITE" ELSE IF 1 \in may THEN "READONLY" ELSE "NOACCESS"
  BY DEF Engine!PageProtection
<1> HIDE DEF may
<1> DEFINE Fits == may \subseteq given /\ (4 \in given => 4 \in may)
<1>3. ASSUME 4 \in may PROVE Fits
  <2>1. Engine!PageProtection(n) = IF 2 \in may THEN "EXECUTE_READWRITE"
                                   ELSE IF 1 \in may THEN "EXECUTE_READ" ELSE "EXECUTE"
    BY <1>2, <1>3
  <2>2. given = IF 2 \in may THEN {1, 2, 4} ELSE IF 1 \in may THEN {1, 4} ELSE {4}
    BY <2>1 DEF Engine!RightsOf
  <2>3. QED BY <1>1, <1>3, <2>2
<1>4. ASSUME 4 \notin may PROVE Fits
  <2>1. Engine!PageProtection(n) = IF 2 \in may THEN "READWRITE" ELSE IF 1 \in may THEN "READONLY" ELSE "NOACCESS"
    BY <1>2, <1>4
  <2>2. given = IF 2 \in may THEN {1, 2} ELSE IF 1 \in may THEN {1} ELSE {}
    BY <2>1 DEF Engine!RightsOf
  <2>3. QED BY <1>1, <1>4, <2>2
<1>5. Fits BY <1>3, <1>4
<1>6. QED BY <1>5 DEF may

\* The two calls that ask for memory, in the mapper's table.
LEMMA MemoryRowsAre ==
  /\ Engine!MapperRows[9].name = "mmap" /\ Engine!MapperRows[10].name = "mprotect"
  /\ {9, 10} \subseteq DOMAIN Engine!MapperRows
<1>1. \A r \in Engine!FileRows :
        r.nr # 10 /\ (r.nr = 9 => r.name = "mmap")
  BY DEF Engine!FileRows, Engine!Row
<1>2. \A r \in Engine!MemoryRows : r.nr # 9 /\ (r.nr = 10 => r.name = "mprotect")
  BY DEF Engine!MemoryRows, Engine!Row
<1>3. \A r \in Engine!FileSystemRows : r.nr # 9 /\ r.nr # 10 BY DEF Engine!FileSystemRows, Engine!Row
<1>4. \A r \in Engine!ProcessRows : r.nr # 9 /\ r.nr # 10 BY DEF Engine!ProcessRows, Engine!Row
<1>5. \A r \in Engine!DirectoryRows : r.nr # 9 /\ r.nr # 10 BY DEF Engine!DirectoryRows, Engine!Row
<1>6. \A r \in MapperTable : (r.nr = 9 => r.name = "mmap") /\ (r.nr = 10 => r.name = "mprotect")
  BY <1>1, <1>2, <1>3, <1>4, <1>5 DEF MapperTable
<1>7. Engine!Row(9, "mmap", "VirtualAlloc") \in MapperTable /\ Engine!Row(10, "mprotect", "VirtualProtect") \in MapperTable
  BY DEF MapperTable, Engine!FileRows, Engine!MemoryRows
<1>8. Engine!Row(9, "mmap", "VirtualAlloc").nr = 9 /\ Engine!Row(10, "mprotect", "VirtualProtect").nr = 10
  BY DEF Engine!Row
<1>9. Engine!MapperRows = [n \in {r.nr : r \in MapperTable} |-> CHOOSE r \in MapperTable : r.nr = n]
  BY DEF Engine!MapperRows, MapperTable
<1>10. 9 \in {r.nr : r \in MapperTable} /\ 10 \in {r.nr : r \in MapperTable} BY <1>7, <1>8
<1>11. PICK r \in MapperTable : r.nr = 9 /\ Engine!MapperRows[9] = r BY <1>9, <1>10
<1>12. PICK r2 \in MapperTable : r2.nr = 10 /\ Engine!MapperRows[10] = r2 BY <1>9, <1>10
<1>13. QED BY <1>6, <1>9, <1>10, <1>11, <1>12

\* What a converted call asks for is what the call wanted.
LEMMA ConversionsAgree ==
  ASSUME NEW nr, NEW from, Raw(from), NEW target \in Engine!MapCall(nr, from), NEW e,
         e.nr = nr, e.from = from, e.operation = target.operation, e.args = target.args
  PROVE  Reported(e)
<1> DEFINE name == Engine!MapperRows[nr].name
<1>1. /\ nr \in DOMAIN Engine!MapperRows
      /\ target = [operation |-> Engine!MapperRows[nr].operation, args |-> Engine!ConvertArgs(name, from)]
  BY DEF Engine!MapCall, Engine!Some, Engine!None
<1>2. e.operation = Engine!MapperRows[nr].operation /\ e.args = Engine!ConvertArgs(name, from) BY <1>1
<1>3. nr \in DOMAIN Engine!Mappings => e.operation = Engine!Mappings[nr] BY <1>1, <1>2, TablesAgree
<1>4. ASSUME nr \in {9, 10}, Len(e.args) >= 3, "meaning" \in DOMAIN e.args[3]
      PROVE  LET wanted == {r \in {1, 2, 4} : \E n \in from[3].number : Engine!HasBit(n, r)}
                 given == Engine!RightsOf(e.args[3].meaning)
             IN  wanted \subseteq given /\ (4 \in given => 4 \in wanted)
  <2>1. name \in {"mmap", "mprotect"} BY <1>4, MemoryRowsAre
  <2>2. e.args # from BY <1>4, RawHasNoMeaning
  <2> HIDE DEF name
  <2>3. /\ ~(Len(from) < Engine!Needs(name))
        /\ e.args = [i \in 1 .. Engine!Keeps(name, Len(from)) |-> Engine!ConvertArg(name, i, from[i])]
    BY <1>2, <2>2 DEF Engine!ConvertArgs
  <2>4. Len(from) \in Nat BY DEF Raw
  <2>5. Len(from) >= 3 BY <2>1, <2>3, <2>4 DEF Engine!Needs, Engine!ByPath, Engine!ByHandle
  <2>6. Engine!Keeps(name, Len(from)) \in Nat /\ Engine!Keeps(name, Len(from)) >= 3
    BY <2>1, <2>4, <2>5 DEF Engine!Keeps, Engine!ByHandle
  <2>7. e.args[3] = Engine!ConvertArg(name, 3, from[3]) BY <2>3, <2>6
  <2>8. Engine!ConvertArg(name, 3, from[3]) =
          IF from[3].number = {} THEN from[3]
          ELSE [meaning |-> Engine!PageProtection(CHOOSE n \in from[3].number : TRUE)]
    BY <2>1 DEF Engine!ConvertArg, Engine!Replaced, Engine!ByPath, Engine!None
  <2>9. /\ "meaning" \notin DOMAIN from[3]
        /\ from[3].number = {} \/ \E v : from[3].number = {v}
    <3>1. 3 \in DOMAIN from BY <2>4, <2>5 DEF Raw
    <3>2. PICK number : number = from[3].number OBVIOUS
    <3>3. number \in Option(number) BY <3>1, <3>2 DEF Raw
    <3>4. number = {} \/ \E v : number = {v} BY <3>3 DEF Option, Some, None
    <3>5. QED BY <2>5, <3>2, <3>4, RawHasNoMeaning
  <2>10. PICK v : from[3].number = {v} BY <1>4, <2>7, <2>8, <2>9
  <2>11. (CHOOSE n \in from[3].number : TRUE) = v BY <2>10
  <2>12. e.args[3].meaning = Engine!PageProtection(v) BY <2>7, <2>8, <2>10, <2>11
  <2>13. {r \in {1, 2, 4} : \E n \in from[3].number : Engine!HasBit(n, r)} = {r \in {1, 2, 4} : Engine!HasBit(v, r)}
    BY <2>10
  <2>14. QED BY <2>12, <2>13, ProtectionsAgree
<1>5. QED BY <1>3, <1>4 DEF Reported

-----------------------------------------------------------------------------
(* What the engine has counted.                                             *)

EngineReports(missed) == [captured : Nat, injected : Nat, missed : Seq(Range(missed)), partial : BOOLEAN]

EngineType ==
  /\ job \in Jobs /\ engineReport \in EngineReports(engineReport.missed)
  /\ asked \in Seq(Range(asked)) /\ \A i \in DOMAIN asked : Reported(asked[i])

Misses(n) == Cardinality(Engine!UnknownTo(n))

\* Where the call at i went: to the history, or to the list of what was missed.
Went(i) ==
  IF Engine!Knows(job.calls[i].nr)
  THEN i - Misses(i) \in 1 .. Len(asked) /\ asked[i - Misses(i)].nr = job.calls[i].nr
  ELSE Misses(i) \in 1 .. Len(engineReport.missed) /\ engineReport.missed[Misses(i)] = job.calls[i].nr

\* The source holds the calls that are not captured yet; and nothing has failed as
\* long as the report is not partial.
Counted ==
  LET n == engineReport.captured
  IN  /\ Len(engineReport.missed) = Misses(n) /\ Len(asked) = n - Misses(n)
      /\ \A i \in 1 .. n : Went(i)
      /\ engineReport.injected = Cardinality(Engine!Accepted)
      /\ job.by = "events" /\ ~engineReport.partial => Engine!Accepted = DOMAIN asked
      /\ source \in Seq(Range(source)) /\ Len(source) = Len(job.calls) - n
      /\ \A i \in 1 .. Len(source) : source[i] = job.calls[n + i]

Concluded ==
  /\ outcome = "success" => Len(asked) = Len(job.calls) /\ asked # <<>> /\ Engine!Accepted = DOMAIN asked
  /\ outcome = "failed" => job.calls = <<>>

EngineInv ==
  EngineType /\ (job.by \in {"events", "rules"} => Counted /\ Concluded)

LEMMA EngineCounts == \A S : Engine!Cardinality(S) = Cardinality(S)
  BY DEF Engine!Cardinality, Cardinality

LEMMA Longer ==
  ASSUME NEW s, s \in Seq(Range(s)), NEW x
  PROVE  /\ Append(s, x) \in Seq(Range(Append(s, x))) /\ Len(s) \in Nat
         /\ Len(Append(s, x)) = Len(s) + 1 /\ DOMAIN Append(s, x) = 1 .. Len(s) + 1 /\ DOMAIN s = 1 .. Len(s)
         /\ Append(s, x)[Len(s) + 1] = x /\ \A i \in 1 .. Len(s) : Append(s, x)[i] = s[i]
<1> DEFINE S == Range(s) \cup {x}
<1>1. s \in Seq(S) /\ x \in S BY DEF Range
<1> HIDE DEF S
<1>2. PICK t : t = Append(s, x) OBVIOUS
<1>3. /\ t \in Seq(S) /\ Len(t) = Len(s) + 1 /\ Len(s) \in Nat /\ DOMAIN s = 1 .. Len(s)
      /\ t[Len(s) + 1] = x /\ \A i \in 1 .. Len(s) : t[i] = s[i]
  BY <1>1, <1>2, AppendProperties
<1>4. t \in Seq(Range(t)) /\ DOMAIN t = 1 .. Len(s) + 1
  <2>1. Len(t) \in Nat /\ DOMAIN t = 1 .. Len(t) BY <1>3
  <2>2. t = [i \in 1 .. Len(t) |-> t[i]] BY <1>3, <2>1
  <2>3. \A i \in 1 .. Len(t) : t[i] \in Range(t) BY <2>1 DEF Range
  <2>4. t \in Seq(Range(t)) BY <2>1, <2>2, <2>3
  <2>5. QED BY <1>3, <2>1, <2>4
<1>5. QED BY <1>2, <1>3, <1>4

LEMMA Shorter ==
  ASSUME NEW s, s \in Seq(Range(s)), s # <<>>
  PROVE  /\ Tail(s) \in Seq(Range(Tail(s))) /\ Len(s) \in Nat \ {0} /\ Len(Tail(s)) = Len(s) - 1
         /\ Head(s) = s[1] /\ \A i \in 1 .. Len(s) - 1 : Tail(s)[i] = s[i + 1]
<1> DEFINE S == Range(s)
<1>1. s \in Seq(S) OBVIOUS
<1> HIDE DEF S
<1>2. PICK t : t = Tail(s) OBVIOUS
<1>3. /\ t \in Seq(S) /\ Len(t) = Len(s) - 1 /\ Len(s) \in Nat \ {0}
      /\ \A i \in 1 .. Len(s) - 1 : t[i] = s[i + 1]
  BY <1>1, <1>2, HeadTailProperties
<1>4. t \in Seq(Range(t))
  <2>1. Len(t) \in Nat /\ DOMAIN t = 1 .. Len(t) BY <1>3
  <2>2. t = [i \in 1 .. Len(t) |-> t[i]] BY <1>3, <2>1
  <2>3. \A i \in 1 .. Len(t) : t[i] \in Range(t) BY <2>1 DEF Range
  <2>4. QED BY <2>1, <2>2, <2>3
<1>5. QED BY <1>2, <1>3, <1>4

LEMMA OneMoreCall ==
  ASSUME NEW n \in Nat
  PROVE  /\ Misses(n) \in Nat
         /\ Misses(n + 1) = IF Engine!Knows(job.calls[n + 1].nr) THEN Misses(n) ELSE Misses(n) + 1
<1> DEFINE old == Engine!UnknownTo(n)
           new == Engine!UnknownTo(n + 1)
<1>1. old \subseteq 1 .. n /\ IsFiniteSet(1 .. n)
  <2>1. old \subseteq 1 .. n BY DEF Engine!UnknownTo
  <2>2. QED BY <2>1, FS_Interval
<1>2. n + 1 \notin old BY <1>1
<1>3. new = IF Engine!Knows(job.calls[n + 1].nr) THEN old ELSE old \cup {n + 1}
  <2>1. 1 .. n + 1 = 1 .. n \cup {n + 1} BY Z3
  <2>2. QED BY <2>1 DEF Engine!UnknownTo
<1> HIDE DEF old, new
<1>4. IsFiniteSet(old) BY <1>1, FS_Subset
<1>5. Cardinality(old) \in Nat BY <1>4, FS_CardinalityType
<1>6. ~Engine!Knows(job.calls[n + 1].nr) => Cardinality(new) = Cardinality(old) + 1
  BY <1>2, <1>3, <1>4, FS_AddElement
<1>7. QED BY <1>3, <1>5, <1>6 DEF Misses, old, new

\* Counting looks at the job only.
LEMMA SameJob ==
  ASSUME UNCHANGED job
  PROVE  /\ \A nr : Engine!Knows(nr)' <=> Engine!Knows(nr)
         /\ \A n : Misses(n)' = Misses(n)
         /\ \A e : Reported(e)' <=> Reported(e)
<1>1. \A nr : Engine!Knows(nr)' <=> Engine!Knows(nr) BY DEF Engine!Knows
<1>2. \A n : Engine!UnknownTo(n)' = Engine!UnknownTo(n) BY <1>1 DEF Engine!UnknownTo
<1>3. QED BY <1>1, <1>2 DEF Misses, Reported

\* One call off the source, which is the next that has not been captured.
LEMMA TakenIsNext ==
  ASSUME EngineInv, NEW by \in {"events", "rules"}, Engine!TakeEvent(by),
         engineReport' \in EngineReports(engineReport'.missed),
         engineReport'.captured = engineReport.captured + 1
  PROVE  LET n == engineReport.captured
         IN  /\ Counted /\ n \in Nat /\ n + 1 \in 1 .. Len(job.calls) /\ Engine!Taken = job.calls[n + 1]
             /\ Raw(Engine!Taken.args)
             /\ source' \in Seq(Range(source')) /\ Len(source') = Len(job.calls) - (n + 1)
             /\ \A i \in 1 .. Len(source') : source'[i] = job.calls[n + 1 + i]
<1> DEFINE n == engineReport.captured
<1>1. job.by = by /\ source # <<>> /\ source' = Tail(source) BY DEF Engine!TakeEvent
<1>2. Counted BY <1>1 DEF EngineInv
<1>3. n \in Nat /\ job \in Jobs BY DEF EngineInv, EngineType, EngineReports
<1>4. /\ source \in Seq(Range(source)) /\ Len(source) = Len(job.calls) - n
      /\ \A i \in 1 .. Len(source) : source[i] = job.calls[n + i]
  BY <1>2 DEF Counted
<1> HIDE DEF n
<1>5. /\ source' \in Seq(Range(source')) /\ Len(source) \in Nat \ {0} /\ Len(source') = Len(source) - 1
      /\ Head(source) = source[1] /\ \A i \in 1 .. Len(source) - 1 : source'[i] = source[i + 1]
  BY <1>1, <1>4, Shorter
<1>6. Len(job.calls) \in Nat /\ DOMAIN job.calls = 1 .. Len(job.calls)
      /\ \A i \in DOMAIN job.calls : Raw(job.calls[i].args)
  BY <1>3, CallsAreRaw
<1>7. n + 1 \in 1 .. Len(job.calls) BY <1>3, <1>4, <1>5, <1>6
<1>8. Engine!Taken = job.calls[n + 1] BY <1>4, <1>5 DEF Engine!Taken
<1>9. Len(source') = Len(job.calls) - (n + 1) BY <1>3, <1>4, <1>5, <1>6
<1>10. ASSUME NEW i \in 1 .. Len(source') PROVE source'[i] = job.calls[n + 1 + i]
  <2>1. i \in 1 .. Len(source) - 1 /\ i + 1 \in 1 .. Len(source) BY <1>5
  <2>2. source'[i] = job.calls[n + (i + 1)] BY <1>4, <1>5, <2>1
  <2>3. n + (i + 1) = n + 1 + i BY <1>3, <2>1
  <2>4. QED BY <2>2, <2>3
<1>11. QED BY <1>2, <1>3, <1>5, <1>6, <1>7, <1>8, <1>9, <1>10 DEF n

\* A call that is known becomes one more entry of the history.
LEMMA AskingKeeps ==
  ASSUME EngineInv, NEW by \in {"events", "rules"}, Engine!TakeEvent(by),
         NEW e, asked' = Append(asked, e), Reported(e), e.nr = Engine!Taken.nr, Engine!Knows(e.nr),
         engineReport' \in EngineReports(engineReport'.missed),
         engineReport'.captured = engineReport.captured + 1,
         engineReport'.missed = engineReport.missed,
         engineReport'.injected = IF e.accepted THEN engineReport.injected + 1 ELSE engineReport.injected,
         by = "events" /\ ~e.accepted => engineReport'.partial,
         engineReport.partial => engineReport'.partial
  PROVE  EngineInv'
<1> DEFINE n == engineReport.captured
           last == Len(asked) + 1
<1>1. /\ Counted /\ n \in Nat /\ n + 1 \in 1 .. Len(job.calls) /\ Engine!Taken = job.calls[n + 1]
      /\ source' \in Seq(Range(source')) /\ Len(source') = Len(job.calls) - (n + 1)
      /\ \A i \in 1 .. Len(source') : source'[i] = job.calls[n + 1 + i]
  BY TakenIsNext
<1>2. job.by = by /\ UNCHANGED job /\ outcome' = "running" BY DEF Engine!TakeEvent
<1>3. asked \in Seq(Range(asked)) /\ job \in Jobs /\ \A i \in DOMAIN asked : Reported(asked[i])
  BY DEF EngineInv, EngineType
<1>4. /\ asked' \in Seq(Range(asked')) /\ Len(asked) \in Nat
      /\ Len(asked') = last /\ DOMAIN asked' = 1 .. last /\ DOMAIN asked = 1 .. Len(asked)
      /\ asked'[last] = e /\ \A i \in 1 .. Len(asked) : asked'[i] = asked[i]
  BY <1>3, Longer
<1>5. 1 .. last = 1 .. Len(asked) \cup {last} /\ last \notin 1 .. Len(asked) /\ last \in Nat BY <1>4
<1> HIDE DEF last
<1>6. EngineType'
  <2>1. \A i \in DOMAIN asked' : Reported(asked'[i]) BY <1>3, <1>4, <1>5
  <2>2. (\A i \in DOMAIN asked : Reported(asked[i]))' BY <1>2, <2>1 DEF Reported
  <2>3. QED BY <1>2, <1>3, <1>4, <2>2 DEF EngineType, EngineReports
<1>7. Misses(n) \in Nat /\ Misses(n + 1) = Misses(n) BY <1>1, OneMoreCall
<1> HIDE DEF n
<1>8. /\ Len(engineReport.missed) = Misses(n) /\ Len(asked) = n - Misses(n)
      /\ \A i \in 1 .. n : Went(i)
      /\ engineReport.injected = Cardinality(Engine!Accepted)
      /\ job.by = "events" /\ ~engineReport.partial => Engine!Accepted = DOMAIN asked
  BY <1>1 DEF Counted, n
<1>9. last = n + 1 - Misses(n)
  <2>1. last = Len(asked) + 1 BY DEF last
  <2>2. QED BY <1>1, <1>4, <1>7, <1>8, <2>1
<1>10. ASSUME NEW i \in 1 .. n + 1 PROVE Went(i)'
  <2>1. CASE i = n + 1
    <3>1. i - Misses(i) = last BY <1>1, <1>7, <1>9, <2>1
    <3>2. i - Misses(i) \in 1 .. Len(asked') BY <1>4, <1>5, <3>1
    <3>3. Engine!Knows(job.calls[i].nr) /\ asked'[i - Misses(i)].nr = job.calls[i].nr BY <1>1, <1>4, <2>1, <3>1
    <3>4. QED BY <1>2, <3>2, <3>3, SameJob DEF Went
  <2>2. CASE i \in 1 .. n
    <3>1. Went(i) BY <1>8, <2>2
    <3>2. 1 .. Len(asked) \subseteq 1 .. Len(asked') BY <1>4, <1>5
    <3>3. QED BY <1>2, <1>4, <3>1, <3>2, SameJob DEF Went
  <2>3. QED BY <1>1, <2>1, <2>2
<1>11. Engine!Accepted' = IF e.accepted THEN Engine!Accepted \cup {last} ELSE Engine!Accepted
  BY <1>4, <1>5 DEF Engine!Accepted
<1>12. engineReport'.injected = Cardinality(Engine!Accepted)'
  <2>1. Engine!Accepted \subseteq 1 .. Len(asked) BY <1>4 DEF Engine!Accepted
  <2>2. IsFiniteSet(1 .. Len(asked)) BY <1>4, FS_Interval
  <2>3. IsFiniteSet(Engine!Accepted) BY <2>1, <2>2, FS_Subset
  <2>4. last \notin Engine!Accepted BY <1>5, <2>1
  <2>5. Cardinality(Engine!Accepted \cup {last}) = Cardinality(Engine!Accepted) + 1 BY <2>3, <2>4, FS_AddElement
  <2>6. QED BY <1>8, <1>11, <2>5
<1>13. job.by = "events" /\ ~engineReport'.partial => Engine!Accepted' = DOMAIN asked'
  BY <1>2, <1>4, <1>5, <1>8, <1>11
<1>14. Counted'
  <2>1. Len(engineReport'.missed) = Misses(n + 1) /\ Len(asked') = n + 1 - Misses(n + 1)
    BY <1>4, <1>7, <1>8, <1>9
  <2>2. engineReport'.captured = n + 1 BY DEF n
  <2>3. Misses(engineReport.captured)' = Misses(n + 1)
    BY <1>2, <2>2 DEF Misses, Engine!UnknownTo, Engine!Knows
  <2>4. \A i \in 1 .. engineReport'.captured : Went(i)' BY <1>10, <2>2
  <2>5. (\A i \in 1 .. engineReport.captured : Went(i))' BY <2>4
  <2>6. (Len(engineReport.missed) = Misses(engineReport.captured)
          /\ Len(asked) = engineReport.captured - Misses(engineReport.captured))'
    BY <1>1, <1>7, <2>1, <2>2, <2>3
  <2>7. (engineReport.injected = Cardinality(Engine!Accepted)
          /\ (job.by = "events" /\ ~engineReport.partial => Engine!Accepted = DOMAIN asked))'
    BY <1>2, <1>12, <1>13
  <2>8. (source \in Seq(Range(source)) /\ Len(source) = Len(job.calls) - engineReport.captured)'
    BY <1>1, <1>2, <2>2
  <2>9. (\A i \in 1 .. Len(source) : source[i] = job.calls[engineReport.captured + i])'
    BY <1>1, <1>2, <2>2
  <2>10. QED BY <2>5, <2>6, <2>7, <2>8, <2>9 DEF Counted
<1>15. Concluded' BY <1>2 DEF Concluded
<1>16. QED BY <1>6, <1>14, <1>15 DEF EngineInv

\* A call that is not known is noted, and nothing is asked for.
LEMMA MissingKeeps ==
  ASSUME EngineInv, NEW by \in {"events", "rules"}, Engine!TakeEvent(by),
         ~Engine!Knows(Engine!Taken.nr), UNCHANGED asked,
         engineReport' = [engineReport EXCEPT !.captured = @ + 1, !.missed = Append(@, Engine!Taken.nr)]
  PROVE  EngineInv'
<1> DEFINE n == engineReport.captured
           last == Len(engineReport.missed) + 1
<1>1. /\ engineReport \in EngineReports(engineReport.missed) /\ job \in Jobs
      /\ asked \in Seq(Range(asked)) /\ \A i \in DOMAIN asked : Reported(asked[i])
  BY DEF EngineInv, EngineType
<1>2. PICK missed : missed = engineReport.missed OBVIOUS
<1>3. missed \in Seq(Range(missed)) BY <1>1, <1>2 DEF EngineReports
<1>4. PICK longer : longer = Append(missed, Engine!Taken.nr) OBVIOUS
<1>5. /\ longer \in Seq(Range(longer)) /\ Len(missed) \in Nat /\ Len(longer) = Len(missed) + 1
      /\ longer[Len(missed) + 1] = Engine!Taken.nr /\ \A i \in 1 .. Len(missed) : longer[i] = missed[i]
  BY <1>3, <1>4, Longer
<1>6. /\ engineReport'.captured = engineReport.captured + 1 /\ engineReport'.missed = longer
      /\ engineReport'.injected = engineReport.injected /\ engineReport'.partial = engineReport.partial
      /\ engineReport' \in EngineReports(engineReport'.missed)
  <2>1. /\ DOMAIN engineReport = {"captured", "injected", "missed", "partial"}
        /\ engineReport.captured \in Nat /\ engineReport.injected \in Nat /\ engineReport.partial \in BOOLEAN
    BY <1>1 DEF EngineReports
  <2>2. engineReport' = [engineReport EXCEPT !.captured = engineReport.captured + 1, !.missed = longer]
    BY <1>2, <1>4
  <2>3. engineReport' = [captured |-> engineReport.captured + 1, injected |-> engineReport.injected,
                         missed |-> longer, partial |-> engineReport.partial]
    BY <1>1, <2>2 DEF EngineReports
  <2>4. engineReport'.captured = engineReport.captured + 1 BY <2>1, <2>3
  <2>5. engineReport'.missed = longer BY <1>2, <1>4, <2>1
  <2>6. engineReport' \in EngineReports(longer) BY <1>5, <2>1, <2>3 DEF EngineReports
  <2>7. engineReport'.injected = engineReport.injected /\ engineReport'.partial = engineReport.partial
    BY <2>1
  <2>8. QED BY <2>4, <2>5, <2>6, <2>7
<1>7. /\ Counted /\ n \in Nat /\ n + 1 \in 1 .. Len(job.calls) /\ Engine!Taken = job.calls[n + 1]
      /\ source' \in Seq(Range(source')) /\ Len(source') = Len(job.calls) - (n + 1)
      /\ \A i \in 1 .. Len(source') : source'[i] = job.calls[n + 1 + i]
  BY <1>6, TakenIsNext
<1>8. job.by = by /\ UNCHANGED job /\ outcome' = "running" BY DEF Engine!TakeEvent
<1>9. Misses(n) \in Nat /\ Misses(n + 1) = Misses(n) + 1 BY <1>7, OneMoreCall
<1> HIDE DEF n
<1>10. /\ Len(missed) = Misses(n) /\ Len(asked) = n - Misses(n)
       /\ \A i \in 1 .. n : Went(i)
       /\ engineReport.injected = Cardinality(Engine!Accepted)
       /\ job.by = "events" /\ ~engineReport.partial => Engine!Accepted = DOMAIN asked
  BY <1>2, <1>7 DEF Counted, n
<1>11. EngineType'
  <2>1. (\A i \in DOMAIN asked : Reported(asked[i]))' BY <1>1, <1>8 DEF Reported
  <2>2. QED BY <1>1, <1>6, <1>8, <2>1 DEF EngineType, EngineReports
<1>12. ASSUME NEW i \in 1 .. n + 1 PROVE Went(i)'
  <2>1. CASE i = n + 1
    <3>1. Misses(i) = Len(missed) + 1 BY <1>9, <1>10, <2>1
    <3>2. Misses(i) \in 1 .. Len(longer) BY <1>5, <3>1
    <3>3. ~Engine!Knows(job.calls[i].nr) /\ longer[Misses(i)] = job.calls[i].nr BY <1>5, <1>7, <2>1, <3>1
    <3>4. QED BY <1>6, <1>8, <3>2, <3>3, SameJob DEF Went
  <2>2. CASE i \in 1 .. n
    <3>1. Went(i) BY <1>10, <2>2
    <3>2. 1 .. Len(missed) \subseteq 1 .. Len(longer) BY <1>5
    <3>3. QED BY <1>2, <1>5, <1>6, <1>8, <3>1, <3>2, SameJob DEF Went
  <2>3. QED BY <1>7, <2>1, <2>2
<1>13. Engine!Accepted' = Engine!Accepted BY DEF Engine!Accepted
<1>14. Counted'
  <2>1. Len(longer) = Misses(n + 1) /\ Len(asked) = n + 1 - Misses(n + 1)
    BY <1>5, <1>7, <1>9, <1>10
  <2>2. engineReport'.captured = n + 1 BY <1>6 DEF n
  <2>3. Misses(engineReport.captured)' = Misses(n + 1)
    BY <1>8, <2>2 DEF Misses, Engine!UnknownTo, Engine!Knows
  <2>4. \A i \in 1 .. engineReport'.captured : Went(i)' BY <1>12, <2>2
  <2>5. (\A i \in 1 .. engineReport.captured : Went(i))' BY <2>4
  <2>6. (Len(engineReport.missed) = Misses(engineReport.captured)
          /\ Len(asked) = engineReport.captured - Misses(engineReport.captured))'
    BY <1>6, <1>7, <1>9, <2>1, <2>2, <2>3
  <2>7. (engineReport.injected = Cardinality(Engine!Accepted)
          /\ (job.by = "events" /\ ~engineReport.partial => Engine!Accepted = DOMAIN asked))'
    BY <1>6, <1>8, <1>10, <1>13
  <2>8. (source \in Seq(Range(source)) /\ Len(source) = Len(job.calls) - engineReport.captured)'
    BY <1>7, <1>8, <2>2
  <2>9. (\A i \in 1 .. Len(source) : source[i] = job.calls[engineReport.captured + i])'
    BY <1>7, <1>8, <2>2
  <2>10. QED BY <2>5, <2>6, <2>7, <2>8, <2>9 DEF Counted
<1>15. Concluded' BY <1>8 DEF Concluded
<1>16. QED BY <1>11, <1>14, <1>15 DEF EngineInv

\* A step that only changes how the run is said to have gone.
LEMMA SayingKeeps ==
  ASSUME EngineInv, UNCHANGED <<job, source, engineReport, asked>>,
         job.by \in {"events", "rules"} => Concluded'
  PROVE  EngineInv'
<1>1. EngineType' BY DEF EngineInv, EngineType, EngineReports, Reported
<1>2. Counted => Counted'
  <2>1. Misses(engineReport.captured)' = Misses(engineReport.captured)
    BY DEF Misses, Engine!UnknownTo, Engine!Knows
  <2>2. (\A i \in 1 .. engineReport.captured : Went(i)) => (\A i \in 1 .. engineReport.captured : Went(i))'
    BY SameJob DEF Went
  <2>3. Engine!Accepted' = Engine!Accepted BY DEF Engine!Accepted
  <2>4. QED BY <2>1, <2>2, <2>3 DEF Counted
<1>3. QED BY <1>1, <1>2 DEF EngineInv

LEMMA EngineStarts == Engine!Init => EngineInv
<1> SUFFICES ASSUME Engine!Init PROVE EngineInv OBVIOUS
<1>1. /\ job \in Jobs /\ source = job.calls /\ asked = <<>> /\ outcome = "new"
      /\ engineReport = [captured |-> 0, injected |-> 0, missed |-> <<>>, partial |-> FALSE]
  BY DEF Engine!Init
<1>2. <<>> \in Seq(Range(<<>>)) OBVIOUS
<1>3. EngineType BY <1>1, <1>2 DEF EngineType, EngineReports
<1>4. Len(job.calls) \in Nat /\ job.calls \in Seq(Range(job.calls)) BY <1>1, CallsAreRaw
<1>5. Misses(0) = 0 /\ Cardinality(Engine!Accepted) = 0 /\ Engine!Accepted = {}
  <2>1. Engine!UnknownTo(0) = {} BY DEF Engine!UnknownTo
  <2>2. Engine!Accepted = {} BY <1>1 DEF Engine!Accepted
  <2>3. QED BY <2>1, <2>2, FS_EmptySet DEF Misses
<1>6. Counted BY <1>1, <1>4, <1>5 DEF Counted
<1>7. Concluded BY <1>1 DEF Concluded
<1>8. QED BY <1>3, <1>6, <1>7 DEF EngineInv

LEMMA EngineKeeps == ASSUME EngineInv, Engine!Next PROVE EngineInv'
<1>1. CASE Engine!RunEvents \/ Engine!RunFullCycle \/ Engine!RunRules
  <2>1. UNCHANGED <<job, source, engineReport, asked>>
    BY <1>1 DEF Engine!RunEvents, Engine!RunFullCycle, Engine!RunRules, Engine!Starts
  <2>2. outcome' \notin {"success", "failed"}
    BY <1>1 DEF Engine!RunEvents, Engine!RunFullCycle, Engine!RunRules, Engine!Starts
  <2>3. Concluded' BY <2>2 DEF Concluded
  <2>4. QED BY <2>1, <2>3, SayingKeeps
<1>2. CASE Engine!Map
  <2>1. PICK target \in Engine!MapCall(Engine!Taken.nr, Engine!Taken.args) :
          /\ Engine!TakeEvent("events") /\ Engine!Inject(Engine!Taken, target)
          /\ engineReport' = IF Engine!Accepts(target.operation, target.args)
               THEN [engineReport EXCEPT !.captured = @ + 1, !.injected = @ + 1]
               ELSE [engineReport EXCEPT !.captured = @ + 1, !.partial = TRUE]
    BY <1>2 DEF Engine!Map
  <2> DEFINE accepted == Engine!Accepts(target.operation, target.args)
             e == [nr |-> Engine!Taken.nr, from |-> Engine!Taken.args, operation |-> target.operation,
                   args |-> target.args, accepted |-> accepted,
                   done |-> Engine!Does(target.operation, target.args)]
  <2>2. asked' = Append(asked, e) BY <2>1 DEF Engine!Inject
  <2>3. /\ e.nr = Engine!Taken.nr /\ e.from = Engine!Taken.args /\ (e.accepted <=> accepted)
        /\ e.operation = target.operation /\ e.args = target.args
    OBVIOUS
  <2> HIDE DEF e, accepted
  <2>4. engineReport \in EngineReports(engineReport.missed) BY DEF EngineInv, EngineType
  <2>5. /\ engineReport'.captured = engineReport.captured + 1 /\ engineReport'.missed = engineReport.missed
        /\ engineReport' \in EngineReports(engineReport'.missed)
        /\ engineReport'.injected = IF accepted THEN engineReport.injected + 1 ELSE engineReport.injected
        /\ engineReport'.partial = IF accepted THEN engineReport.partial ELSE TRUE
    <3>1. /\ engineReport.captured \in Nat /\ engineReport.injected \in Nat
          /\ engineReport.missed \in Seq(Range(engineReport.missed)) /\ engineReport.partial \in BOOLEAN
      BY <2>4 DEF EngineReports
    <3>2. engineReport' = IF accepted THEN [engineReport EXCEPT !.captured = @ + 1, !.injected = @ + 1]
                          ELSE [engineReport EXCEPT !.captured = @ + 1, !.partial = TRUE]
      BY <2>1 DEF accepted
    <3>3. CASE accepted
      <4>1. engineReport' = [captured |-> engineReport.captured + 1, injected |-> engineReport.injected + 1,
                             missed |-> engineReport.missed, partial |-> engineReport.partial]
        BY <2>4, <3>2, <3>3 DEF EngineReports
      <4>2. QED BY <3>1, <3>3, <4>1 DEF EngineReports
    <3>4. CASE ~accepted
      <4>1. engineReport' = [captured |-> engineReport.captured + 1, injected |-> engineReport.injected,
                             missed |-> engineReport.missed, partial |-> TRUE]
        BY <2>4, <3>2, <3>4 DEF EngineReports
      <4>2. QED BY <3>1, <3>4, <4>1 DEF EngineReports
    <3>5. QED BY <3>3, <3>4
  <2>6. Raw(Engine!Taken.args) BY <2>1, <2>5, TakenIsNext
  <2>7. Reported(e) BY <2>3, <2>6, ConversionsAgree
  <2>8. job.by = "events" BY <2>1 DEF Engine!TakeEvent
  <2>9. Engine!Knows(e.nr)
    BY <2>3, <2>8 DEF Engine!Knows, Engine!MapCall, Engine!None
  <2>10. QED BY <2>1, <2>2, <2>3, <2>5, <2>7, <2>9, AskingKeeps
<1>3. CASE Engine!MapByRules
  <2>1. PICK operation \in Engine!Intercept(Engine!Taken.nr) :
          /\ Engine!TakeEvent("rules")
          /\ asked' = Append(asked, [nr |-> Engine!Taken.nr, from |-> Engine!Taken.args, operation |-> operation,
                                     args |-> Engine!Taken.args, accepted |-> FALSE, done |-> FALSE])
          /\ engineReport' = [engineReport EXCEPT !.captured = @ + 1]
    BY <1>3 DEF Engine!MapByRules
  <2> DEFINE e == [nr |-> Engine!Taken.nr, from |-> Engine!Taken.args, operation |-> operation,
                   args |-> Engine!Taken.args, accepted |-> FALSE, done |-> FALSE]
  <2>2. asked' = Append(asked, e) BY <2>1
  <2>3. /\ e.nr = Engine!Taken.nr /\ ~e.accepted /\ e.operation = operation /\ e.args = Engine!Taken.args
    OBVIOUS
  <2> HIDE DEF e
  <2>4. engineReport \in EngineReports(engineReport.missed) BY DEF EngineInv, EngineType
  <2>5. /\ engineReport'.captured = engineReport.captured + 1 /\ engineReport'.missed = engineReport.missed
        /\ engineReport' \in EngineReports(engineReport'.missed)
        /\ engineReport'.injected = engineReport.injected /\ engineReport'.partial = engineReport.partial
    BY <2>1, <2>4 DEF EngineReports
  <2>6. Raw(Engine!Taken.args) BY <2>1, <2>5, TakenIsNext
  <2>7. e.nr \in DOMAIN Engine!Mappings /\ e.operation = Engine!Mappings[e.nr]
    BY <2>1, <2>3 DEF Engine!Intercept, Engine!Some, Engine!None
  <2>8. Reported(e) BY <2>3, <2>6, <2>7, RawHasNoMeaning DEF Reported
  <2>9. job.by = "rules" BY <2>1 DEF Engine!TakeEvent
  <2>10. Engine!Knows(e.nr) BY <2>7, <2>9 DEF Engine!Knows
  <2>11. QED BY <2>1, <2>2, <2>3, <2>5, <2>8, <2>10, AskingKeeps
<1>4. CASE Engine!Miss
  <2>1. /\ UNCHANGED asked
        /\ engineReport' = [engineReport EXCEPT !.captured = @ + 1, !.missed = Append(@, Engine!Taken.nr)]
    BY <1>4 DEF Engine!Miss
  <2>2. CASE Engine!TakeEvent("events") /\ Engine!Taken.nr \notin DOMAIN Engine!MapperRows
    <3>1. ~Engine!Knows(Engine!Taken.nr) BY <2>2 DEF Engine!Knows, Engine!TakeEvent
    <3>2. QED BY <2>1, <2>2, <3>1, MissingKeeps
  <2>3. CASE Engine!TakeEvent("rules") /\ Engine!Intercept(Engine!Taken.nr) = Engine!None
    <3>1. ~Engine!Knows(Engine!Taken.nr)
      BY <2>3 DEF Engine!Knows, Engine!TakeEvent, Engine!Intercept, Engine!Some, Engine!None
    <3>2. QED BY <2>1, <2>3, <3>1, MissingKeeps
  <2>4. QED BY <1>4, <2>2, <2>3 DEF Engine!Miss
<1>5. CASE Engine!End
  <2>1. /\ UNCHANGED <<job, source, engineReport, asked>> /\ source = <<>>
        /\ outcome' = IF job.by = "events" THEN Engine!StatusOf(engineReport) ELSE "mapped"
    BY <1>5 DEF Engine!End
  <2>2. ASSUME Counted, job.by \in {"events", "rules"} PROVE Concluded'
    <3> DEFINE n == engineReport.captured
    <3>1. /\ job \in Jobs /\ asked \in Seq(Range(asked)) /\ engineReport.missed \in Seq(Range(engineReport.missed))
          /\ n \in Nat
      BY DEF EngineInv, EngineType, EngineReports
    <3>2. Len(job.calls) \in Nat /\ job.calls \in Seq(Range(job.calls)) BY <3>1, CallsAreRaw
    <3>3. /\ Len(engineReport.missed) = Misses(n) /\ Len(asked) = n - Misses(n)
          /\ job.by = "events" /\ ~engineReport.partial => Engine!Accepted = DOMAIN asked
          /\ Len(source) = Len(job.calls) - n
      BY <2>2 DEF Counted
    <3>4. Len(source) = 0 BY <2>1
    <3>5. n = Len(job.calls) BY <3>1, <3>2, <3>3, <3>4
    <3>6. ASSUME outcome' = "success"
          PROVE  Len(asked) = Len(job.calls) /\ asked # <<>> /\ Engine!Accepted = DOMAIN asked
      <4>1. job.by = "events" /\ n # 0 /\ engineReport.missed = <<>> /\ ~engineReport.partial
        BY <2>1, <3>6 DEF Engine!StatusOf
      <4>2. Misses(n) = 0 BY <3>3, <4>1
      <4>3. Len(asked) = n BY <3>1, <3>3, <4>2
      <4>4. QED BY <3>3, <3>5, <4>1, <4>3
    <3>7. ASSUME outcome' = "failed" PROVE job.calls = <<>>
      <4>1. n = 0 BY <2>1, <3>7 DEF Engine!StatusOf
      <4>2. Len(job.calls) = 0 BY <3>5, <4>1
      <4>3. QED BY <3>2, <4>2, EmptySeq
    <3>8. Engine!Accepted' = Engine!Accepted BY <2>1 DEF Engine!Accepted
    <3>9. QED BY <2>1, <3>6, <3>7, <3>8 DEF Concluded
  <2>3. QED BY <2>1, <2>2, SayingKeeps DEF EngineInv
<1>6. CASE Engine!Pilot
  <2>1. job.by = "pilot" /\ UNCHANGED <<job, source, engineReport>> BY <1>6 DEF Engine!Pilot
  <2>2. /\ job \in Jobs /\ engineReport \in EngineReports(engineReport.missed)
        /\ asked \in Seq(Range(asked)) /\ \A i \in DOMAIN asked : Reported(asked[i])
    BY DEF EngineInv, EngineType
  <2>3. EngineType'
    <3>1. CASE UNCHANGED asked
      BY <2>1, <2>2, <3>1 DEF EngineType, EngineReports, Reported
    <3>2. CASE Engine!Inject(Head(job.calls), [operation |-> Head(job.calls).name, args |-> Head(job.calls).args])
      <4> DEFINE call == Head(job.calls)
                 e == [nr |-> call.nr, from |-> call.args, operation |-> call.name, args |-> call.args,
                       accepted |-> Engine!Accepts(call.name, call.args), done |-> Engine!Does(call.name, call.args)]
      <4>1. asked' = Append(asked, e) BY <3>2 DEF Engine!Inject
      <4>2. e.args = call.args OBVIOUS
      <4> HIDE DEF e
      <4>3. job.calls # <<>> BY <2>1, <2>2, JobsAssumption
      <4>4. 1 \in DOMAIN job.calls /\ call = job.calls[1]
        <5>1. job.calls \in Seq(Range(job.calls)) BY <2>2, CallsAreRaw
        <5>2. QED BY <4>3, <5>1
      <4>5. Raw(call.args) BY <2>2, <4>4, CallsAreRaw
      <4> HIDE DEF call
      <4>6. Reported(e) BY <2>1, <4>2, <4>5, RawHasNoMeaning DEF Reported
      <4>7. /\ asked' \in Seq(Range(asked')) /\ DOMAIN asked' = 1 .. Len(asked) + 1 /\ Len(asked) \in Nat
            /\ DOMAIN asked = 1 .. Len(asked)
            /\ asked'[Len(asked) + 1] = e /\ \A i \in 1 .. Len(asked) : asked'[i] = asked[i]
        BY <2>2, <4>1, Longer
      <4>8. \A i \in DOMAIN asked' : Reported(asked'[i])
        <5>1. 1 .. Len(asked) + 1 = 1 .. Len(asked) \cup {Len(asked) + 1} BY <4>7
        <5>2. QED BY <2>2, <4>6, <4>7, <5>1
      <4>9. (\A i \in DOMAIN asked : Reported(asked[i]))' BY <2>1, <4>8 DEF Reported
      <4>10. QED BY <2>1, <2>2, <4>7, <4>9 DEF EngineType, EngineReports
    <3>3. QED BY <1>6, <3>1, <3>2 DEF Engine!Pilot
  <2>4. QED BY <2>1, <2>3 DEF EngineInv
<1>7. QED BY <1>1, <1>2, <1>3, <1>4, <1>5, <1>6 DEF Engine!Next

\* Every call taken so far is either listed as missed or was asked for, in order, and
\* the status of the report is what happened (LocalEngine::execute, capture_and_map);
\* the two tables of calls agree (mapper/, interceptor/mod.rs); memory is asked for with
\* every right that was wanted (convert_mmap_prot).
THEOREM EngineAlwaysTells == ServersSpec => []EngineTells
<1>1. ServersInit => EngineInv BY EngineStarts DEF ServersInit
<1>2. EngineInv /\ [ServersNext]_<<server, vars, hostVars, rulesVars, engineVars>> => EngineInv'
  <2> SUFFICES ASSUME EngineInv, [ServersNext]_<<server, vars, hostVars, rulesVars, engineVars>>
               PROVE  EngineInv'
    OBVIOUS
  <2>1. CASE UNCHANGED engineVars
    <3>1. UNCHANGED <<job, source, engineReport, asked, outcome>> BY <2>1 DEF engineVars
    <3>2. Concluded => Concluded' BY <3>1 DEF Concluded, Engine!Accepted
    <3>3. QED BY <3>1, <3>2, SayingKeeps DEF EngineInv
  <2>2. CASE Engine!Next BY <2>2, EngineKeeps
  <2>3. QED BY <2>1, <2>2 DEF ServersNext
<1>3. EngineInv => EngineTells
  <2> SUFFICES ASSUME EngineInv PROVE EngineTells OBVIOUS
  <2>1. \A i \in DOMAIN asked : Reported(asked[i]) BY DEF EngineInv, EngineType
  <2>2. ASSUME job.by \in {"events", "rules"} PROVE Counted /\ Concluded BY <2>2 DEF EngineInv
  <2>3. QED BY <2>1, <2>2, EngineCounts DEF EngineTells, Engine!EngineTells, Reported, Counted, Concluded, Went, Misses
<1>4. QED BY <1>1, <1>2, <1>3, PTL DEF ServersSpec

-----------------------------------------------------------------------------
(* The guest's memory, whoever serves.                                      *)

\* Who serves a program instead of the kernel leaves its memory alone, so what the
\* kernel keeps is kept (SyscallHandler, elf/runtime.rs:1103).
COROLLARY MemoryIsServed ==
  ServersSpec =>
    /\ KeepsAddressSpace
    /\ [](RegionsApart /\ BrkIsBacked /\ ThreadPointerIsBacked /\ ReadsAreContiguous)
<1>1. ServersInit => Init BY DEF ServersInit
<1>2. [ServersNext]_<<server, vars, hostVars, rulesVars, engineVars>> => [Next]_vars
  BY EmulatedCallIsACall DEF ServersNext
<1>3. ServersSpec => Spec BY <1>1, <1>2, PTL DEF ServersSpec, Spec
<1>4. QED
  BY <1>3, KernelKeepsAddressSpace, MemoryStaysApart, HeapStaysMapped, ThreadPointerStaysBacked,
     ReadsStayContiguous, PTL

=============================================================================
