---------------------------- MODULE LoaderProofs ----------------------------
(***************************************************************************)
(* Proof that the loader goes on with exactly the objects its program      *)
(* needs, for every file system: the walk of visit_dependency over a graph *)
(* of any size; that the slots of a dynamic program follow its load order, *)
(* and that its thread-local variables have one address each, for every    *)
(* table a file can hold.                                                  *)
(***************************************************************************)
EXTENDS Loader, TLAPS, FiniteSetTheorems, SequenceTheorems, WellFoundedInduction

\* Visited, and left again.
Finished == visited \ Visiting

GraphType ==
  /\ system \in Systems
  /\ walk \in {"before", "walking", "done"} \cup Refusals
  /\ frames \in Seq(Frame) /\ nodes \in Seq(Path)
  /\ visited \subseteq Path

Accepted(p) == p.dir \in system.allowed /\ Usable(p)

\* Each frame's children before next are finished, but for the one the frame
\* above is about.
FramesChain ==
  \A n \in DOMAIN frames : \A p \in Path :
    frames[n].path = p =>
      /\ frames[n].next <= Len(Needed(p)) + 1
      /\ n < Len(frames) => frames[n].next > 1
      /\ \A i \in 1 .. frames[n].next - 1 :
           /\ <<p, Child(p, i)>> \in edges
           /\ IF n < Len(frames) /\ i = frames[n].next - 1
              THEN Child(p, i) = frames[n + 1].path
              ELSE Child(p, i) \in Finished

NodesOrdered ==
  /\ nodes # <<>> /\ nodes[1] = Root
  /\ \A i, j \in DOMAIN nodes : nodes[i] = nodes[j] => i = j
  /\ \A i \in DOMAIN nodes : i # 1 =>
       \E j \in 1 .. i - 1 : \E p \in Path : nodes[j] = p /\ nodes[i] \in Children(p)

WalkInv ==
  /\ visited = NodeSet
  /\ Visiting \subseteq visited
  /\ \A m, n \in DOMAIN frames : frames[m].path = frames[n].path => m = n
  /\ NodesOrdered
  /\ \A p \in visited : Accepted(p)
  /\ \A p \in Finished : Children(p) \subseteq Finished /\ \A c \in Children(p) : <<p, c>> \in edges
  /\ \A e \in edges : e[1] \in NodeSet /\ e[2] \in Children(e[1])
  /\ FramesChain
  /\ \A S \in SUBSET Finished : ~Unending(S)

GraphInv ==
  /\ GraphType
  /\ walk = "before" => frames = <<>> /\ nodes = <<>> /\ visited = {} /\ edges = {}
  /\ walk \in {"walking", "done"} => WalkInv
  /\ walk = "done" => frames = <<>>
  /\ walk = "cycle" => \E S \in SUBSET Visiting : Unending(S)

-----------------------------------------------------------------------------
LEMMA SystemFacts ==
  ASSUME system \in Systems
  PROVE  /\ Root \in Path
         /\ \A p : Usable(p) => Needed(p) \in Seq(Names)
         /\ \A p \in Path : Usable(p) => \A i \in 1 .. Len(Needed(p)) : Child(p, i) \in Path
<1>1. /\ system.root \in Path
      /\ \A p \in DOMAIN system.links : system.links[p] \in Path
      /\ \A p \in DOMAIN system.objects : system.objects[p].needed \in Seq(Names)
  BY SystemsAssumption
<1>2. \A p \in Path : Canonical(p) \in Path BY <1>1 DEF Canonical
<1>3. \A p : Usable(p) => Needed(p) \in Seq(Names) BY <1>1 DEF Usable, Needed
<1>4. ASSUME NEW p \in Path, Usable(p), NEW i \in 1 .. Len(Needed(p)) PROVE Child(p, i) \in Path
  <2>1. Needed(p)[i] \in Names BY <1>3, <1>4
  <2>2. [p EXCEPT !.name = Needed(p)[i]] \in Path BY <2>1 DEF Path
  <2>3. QED BY <1>2, <2>2 DEF Child
<1>5. QED BY <1>1, <1>2, <1>3, <1>4 DEF Root

LEMMA SystemStays ==
  ASSUME system' = system
  PROVE  /\ Root' = Root
         /\ \A p : Children(p)' = Children(p)
         /\ \A p : Needed(p)' = Needed(p)
         /\ \A p : Accepted(p)' = Accepted(p)
         /\ \A p, i : Child(p, i)' = Child(p, i)
         /\ \A S : Unending(S)' = Unending(S)
BY DEF Root, Children, Needed, Accepted, Usable, Child, Canonical, Unending

LEMMA ChildrenOf ==
  ASSUME system \in Systems, NEW p, Usable(p)
  PROVE  Children(p) = {Child(p, i) : i \in 1 .. Len(Needed(p))}
<1>1. Needed(p) \in Seq(Names) BY SystemFacts
<1>2. QED BY <1>1 DEF Children

\* With everything that p needs finished before it, p too may be added.
LEMMA FinishedGrows ==
  ASSUME NEW F, NEW p, p \notin F, Children(p) \subseteq F,
         \A q \in F : Children(q) \subseteq F,
         \A S \in SUBSET F : ~Unending(S)
  PROVE  \A S \in SUBSET (F \cup {p}) : ~Unending(S)
<1> SUFFICES ASSUME NEW S \in SUBSET (F \cup {p}), Unending(S) PROVE FALSE
  OBVIOUS
<1>1. S # {} /\ \A q \in S : Children(q) \cap S # {} BY DEF Unending
<1>2. CASE S \ {p} = {}
  <2>1. S = {p} BY <1>1, <1>2
  <2>2. QED BY <1>1, <2>1
<1>3. CASE S \ {p} # {}
  <2>1. S \ {p} \in SUBSET F OBVIOUS
  <2>2. PICK q \in S \ {p} : Children(q) \cap (S \ {p}) = {} BY <1>3, <2>1 DEF Unending
  <2>3. q \in F /\ Children(q) \subseteq F BY <2>1
  <2>4. Children(q) \cap S = {} BY <2>2, <2>3
  <2>5. QED BY <1>1, <2>2, <2>4
<1>4. QED BY <1>2, <1>3

-----------------------------------------------------------------------------
(* The root.                                                               *)

LEMMA RootKeepsInv == GraphInv /\ VisitRoot => GraphInv'
<1> SUFFICES ASSUME GraphInv, VisitRoot PROVE GraphInv'
  OBVIOUS
<1> USE DEF GraphInv, GraphType
<1>1. walk = "before" /\ frames = <<>> /\ nodes = <<>> /\ visited = {} /\ edges = {}
      /\ edges' = edges /\ system' = system /\ Visit(Root, <<>>)
  BY DEF VisitRoot
<1>2. Root \in Path BY SystemFacts
<1>3. Visiting = {} /\ Finished = {} BY <1>1 DEF Visiting, Finished
<1>4. CASE Refuse("forbidden", <<>>) /\ UNCHANGED visited
  <2>1. walk' = "forbidden" /\ frames' = <<>> /\ nodes' = nodes /\ visited' = visited
    BY <1>4 DEF Refuse
  <2>2. QED BY <1>1, <2>1 DEF Refusals
<1>5. CASE Refuse("unreadable", <<>>) /\ visited' = visited \cup {Root}
  <2>1. walk' = "unreadable" /\ frames' = <<>> /\ nodes' = nodes
    BY <1>5 DEF Refuse
  <2>2. QED BY <1>1, <1>2, <1>5, <2>1 DEF Refusals
<1>6. CASE /\ Root.dir \in system.allowed /\ Usable(Root) /\ walk' = "walking"
           /\ frames' = Append(<<>>, [path |-> Root, next |-> 1])
           /\ nodes' = Append(nodes, Root) /\ visited' = visited \cup {Root}
  <2>1. /\ frames' = <<[path |-> Root, next |-> 1]>> /\ nodes' = <<Root>>
        /\ visited' = {Root} /\ edges' = {}
    BY <1>1, <1>6
  <2>2. [path |-> Root, next |-> 1] \in Frame BY <1>2 DEF Frame
  <2>3. frames' \in Seq(Frame) /\ nodes' \in Seq(Path) BY <1>2, <2>1, <2>2
  <2>4. Len(frames') = 1 /\ DOMAIN frames' = {1} /\ frames'[1] = [path |-> Root, next |-> 1]
    BY <2>1
  <2>5. Visiting' = {Root} /\ Finished' = {} BY <2>1, <2>4 DEF Visiting, Finished
  <2>6. DOMAIN nodes' = {1} /\ nodes'[1] = Root /\ NodeSet' = {Root} BY <2>1 DEF NodeSet
  <2>7. Root' = Root /\ \A p : Needed(p)' = Needed(p) BY <1>1, SystemStays
  <2>8. \A p \in visited' : Accepted(p)'
    <3>1. \A p : Accepted(p)' = Accepted(p) BY <1>1, SystemStays
    <3>2. Accepted(Root) BY <1>6 DEF Accepted
    <3>3. QED BY <2>1, <3>1, <3>2
  <2>9. NodesOrdered' BY <2>1, <2>6, <2>7 DEF NodesOrdered
  <2>10. Needed(Root) \in Seq(Names) BY <1>6, SystemFacts
  <2>11. FramesChain'
    <3> SUFFICES ASSUME NEW m \in DOMAIN frames', NEW p \in Path, frames'[m].path = p
                 PROVE  /\ frames'[m].next <= Len(Needed(p)') + 1
                        /\ ~(m < Len(frames'))
                        /\ 1 .. frames'[m].next - 1 = {}
      BY DEF FramesChain
    <3>1. m = 1 /\ p = Root /\ frames'[m].next = 1 BY <2>4
    <3>2. Needed(p)' = Needed(p) BY <2>7
    <3>3. Len(Needed(p)') \in Nat BY <2>10, <3>1, <3>2
    <3>4. QED BY <2>4, <3>1, <3>3
  <2>12. \A S \in SUBSET Finished' : ~Unending(S)'
    <3>1. \A S : Unending(S)' = Unending(S) BY <1>1, SystemStays
    <3>2. QED BY <2>5, <3>1 DEF Unending
  <2>13. WalkInv' BY <2>1, <2>4, <2>5, <2>6, <2>8, <2>9, <2>11, <2>12 DEF WalkInv
  <2>14. QED BY <1>1, <1>2, <1>6, <2>1, <2>3, <2>13
<1>7. QED BY <1>1, <1>3, <1>4, <1>5, <1>6 DEF Visit

-----------------------------------------------------------------------------
(* A needed object.                                                        *)

\* A stack is as long after its top has gone on, and holds the same paths.
LEMMA TopGoesOn ==
  ASSUME frames \in Seq(Frame), frames # <<>>, NEW below,
         below = [frames EXCEPT ![Len(frames)].next = @ + 1]
  PROVE  /\ below \in Seq(Frame)
         /\ Len(frames) \in Nat \ {0}
         /\ Len(below) = Len(frames) /\ DOMAIN below = 1 .. Len(frames) /\ DOMAIN frames = 1 .. Len(frames)
         /\ \A m \in 1 .. Len(frames) : below[m].path = frames[m].path
         /\ \A m \in 1 .. Len(frames) : m # Len(frames) => below[m] = frames[m]
         /\ below[Len(frames)].next = frames[Len(frames)].next + 1
<1>1. Len(frames) \in Nat \ {0} /\ DOMAIN frames = 1 .. Len(frames) OBVIOUS
<1>2. frames[Len(frames)] \in Frame BY <1>1
<1>3. frames[Len(frames)].next \in Nat /\ frames[Len(frames)].path \in Path
  BY <1>2 DEF Frame
<1>4. PICK f : f = [frames[Len(frames)] EXCEPT !.next = @ + 1]
  OBVIOUS
<1>5. /\ f.path = frames[Len(frames)].path
      /\ f.next = frames[Len(frames)].next + 1
      /\ f \in Frame
  BY <1>2, <1>3, <1>4 DEF Frame
<1>6. below = [frames EXCEPT ![Len(frames)] = f] BY <1>4
<1>7. below \in Seq(Frame) /\ Len(below) = Len(frames) BY <1>1, <1>5, <1>6
<1>8. QED BY <1>1, <1>5, <1>6, <1>7

\* From an object that is on the stack the frames above lead back to it.
LEMMA StackHoldsCycle ==
  ASSUME GraphType, WalkInv, frames # <<>>, NEW c \in Visiting,
         NEW p \in Path, p = frames[Len(frames)].path, c \in Children(p)
  PROVE  \E S \in SUBSET Visiting : Unending(S)
<1>1. PICK n : n = Len(frames) OBVIOUS
<1>2. /\ n \in Nat \ {0} /\ DOMAIN frames = 1 .. n
      /\ \A m \in 1 .. n : frames[m] \in Frame
  BY <1>1 DEF GraphType
<1>3. PICK k \in 1 .. n : c = frames[k].path BY <1>2 DEF Visiting
<1>4. PICK S : S = {frames[m].path : m \in k .. n} OBVIOUS
<1>5. S \in SUBSET Visiting BY <1>2, <1>4 DEF Visiting
<1>6. c \in S
  <2>1. k \in k .. n BY <1>2
  <2>2. QED BY <1>3, <1>4, <2>1
<1>7. ASSUME NEW q \in S PROVE Children(q) \cap S # {}
  <2>1. PICK m \in k .. n : q = frames[m].path BY <1>4, <1>7
  <2>2. CASE m = n BY <1>1, <1>6, <2>1, <2>2
  <2>3. CASE m # n
    <3>1. m \in 1 .. n /\ m < n /\ m + 1 \in k .. n BY <1>2, <2>1, <2>3
    <3>2. frames[m] \in Frame BY <1>2, <3>1
    <3>3. q \in Path /\ frames[m].next \in Nat BY <2>1, <3>2 DEF Frame
    <3>4. FramesChain BY DEF WalkInv
    <3>5. /\ frames[m].next <= Len(Needed(q)) + 1 /\ frames[m].next > 1
          /\ \A i \in 1 .. frames[m].next - 1 :
               i = frames[m].next - 1 => Child(q, i) = frames[m + 1].path
      BY <1>1, <1>2, <2>1, <3>1, <3>3, <3>4 DEF FramesChain
    <3>6. Child(q, frames[m].next - 1) = frames[m + 1].path BY <3>3, <3>5
    <3>7. Usable(q)
      <4>1. q \in Visiting BY <1>2, <2>1, <3>1 DEF Visiting
      <4>2. QED BY <4>1 DEF WalkInv, Accepted
    <3>8. Needed(q) \in Seq(Names) BY <3>7, SystemFacts DEF GraphType
    <3>9. frames[m].next - 1 \in 1 .. Len(Needed(q)) BY <3>3, <3>5, <3>8
    <3>10. frames[m + 1].path \in Children(q) BY <3>6, <3>7, <3>9, ChildrenOf DEF GraphType
    <3>11. frames[m + 1].path \in S BY <1>4, <3>1
    <3>12. QED BY <3>10, <3>11
  <2>4. QED BY <2>2, <2>3
<1>8. QED BY <1>5, <1>6, <1>7 DEF Unending

LEMMA ChildKeepsInv == GraphInv /\ VisitChild => GraphInv'
<1> SUFFICES ASSUME GraphInv, VisitChild PROVE GraphInv'
  OBVIOUS
<1>1. walk = "walking" /\ frames # <<>> /\ WalkInv /\ GraphType /\ system' = system
  BY DEF VisitChild, GraphInv
<1>2. frames \in Seq(Frame) /\ nodes \in Seq(Path) /\ visited \subseteq Path /\ system \in Systems
  BY <1>1 DEF GraphType
<1>3. PICK below : below = [frames EXCEPT ![Len(frames)].next = @ + 1] OBVIOUS
<1>4. PICK n : n = Len(frames) OBVIOUS
<1>5. /\ below \in Seq(Frame) /\ n \in Nat \ {0} /\ Len(below) = n
      /\ DOMAIN below = 1 .. n /\ DOMAIN frames = 1 .. n
      /\ \A m \in 1 .. n : below[m].path = frames[m].path
      /\ \A m \in 1 .. n : m # n => below[m] = frames[m]
      /\ below[n].next = frames[n].next + 1
  BY <1>1, <1>2, <1>3, <1>4, TopGoesOn
<1>6. PICK p, x : p = frames[n].path /\ x = frames[n].next OBVIOUS
<1>7. frames[n] \in Frame BY <1>2, <1>5
<1>8. p \in Path /\ x \in Nat \ {0} BY <1>6, <1>7 DEF Frame
<1>9. p \in Visiting /\ p \in visited /\ Usable(p)
  BY <1>1, <1>5, <1>6 DEF Visiting, WalkInv, Accepted
<1>10. PICK c : c = Child(p, x) OBVIOUS
<1>11. /\ x <= Len(Needed(p)) /\ edges' = edges \cup {<<p, c>>}
       /\ Visit(c, below)
  BY <1>3, <1>4, <1>6, <1>10 DEF VisitChild
<1>12. Needed(p) \in Seq(Names) BY <1>2, <1>9, SystemFacts
<1>13. x \in 1 .. Len(Needed(p)) BY <1>8, <1>11, <1>12
<1>14. c \in Path BY <1>2, <1>8, <1>9, <1>10, <1>13, SystemFacts
<1>15. c \in Children(p) BY <1>2, <1>9, <1>10, <1>13, ChildrenOf
<1>16. {below[m].path : m \in DOMAIN below} = Visiting BY <1>5 DEF Visiting
<1>17. CASE Refuse("forbidden", below) /\ UNCHANGED visited
  <2>1. walk' = "forbidden" /\ frames' = below /\ nodes' = nodes /\ visited' = visited
    BY <1>17 DEF Refuse
  <2>2. QED BY <1>1, <1>2, <1>5, <2>1 DEF GraphInv, GraphType, Refusals
<1>18. CASE Refuse("unreadable", below) /\ visited' = visited \cup {c}
  <2>1. walk' = "unreadable" /\ frames' = below /\ nodes' = nodes
    BY <1>18 DEF Refuse
  <2>2. QED BY <1>1, <1>2, <1>5, <1>14, <1>18, <2>1 DEF GraphInv, GraphType, Refusals
<1>19. CASE c \in Visiting /\ Refuse("cycle", below) /\ UNCHANGED visited
  <2>1. walk' = "cycle" /\ frames' = below /\ nodes' = nodes /\ visited' = visited
    BY <1>19 DEF Refuse
  <2>2. Visiting' = Visiting BY <1>16, <2>1 DEF Visiting
  <2>3. PICK S \in SUBSET Visiting : Unending(S)
    BY <1>1, <1>4, <1>6, <1>8, <1>15, <1>19, StackHoldsCycle
  <2>4. Unending(S)' BY <1>1, <2>3, SystemStays
  <2>5. GraphType' BY <1>1, <1>2, <1>5, <2>1 DEF GraphType, Refusals
  <2>6. QED BY <2>1, <2>2, <2>3, <2>4, <2>5 DEF GraphInv
<1>20. CASE c \in visited \ Visiting /\ walk' = "walking" /\ frames' = below
            /\ UNCHANGED <<visited, nodes>>
  <2>1. walk' = "walking" /\ frames' = below /\ nodes' = nodes /\ visited' = visited
    BY <1>20
  <2>2. Visiting' = Visiting /\ Finished' = Finished /\ NodeSet' = NodeSet
    BY <1>16, <2>1 DEF Visiting, Finished, NodeSet
  <2>3. c \in Finished BY <1>20 DEF Finished
  <2>4. NodesOrdered' BY <1>1, <2>1, SystemStays DEF WalkInv, NodesOrdered
  <2>5. FramesChain'
    <3> SUFFICES ASSUME NEW m \in 1 .. n, NEW q \in Path, below[m].path = q
                 PROVE  /\ below[m].next <= Len(Needed(q)) + 1
                        /\ m < n => below[m].next > 1
                        /\ \A i \in 1 .. below[m].next - 1 :
                             /\ <<q, Child(q, i)>> \in edges'
                             /\ IF m < n /\ i = below[m].next - 1
                                THEN Child(q, i) = below[m + 1].path
                                ELSE Child(q, i) \in Finished
      BY <1>1, <1>5, <2>1, <2>2, SystemStays DEF FramesChain
    <3>1. frames[m].path = q BY <1>5
    <3>2. /\ frames[m].next <= Len(Needed(q)) + 1
          /\ m < n => frames[m].next > 1
          /\ \A i \in 1 .. frames[m].next - 1 :
               /\ <<q, Child(q, i)>> \in edges
               /\ IF m < n /\ i = frames[m].next - 1
                  THEN Child(q, i) = frames[m + 1].path
                  ELSE Child(q, i) \in Finished
      BY <1>1, <1>4, <1>5, <3>1 DEF WalkInv, FramesChain
    <3>3. CASE m # n
      <4>1. below[m] = frames[m] /\ m + 1 \in 1 .. n BY <1>5, <3>3
      <4>2. below[m + 1].path = frames[m + 1].path BY <1>5, <4>1
      <4>3. QED BY <1>11, <3>2, <4>1, <4>2
    <3>4. CASE m = n
      <4>1. below[m].next = x + 1 /\ q = p /\ ~(m < n) BY <1>5, <1>6, <3>1, <3>4
      <4>2. x + 1 <= Len(Needed(q)) + 1 BY <1>8, <1>12, <1>13, <4>1
      <4>3. ASSUME NEW i \in 1 .. x
            PROVE  <<q, Child(q, i)>> \in edges' /\ Child(q, i) \in Finished
        <5>1. CASE i = x BY <1>10, <1>11, <2>3, <4>1, <5>1
        <5>2. CASE i # x
          <6>1. i \in 1 .. x - 1 BY <1>8, <5>2
          <6>2. QED BY <1>6, <1>11, <3>2, <3>4, <4>1, <6>1
        <5>3. QED BY <5>1, <5>2
      <4>4. 1 .. below[m].next - 1 = 1 .. x BY <1>8, <4>1
      <4>5. QED BY <4>1, <4>2, <4>3, <4>4
    <3>5. QED BY <3>3, <3>4
  <2>6. \A a, b \in DOMAIN frames' : frames'[a].path = frames'[b].path => a = b
    BY <1>1, <1>5, <2>1 DEF WalkInv
  <2>7. \A q \in visited' : Accepted(q)' BY <1>1, <2>1, SystemStays DEF WalkInv
  <2>8. \A q \in Finished' : Children(q)' \subseteq Finished' /\ \A d \in Children(q)' : <<q, d>> \in edges'
    BY <1>1, <1>11, <2>2, SystemStays DEF WalkInv
  <2>9. \A e \in edges' : e[1] \in NodeSet' /\ e[2] \in Children(e[1])'
    <3>1. p \in NodeSet BY <1>1, <1>9 DEF WalkInv
    <3>2. \A e \in edges' : e[1] \in NodeSet /\ e[2] \in Children(e[1])
      BY <1>1, <1>11, <1>15, <3>1 DEF WalkInv
    <3>3. QED BY <1>1, <2>2, <3>2, SystemStays
  <2>10. \A S \in SUBSET Finished' : ~Unending(S)' BY <1>1, <2>2, SystemStays DEF WalkInv
  <2>11. visited' = NodeSet' /\ Visiting' \subseteq visited' BY <1>1, <2>1, <2>2 DEF WalkInv
  <2>12. WalkInv' BY <2>4, <2>5, <2>6, <2>7, <2>8, <2>9, <2>10, <2>11 DEF WalkInv
  <2>13. GraphType' BY <1>1, <1>2, <1>5, <2>1 DEF GraphType
  <2>14. QED BY <2>1, <2>12, <2>13 DEF GraphInv
<1>21. CASE c.dir \in system.allowed /\ c \notin visited /\ Usable(c) /\ walk' = "walking"
            /\ frames' = Append(below, [path |-> c, next |-> 1])
            /\ nodes' = Append(nodes, c) /\ visited' = visited \cup {c}
  <2>1. /\ [path |-> c, next |-> 1] \in Frame
        /\ frames' \in Seq(Frame) /\ Len(frames') = n + 1 /\ DOMAIN frames' = 1 .. n + 1
        /\ \A m \in 1 .. n : frames'[m] = below[m]
        /\ frames'[n + 1] = [path |-> c, next |-> 1]
    BY <1>5, <1>14, <1>21 DEF Frame
  <2>2. /\ nodes' \in Seq(Path) /\ DOMAIN nodes = 1 .. Len(nodes) /\ Len(nodes) \in Nat
        /\ DOMAIN nodes' = 1 .. Len(nodes) + 1 /\ nodes'[Len(nodes) + 1] = c
        /\ \A i \in 1 .. Len(nodes) : nodes'[i] = nodes[i]
    BY <1>2, <1>14, <1>21
  <2>3. Visiting' = Visiting \cup {c}
    <3>1. \A m \in 1 .. n : frames'[m].path = frames[m].path BY <1>5, <2>1
    <3>2. frames'[n + 1].path = c BY <2>1
    <3>3. DOMAIN frames' = 1 .. n \cup {n + 1} BY <1>5, <2>1
    <3>4. QED BY <1>5, <3>1, <3>2, <3>3 DEF Visiting
  <2>4. c \notin Visiting BY <1>1, <1>21 DEF WalkInv
  <2>5. Finished' = Finished BY <1>21, <2>3, <2>4 DEF Finished
  <2>6. NodeSet' = NodeSet \cup {c}
    <3>1. DOMAIN nodes' = DOMAIN nodes \cup {Len(nodes) + 1} BY <2>2
    <3>2. QED BY <2>2, <3>1 DEF NodeSet
  <2>7. NodesOrdered'
    <3>1. NodesOrdered BY <1>1 DEF WalkInv
    <3>2. nodes' # <<>> /\ Len(nodes) # 0 /\ nodes'[1] = Root'
      <4>1. Len(nodes) # 0 BY <1>2, <3>1 DEF NodesOrdered
      <4>2. 1 \in 1 .. Len(nodes) BY <2>2, <4>1
      <4>3. Root' = Root BY <1>1, SystemStays
      <4>4. QED BY <2>2, <3>1, <4>1, <4>2, <4>3 DEF NodesOrdered
    <3>3. c \notin NodeSet BY <1>1, <1>21 DEF WalkInv
    <3>4. \A i \in 1 .. Len(nodes) : nodes[i] # c BY <2>2, <3>3 DEF NodeSet
    <3>5. \A i, j \in DOMAIN nodes' : nodes'[i] = nodes'[j] => i = j
      BY <2>2, <3>1, <3>4 DEF NodesOrdered
    <3>6. ASSUME NEW i \in DOMAIN nodes', i # 1
          PROVE  \E j \in 1 .. i - 1 : \E q \in Path : nodes'[j] = q /\ nodes'[i] \in Children(q)
      <4>1. CASE i = Len(nodes) + 1
        <5>1. PICK j \in DOMAIN nodes : nodes[j] = p BY <1>1, <1>9 DEF WalkInv, NodeSet
        <5>2. j \in 1 .. i - 1 /\ nodes'[j] = p BY <2>2, <4>1, <5>1
        <5>3. QED BY <1>8, <1>15, <2>2, <4>1, <5>2
      <4>2. CASE i # Len(nodes) + 1
        <5>1. i \in 1 .. Len(nodes) BY <2>2, <4>2
        <5>2. PICK j \in 1 .. i - 1, q \in Path : nodes[j] = q /\ nodes[i] \in Children(q)
          BY <2>2, <3>1, <3>6, <5>1 DEF NodesOrdered
        <5>3. nodes'[j] = q /\ nodes'[i] = nodes[i] BY <2>2, <5>1, <5>2
        <5>4. QED BY <5>2, <5>3
      <4>3. QED BY <4>1, <4>2
    <3>7. \A q : Children(q)' = Children(q) BY <1>1, SystemStays
    <3>8. QED BY <3>2, <3>5, <3>6, <3>7 DEF NodesOrdered
  <2>8. FramesChain'
    <3> SUFFICES ASSUME NEW m \in 1 .. n + 1, NEW q \in Path, frames'[m].path = q
                 PROVE  /\ frames'[m].next <= Len(Needed(q)) + 1
                        /\ m < n + 1 => frames'[m].next > 1
                        /\ \A i \in 1 .. frames'[m].next - 1 :
                             /\ <<q, Child(q, i)>> \in edges'
                             /\ IF m < n + 1 /\ i = frames'[m].next - 1
                                THEN Child(q, i) = frames'[m + 1].path
                                ELSE Child(q, i) \in Finished
      BY <1>1, <2>1, <2>5, SystemStays DEF FramesChain
    <3>1. CASE m = n + 1
      <4>1. q = c /\ frames'[m].next = 1 BY <2>1, <3>1
      <4>2. Len(Needed(q)) \in Nat BY <1>2, <1>21, <4>1, SystemFacts
      <4>3. 1 .. frames'[m].next - 1 = {} BY <4>1
      <4>4. QED BY <1>5, <3>1, <4>1, <4>2, <4>3
    <3>2. CASE m = n
      <4>1. frames'[m].next = x + 1 /\ q = p BY <1>5, <1>6, <2>1, <3>2
      <4>2. x + 1 <= Len(Needed(q)) + 1 BY <1>8, <1>12, <1>13, <4>1
      <4>3. \A i \in 1 .. x - 1 : <<q, Child(q, i)>> \in edges /\ Child(q, i) \in Finished
        <5>1. FramesChain BY <1>1 DEF WalkInv
        <5>2. n \in DOMAIN frames /\ frames[n].path = q /\ frames[n].next = x /\ ~(n < Len(frames))
          BY <1>4, <1>5, <1>6, <4>1
        <5>3. QED BY <5>1, <5>2 DEF FramesChain
      <4>4. frames'[m + 1].path = c BY <2>1, <3>2
      <4>5. ASSUME NEW i \in 1 .. x
            PROVE  /\ <<q, Child(q, i)>> \in edges'
                   /\ IF i = x THEN Child(q, i) = frames'[m + 1].path ELSE Child(q, i) \in Finished
        <5>1. CASE i = x BY <1>10, <1>11, <4>1, <4>4, <5>1
        <5>2. CASE i # x
          <6>1. i \in 1 .. x - 1 BY <1>8, <5>2
          <6>2. QED BY <1>11, <4>3, <5>2, <6>1
        <5>3. QED BY <5>1, <5>2
      <4>6. 1 .. frames'[m].next - 1 = 1 .. x /\ frames'[m].next - 1 = x /\ m < n + 1
        BY <1>5, <1>8, <3>2, <4>1
      <4>7. QED BY <1>8, <4>1, <4>2, <4>5, <4>6
    <3>3. CASE m \notin {n, n + 1}
      <4>1. m \in 1 .. n - 1 /\ m + 1 \in 1 .. n BY <1>5, <3>3
      <4>2. frames'[m] = frames[m] BY <1>5, <2>1, <4>1
      <4>3. frames'[m + 1].path = frames[m + 1].path BY <1>5, <2>1, <4>1
      <4>4. frames[m].path = q BY <4>2
      <4>5. m \in 1 .. n BY <1>5, <4>1
      <4>6. /\ frames[m].next <= Len(Needed(q)) + 1
            /\ m < n => frames[m].next > 1
            /\ \A i \in 1 .. frames[m].next - 1 :
                 /\ <<q, Child(q, i)>> \in edges
                 /\ IF m < n /\ i = frames[m].next - 1
                    THEN Child(q, i) = frames[m + 1].path
                    ELSE Child(q, i) \in Finished
        BY <1>1, <1>4, <1>5, <4>4, <4>5 DEF WalkInv, FramesChain
      <4>7. QED BY <1>5, <1>11, <4>1, <4>2, <4>3, <4>6
    <3>4. QED BY <3>1, <3>2, <3>3
  <2>9. ASSUME NEW a \in DOMAIN frames', NEW b \in DOMAIN frames', frames'[a].path = frames'[b].path
        PROVE  a = b
    <3>1. \A m \in 1 .. n : frames'[m].path = frames[m].path /\ frames'[m].path # c
      BY <1>5, <2>1, <2>4 DEF Visiting
    <3>2. frames'[n + 1].path = c BY <2>1
    <3>3. \A i, j \in 1 .. n : frames[i].path = frames[j].path => i = j
      BY <1>1, <1>5 DEF WalkInv
    <3>4. CASE a \in 1 .. n /\ b \in 1 .. n BY <2>9, <3>1, <3>3, <3>4
    <3>5. CASE a = n + 1 /\ b = n + 1 BY <3>5
    <3>6. CASE a = n + 1 /\ b \in 1 .. n BY <2>9, <3>1, <3>2, <3>6
    <3>7. CASE a \in 1 .. n /\ b = n + 1 BY <2>9, <3>1, <3>2, <3>7
    <3>8. a \in 1 .. n \cup {n + 1} /\ b \in 1 .. n \cup {n + 1} BY <1>5, <2>1
    <3>9. QED BY <3>4, <3>5, <3>6, <3>7, <3>8
  <2>10. \A q \in visited' : Accepted(q)'
    <3>1. \A q \in visited : Accepted(q) BY <1>1 DEF WalkInv
    <3>2. Accepted(c) BY <1>21 DEF Accepted
    <3>3. \A q : Accepted(q)' = Accepted(q) BY <1>1, SystemStays
    <3>4. QED BY <1>21, <3>1, <3>2, <3>3
  <2>11. \A q \in Finished' : Children(q)' \subseteq Finished' /\ \A d \in Children(q)' : <<q, d>> \in edges'
    BY <1>1, <1>11, <2>5, SystemStays DEF WalkInv
  <2>12. \A e \in edges' : e[1] \in NodeSet' /\ e[2] \in Children(e[1])'
    <3>1. p \in NodeSet BY <1>1, <1>9 DEF WalkInv
    <3>2. \A e \in edges' : e[1] \in NodeSet /\ e[2] \in Children(e[1])
      BY <1>1, <1>11, <1>15, <3>1 DEF WalkInv
    <3>3. QED BY <1>1, <2>6, <3>2, SystemStays
  <2>13. \A S \in SUBSET Finished' : ~Unending(S)' BY <1>1, <2>5, SystemStays DEF WalkInv
  <2>14. visited' = NodeSet' /\ Visiting' \subseteq visited'
    BY <1>1, <1>21, <2>3, <2>6 DEF WalkInv
  <2>15. WalkInv' BY <2>7, <2>8, <2>9, <2>10, <2>11, <2>12, <2>13, <2>14 DEF WalkInv
  <2>16. GraphType' BY <1>1, <1>2, <1>14, <1>21, <2>1, <2>2 DEF GraphType
  <2>17. QED BY <1>21, <2>15, <2>16 DEF GraphInv
<1>22. QED BY <1>11, <1>17, <1>18, <1>19, <1>20, <1>21 DEF Visit

-----------------------------------------------------------------------------
(* The return from an object.                                              *)

LEMMA LeaveKeepsInv == GraphInv /\ LeaveNode => GraphInv'
<1> SUFFICES ASSUME GraphInv, LeaveNode PROVE GraphInv'
  OBVIOUS
<1>1. /\ walk = "walking" /\ frames # <<>> /\ WalkInv /\ GraphType /\ system' = system
      /\ visited' = visited /\ nodes' = nodes /\ edges' = edges
  BY DEF LeaveNode, GraphInv
<1>2. frames \in Seq(Frame) /\ visited \subseteq Path /\ system \in Systems
  BY <1>1 DEF GraphType
<1>3. PICK n : n = Len(frames) OBVIOUS
<1>4. n \in Nat \ {0} /\ DOMAIN frames = 1 .. n BY <1>1, <1>2, <1>3
<1>5. PICK p, x : p = frames[n].path /\ x = frames[n].next OBVIOUS
<1>6. frames[n] \in Frame BY <1>2, <1>4
<1>7. p \in Path /\ x \in Nat \ {0} BY <1>5, <1>6 DEF Frame
<1>8. p \in Visiting /\ p \in visited /\ Usable(p)
  BY <1>1, <1>4, <1>5 DEF Visiting, WalkInv, Accepted
<1>9. Needed(p) \in Seq(Names) BY <1>2, <1>8, SystemFacts
<1>10. /\ x > Len(Needed(p)) /\ frames' = SubSeq(frames, 1, n - 1)
       /\ walk' = IF n = 1 THEN "done" ELSE "walking"
  BY <1>1, <1>3, <1>5 DEF LeaveNode
<1>11. /\ frames' \in Seq(Frame) /\ Len(frames') = n - 1 /\ DOMAIN frames' = 1 .. n - 1
       /\ \A m \in 1 .. n - 1 : frames'[m] = frames[m]
  BY <1>2, <1>3, <1>4, <1>10
<1>12. \A a, b \in 1 .. n : frames[a].path = frames[b].path => a = b
  BY <1>1, <1>4 DEF WalkInv
<1>13. Visiting' = Visiting \ {p}
  <2>1. ASSUME NEW q \in Visiting \ {p} PROVE q \in Visiting'
    <3>1. PICK m \in 1 .. n : frames[m].path = q BY <1>4, <2>1 DEF Visiting
    <3>2. m \in 1 .. n - 1 BY <1>4, <1>5, <2>1, <3>1
    <3>3. QED BY <1>11, <3>1, <3>2 DEF Visiting
  <2>2. ASSUME NEW q \in Visiting' PROVE q \in Visiting \ {p}
    <3>1. PICK m \in 1 .. n - 1 : frames'[m].path = q BY <1>11, <2>2 DEF Visiting
    <3>2. frames[m].path = q /\ m \in 1 .. n /\ m # n BY <1>4, <1>11, <3>1
    <3>3. q # p BY <1>4, <1>5, <1>12, <3>2
    <3>4. QED BY <1>4, <3>2, <3>3 DEF Visiting
  <2>3. QED BY <2>1, <2>2
<1>14. Finished' = Finished \cup {p} /\ p \notin Finished
  BY <1>1, <1>8, <1>13 DEF Finished
<1>15. \A i \in 1 .. Len(Needed(p)) : <<p, Child(p, i)>> \in edges /\ Child(p, i) \in Finished
  <2>1. \A i \in 1 .. x - 1 : <<p, Child(p, i)>> \in edges /\ Child(p, i) \in Finished
    <3>1. n \in DOMAIN frames /\ ~(n < Len(frames)) BY <1>3, <1>4
    <3>2. QED BY <1>1, <1>5, <1>7, <3>1 DEF WalkInv, FramesChain
  <2>2. \A i \in 1 .. Len(Needed(p)) : i \in 1 .. x - 1 BY <1>7, <1>9, <1>10
  <2>3. QED BY <2>1, <2>2
<1>16. Children(p) \subseteq Finished /\ \A d \in Children(p) : <<p, d>> \in edges
  <2>1. Children(p) = {Child(p, i) : i \in 1 .. Len(Needed(p))} BY <1>2, <1>8, ChildrenOf
  <2>2. QED BY <1>15, <2>1
<1>17. /\ \A q \in Finished : Children(q) \subseteq Finished /\ \A d \in Children(q) : <<q, d>> \in edges
       /\ \A S \in SUBSET Finished : ~Unending(S)
  BY <1>1 DEF WalkInv
<1>18. \A S \in SUBSET Finished' : ~Unending(S)'
  <2>1. \A S \in SUBSET (Finished \cup {p}) : ~Unending(S)
    BY <1>14, <1>16, <1>17, FinishedGrows
  <2>2. \A S : Unending(S)' = Unending(S) BY <1>1, SystemStays
  <2>3. QED BY <1>14, <2>1, <2>2
<1>19. \A q \in Finished' : Children(q)' \subseteq Finished' /\ \A d \in Children(q)' : <<q, d>> \in edges'
  <2>1. \A q : Children(q)' = Children(q) BY <1>1, SystemStays
  <2>2. QED BY <1>1, <1>14, <1>16, <1>17, <2>1
<1>20. NodeSet' = NodeSet BY <1>1 DEF NodeSet
<1>21. NodesOrdered' BY <1>1, SystemStays DEF WalkInv, NodesOrdered
<1>22. FramesChain'
  <2> SUFFICES ASSUME NEW m \in 1 .. n - 1, NEW q \in Path, frames'[m].path = q
               PROVE  /\ frames'[m].next <= Len(Needed(q)) + 1
                      /\ m < n - 1 => frames'[m].next > 1
                      /\ \A i \in 1 .. frames'[m].next - 1 :
                           /\ <<q, Child(q, i)>> \in edges
                           /\ IF m < n - 1 /\ i = frames'[m].next - 1
                              THEN Child(q, i) = frames'[m + 1].path
                              ELSE Child(q, i) \in Finished'
    BY <1>1, <1>11, SystemStays DEF FramesChain
  <2>1. m \in 1 .. n /\ m < n /\ frames'[m] = frames[m] BY <1>4, <1>11
  <2>2. frames[m].path = q BY <2>1
  <2>3. /\ frames[m].next <= Len(Needed(q)) + 1
        /\ frames[m].next > 1
        /\ \A i \in 1 .. frames[m].next - 1 :
             /\ <<q, Child(q, i)>> \in edges
             /\ IF i = frames[m].next - 1
                THEN Child(q, i) = frames[m + 1].path
                ELSE Child(q, i) \in Finished
    BY <1>1, <1>3, <1>4, <2>1, <2>2 DEF WalkInv, FramesChain
  <2>4. CASE m = n - 1
    <3>1. frames[m + 1].path = p BY <1>4, <1>5, <2>4
    <3>2. QED BY <1>14, <2>1, <2>3, <2>4, <3>1
  <2>5. CASE m # n - 1
    <3>1. m < n - 1 /\ m + 1 \in 1 .. n - 1 BY <1>4, <2>5
    <3>2. frames'[m + 1] = frames[m + 1] BY <1>11, <3>1
    <3>3. QED BY <1>14, <2>1, <2>3, <3>1, <3>2
  <2>6. QED BY <2>4, <2>5
<1>23. \A a, b \in DOMAIN frames' : frames'[a].path = frames'[b].path => a = b
  <2>1. \A a \in 1 .. n - 1 : a \in 1 .. n BY <1>4
  <2>2. QED BY <1>11, <1>12, <2>1
<1>24. /\ visited' = NodeSet' /\ Visiting' \subseteq visited'
       /\ \A q \in visited' : Accepted(q)'
       /\ \A e \in edges' : e[1] \in NodeSet' /\ e[2] \in Children(e[1])'
  BY <1>1, <1>13, <1>20, SystemStays DEF WalkInv
<1>25. WalkInv' BY <1>18, <1>19, <1>21, <1>22, <1>23, <1>24 DEF WalkInv
<1>26. n = 1 => frames' = <<>> BY <1>11
<1>27. walk' \in {"walking", "done"} /\ (walk' = "done" => frames' = <<>>) BY <1>10, <1>26
<1>28. GraphType' BY <1>1, <1>11, <1>27 DEF GraphType
<1>29. QED BY <1>25, <1>27, <1>28 DEF GraphInv, Refusals

-----------------------------------------------------------------------------
(* The rest of the loader only reads the graph.                            *)

LEMMA GraphStays == GraphInv /\ UNCHANGED graphVars => GraphInv'
<1> SUFFICES ASSUME GraphInv, UNCHANGED graphVars PROVE GraphInv'
  OBVIOUS
<1>1. /\ system' = system /\ walk' = walk /\ frames' = frames
      /\ visited' = visited /\ nodes' = nodes /\ edges' = edges
  BY DEF graphVars
<1>2. Visiting' = Visiting /\ Finished' = Finished /\ NodeSet' = NodeSet
  BY <1>1 DEF Visiting, Finished, NodeSet
<1>3. GraphType' BY <1>1 DEF GraphInv, GraphType
<1>4. ASSUME WalkInv PROVE WalkInv'
  <2>1. NodesOrdered' BY <1>1, <1>4, SystemStays DEF WalkInv, NodesOrdered
  <2>2. FramesChain' BY <1>1, <1>2, <1>4, SystemStays DEF WalkInv, FramesChain
  <2>3. QED BY <1>1, <1>2, <1>4, <2>1, <2>2, SystemStays DEF WalkInv
<1>5. \A S : Unending(S)' = Unending(S) BY <1>1, SystemStays
<1>6. QED BY <1>1, <1>2, <1>3, <1>4, <1>5 DEF GraphInv

LEMMA InitGraphInv == Init => GraphInv
BY DEF Init, GraphInit, GraphInv, GraphType, Refusals

LEMMA NextIsGraphStep == [Next]_vars => GraphNext \/ UNCHANGED graphVars
<1>1. Open => UNCHANGED graphVars BY DEF Open
<1>2. CannotOpen => UNCHANGED graphVars BY DEF CannotOpen, Fail
<1>3. Place => UNCHANGED graphVars BY DEF Place
<1>4. Arrange => UNCHANGED graphVars BY DEF Arrange
<1>5. MapImage => UNCHANGED graphVars BY DEF MapImage
<1>6. CannotMap => UNCHANGED graphVars BY DEF CannotMap, Fail
<1>7. Reserve => UNCHANGED graphVars BY DEF Reserve
<1>8. InstallBlock => UNCHANGED graphVars BY DEF InstallBlock
<1>9. BuildDtv => UNCHANGED graphVars BY DEF BuildDtv
<1>10. NoRoomForTls => UNCHANGED graphVars BY DEF NoRoomForTls, Fail
<1>11. Prepare => UNCHANGED graphVars BY DEF Prepare
<1>12. CannotPrepare => UNCHANGED graphVars BY DEF CannotPrepare, Fail
<1>13. Relocate => UNCHANGED graphVars BY DEF Relocate
<1>14. CannotRelocate => UNCHANGED graphVars BY DEF CannotRelocate, Fail
<1>15. Decide => UNCHANGED graphVars BY DEF Decide
<1>16. CannotDecide => UNCHANGED graphVars BY DEF CannotDecide, Fail
<1>17. RunResolver => UNCHANGED graphVars BY DEF RunResolver
<1>18. ResolverFails => UNCHANGED graphVars BY DEF ResolverFails, Fail
<1>19. Run => UNCHANGED graphVars BY DEF Run
<1>20. Walk => GraphNext BY DEF Walk
<1>21. Ended \/ UNCHANGED vars => UNCHANGED graphVars BY DEF Ended, vars
<1>22. QED
  BY <1>1, <1>2, <1>3, <1>4, <1>5, <1>6, <1>7, <1>8, <1>9, <1>10, <1>11, <1>12, <1>13, <1>14, <1>15, <1>16, <1>17, <1>18, <1>19, <1>20, <1>21 DEF Next

LEMMA NextKeepsInv == GraphInv /\ [Next]_vars => GraphInv'
<1> SUFFICES ASSUME GraphInv, [Next]_vars PROVE GraphInv'
  OBVIOUS
<1>1. CASE VisitRoot BY <1>1, RootKeepsInv
<1>2. CASE VisitChild BY <1>2, ChildKeepsInv
<1>3. CASE LeaveNode BY <1>3, LeaveKeepsInv
<1>4. CASE UNCHANGED graphVars BY <1>4, GraphStays
<1>5. QED BY <1>1, <1>2, <1>3, <1>4, NextIsGraphStep DEF GraphNext

LEMMA InvImplies == GraphInv => GraphIsExact
<1> SUFFICES ASSUME GraphInv PROVE GraphIsExact
  OBVIOUS
<1>1. CASE walk = "done"
  <2>1. WalkInv /\ frames = <<>> BY <1>1 DEF GraphInv
  <2>2. Visiting = {} BY <2>1 DEF Visiting
  <2>3. Finished = NodeSet /\ visited = NodeSet BY <2>1, <2>2 DEF Finished, WalkInv
  <2>4. \A i \in DOMAIN nodes : i # 1 => \E j \in 1 .. i - 1 : nodes[i] \in Children(nodes[j])
    BY <2>1 DEF WalkInv, NodesOrdered
  <2>5. \A p \in NodeSet :
          /\ p.dir \in system.allowed /\ Usable(p)
          /\ Children(p) \subseteq NodeSet
          /\ \A c \in Children(p) : <<p, c>> \in edges
    BY <2>1, <2>3 DEF WalkInv, Accepted
  <2>6. ExactGraph BY <2>1, <2>3, <2>4, <2>5 DEF WalkInv, NodesOrdered, ExactGraph
  <2>7. QED BY <1>1, <2>6 DEF GraphIsExact
<1>2. CASE walk # "done" BY <1>2 DEF GraphInv, GraphIsExact
<1>3. QED BY <1>1, <1>2

\* The graph that plan_dynamic_dependency_graph returns is exactly what the
\* program needs, without a cycle, and a reported cycle is one, whatever files,
\* links and DT_NEEDED entries there are.
THEOREM GraphIsAlwaysExact == Spec => []GraphIsExact
<1>1. Init => GraphInv BY InitGraphInv
<1>2. GraphInv /\ [Next]_vars => GraphInv' BY NextKeepsInv
<1>3. GraphInv => GraphIsExact BY InvImplies
<1>4. QED BY <1>1, <1>2, <1>3, PTL DEF Spec
-----------------------------------------------------------------------------
(* Induction, from the well-ordering of finite sets by inclusion: what a    *)
(* recursive function over the naturals rests on, and the order in which    *)
(* the members of a finite set of naturals come.                            *)

\* The naturals are well-ordered: the intervals below them are, by inclusion.
LEMMA Least ==
  ASSUME NEW S, S \subseteq Nat, S # {}
  PROVE  \E n \in S : \A m \in S : n <= m
<1> DEFINE T == {0 .. n : n \in S}
<1>1. T \subseteq FiniteSubsetsOf(Nat)
  <2>1. ASSUME NEW n \in S PROVE (0 .. n) \in FiniteSubsetsOf(Nat)
    <3>1. n \in Nat OBVIOUS
    <3>2. IsFiniteSet(0 .. n) BY <3>1, FS_Interval
    <3>3. (0 .. n) \subseteq Nat OBVIOUS
    <3>4. QED BY <3>2, <3>3 DEF FiniteSubsetsOf
  <2>2. QED BY <2>1
<1>2. T # {} OBVIOUS
<1>3. PICK x \in T : \A y \in T : ~(<<y, x>> \in StrictSubsetOrdering(Nat))
  BY <1>1, <1>2, FS_StrictSubsetOrderingWellFounded, WFMin
<1>4. PICK n \in S : x = 0 .. n OBVIOUS
<1>5. ASSUME NEW m \in S, m < n PROVE FALSE
  <2>1. n \in Nat /\ m \in Nat BY <1>4, <1>5
  <2>2. <<0 .. m, 0 .. n>> \in StrictSubsetOrdering(Nat) BY <1>5, <2>1 DEF StrictSubsetOrdering
  <2>3. QED BY <1>3, <1>4, <2>2
<1>6. QED BY <1>4, <1>5

LEMMA Climbs ==
  ASSUME NEW S, 0 \in S, \A n \in Nat : n \in S => n + 1 \in S
  PROVE  Nat \subseteq S
<1> SUFFICES ASSUME Nat \ S # {} PROVE FALSE OBVIOUS
<1>1. PICK n \in Nat \ S : \A m \in Nat \ S : n <= m BY Least
<1>2. n # 0 OBVIOUS
<1>3. n - 1 \in Nat /\ n = (n - 1) + 1 BY <1>1, <1>2
<1>4. n - 1 \in Nat \ S BY <1>1, <1>3
<1>5. QED BY <1>1, <1>3, <1>4

Runs(n, S, a, step) == {f \in [0 .. n -> S] : f[0] = a /\ \A k \in 1 .. n : f[k] = step[k][f[k - 1]]}

LEMMA RunsShorten ==
  ASSUME NEW S, NEW a, NEW step, NEW n \in Nat, NEW f \in Runs(n + 1, S, a, step)
  PROVE  [k \in 0 .. n |-> f[k]] \in Runs(n, S, a, step)
<1>1. \A k \in 0 .. n : k \in 0 .. n + 1 OBVIOUS
<1>2. \A k \in 1 .. n : k \in 1 .. n + 1 /\ k \in 0 .. n /\ k - 1 \in 0 .. n OBVIOUS
<1>3. QED BY <1>1, <1>2 DEF Runs

LEMMA RunsAreOne ==
  ASSUME NEW S, NEW a, NEW step
  PROVE  \A n \in Nat : \A f, g \in Runs(n, S, a, step) : f = g
<1> DEFINE One == {n \in Nat : \A f, g \in Runs(n, S, a, step) : f = g}
<1>1. 0 \in One
  <2> SUFFICES ASSUME NEW f \in Runs(0, S, a, step), NEW g \in Runs(0, S, a, step) PROVE f = g
    OBVIOUS
  <2>1. f \in [0 .. 0 -> S] /\ g \in [0 .. 0 -> S] /\ f[0] = g[0] BY DEF Runs
  <2>2. \A k \in 0 .. 0 : f[k] = g[k] BY <2>1
  <2>3. QED BY <2>1, <2>2
<1>2. ASSUME NEW n \in Nat, n \in One PROVE n + 1 \in One
  <2> SUFFICES ASSUME NEW f \in Runs(n + 1, S, a, step), NEW g \in Runs(n + 1, S, a, step) PROVE f = g
    OBVIOUS
  <2>1. [k \in 0 .. n |-> f[k]] = [k \in 0 .. n |-> g[k]] BY <1>2, RunsShorten
  <2>2. \A k \in 0 .. n : f[k] = g[k] BY <2>1
  <2>3. n + 1 \in 1 .. n + 1 OBVIOUS
  <2>4. f[n + 1] = step[n + 1][f[n + 1 - 1]] /\ g[n + 1] = step[n + 1][g[n + 1 - 1]]
    BY <2>3 DEF Runs
  <2>5. f[n + 1] = g[n + 1] BY <2>2, <2>4, n + 1 - 1 = n, n \in 0 .. n
  <2>6. \A k \in 0 .. n + 1 : k \in 0 .. n \/ k = n + 1 OBVIOUS
  <2>7. f \in [0 .. n + 1 -> S] /\ g \in [0 .. n + 1 -> S] BY DEF Runs
  <2>8. \A k \in 0 .. n + 1 : f[k] = g[k] BY <2>2, <2>5, <2>6
  <2>9. QED BY <2>7, <2>8
<1> HIDE DEF One
<1>3. Nat \subseteq One BY <1>1, <1>2, Climbs
<1>4. QED BY <1>3 DEF One

LEMMA RunsExist ==
  ASSUME NEW S, NEW a \in S, NEW step, \A n \in Nat \ {0} : \A x \in S : step[n][x] \in S
  PROVE  \A n \in Nat : Runs(n, S, a, step) # {}
<1> DEFINE Exist == {n \in Nat : Runs(n, S, a, step) # {}}
<1>1. 0 \in Exist
  <2>1. [k \in 0 .. 0 |-> a] \in Runs(0, S, a, step) BY DEF Runs
  <2>2. QED BY <2>1
<1>2. ASSUME NEW n \in Nat, n \in Exist PROVE n + 1 \in Exist
  <2>1. PICK f : f \in Runs(n, S, a, step) BY <1>2
  <2> DEFINE g == [k \in 0 .. n + 1 |-> IF k = n + 1 THEN step[n + 1][f[n]] ELSE f[k]]
  <2>2. f \in [0 .. n -> S] BY <2>1 DEF Runs
  <2>3. step[n + 1][f[n]] \in S BY <2>2
  <2>4. g \in [0 .. n + 1 -> S]
    <3>1. \A k \in 0 .. n + 1 : k = n + 1 \/ k \in 0 .. n OBVIOUS
    <3>2. QED BY <2>2, <2>3, <3>1
  <2>5. g[0] = a BY <2>1 DEF Runs
  <2>6. ASSUME NEW k \in 1 .. n + 1 PROVE g[k] = step[k][g[k - 1]]
    <3>1. CASE k = n + 1 BY <3>1, n + 1 - 1 = n
    <3>2. CASE k # n + 1
      <4>1. k \in 1 .. n /\ k - 1 # n + 1 /\ k \in 0 .. n + 1 /\ k - 1 \in 0 .. n + 1 BY <3>2
      <4>2. g[k] = f[k] /\ g[k - 1] = f[k - 1] BY <4>1
      <4>3. f[k] = step[k][f[k - 1]] BY <2>1, <4>1 DEF Runs
      <4>4. QED BY <4>2, <4>3
    <3>3. QED BY <3>1, <3>2
  <2> HIDE DEF g
  <2>7. g \in Runs(n + 1, S, a, step) BY <2>4, <2>5, <2>6 DEF Runs
  <2>8. QED BY <2>7
<1> HIDE DEF Exist
<1>3. Nat \subseteq Exist BY <1>1, <1>2, Climbs
<1>4. QED BY <1>3 DEF Exist

Follows(f, a, step) == f[0] = a /\ \A n \in Nat \ {0} : f[n] = step[n][f[n - 1]]

\* What a recursive function over the naturals rests on: there is one.
LEMMA Iterates ==
  ASSUME NEW S, NEW a \in S, NEW step, \A n \in Nat \ {0} : \A x \in S : step[n][x] \in S
  PROVE  \E f \in [Nat -> S] : Follows(f, a, step)
<1> DEFINE Track(n) == CHOOSE f : f \in Runs(n, S, a, step)
           all == [n \in Nat |-> Track(n)[n]]
<1>1. \A n \in Nat : Track(n) \in Runs(n, S, a, step) BY RunsExist
<1> HIDE DEF Track
<1>2. all \in [Nat -> S]
  <2>1. \A n \in Nat : Track(n)[n] \in S BY <1>1 DEF Runs
  <2>2. QED BY <2>1
<1>3. all[0] = a BY <1>1 DEF Runs
<1>4. ASSUME NEW n \in Nat PROVE all[n + 1] = step[n + 1][all[n]]
  <2>1. [k \in 0 .. n |-> Track(n + 1)[k]] = Track(n)
    <3>1. [k \in 0 .. n |-> Track(n + 1)[k]] \in Runs(n, S, a, step) BY <1>1, RunsShorten
    <3>2. QED BY <1>1, <3>1, RunsAreOne
  <2>2. Track(n + 1)[n] = Track(n)[n] BY <2>1, n \in 0 .. n
  <2>3. n + 1 \in 1 .. n + 1 /\ n + 1 \in Nat OBVIOUS
  <2>4. Track(n + 1)[n + 1] = step[n + 1][Track(n + 1)[n + 1 - 1]] BY <1>1, <2>3 DEF Runs
  <2>5. QED BY <2>2, <2>3, <2>4, n + 1 - 1 = n
<1>5. \A n \in Nat \ {0} : all[n] = step[n][all[n - 1]]
  <2>1. \A n \in Nat \ {0} : n - 1 \in Nat /\ n - 1 + 1 = n OBVIOUS
  <2> HIDE DEF all
  <2>2. QED BY <1>4, <2>1
<1> HIDE DEF all
<1>6. QED BY <1>2, <1>3, <1>5 DEF Follows

Rank(k, K) == Cardinality({j \in K : j <= k})

LEMMA RankRises ==
  ASSUME NEW K, K \subseteq Nat, IsFiniteSet(K), NEW k \in K
  PROVE  /\ Rank(k, K) \in 1 .. Cardinality(K)
         /\ \A j \in K : j < k => Rank(j, K) < Rank(k, K)
<1> DEFINE Upto(n) == {j \in K : j <= n}
<1>1. \A n : Upto(n) \in SUBSET K OBVIOUS
<1>2. \A n : IsFiniteSet(Upto(n)) /\ Cardinality(Upto(n)) \in Nat
             /\ Cardinality(Upto(n)) <= Cardinality(K)
  BY <1>1, FS_Subset, FS_CardinalityType
<1>3. Upto(k) # {} BY k <= k
<1>4. Cardinality(Upto(k)) # 0
  <2> HIDE DEF Upto
  <2>1. QED BY <1>2, <1>3, FS_EmptySet
<1>5. Cardinality(K) \in Nat BY FS_CardinalityType
<1>6. ASSUME NEW j \in K, j < k PROVE Cardinality(Upto(j)) < Cardinality(Upto(k))
  <2>1. Upto(j) \in SUBSET Upto(k)
    <3>1. j \in Nat /\ k \in Nat /\ \A i \in K : i \in Nat OBVIOUS
    <3>2. \A i \in K : i <= j => i <= k BY <1>6, <3>1
    <3>3. QED BY <3>2
  <2>2. k \in Upto(k) /\ k \notin Upto(j) BY <1>6
  <2>3. Cardinality(Upto(j)) <= Cardinality(Upto(k)) /\ Cardinality(Upto(j)) # Cardinality(Upto(k))
    BY <1>2, <2>1, <2>2, FS_Subset
  <2>4. QED BY <1>2, <2>3
<1> HIDE DEF Upto
<1>7. /\ Cardinality(Upto(k)) \in 1 .. Cardinality(K)
      /\ \A j \in K : j < k => Cardinality(Upto(j)) < Cardinality(Upto(k))
  BY <1>2, <1>4, <1>5, <1>6
<1>8. QED BY <1>7 DEF Rank, Upto

\* The members of a finite set of naturals have the ranks 1, 2, ... .
LEMMA Ranked ==
  ASSUME NEW K, K \subseteq Nat, IsFiniteSet(K), NEW n \in 1 .. Cardinality(K)
  PROVE  \E k \in K : Rank(k, K) = n
<1> SUFFICES ASSUME \A k \in K : Rank(k, K) # n PROVE FALSE OBVIOUS
<1> DEFINE c == Cardinality(K)
           f == [k \in K |-> Rank(k, K)]
<1>1. c \in Nat BY FS_CardinalityType
<1>2. IsFiniteSet(1 .. c) /\ Cardinality(1 .. c) = c BY <1>1, FS_Interval
<1>3. IsFiniteSet((1 .. c) \ {n}) /\ Cardinality((1 .. c) \ {n}) = c - 1
  BY <1>2, FS_RemoveElement
<1>4. f \in [K -> (1 .. c) \ {n}] BY RankRises
<1>5. c - 1 < c BY <1>1
<1>6. PICK x \in K, y \in K : x # y /\ f[x] = f[y]
  <2> HIDE DEF f, c
  <2>1. QED BY <1>3, <1>4, <1>5, FS_PigeonHole DEF c
<1>7. Rank(x, K) = Rank(y, K) /\ (x < y \/ y < x)
  <2>1. x \in Nat /\ y \in Nat OBVIOUS
  <2>2. QED BY <1>6, <2>1
<1>8. Rank(x, K) \in Nat /\ Rank(y, K) \in Nat
  <2>1. Rank(x, K) \in 1 .. c /\ Rank(y, K) \in 1 .. c BY RankRises
  <2>2. QED BY <1>1, <2>1
<1>9. \A j, k \in K : j < k => Rank(j, K) < Rank(k, K) BY RankRises
<1>10. QED BY <1>6, <1>7, <1>8, <1>9

-----------------------------------------------------------------------------
(* What FlattenSeq makes of a sequence of sequences: every entry of every   *)
(* one of them, in order, each at an index of its own.                      *)

Starts(start, seqs) ==
  /\ start \in [Nat -> Nat] /\ start[0] = 0
  /\ \A i \in DOMAIN seqs : start[i] = start[i - 1] + Len(seqs[i])

LEMMA StartsExist ==
  ASSUME NEW seqs, NEW N \in Nat, DOMAIN seqs = 1 .. N, \A i \in 1 .. N : Len(seqs[i]) \in Nat
  PROVE  \E start : Starts(start, seqs)
<1> DEFINE long(n) == IF n \in DOMAIN seqs THEN Len(seqs[n]) ELSE 0
<1>1. \A n \in Nat \ {0} : long(n) \in Nat OBVIOUS
<1>2. \A n \in DOMAIN seqs : n \in Nat \ {0} /\ n - 1 \in Nat /\ long(n) = Len(seqs[n]) OBVIOUS
<1>3. PICK step : \A n \in Nat \ {0} : \A x \in Nat : step[n][x] = x + long(n)
  <2>1. PICK g : g = [n \in Nat \ {0} |-> [x \in Nat |-> x + long(n)]] OBVIOUS
  <2>2. \A n \in Nat \ {0} : \A x \in Nat : g[n][x] = x + long(n) BY <2>1
  <2>3. QED BY <2>2
<1> HIDE DEF long
<1>4. ASSUME NEW n \in Nat \ {0}, NEW x \in Nat PROVE step[n][x] \in Nat
  <2>1. step[n][x] = x + long(n) /\ long(n) \in Nat BY <1>1, <1>3
  <2>2. QED BY <2>1
<1>5. PICK f \in [Nat -> Nat] : Follows(f, 0, step)
  <2>1. \A n \in Nat \ {0} : \A x \in Nat : step[n][x] \in Nat BY <1>4
  <2>2. QED BY <2>1, Iterates
<1>6. ASSUME NEW i \in DOMAIN seqs PROVE f[i] = f[i - 1] + Len(seqs[i])
  <2>1. i \in Nat \ {0} /\ i - 1 \in Nat BY <1>2
  <2>2. f[i] = step[i][f[i - 1]] BY <1>5, <2>1 DEF Follows
  <2>3. QED BY <1>2, <1>3, <2>1, <2>2
<1>7. QED BY <1>5, <1>6 DEF Follows, Starts

\* A sequence s that holds the first n of some sequences one after the other.
Joined(s, seqs, start, n) ==
  /\ Len(s) = start[n]
  /\ \A i \in 1 .. n : \A k \in 1 .. Len(seqs[i]) :
       start[i - 1] + k \in 1 .. Len(s) /\ s[start[i - 1] + k] = seqs[i][k]
  /\ \A p \in 1 .. Len(s) : \E i \in 1 .. n : \E k \in 1 .. Len(seqs[i]) : p = start[i - 1] + k

LEMMA JoinNext ==
  ASSUME NEW X, NEW seqs, NEW start, NEW n \in Nat, NEW s \in Seq(X), seqs[n + 1] \in Seq(X),
         start[n] \in Nat, start[n + 1] = start[n] + Len(seqs[n + 1]), Joined(s, seqs, start, n)
  PROVE  Joined(s \o seqs[n + 1], seqs, start, n + 1)
<1>1. PICK t \in Seq(X) : t = seqs[n + 1] OBVIOUS
<1>2. PICK st \in Seq(X) : st = s \o t BY <1>1, ConcatProperties
<1>3. PICK b \in Nat : b = start[n] OBVIOUS
<1>4. Len(s) = b /\ Len(t) \in Nat /\ n + 1 - 1 = n BY <1>1, <1>3, LenProperties DEF Joined
<1>5. /\ Len(st) = b + Len(t)
      /\ \A p \in 1 .. b : st[p] = s[p]
      /\ \A k \in 1 .. Len(t) : st[b + k] = t[k]
  <2>1. /\ Len(st) = Len(s) + Len(t)
        /\ \A i \in 1 .. Len(s) + Len(t) : st[i] = IF i <= Len(s) THEN s[i] ELSE t[i - Len(s)]
    BY <1>1, <1>2, ConcatProperties
  <2>2. \A p \in 1 .. b : p \in 1 .. b + Len(t) /\ p <= b BY <1>4
  <2>3. \A k \in 1 .. Len(t) : b + k \in 1 .. b + Len(t) /\ ~(b + k <= b) /\ b + k - b = k BY <1>4
  <2>4. QED BY <1>4, <2>1, <2>2, <2>3
<1>6. Len(st) = start[n + 1] BY <1>1, <1>3, <1>5
<1>7. ASSUME NEW i \in 1 .. n + 1, NEW k \in 1 .. Len(seqs[i])
      PROVE  start[i - 1] + k \in 1 .. Len(st) /\ st[start[i - 1] + k] = seqs[i][k]
  <2>1. CASE i = n + 1
    <3>1. k \in 1 .. Len(t) /\ start[i - 1] = b /\ seqs[i] = t BY <1>1, <1>3, <1>4, <2>1
    <3>2. b + k \in 1 .. Len(st) BY <1>4, <1>5, <3>1
    <3>3. QED BY <1>5, <3>1, <3>2
  <2>2. CASE i # n + 1
    <3>1. i \in 1 .. n BY <2>2
    <3>2. start[i - 1] + k \in 1 .. b /\ s[start[i - 1] + k] = seqs[i][k]
      BY <1>4, <3>1 DEF Joined
    <3>3. \A p \in 1 .. b : p \in 1 .. Len(st) BY <1>4, <1>5
    <3>4. QED BY <1>5, <3>2, <3>3
  <2>3. QED BY <2>1, <2>2
<1>8. ASSUME NEW p \in 1 .. Len(st)
      PROVE  \E i \in 1 .. n + 1 : \E k \in 1 .. Len(seqs[i]) : p = start[i - 1] + k
  <2>1. CASE p \in 1 .. b
    <3>1. PICK i \in 1 .. n : \E k \in 1 .. Len(seqs[i]) : p = start[i - 1] + k BY <1>4, <2>1 DEF Joined
    <3>2. i \in 1 .. n + 1 OBVIOUS
    <3>3. QED BY <3>1, <3>2
  <2>2. CASE p \notin 1 .. b
    <3>1. p - b \in 1 .. Len(t) /\ p = b + (p - b) BY <1>4, <1>5, <2>2
    <3>2. n + 1 \in 1 .. n + 1 OBVIOUS
    <3>3. start[n + 1 - 1] = b BY <1>3, <1>4
    <3>4. PICK k : k \in 1 .. Len(t) /\ p = b + k BY <3>1
    <3>5. k \in 1 .. Len(seqs[n + 1]) /\ p = start[n + 1 - 1] + k BY <1>1, <3>3, <3>4
    <3>6. QED BY <3>2, <3>5
  <2>3. QED BY <2>1, <2>2
<1>9. Joined(st, seqs, start, n + 1) BY <1>6, <1>7, <1>8 DEF Joined
<1>10. QED BY <1>1, <1>2, <1>9

\* Where the sequences that FlattenSeq puts one after the other are in the result.
LEMMA Flattened ==
  ASSUME NEW X, NEW seqs \in Seq(Seq(X)), NEW start, Starts(start, seqs)
  PROVE  FlattenSeq(seqs) \in Seq(X) /\ Joined(FlattenSeq(seqs), seqs, start, Len(seqs))
<1>1. Len(seqs) \in Nat /\ DOMAIN seqs = 1 .. Len(seqs) /\ \A i \in 1 .. Len(seqs) : seqs[i] \in Seq(X)
  OBVIOUS
<1>2. PICK N \in Nat : N = Len(seqs) BY <1>1
<1>3. /\ start \in [Nat -> Nat] /\ start[0] = 0
      /\ \A i \in 1 .. N : start[i] = start[i - 1] + Len(seqs[i])
  BY <1>1, <1>2 DEF Starts
<1>4. CASE N = 0
  <2>1. FlattenSeq(seqs) = seqs /\ seqs = <<>> BY <1>2, <1>4, EmptySeq DEF FlattenSeq
  <2>2. <<>> \in Seq(X) /\ Len(<<>>) = 0 BY EmptySeq
  <2>3. Joined(<<>>, seqs, start, 0) BY <1>3, <2>2 DEF Joined
  <2>4. QED BY <1>2, <1>4, <2>1, <2>2, <2>3
<1>5. CASE N # 0
  <2> DEFINE flatten[i \in 1 .. N] == IF i = 1 THEN seqs[i] ELSE flatten[i - 1] \o seqs[i]
  <2>1. FlattenSeq(seqs) = flatten[N] BY <1>2, <1>5 DEF FlattenSeq
  <2>2. PICK step : \A n \in Nat \ {0} : \A x \in Seq(X) : step[n][x] = IF n \in 1 .. N THEN x \o seqs[n] ELSE x
    <3>1. PICK g : g = [n \in Nat \ {0} |-> [x \in Seq(X) |-> IF n \in 1 .. N THEN x \o seqs[n] ELSE x]] OBVIOUS
    <3>2. \A n \in Nat \ {0} : \A x \in Seq(X) : g[n][x] = IF n \in 1 .. N THEN x \o seqs[n] ELSE x BY <3>1
    <3>3. QED BY <3>2
  <2>3. ASSUME NEW n \in Nat \ {0}, NEW x \in Seq(X) PROVE step[n][x] \in Seq(X)
    <3>1. n \in 1 .. N => seqs[n] \in Seq(X) BY <1>1, <1>2
    <3>2. n \in 1 .. N => x \o seqs[n] \in Seq(X) BY <3>1
    <3>3. QED BY <2>2, <3>2
  <2>4. PICK f \in [Nat -> Seq(X)] : Follows(f, <<>>, step)
    <3>1. <<>> \in Seq(X) OBVIOUS
    <3>2. \A n \in Nat \ {0} : \A x \in Seq(X) : step[n][x] \in Seq(X) BY <2>3
    <3>3. QED BY <3>1, <3>2, Iterates
  <2>5. ASSUME NEW i \in 1 .. N PROVE f[i] = f[i - 1] \o seqs[i] /\ i - 1 \in Nat
    <3>1. i \in Nat \ {0} /\ i - 1 \in Nat OBVIOUS
    <3>2. f[i] = step[i][f[i - 1]] BY <2>4, <3>1 DEF Follows
    <3>3. QED BY <2>2, <3>1, <3>2
  <2>6. f[0] = <<>> BY <2>4 DEF Follows
  <2>7. PICK h : h = [i \in 1 .. N |-> f[i]] OBVIOUS
  <2>8. ASSUME NEW i \in 1 .. N PROVE h[i] = IF i = 1 THEN seqs[i] ELSE h[i - 1] \o seqs[i]
    <3>1. CASE i = 1
      <4>1. f[1] = <<>> \o seqs[1] BY <2>5, <2>6, <3>1, 1 - 1 = 0
      <4>2. seqs[1] \in Seq(X) BY <1>1, <1>2, <3>1
      <4>3. <<>> \o seqs[1] = seqs[1] BY <4>2
      <4>4. QED BY <2>7, <3>1, <4>1, <4>3
    <3>2. CASE i # 1
      <4>1. i - 1 \in 1 .. N BY <3>2
      <4>2. QED BY <2>5, <2>7, <3>2, <4>1
    <3>3. QED BY <3>1, <3>2
  <2>9. h = [i \in 1 .. N |-> IF i = 1 THEN seqs[i] ELSE h[i - 1] \o seqs[i]]
    <3>1. DOMAIN h = 1 .. N /\ h = [i \in DOMAIN h |-> h[i]] BY <2>7
    <3>2. QED BY <2>8, <3>1
  <2>10. flatten = [i \in 1 .. N |-> IF i = 1 THEN seqs[i] ELSE flatten[i - 1] \o seqs[i]]
    BY <2>9
  <2>11. \A i \in 1 .. N : flatten[i] = IF i = 1 THEN seqs[i] ELSE flatten[i - 1] \o seqs[i]
    <3> HIDE DEF flatten
    <3>1. QED BY <2>10
  <2> HIDE DEF flatten
  <2>20. \A n \in Nat : n + 1 \in 1 .. N => f[n + 1] = f[n] \o seqs[n + 1]
    <3> SUFFICES ASSUME NEW n \in Nat, NEW m \in 1 .. N, m = n + 1 PROVE f[m] = f[n] \o seqs[m] OBVIOUS
    <3>1. m - 1 = n OBVIOUS
    <3>2. QED BY <2>5, <3>1
  <2>21. \A n \in Nat : n + 1 \in 1 .. N /\ n # 0 => flatten[n + 1] = flatten[n] \o seqs[n + 1]
    <3> SUFFICES ASSUME NEW n \in Nat \ {0}, NEW m \in 1 .. N, m = n + 1 PROVE flatten[m] = flatten[n] \o seqs[m] OBVIOUS
    <3>1. m - 1 = n /\ m # 1 OBVIOUS
    <3>2. QED BY <2>11, <3>1
  <2>22. \A n \in Nat : n + 1 \in 1 .. N => start[n + 1] = start[n] + Len(seqs[n + 1])
    <3> SUFFICES ASSUME NEW n \in Nat, NEW m \in 1 .. N, m = n + 1 PROVE start[m] = start[n] + Len(seqs[m]) OBVIOUS
    <3>1. m - 1 = n OBVIOUS
    <3>2. QED BY <1>3, <3>1
  <2> DEFINE S == {n \in Nat : n + 1 \in 1 .. N => flatten[n + 1] = f[n + 1]}
             J == {n \in Nat : n <= N => Joined(f[n], seqs, start, n)}
  <2>12. Nat \subseteq S
    <3>1. 0 \in S BY <2>7, <2>8, <2>11
    <3>2. ASSUME NEW n \in Nat, n \in S PROVE n + 1 \in S
      <4>1. SUFFICES ASSUME n + 1 + 1 \in 1 .. N PROVE flatten[n + 1 + 1] = f[n + 1 + 1] OBVIOUS
      <4>2. n + 1 \in Nat /\ n + 1 \in 1 .. N /\ n + 1 # 0 BY <4>1
      <4>3. flatten[n + 1] = f[n + 1] BY <3>2, <4>2
      <4>4. flatten[n + 1 + 1] = flatten[n + 1] \o seqs[n + 1 + 1] BY <2>21, <4>1, <4>2
      <4>5. f[n + 1 + 1] = f[n + 1] \o seqs[n + 1 + 1] BY <2>20, <4>1, <4>2
      <4>6. QED BY <4>3, <4>4, <4>5
    <3> HIDE DEF S
    <3>3. QED BY <3>1, <3>2, Climbs
  <2>13. Nat \subseteq J
    <3>1. 0 \in J
      <4>1. Joined(<<>>, seqs, start, 0) BY <1>3 DEF Joined
      <4>2. QED BY <2>6, <4>1
    <3>2. ASSUME NEW n \in Nat, n \in J PROVE n + 1 \in J
      <4>1. SUFFICES ASSUME n + 1 <= N PROVE Joined(f[n + 1], seqs, start, n + 1) OBVIOUS
      <4>2. n + 1 \in 1 .. N /\ n <= N /\ n + 1 - 1 = n BY <4>1
      <4>3. Joined(f[n], seqs, start, n) BY <3>2, <4>2
      <4>4. f[n] \in Seq(X) /\ seqs[n + 1] \in Seq(X) BY <1>1, <1>2, <2>4, <4>2
      <4>5. start[n] \in Nat /\ start[n + 1] = start[n] + Len(seqs[n + 1]) BY <1>3, <2>22, <4>2
      <4>6. Joined(f[n] \o seqs[n + 1], seqs, start, n + 1) BY <4>3, <4>4, <4>5, JoinNext
      <4>7. f[n + 1] = f[n] \o seqs[n + 1] BY <2>20, <4>2
      <4>8. QED BY <4>6, <4>7
    <3> HIDE DEF J
    <3>3. QED BY <3>1, <3>2, Climbs
  <2>14. flatten[N] = f[N]
    <3>1. N - 1 \in Nat /\ N - 1 + 1 = N /\ N \in 1 .. N BY <1>5
    <3>2. QED BY <2>12, <3>1
  <2>15. Joined(f[N], seqs, start, N) BY <2>13
  <2>16. QED BY <1>2, <2>1, <2>4, <2>14, <2>15
<1>6. QED BY <1>4, <1>5

-----------------------------------------------------------------------------
(* Symbols.                                                                *)

LEMMA MinIs ==
  ASSUME NEW S, S \subseteq Nat, S # {}
  PROVE  Min(S) \in S /\ \A n \in S : Min(S) <= n
<1>1. \E x \in S : \A y \in S : x =< y BY Least
<1>2. QED BY <1>1 DEF Min

LEMMA MaxIs ==
  ASSUME NEW S, S \subseteq Nat, S # {}, IsFiniteSet(S)
  PROVE  Max(S) \in S /\ \A n \in S : n <= Max(S)
<1>1. Cardinality(S) \in Nat /\ Cardinality(S) # 0 BY FS_CardinalityType, FS_EmptySet
<1>2. Cardinality(S) \in 1 .. Cardinality(S) BY <1>1
<1>3. PICK k \in S : Rank(k, S) = Cardinality(S) BY <1>2, Ranked
<1>4. ASSUME NEW n \in S, k < n PROVE FALSE
  <2>1. Rank(n, S) \in 1 .. Cardinality(S) /\ Rank(k, S) < Rank(n, S) BY <1>4, RankRises
  <2>2. QED BY <1>1, <1>3, <2>1
<1>5. \A n \in S : n <= k
  <2>1. k \in Nat /\ \A n \in S : n \in Nat OBVIOUS
  <2>2. QED BY <1>4, <2>1
<1>6. \E x \in S : \A y \in S : x >= y
  <2>1. k \in Nat /\ \A n \in S : n \in Nat OBVIOUS
  <2>2. QED BY <1>5, <2>1
<1>7. QED BY <1>6 DEF Max

\* What Only takes is from the sequence, and of the set.
LEMMA OnlyIs ==
  ASSUME NEW X, NEW seq \in Seq(X), NEW S
  PROVE  Only(seq, S) \in Seq(X \cap S) /\ ToSet(Only(seq, S)) \subseteq ToSet(seq)
<1>1. PICK N \in Nat : DOMAIN seq = 1 .. N /\ \A k \in 1 .. N : seq[k] \in X BY LenProperties
<1>2. PICK kept : kept = {k \in 1 .. N : seq[k] \in S} OBVIOUS
<1>3. IsFiniteSet(kept) /\ Cardinality(kept) \in Nat /\ kept \subseteq Nat
  <2>1. kept \in SUBSET (1 .. N) BY <1>2
  <2>2. IsFiniteSet(1 .. N) BY FS_Interval
  <2>3. IsFiniteSet(kept) BY <2>1, <2>2, FS_Subset
  <2>4. QED BY <2>1, <2>3, FS_CardinalityType
<1>4. /\ DOMAIN Only(seq, S) = 1 .. Cardinality(kept)
      /\ \A n \in 1 .. Cardinality(kept) : Only(seq, S)[n] = seq[CHOOSE k \in kept : Rank(k, kept) = n]
      /\ Only(seq, S) = [n \in 1 .. Cardinality(kept) |-> Only(seq, S)[n]]
  <2>1. kept = {k \in DOMAIN seq : seq[k] \in S} BY <1>1, <1>2
  <2>2. Only(seq, S) = [n \in 1 .. Cardinality(kept) |->
          seq[CHOOSE k \in kept : Cardinality({j \in kept : j <= k}) = n]]
    BY <2>1 DEF Only
  <2>3. QED BY <2>2 DEF Rank
<1>5. ASSUME NEW n \in 1 .. Cardinality(kept) PROVE \E k \in 1 .. N : Only(seq, S)[n] = seq[k] /\ seq[k] \in S
  <2>1. \E k \in kept : Rank(k, kept) = n BY <1>3, Ranked
  <2>2. PICK k \in kept : k = CHOOSE j \in kept : Rank(j, kept) = n BY <2>1
  <2>3. Only(seq, S)[n] = seq[k] BY <1>4, <2>2
  <2>4. QED BY <1>2, <2>3
<1>6. \A n \in 1 .. Cardinality(kept) : Only(seq, S)[n] \in X \cap S BY <1>1, <1>5
<1>7. Only(seq, S) \in Seq(X \cap S) BY <1>3, <1>4, <1>6
<1>8. ToSet(Only(seq, S)) \subseteq ToSet(seq) BY <1>1, <1>4, <1>5 DEF ToSet
<1>9. QED BY <1>7, <1>8

\* Where the sequences start grows with their numbers.
LEMMA StartsRise ==
  ASSUME NEW seqs, NEW N \in Nat, DOMAIN seqs = 1 .. N, \A i \in 1 .. N : Len(seqs[i]) \in Nat,
         NEW start, Starts(start, seqs), NEW i \in 0 .. N
  PROVE  \A j \in i .. N : start[i] <= start[j]
<1>1. /\ start \in [Nat -> Nat]
      /\ \A j \in Nat : j + 1 \in 1 .. N => start[j] <= start[j + 1]
  <2>1. start \in [Nat -> Nat] BY DEF Starts
  <2>2. ASSUME NEW j \in Nat, j + 1 \in 1 .. N PROVE start[j] <= start[j + 1]
    <3>1. PICK c \in 1 .. N : c = j + 1 BY <2>2
    <3>2. c - 1 = j BY <3>1
    <3>3. start[j] \in Nat BY <2>1
    <3>4. Len(seqs[c]) \in Nat OBVIOUS
    <3>5. start[c] = start[c - 1] + Len(seqs[c]) BY DEF Starts
    <3>6. QED BY <3>1, <3>2, <3>3, <3>4, <3>5
  <2>3. QED BY <2>1, <2>2
<1> DEFINE Above == {d \in Nat : i + d <= N => start[i] <= start[i + d]}
<1>2. 0 \in Above
  <2>1. start[i] \in Nat /\ i + 0 = i BY <1>1
  <2>2. QED BY <2>1
<1>3. ASSUME NEW d \in Nat, d \in Above PROVE d + 1 \in Above
  <2> SUFFICES ASSUME i + (d + 1) <= N PROVE start[i] <= start[i + (d + 1)] OBVIOUS
  <2>1. i + d <= N /\ i + d \in Nat /\ i + (d + 1) = i + d + 1 /\ i + d + 1 \in 1 .. N OBVIOUS
  <2>2. start[i] <= start[i + d] BY <1>3, <2>1
  <2>3. start[i + d] <= start[i + d + 1] BY <1>1, <2>1
  <2>4. PICK x \in Nat, y \in Nat : x = i + d /\ y = i + d + 1 BY <2>1
  <2>5. start[i] \in Nat /\ start[x] \in Nat /\ start[y] \in Nat BY <1>1
  <2>6. start[i] <= start[x] /\ start[x] <= start[y] BY <2>2, <2>3, <2>4
  <2>7. start[i] <= start[y] BY <2>5, <2>6
  <2>8. QED BY <2>1, <2>4, <2>7
<1> HIDE DEF Above
<1>4. Nat \subseteq Above BY <1>2, <1>3, Climbs
<1>5. ASSUME NEW j \in i .. N PROVE start[i] <= start[j]
  <2>1. j - i \in Nat /\ i + (j - i) = j /\ j <= N OBVIOUS
  <2>2. PICK d \in Nat : d = j - i BY <2>1
  <2>3. i + d = j /\ i + d <= N BY <2>1, <2>2
  <2>4. d \in Above BY <1>4
  <2>5. QED BY <2>3, <2>4 DEF Above
<1>6. QED BY <1>5

HasName(seq, name) == \E k \in DOMAIN seq : seq[k].name = name

\* A table filled from several lists has the first entry of the first list with the name.
LEMMA FirstOfFirst ==
  ASSUME NEW X, NEW lists \in Seq(Seq(X)), NEW name, NEW E, E = FlattenSeq(lists),
         NEW holders \in SUBSET DOMAIN lists,
         \A i \in DOMAIN lists : i \in holders <=> HasName(lists[i], name)
  PROVE  /\ name \in DOMAIN FirstWins(E) <=> holders # {}
         /\ holders # {} =>
              FirstWins(E)[name] = lists[Min(holders)][Min(Named(name, lists[Min(holders)]))].value
<1>1. PICK N \in Nat : N = Len(lists) /\ DOMAIN lists = 1 .. N BY LenProperties
<1>2. E = FlattenSeq(lists) OBVIOUS
<1>3. holders \subseteq DOMAIN lists /\ \A i \in DOMAIN lists : i \in holders <=> HasName(lists[i], name)
  OBVIOUS
<1>4. \A i \in 1 .. N : Len(lists[i]) \in Nat /\ DOMAIN lists[i] = 1 .. Len(lists[i])
  <2>1. \A i \in 1 .. N : lists[i] \in Seq(X) BY <1>1
  <2>2. QED BY <2>1, LenProperties
<1>5. PICK start : Starts(start, lists) BY <1>1, <1>4, StartsExist
<1>6. E \in Seq(X) /\ Joined(E, lists, start, N) BY <1>1, <1>2, <1>5, Flattened
<1>7. DOMAIN E = 1 .. Len(E) /\ Len(E) \in Nat BY <1>6, LenProperties
<1>8. /\ \A i \in 1 .. N : \A k \in 1 .. Len(lists[i]) :
           start[i - 1] + k \in 1 .. Len(E) /\ E[start[i - 1] + k] = lists[i][k]
      /\ \A p \in 1 .. Len(E) : \E i \in 1 .. N : \E k \in 1 .. Len(lists[i]) : p = start[i - 1] + k
  BY <1>6 DEF Joined
<1>9. DOMAIN FirstWins(E) = {e.name : e \in ToSet(E)} BY DEF FirstWins
<1>10. name \in DOMAIN FirstWins(E) <=> Named(name, E) # {} BY <1>9 DEF Named, ToSet
<1>11. Named(name, E) # {} <=> holders # {}
  <2>1. ASSUME NEW p \in Named(name, E) PROVE holders # {}
    <3>1. p \in 1 .. Len(E) /\ E[p].name = name BY <1>7 DEF Named
    <3>2. PICK i \in 1 .. N : \E k \in 1 .. Len(lists[i]) : p = start[i - 1] + k BY <1>8, <3>1
    <3>3. PICK k \in 1 .. Len(lists[i]) : p = start[i - 1] + k BY <3>2
    <3>4. lists[i][k].name = name BY <1>8, <3>1, <3>3
    <3>5. QED BY <1>1, <1>3, <1>4, <3>4 DEF HasName
  <2>2. ASSUME NEW i \in holders PROVE Named(name, E) # {}
    <3>1. i \in 1 .. N BY <1>1, <1>3
    <3>2. PICK k \in 1 .. Len(lists[i]) : lists[i][k].name = name BY <1>3, <1>4, <3>1 DEF HasName
    <3>3. start[i - 1] + k \in Named(name, E) BY <1>7, <1>8, <3>1, <3>2 DEF Named
    <3>4. QED BY <3>3
  <2>3. QED BY <2>1, <2>2
<1>12. ASSUME holders # {} PROVE FirstWins(E)[name] = lists[Min(holders)][Min(Named(name, lists[Min(holders)]))].value
  <2>1. PICK i : i = Min(holders) OBVIOUS
  <2>2. i \in 1 .. N /\ HasName(lists[i], name) /\ \A j \in holders : i <= j
    <3>1. holders \subseteq Nat BY <1>1, <1>3
    <3>2. i \in holders /\ \A j \in holders : i <= j BY <1>12, <2>1, <3>1, MinIs
    <3>3. QED BY <1>1, <1>3, <3>2
  <2>3. PICK k : k = Min(Named(name, lists[i])) OBVIOUS
  <2>4. k \in 1 .. Len(lists[i]) /\ lists[i][k].name = name
        /\ \A l \in 1 .. Len(lists[i]) : lists[i][l].name = name => k <= l
    <3>1. Named(name, lists[i]) \subseteq Nat /\ Named(name, lists[i]) # {}
      BY <1>4, <2>2 DEF Named, HasName
    <3>2. k \in Named(name, lists[i]) /\ \A l \in Named(name, lists[i]) : k <= l BY <2>3, <3>1, MinIs
    <3>3. QED BY <1>4, <2>2, <3>2 DEF Named
  <2>5. PICK p : p = start[i - 1] + k OBVIOUS
  <2>6. p \in Named(name, E) /\ E[p] = lists[i][k] BY <1>7, <1>8, <2>2, <2>4, <2>5 DEF Named
  <2>7. ASSUME NEW q \in Named(name, E) PROVE p <= q
    <3>1. q \in 1 .. Len(E) /\ E[q].name = name BY <1>7 DEF Named
    <3>2. PICK j \in 1 .. N : \E l \in 1 .. Len(lists[j]) : q = start[j - 1] + l BY <1>8, <3>1
    <3>3. PICK l \in 1 .. Len(lists[j]) : q = start[j - 1] + l BY <3>2
    <3>4. lists[j][l].name = name BY <1>8, <3>1, <3>3
    <3>5. j \in holders BY <1>1, <1>3, <1>4, <3>4 DEF HasName
    <3>6. i <= j BY <2>2, <3>5
    <3>7. CASE i = j
      <4>1. k <= l BY <2>4, <3>4, <3>7
      <4>2. start[i - 1] \in Nat
        <5>1. i - 1 \in Nat BY <2>2
        <5>2. QED BY <1>5, <5>1 DEF Starts
      <4>3. k \in Nat /\ l \in Nat BY <1>4, <2>2, <2>4
      <4>4. QED BY <2>5, <3>3, <3>7, <4>1, <4>2, <4>3
    <3>8. CASE i # j
      <4>1. i \in 0 .. N /\ j - 1 \in i .. N BY <2>2, <3>6, <3>8
      <4>2. start[i] <= start[j - 1] BY <1>1, <1>4, <1>5, <4>1, StartsRise
      <4>3. start[i] = start[i - 1] + Len(lists[i]) BY <1>1, <1>5, <2>2 DEF Starts
      <4>4. start[i - 1] \in Nat /\ start[i] \in Nat /\ start[j - 1] \in Nat
        <5>1. i - 1 \in Nat /\ i \in Nat /\ j - 1 \in Nat BY <2>2
        <5>2. QED BY <1>5, <5>1 DEF Starts
      <4>5. k <= Len(lists[i]) /\ k \in Nat /\ Len(lists[i]) \in Nat /\ l \in Nat BY <1>4, <2>2, <2>4
      <4>6. PICK a \in Nat, b \in Nat, c \in Nat : a = start[i - 1] /\ b = start[i] /\ c = start[j - 1] BY <4>4
      <4>7. b <= c /\ b = a + Len(lists[i]) /\ p = a + k /\ q = c + l BY <2>5, <3>3, <4>2, <4>3, <4>6
      <4>8. QED BY <4>5, <4>7
    <3>9. QED BY <3>7, <3>8
  <2>8. p = Min(Named(name, E))
    <3>1. Named(name, E) \subseteq Nat BY <1>7 DEF Named
    <3>2. Min(Named(name, E)) \in Named(name, E) /\ \A q \in Named(name, E) : Min(Named(name, E)) <= q
      BY <2>6, <3>1, MinIs
    <3>3. PICK m : m = Min(Named(name, E)) OBVIOUS
    <3>4. p \in Nat /\ m \in Nat /\ p <= m /\ m <= p BY <2>6, <2>7, <3>1, <3>2, <3>3
    <3>5. QED BY <3>3, <3>4
  <2>9. FirstWins(E)[name] = E[p].value BY <1>9, <1>10, <2>6, <2>8 DEF FirstWins
  <2>10. QED BY <2>1, <2>3, <2>6, <2>9
<1>13. QED BY <1>10, <1>11, <1>12
-----------------------------------------------------------------------------
(* Where the objects are, and what their slots get.                        *)

Placed == [path : {p \in DOMAIN system.objects : Usable(p)}, base : Nat]

LEMMA PlacedFacts ==
  ASSUME system \in Systems, NEW image \in Placed
  PROVE  /\ Bias(image) \in Int /\ EndOf(image) \in Nat
         /\ Object(image).symbols \in Seq(ToSet(Object(image).symbols))
         /\ Object(image).relocs \in Seq(ToSet(Object(image).relocs))
         /\ \A r \in ToSet(Object(image).relocs) :
              r.at \in Nat /\ r.sym \in Option(r.sym) /\ r.addend \in Option(r.addend)
<1>1. PICK o : o = Object(image) OBVIOUS
<1>2. /\ IsFiniteSet(o.segments) /\ o.segments # {}
      /\ \A g \in o.segments : g.vaddr \in Nat /\ g.memsz \in Nat
      /\ o.symbols \in Seq(ToSet(o.symbols))
      /\ o.relocs \in Seq(ToSet(o.relocs))
      /\ \A r \in ToSet(o.relocs) : r.at \in Nat /\ r.sym \in Option(r.sym) /\ r.addend \in Option(r.addend)
  <2>1. image.path \in {q \in DOMAIN system.objects : system.objects[q].sound}
    BY DEF Placed, Usable
  <2>2. o = system.objects[image.path] BY <1>1 DEF Object
  <2>3. QED BY <2>1, <2>2, ObjectsAssumption
<1>3. PICK low : low = Min({s.vaddr : s \in o.segments}) OBVIOUS
<1>4. low \in Nat /\ \A s \in o.segments : low <= s.vaddr
  <2>1. PICK V : V = {s.vaddr : s \in o.segments} OBVIOUS
  <2>2. V \subseteq Nat /\ V # {} BY <1>2, <2>1
  <2>3. Min(V) \in V /\ \A v \in V : Min(V) <= v BY <2>2, MinIs
  <2>4. QED BY <1>3, <2>1, <2>2, <2>3
<1>5. \A n \in Nat : AlignDown(n) \in Int /\ AlignDown(n) <= n /\ AlignUp(n) \in Nat
  <2> SUFFICES ASSUME NEW n \in Nat PROVE AlignDown(n) \in Int /\ AlignDown(n) <= n /\ AlignUp(n) \in Nat
    OBVIOUS
  <2>1. PageSize \in Nat \ {0} /\ n % PageSize \in 0 .. PageSize - 1 BY PageSizeAssumption
  <2>2. QED BY <2>1 DEF AlignDown, AlignUp, PageOffset
<1>6. image.base \in Nat BY DEF Placed
<1>7. Bias(image) = image.base - AlignDown(low) BY <1>1, <1>3 DEF Bias
<1>8. Bias(image) \in Int /\ \A s \in o.segments : Bias(image) + s.vaddr + s.memsz \in Nat
  <2>1. AlignDown(low) \in Int /\ AlignDown(low) <= low BY <1>4, <1>5
  <2>2. Bias(image) \in Int BY <1>6, <1>7, <2>1
  <2>3. ASSUME NEW s \in o.segments PROVE Bias(image) + s.vaddr + s.memsz \in Nat
    <3>1. s.vaddr \in Nat /\ s.memsz \in Nat /\ low <= s.vaddr BY <1>2, <1>4
    <3>2. QED BY <1>4, <1>6, <1>7, <2>1, <3>1
  <2>4. QED BY <2>2, <2>3
<1>9. EndOf(image) \in Nat
  <2>1. PICK f : f = [s \in o.segments |-> AlignUp(Bias(image) + s.vaddr + s.memsz)] OBVIOUS
  <2>2. PICK E : E = {f[s] : s \in o.segments} OBVIOUS
  <2>3. IsFiniteSet(E)
    <3>1. f \in Surjection(o.segments, E)
      <4>1. f \in [o.segments -> E] BY <2>1, <2>2
      <4>2. \A e \in E : \E s \in o.segments : f[s] = e BY <2>2
      <4>3. QED BY <4>1, <4>2 DEF Surjection
    <3>2. QED BY <1>2, <3>1, FS_Surjection
  <2>4. E \subseteq Nat /\ E # {} BY <1>2, <1>5, <1>8, <2>1, <2>2
  <2>5. EndOf(image) = Max(E)
    <3>1. E = {AlignUp(Bias(image) + s.vaddr + s.memsz) : s \in o.segments} BY <2>1, <2>2
    <3>2. QED BY <1>1, <3>1 DEF EndOf
  <2>6. QED BY <2>3, <2>4, <2>5, MaxIs
<1>10. QED BY <1>1, <1>2, <1>8, <1>9

AddressOf(name) ==
  IF Definers(name, Defined) = {} THEN 0
  ELSE Bias(images[FirstDefinition(name, Defined).image]) + FirstDefinition(name, Defined).value

LEMMA DefinedIs ==
  ASSUME system \in Systems, images \in Seq(Placed), NEW i \in DOMAIN images
  PROVE  Defined(i) \in Seq(ToSet(Symbols(i)))
<1>1. images[i] \in Placed OBVIOUS
<1>2. PICK all : all = Symbols(i) OBVIOUS
<1>3. all \in Seq(ToSet(all)) BY <1>1, <1>2, PlacedFacts DEF Symbols
<1>4. PICK S : S = {s \in ToSet(all) : s.defined} OBVIOUS
<1>5. Defined(i) = Only(all, S) BY <1>2, <1>4 DEF Defined
<1>6. Only(all, S) \in Seq(ToSet(all) \cap S) BY <1>3, OnlyIs
<1>7. ToSet(all) \cap S = S /\ S \subseteq ToSet(all) BY <1>4
<1>8. Seq(S) \subseteq Seq(ToSet(all)) BY <1>7
<1>9. QED BY <1>2, <1>5, <1>6, <1>7, <1>8

LEMMA AddressesAre ==
  ASSUME system \in Systems, images \in Seq(Placed), NEW name
  PROVE  /\ name \in DOMAIN Addresses <=> Definers(name, Defined) # {}
         /\ name \in DOMAIN Addresses => Addresses[name] = AddressOf(name)
<1>1. PICK N \in Nat : DOMAIN images = 1 .. N BY LenProperties
<1>2. \A i \in 1 .. N : Len(Defined(i)) \in Nat /\ DOMAIN Defined(i) = 1 .. Len(Defined(i))
  <2> SUFFICES ASSUME NEW i \in 1 .. N PROVE Len(Defined(i)) \in Nat /\ DOMAIN Defined(i) = 1 .. Len(Defined(i))
    OBVIOUS
  <2>1. Defined(i) \in Seq(ToSet(Symbols(i))) BY <1>1, DefinedIs
  <2>2. QED BY <2>1, LenProperties
<1> DEFINE entry(i, k) == [name |-> Defined(i)[k].name, value |-> Bias(images[i]) + Defined(i)[k].value]
<1>3. PICK lists : lists = [i \in 1 .. N |-> [k \in DOMAIN Defined(i) |-> entry(i, k)]] OBVIOUS
<1>4. PICK X : X = UNION {{entry(i, k) : k \in DOMAIN Defined(i)} : i \in 1 .. N} OBVIOUS
<1>5. lists \in Seq(Seq(X))
  <2>1. ASSUME NEW i \in 1 .. N PROVE lists[i] \in Seq(X)
    <3>1. \A k \in DOMAIN Defined(i) : entry(i, k) \in X BY <1>4
    <3>2. lists[i] = [k \in 1 .. Len(Defined(i)) |-> entry(i, k)] BY <1>2, <1>3
    <3>3. QED BY <1>2, <3>1, <3>2
  <2>2. QED BY <1>3, <2>1
<1>6. Addresses = FirstWins(FlattenSeq(lists))
  <2>1. [i \in DOMAIN images |->
           IF i \notin DOMAIN images THEN <<>>
           ELSE [k \in DOMAIN Defined(i) |->
                   [name |-> Defined(i)[k].name, value |-> Bias(images[i]) + Defined(i)[k].value]]]
         = lists
    BY <1>1, <1>3
  <2>2. QED BY <2>1 DEF Addresses, Table
<1>7. ASSUME NEW i \in 1 .. N
      PROVE  /\ HasName(lists[i], name) <=> \E s \in ToSet(Defined(i)) : s.name = name
             /\ Named(name, lists[i]) = {n \in DOMAIN Defined(i) : Defined(i)[n].name = name}
  <2>1. DOMAIN lists[i] = DOMAIN Defined(i) /\ \A k \in DOMAIN Defined(i) : lists[i][k].name = Defined(i)[k].name
    BY <1>3
  <2>2. QED BY <2>1 DEF HasName, Named, ToSet
<1>8. PICK E : E = FlattenSeq(lists) OBVIOUS
<1>9. PICK holders : holders = {i \in DOMAIN lists : HasName(lists[i], name)} OBVIOUS
<1>10. holders = Definers(name, Defined) BY <1>1, <1>3, <1>7, <1>9 DEF Definers
<1>11. /\ name \in DOMAIN FirstWins(E) <=> holders # {}
       /\ holders # {} =>
            FirstWins(E)[name] = lists[Min(holders)][Min(Named(name, lists[Min(holders)]))].value
  <2>1. holders \in SUBSET DOMAIN lists /\ \A i \in DOMAIN lists : i \in holders <=> HasName(lists[i], name)
    BY <1>9
  <2>2. QED BY <1>5, <1>8, <2>1, FirstOfFirst
<1>12. Addresses = FirstWins(E) BY <1>6, <1>8
<1>13. ASSUME holders # {} PROVE Addresses[name] = AddressOf(name)
  <2>1. PICK i : i = Min(holders) OBVIOUS
  <2>2. i \in 1 .. N /\ i \in holders
    <3>1. holders \subseteq 1 .. N BY <1>3, <1>9
    <3>2. holders \subseteq Nat BY <3>1
    <3>3. i \in holders BY <1>13, <2>1, <3>2, MinIs
    <3>4. QED BY <3>1, <3>3
  <2>3. PICK k : k = Min(Named(name, lists[i])) OBVIOUS
  <2>4. Named(name, lists[i]) = {n \in DOMAIN Defined(i) : Defined(i)[n].name = name} BY <1>7, <2>2
  <2>5. k \in DOMAIN Defined(i)
    <3>1. DOMAIN lists[i] = DOMAIN Defined(i) BY <1>3, <2>2
    <3>2. HasName(lists[i], name) BY <1>9, <2>2
    <3>3. Named(name, lists[i]) # {} BY <3>2 DEF HasName, Named
    <3>4. DOMAIN Defined(i) = 1 .. Len(Defined(i)) BY <1>2, <2>2
    <3>5. Named(name, lists[i]) \subseteq Nat BY <2>4, <3>4
    <3>6. k \in Named(name, lists[i]) BY <2>3, <3>3, <3>5, MinIs
    <3>7. QED BY <2>4, <3>6
  <2>6. Addresses[name] = lists[i][k].value BY <1>11, <1>12, <1>13, <2>1, <2>3
  <2>7. lists[i][k].value = Bias(images[i]) + Defined(i)[k].value BY <1>3, <2>2, <2>5
  <2>8. FirstDefinition(name, Defined) = [image |-> i, value |-> Defined(i)[k].value]
    BY <1>10, <2>1, <2>3, <2>4 DEF FirstDefinition
  <2>9. PICK d : d = FirstDefinition(name, Defined) OBVIOUS
  <2>10. d.image = i /\ d.value = Defined(i)[k].value BY <2>8, <2>9
  <2>11. AddressOf(name) = Bias(images[d.image]) + d.value BY <1>10, <1>13, <2>9 DEF AddressOf
  <2>12. QED BY <2>6, <2>7, <2>10, <2>11
<1>14. QED BY <1>10, <1>11, <1>12, <1>13

\* What a GLOB_DAT, JUMP_SLOT or 64 relocation of a name with an addend puts in its slot.
LEMMA BindValue ==
  ASSUME system \in Systems, images \in Seq(Placed), NEW i, NEW r, r.kind = "bind", Value(i, r) # None,
         r.sym \in Option(r.sym), NEW name \in r.sym
  PROVE  Value(i, r) = {AddressOf(name) + Or(r.addend, Word(Target(i, r)))}
<1>1. r.sym = {name} BY DEF Option, None, Some
<1>2. PICK at : at = Target(i, r) OBVIOUS
<1>3. PICK addend : addend = Or(r.addend, Word(at)) OBVIOUS
<1>4. Value(i, r) = {address + addend : address \in
                       IF Found(r, Addresses) = None /\ r.sym \subseteq Optional THEN {0} ELSE Found(r, Addresses)}
  <2>1. Value(i, r) = Bind(r, at) BY <1>2 DEF Value
  <2>2. QED BY <1>1, <1>3, <2>1 DEF Bind, None
<1>5. CASE name \in DOMAIN Addresses
  <2>1. Found(r, Addresses) = {Addresses[name]} BY <1>1, <1>5 DEF Found
  <2>2. Value(i, r) = {Addresses[name] + addend} BY <1>4, <2>1 DEF None
  <2>3. QED BY <1>2, <1>3, <1>5, <2>2, AddressesAre
<1>6. CASE name \notin DOMAIN Addresses
  <2>1. Found(r, Addresses) = {} BY <1>1, <1>6 DEF Found
  <2>2. r.sym \subseteq Optional BY <1>4, <2>1 DEF None
  <2>3. Value(i, r) = {0 + addend} BY <1>4, <2>1, <2>2 DEF None
  <2>4. AddressOf(name) = 0 BY <1>6, AddressesAre DEF AddressOf
  <2>5. QED BY <1>2, <1>3, <2>3, <2>4
<1>7. QED BY <1>5, <1>6

-----------------------------------------------------------------------------
(* From the graph to the load order.                                       *)

Stages == {"open", "graph", "place", "map", "tls", "prepare", "relocate", "resolve", "running", "failed"}

Loadable == {p \in DOMAIN system.objects : Usable(p)}

\* What has a place, or waits for one, is an object with segments.
PlaceInv ==
  /\ GraphInv
  /\ stage \in Stages
  /\ images \in Seq(Placed)
  /\ stage \notin {"open", "failed"} => Root \in Loadable /\ linker \subseteq Loadable
  /\ stage = "place" => todo \in Seq(Loadable)

LEMMA LoadableStays == system' = system => Loadable' = Loadable /\ Placed' = Placed /\ Root' = Root
BY DEF Loadable, Placed, Usable, Root, Canonical

LEMMA PlaceStays ==
  ASSUME PlaceInv, GraphInv', system' = system, images' = images, linker' = linker,
         stage' \in Stages, stage' \notin {"open", "failed"} => stage \notin {"open", "failed"},
         stage' # "place"
  PROVE  PlaceInv'
BY LoadableStays DEF PlaceInv

LEMMA OpenKeepsPlaces == PlaceInv /\ GraphInv' /\ Open => PlaceInv'
<1> SUFFICES ASSUME PlaceInv, GraphInv', Open PROVE PlaceInv'
  OBVIOUS
<1>1. stage' = "graph" /\ system' = system /\ images' = images BY DEF Open, graphVars
<1>2. Usable(Root) /\ \A p \in linker' : OpensLinker(p) BY DEF Open
<1>3. Root \in Loadable /\ linker' \subseteq Loadable BY <1>2 DEF OpensLinker, Loadable, Usable
<1>4. QED BY <1>1, <1>3, LoadableStays DEF PlaceInv, Stages

LEMMA WalkKeepsPlaces == PlaceInv /\ GraphInv' /\ Walk => PlaceInv'
<1> SUFFICES ASSUME PlaceInv, GraphInv', Walk PROVE PlaceInv'
  OBVIOUS
<1>1. /\ stage = "graph" /\ images' = images /\ linker' = linker
      /\ stage' = CASE walk' = "done" -> "place" [] walk' \in Refusals -> "failed" [] OTHER -> "graph"
      /\ todo' = IF walk' = "done" THEN nodes' ELSE todo
  BY DEF Walk
<1>2. system' = system BY DEF Walk, GraphNext, VisitRoot, VisitChild, LeaveNode
<1>3. stage' \in Stages /\ (stage' = "place" => walk' = "done")
  BY <1>1 DEF Stages, Refusals
<1>4. ASSUME walk' = "done" PROVE todo' \in Seq(Loadable')
  <2>1. WalkInv' /\ nodes' \in Seq(Path)' BY <1>4 DEF GraphInv, GraphType
  <2>2. \A p \in NodeSet' : p \in Loadable'
    BY <2>1 DEF WalkInv, Accepted, Usable, Loadable
  <2>3. \A i \in 1 .. Len(nodes') : nodes'[i] \in Loadable' BY <2>1, <2>2 DEF NodeSet
  <2>4. nodes' \in Seq(Loadable') BY <2>1, <2>3
  <2>5. QED BY <1>1, <1>4, <2>4
<1>5. Root' \in Loadable' /\ linker' \subseteq Loadable' BY <1>1, <1>2, LoadableStays DEF PlaceInv
<1>6. QED BY <1>1, <1>2, <1>3, <1>4, <1>5, LoadableStays DEF PlaceInv

LEMMA PlaceKeepsPlaces == PlaceInv /\ GraphInv' /\ Place => PlaceInv'
<1> SUFFICES ASSUME PlaceInv, GraphInv', Place PROVE PlaceInv'
  OBVIOUS
<1>1. /\ stage = "place" /\ todo # <<>> /\ system' = system /\ stage' = stage /\ linker' = linker
      /\ todo' = Tail(todo)
  BY DEF Place, graphVars
<1>2. system \in Systems /\ images \in Seq(Placed) /\ todo \in Seq(Loadable)
  BY <1>1 DEF PlaceInv, GraphInv, GraphType
<1>3. Head(todo) \in Loadable /\ todo' \in Seq(Loadable) BY <1>1, <1>2, HeadTailProperties
<1>4. PICK base : base = IF images = <<>> THEN Preferred + LibraryOffset ELSE EndOf(Last(images)) + PageSize
  OBVIOUS
<1>5. base \in Nat
  <2>1. CASE images = <<>>
    <3>1. Preferred \in Nat /\ LibraryOffset \in Nat BY ObjectsAssumption
    <3>2. QED BY <1>4, <2>1, <3>1
  <2>2. CASE images # <<>>
    <3>1. Len(images) \in 1 .. Len(images) BY <1>2, <2>2, EmptySeq
    <3>2. Last(images) \in Placed BY <1>2, <3>1, ElementOfSeq DEF Last
    <3>3. EndOf(Last(images)) \in Nat BY <1>2, <3>2, PlacedFacts
    <3>4. PageSize \in Nat BY PageSizeAssumption
    <3>5. QED BY <1>4, <2>2, <3>3, <3>4
  <2>3. QED BY <2>1, <2>2
<1>6. [path |-> Head(todo), base |-> base] \in Placed BY <1>3, <1>5 DEF Placed, Loadable
<1>7. images' = Append(images, [path |-> Head(todo), base |-> base]) BY <1>4 DEF Place
<1>8. images' \in Seq(Placed) BY <1>2, <1>6, <1>7, AppendProperties
<1>9. QED BY <1>1, <1>3, <1>8, LoadableStays DEF PlaceInv

LEMMA ArrangeKeepsPlaces == PlaceInv /\ GraphInv' /\ Arrange => PlaceInv'
<1> SUFFICES ASSUME PlaceInv, GraphInv', Arrange PROVE PlaceInv'
  OBVIOUS
<1>1. stage = "place" /\ system' = system /\ stage' = "map" /\ linker' = linker
  BY DEF Arrange, graphVars
<1>2. images \in Seq(Placed) /\ Root \in Loadable /\ linker \subseteq Loadable BY <1>1 DEF PlaceInv
<1>3. PICK libraries : libraries = Only(images, {m \in ToSet(images) : m.path \notin {Root} \cup linker})
  OBVIOUS
<1>4. PICK last : last = IF linker = None THEN <<>>
                         ELSE <<[path |-> Or(linker, Root), base |-> Preferred + LinkerOffset]>>
  OBVIOUS
<1>5. Preferred \in Nat /\ Preferred + LinkerOffset \in Nat
  <2>1. Preferred \in Nat /\ LinkerOffset \in Nat BY ObjectsAssumption
  <2>2. QED BY <2>1
<1>6. images' = <<[path |-> Root, base |-> Preferred]>> \o libraries \o last BY <1>3, <1>4 DEF Arrange
<1>7. libraries \in Seq(Placed)
  <2>1. PICK S : S = {m \in ToSet(images) : m.path \notin {Root} \cup linker} OBVIOUS
  <2>2. Only(images, S) \in Seq(Placed \cap S) BY <1>2, OnlyIs
  <2>3. QED BY <1>3, <2>1, <2>2
<1>8. last \in Seq(Placed)
  <2>1. CASE linker = None BY <1>4, <2>1
  <2>2. CASE linker # None
    <3>1. Or(linker, Root) \in linker BY <2>2 DEF Or, None
    <3>2. PICK at : at = Preferred + LinkerOffset OBVIOUS
    <3>3. [path |-> Or(linker, Root), base |-> at] \in Placed BY <1>2, <1>5, <3>1, <3>2 DEF Placed, Loadable
    <3>4. last = <<[path |-> Or(linker, Root), base |-> at]>> BY <1>4, <2>2, <3>2
    <3>5. QED BY <3>3, <3>4
  <2>3. QED BY <2>1, <2>2
<1>9. <<[path |-> Root, base |-> Preferred]>> \in Seq(Placed) BY <1>2, <1>5 DEF Placed, Loadable
<1>10. <<[path |-> Root, base |-> Preferred]>> \o libraries \in Seq(Placed) BY <1>7, <1>9, ConcatProperties
<1>11. images' \in Seq(Placed) BY <1>6, <1>8, <1>10, ConcatProperties
<1>12. QED BY <1>1, <1>2, <1>11, LoadableStays DEF PlaceInv, Stages

LEMMA PlaceKeeps == PlaceInv /\ [Next]_vars => PlaceInv'
<1> SUFFICES ASSUME PlaceInv, [Next]_vars PROVE PlaceInv'
  OBVIOUS
<1>1. GraphInv' BY NextKeepsInv DEF PlaceInv
<1>2. CASE Fail
  <2>1. system' = system /\ images' = images /\ linker' = linker /\ stage' = "failed" BY <1>2 DEF Fail, graphVars
  <2>2. QED BY <1>1, <2>1, PlaceStays DEF Stages
<1>3. CASE \/ MapImage \/ Reserve \/ InstallBlock \/ BuildDtv \/ Prepare \/ Relocate
           \/ Decide \/ RunResolver \/ Run
  <2>1. system' = system /\ images' = images /\ linker' = linker
    BY <1>3 DEF MapImage, Reserve, InstallBlock, BuildDtv, Prepare, Relocate, Decide, RunResolver, Run, graphVars
  <2>2. stage \notin {"open", "failed"} /\ stage' # "place" /\ stage' \in Stages
    BY <1>3 DEF MapImage, Reserve, InstallBlock, BuildDtv, Prepare, Relocate, Decide, RunResolver, Run, Stages
  <2>3. QED BY <1>1, <2>1, <2>2, PlaceStays
<1>4. CASE Ended \/ UNCHANGED vars
  <2>1. /\ system' = system /\ images' = images /\ linker' = linker /\ stage' = stage /\ todo' = todo
    BY <1>4 DEF Ended, vars, graphVars, loaderVars
  <2>2. QED BY <1>1, <2>1, LoadableStays DEF PlaceInv
<1>5. CASE Open BY <1>1, <1>5, OpenKeepsPlaces
<1>6. CASE Walk BY <1>1, <1>6, WalkKeepsPlaces
<1>7. CASE Place BY <1>1, <1>7, PlaceKeepsPlaces
<1>8. CASE Arrange BY <1>1, <1>8, ArrangeKeepsPlaces
<1>9. QED
  BY <1>2, <1>3, <1>4, <1>5, <1>6, <1>7, <1>8
  DEF Next, CannotOpen, CannotMap, NoRoomForTls, CannotPrepare, CannotRelocate, CannotDecide, ResolverFails
-----------------------------------------------------------------------------
(* The relocations, and what they leave.                                   *)

LEMMA WorkIs ==
  ASSUME system \in Systems, images \in Seq(Placed)
  PROVE  /\ Work \in Seq(ToSet(Work))
         /\ \A w \in ToSet(Work) : w.image \in DOMAIN images /\ w.reloc \in ToSet(Object(images[w.image]).relocs)
<1>1. PICK N \in Nat : N = Len(images) /\ DOMAIN images = 1 .. N BY LenProperties
<1> DEFINE relocs(i) == Object(images[i]).relocs
<1>2. \A i \in 1 .. N : relocs(i) \in Seq(ToSet(relocs(i)))
  <2> SUFFICES ASSUME NEW i \in 1 .. N PROVE relocs(i) \in Seq(ToSet(relocs(i))) OBVIOUS
  <2>1. images[i] \in Placed BY <1>1
  <2>2. QED BY <2>1, PlacedFacts
<1>3. PICK lists : lists = [i \in 1 .. N |-> [k \in DOMAIN relocs(i) |-> [image |-> i, reloc |-> relocs(i)[k]]]]
  OBVIOUS
<1>4. PICK X : X = UNION {{[image |-> i, reloc |-> r] : r \in ToSet(relocs(i))} : i \in 1 .. N} OBVIOUS
<1>5. \A i \in 1 .. N : lists[i] \in Seq(X)
  <2> SUFFICES ASSUME NEW i \in 1 .. N PROVE lists[i] \in Seq(X) OBVIOUS
  <2>1. Len(relocs(i)) \in Nat /\ DOMAIN relocs(i) = 1 .. Len(relocs(i)) BY <1>2, LenProperties
  <2>2. \A k \in 1 .. Len(relocs(i)) : relocs(i)[k] \in ToSet(relocs(i)) BY <2>1 DEF ToSet
  <2>3. \A k \in 1 .. Len(relocs(i)) : [image |-> i, reloc |-> relocs(i)[k]] \in X
    <3>1. PICK T : T = {[image |-> i, reloc |-> r] : r \in ToSet(relocs(i))} OBVIOUS
    <3>2. T \subseteq X BY <1>4, <3>1
    <3>3. \A k \in 1 .. Len(relocs(i)) : [image |-> i, reloc |-> relocs(i)[k]] \in T BY <2>2, <3>1
    <3>4. QED BY <3>2, <3>3
  <2>4. lists[i] = [k \in 1 .. Len(relocs(i)) |-> [image |-> i, reloc |-> relocs(i)[k]]] BY <1>3, <2>1
  <2>5. QED BY <2>1, <2>3, <2>4
<1>6. lists \in Seq(Seq(X)) /\ DOMAIN lists = 1 .. N /\ Len(lists) = N
  <2>1. lists \in [1 .. N -> Seq(X)] BY <1>3, <1>5
  <2>2. QED BY <2>1
<1>7. \A i \in 1 .. N : Len(lists[i]) \in Nat BY <1>5, LenProperties
<1>8. PICK start : Starts(start, lists) BY <1>6, <1>7, StartsExist
<1>9. FlattenSeq(lists) \in Seq(X) BY <1>6, <1>8, Flattened
<1>10. Work = FlattenSeq(lists) BY <1>1, <1>3 DEF Work
<1>11. Work \in Seq(ToSet(Work)) /\ ToSet(Work) \subseteq X
  <2>1. Work \in Seq(X) BY <1>9, <1>10
  <2>2. Len(Work) \in Nat /\ DOMAIN Work = 1 .. Len(Work) /\ \A k \in 1 .. Len(Work) : Work[k] \in X
    BY <2>1
  <2>3. ToSet(Work) \subseteq X BY <2>2 DEF ToSet
  <2>4. \A k \in 1 .. Len(Work) : Work[k] \in ToSet(Work) BY <2>2 DEF ToSet
  <2>5. Work = [k \in 1 .. Len(Work) |-> Work[k]] BY <2>1
  <2>6. QED BY <2>2, <2>3, <2>4, <2>5
<1>12. \A w \in X : w.image \in 1 .. N /\ w.reloc \in ToSet(relocs(w.image)) BY <1>4
<1>13. QED BY <1>1, <1>11, <1>12

\* The slot of a GLOB_DAT, JUMP_SLOT or 64 relocation holds its address.
Agrees(w) ==
  w.reloc.kind = "bind" =>
    \A name \in w.reloc.sym : Word(Target(w.image, w.reloc)) = AddressOf(name) + w.addend

\* What was applied is one of the relocations.
FromWork(w) == \E v \in ToSet(Work) : v.image = w.image /\ v.reloc = w.reloc

LEMMA LayoutStays ==
  ASSUME system' = system, images' = images
  PROVE  /\ Work' = Work
         /\ \A i, r : Target(i, r)' = Target(i, r)
         /\ \A w : Touched(w)' = Touched(w)
         /\ \A name : AddressOf(name)' = AddressOf(name)
         /\ \A w : FromWork(w)' = FromWork(w)
         /\ \A a : Unnamed(a)' = Unnamed(a)
<1>1. \A m : Object(m)' = Object(m) BY DEF Object
<1>2. \A m : Bias(m)' = Bias(m) BY <1>1 DEF Bias
<1>3. Work' = Work BY <1>1 DEF Work
<1>4. \A i, r : Target(i, r)' = Target(i, r) BY <1>2 DEF Target
<1>5. \A w : Touched(w)' = Touched(w) BY <1>4 DEF Touched
<1>6. \A a : Unnamed(a)' = Unnamed(a) BY <1>3, <1>5 DEF Unnamed
<1>7. \A i : Defined(i)' = Defined(i) BY <1>1 DEF Defined, Symbols
<1>8. \A name : Definers(name, Defined)' = Definers(name, Defined) BY <1>7 DEF Definers
<1>9. \A name : FirstDefinition(name, Defined)' = FirstDefinition(name, Defined)
  BY DEF FirstDefinition, Definers, Defined, Symbols, Object
<1>10. \A name : AddressOf(name)' = AddressOf(name) BY <1>2, <1>8, <1>9 DEF AddressOf
<1>11. \A w : FromWork(w)' = FromWork(w) BY <1>3 DEF FromWork
<1>12. QED BY <1>3, <1>4, <1>5, <1>6, <1>10, <1>11

\* Nothing more applied: the same slots are the last ones.
LEMMA LastsStays ==
  ASSUME system' = system, images' = images, applied' = applied
  PROVE  \A n : Lasts(n)' = Lasts(n)
<1>1. Work' = Work /\ (\A i, r : Target(i, r)' = Target(i, r)) /\ \A w : Touched(w)' = Touched(w) BY LayoutStays
<1>2. QED BY <1>1 DEF Lasts, IsResolver

\* One more applied: it is not for the slots that still are the last ones.
LEMMA LastsGrows ==
  ASSUME system' = system, images' = images, applied \in Seq(ToSet(applied)),
         NEW new, applied' = Append(applied, new), NEW n \in DOMAIN applied, Lasts(n)'
  PROVE  Lasts(n) /\ Target(applied[n].image, applied[n].reloc) \notin Touched(new)
<1>1. Work' = Work /\ (\A i, r : Target(i, r)' = Target(i, r)) /\ \A w : Touched(w)' = Touched(w) BY LayoutStays
<1>2. PICK L \in Nat : L = Len(applied) /\ DOMAIN applied = 1 .. L BY LenProperties
<1>3. /\ Len(applied') = L + 1 /\ \A k \in 1 .. L : applied'[k] = applied[k]
      /\ applied'[L + 1] = new
  <2>1. applied \in Seq(ToSet(applied) \cup {new}) OBVIOUS
  <2>2. QED BY <1>2, <2>1, AppendProperties
<1>4. PICK slot : slot = Target(applied[n].image, applied[n].reloc) OBVIOUS
<1>5. applied'[n] = applied[n] /\ n \in 1 .. L BY <1>2, <1>3
<1>6. \A m \in n + 1 .. L + 1 : slot \notin Touched(applied'[m]) BY <1>1, <1>3, <1>4, <1>5 DEF Lasts
<1>7. \A w \in ToSet(Work) : IsResolver(w) => slot \notin Touched(w)
  BY <1>1, <1>4, <1>5 DEF Lasts, IsResolver
<1>8. \A m \in n + 1 .. L : slot \notin Touched(applied[m])
  <2> SUFFICES ASSUME NEW m \in n + 1 .. L PROVE slot \notin Touched(applied[m]) OBVIOUS
  <2>1. m \in n + 1 .. L + 1 /\ m \in 1 .. L BY <1>2, <1>5
  <2>2. QED BY <1>3, <1>6, <2>1
<1>9. slot \notin Touched(new)
  <2>1. L + 1 \in n + 1 .. L + 1 BY <1>2, <1>5
  <2>2. QED BY <1>3, <1>6, <2>1
<1>10. QED BY <1>2, <1>4, <1>7, <1>8, <1>9 DEF Lasts

LEMMA TargetIs ==
  ASSUME system \in Systems, images \in Seq(Placed), NEW w \in ToSet(Work)
  PROVE  /\ Target(w.image, w.reloc) \in Int
         /\ w.reloc.sym \in Option(w.reloc.sym) /\ w.reloc.addend \in Option(w.reloc.addend)
         /\ w.reloc.kind # "copy" => Touched(w) = {Target(w.image, w.reloc)}
<1>1. w.image \in DOMAIN images /\ w.reloc \in ToSet(Object(images[w.image]).relocs) BY WorkIs
<1>2. images[w.image] \in Placed BY <1>1
<1>3. PICK b, at : b = Bias(images[w.image]) /\ at = w.reloc.at OBVIOUS
<1>4. b \in Int /\ at \in Nat BY <1>1, <1>2, <1>3, PlacedFacts
<1>5. w.reloc.sym \in Option(w.reloc.sym) /\ w.reloc.addend \in Option(w.reloc.addend)
  BY <1>1, <1>2, PlacedFacts
<1>6. Target(w.image, w.reloc) = b + at BY <1>3 DEF Target
<1>7. ASSUME w.reloc.kind # "copy" PROVE Touched(w) = {Target(w.image, w.reloc)}
  <2>1. PICK t \in Int : t = Target(w.image, w.reloc) BY <1>4, <1>6
  <2>2. Touched(w) = {t + k : k \in 0 .. 1 - 1} BY <1>7, <2>1 DEF Touched
  <2>3. {t + k : k \in 0 .. 1 - 1} = {t}
    <3>1. 0 .. 1 - 1 = {0} /\ t + 0 = t OBVIOUS
    <3>2. QED BY <3>1
  <2>4. QED BY <2>1, <2>2, <2>3
<1>8. QED BY <1>4, <1>5, <1>6, <1>7

LEMMA WrittenElsewhere ==
  ASSUME NEW start, NEW content, words' = Written(start, content),
         NEW a, a \notin {start + k : k \in DOMAIN content}
  PROVE  Word(a)' = Word(a)
<1>1. PICK new : new = {start + k : k \in DOMAIN content} OBVIOUS
<1>2. words' = [x \in DOMAIN words \cup new |-> IF x \in new THEN content[x - start] ELSE words[x]]
  BY <1>1 DEF Written
<1>3. a \notin new BY <1>1
<1>4. QED BY <1>2, <1>3 DEF Word

LEMMA WrittenThere ==
  ASSUME NEW start \in Int, NEW content, words' = Written(start, content),
         NEW k \in Int, k \in DOMAIN content
  PROVE  Word(start + k)' = content[k]
<1>1. PICK new : new = {start + j : j \in DOMAIN content} OBVIOUS
<1>2. words' = [x \in DOMAIN words \cup new |-> IF x \in new THEN content[x - start] ELSE words[x]]
  BY <1>1 DEF Written
<1>3. start + k \in new BY <1>1
<1>4. (start + k) - start = k OBVIOUS
<1>5. PICK x : x = start + k OBVIOUS
<1>6. x \in DOMAIN words' /\ words'[x] = content[x - start] BY <1>2, <1>3, <1>5
<1>7. QED BY <1>4, <1>5, <1>6 DEF Word

\* A write of v leaves the words that v is not for.
LEMMA SlotStays ==
  ASSUME NEW v, NEW content, words' = Written(Target(v.image, v.reloc), content),
         \A k \in DOMAIN content : Target(v.image, v.reloc) + k \in Touched(v),
         NEW t, t \notin Touched(v)
  PROVE  Word(t)' = Word(t)
<1>1. PICK s : s = Target(v.image, v.reloc) OBVIOUS
<1>2. t \notin {s + k : k \in DOMAIN content} BY <1>1
<1>3. QED BY <1>1, <1>2, WrittenElsewhere

LEMMA ContentTouches ==
  ASSUME system \in Systems, images \in Seq(Placed), NEW w \in ToSet(Work)
  PROVE  \A k \in DOMAIN Content(w.image, w.reloc) : Target(w.image, w.reloc) + k \in Touched(w)
<1>1. PICK i, r : i = w.image /\ r = w.reloc OBVIOUS
<1>2. PICK content : content = Content(i, r) OBVIOUS
<1>3. CASE r.kind = "copy"
  <2>1. DOMAIN content = 0 .. Larger(r.size, 1) - 1 BY <1>2, <1>3 DEF Content
  <2>2. Touched(w) = {Target(i, r) + k : k \in 0 .. Larger(r.size, 1) - 1} BY <1>1, <1>3 DEF Touched
  <2>3. QED BY <1>1, <1>2, <2>1, <2>2
<1>4. CASE r.kind # "copy"
  <2>1. DOMAIN content = {0} BY <1>2, <1>4 DEF Content
  <2>2. Touched(w) = {Target(i, r) + k : k \in 0 .. 1 - 1} BY <1>1, <1>4 DEF Touched
  <2>3. 0 .. 1 - 1 = {0} OBVIOUS
  <2>4. QED BY <1>1, <1>2, <2>1, <2>2, <2>3
<1>5. QED BY <1>3, <1>4

\* A bind relocation leaves the address in its slot.
LEMMA BindAgrees ==
  ASSUME system \in Systems, images \in Seq(Placed), system' = system, images' = images,
         NEW w \in ToSet(Work), Value(w.image, w.reloc) # None,
         words' = Written(Target(w.image, w.reloc), Content(w.image, w.reloc)),
         NEW new, new.image = w.image, new.reloc = w.reloc,
         new.addend = Or(w.reloc.addend, Word(Target(w.image, w.reloc)))
  PROVE  Agrees(new)'
<1> SUFFICES ASSUME w.reloc.kind = "bind", NEW name \in w.reloc.sym
             PROVE  Word(Target(w.image, w.reloc))' = AddressOf(name)' + new.addend
  BY DEF Agrees
<1>1. PICK i, r : i = w.image /\ r = w.reloc OBVIOUS
<1>2. PICK t \in Int : t = Target(i, r) BY <1>1, TargetIs
<1>3. r.sym \in Option(r.sym) BY <1>1, TargetIs
<1>4. Value(i, r) = {AddressOf(name) + new.addend} BY <1>1, <1>3, BindValue
<1>5. PICK v : v = AddressOf(name) + new.addend OBVIOUS
<1>6. (CHOOSE x \in Value(i, r) : TRUE) = v BY <1>4, <1>5
<1>7. Content(i, r) = [k \in {0} |-> v]
  <2>1. r.kind = "bind" /\ r.kind # "copy" BY <1>1
  <2>2. QED BY <1>6, <2>1 DEF Content
<1>8. PICK content : content = [k \in {0} |-> v] OBVIOUS
<1>9. words' = Written(t, content) /\ 0 \in DOMAIN content /\ content[0] = v /\ 0 \in Int
  BY <1>1, <1>2, <1>7, <1>8
<1>10. Word(t + 0)' = content[0] BY <1>9, WrittenThere
<1>11. t + 0 = t OBVIOUS
<1>12. Word(t)' = v BY <1>9, <1>10, <1>11
<1>13. Target(w.image, w.reloc)' = t /\ AddressOf(name)' = AddressOf(name) BY <1>1, <1>2, LayoutStays
<1>14. QED BY <1>5, <1>12, <1>13

Early == {"open", "graph", "place", "map", "tls", "prepare"}

\* The loop has relocations to go through, then resolvers; what was applied keeps its
\* address where it was the last.
BindInv ==
  /\ PlaceInv
  /\ applied \in Seq(ToSet(applied))
  /\ stage \in Early => applied = <<>>
  /\ stage = "relocate" => todo \in Seq(ToSet(Work))
  /\ stage = "resolve" => todo \in Seq({w \in ToSet(Work) : IsResolver(w)})
  /\ stage \in {"relocate", "resolve", "running"} =>
       \A n \in DOMAIN applied : FromWork(applied[n]) /\ (Lasts(n) => Agrees(applied[n]))

LEMMA EmptySet == ToSet(<<>>) = {} /\ <<>> \in Seq(ToSet(<<>>))
<1>1. DOMAIN <<>> = {} OBVIOUS
<1>2. ToSet(<<>>) = {} BY <1>1 DEF ToSet
<1>3. QED BY <1>2

LEMMA InitBindInv == Init => BindInv
<1> SUFFICES ASSUME Init PROVE BindInv
  OBVIOUS
<1>1. GraphInv BY InitGraphInv
<1>2. stage = "open" /\ images = <<>> /\ applied = <<>> BY DEF Init
<1>3. PlaceInv BY <1>1, <1>2 DEF PlaceInv, Stages
<1>4. QED BY <1>2, <1>3, EmptySet DEF BindInv

LEMMA EarlyKeeps ==
  ASSUME BindInv, PlaceInv', stage \in Early, applied' = applied, stage' \in Early \cup {"failed"}
  PROVE  BindInv'
<1>1. applied' = <<>> BY DEF BindInv
<1>2. stage' \notin {"relocate", "resolve", "running"} BY DEF Early
<1>3. QED BY <1>1, <1>2, EmptySet DEF BindInv

LEMMA FailKeeps ==
  ASSUME BindInv, PlaceInv', Fail
  PROVE  BindInv'
<1>1. applied' = applied /\ stage' = "failed" BY DEF Fail
<1>2. QED BY <1>1 DEF BindInv, Early

LEMMA PrepareKeeps ==
  ASSUME BindInv, PlaceInv', Prepare
  PROVE  BindInv'
<1>1. /\ stage = "prepare" /\ stage' = "relocate" /\ todo' = Work /\ applied' = applied
      /\ system' = system /\ images' = images
  BY DEF Prepare, graphVars
<1>2. applied' = <<>> BY <1>1 DEF BindInv, Early
<1>3. system \in Systems /\ images \in Seq(Placed) BY DEF BindInv, PlaceInv, GraphInv, GraphType
<1>4. Work \in Seq(ToSet(Work)) /\ Work' = Work BY <1>1, <1>3, WorkIs, LayoutStays
<1>5. DOMAIN applied' = {}
  <2>1. DOMAIN <<>> = {} OBVIOUS
  <2>2. QED BY <1>2, <2>1
<1>6. QED BY <1>1, <1>2, <1>4, <1>5, EmptySet DEF BindInv, Early

LEMMA AppendedSet ==
  ASSUME NEW seq, seq \in Seq(ToSet(seq)), NEW new
  PROVE  /\ Append(seq, new) \in Seq(ToSet(Append(seq, new)))
         /\ ToSet(Append(seq, new)) = ToSet(seq) \cup {new}
         /\ DOMAIN Append(seq, new) = 1 .. Len(seq) + 1 /\ Append(seq, new)[Len(seq) + 1] = new
         /\ \A k \in 1 .. Len(seq) : Append(seq, new)[k] = seq[k]
<1>1. PICK L \in Nat : L = Len(seq) /\ DOMAIN seq = 1 .. L BY LenProperties
<1>2. PICK longer : longer = Append(seq, new) OBVIOUS
<1>3. seq \in Seq(ToSet(seq) \cup {new}) OBVIOUS
<1>4. /\ longer \in Seq(ToSet(seq) \cup {new}) /\ Len(longer) = L + 1
      /\ \A k \in 1 .. L : longer[k] = seq[k]
      /\ longer[L + 1] = new
  BY <1>1, <1>2, <1>3, AppendProperties
<1>5. DOMAIN longer = 1 .. L + 1 BY <1>4, LenProperties
<1>6. ToSet(longer) \subseteq ToSet(seq) \cup {new}
  <2> SUFFICES ASSUME NEW k \in 1 .. L + 1 PROVE longer[k] \in ToSet(seq) \cup {new}
    BY <1>5 DEF ToSet
  <2>1. k \in 1 .. L \/ k = L + 1 OBVIOUS
  <2>2. QED BY <1>1, <1>4, <2>1 DEF ToSet
<1>7. ToSet(seq) \subseteq ToSet(longer) BY <1>1, <1>4, <1>5 DEF ToSet
<1>8. new \in ToSet(longer)
  <2>1. L + 1 \in 1 .. L + 1 OBVIOUS
  <2>2. QED BY <1>4, <1>5, <2>1 DEF ToSet
<1>9. ToSet(longer) = ToSet(seq) \cup {new} BY <1>6, <1>7, <1>8
<1>10. QED BY <1>1, <1>2, <1>4, <1>5, <1>9

\* What was applied goes on agreeing when something is written that is not for its slot.
LEMMA AppliedKeep ==
  ASSUME system' = system, images' = images, NEW w, Agrees(w),
         NEW t, t = Target(w.image, w.reloc), Word(t)' = Word(t)
  PROVE  Agrees(w)'
<1>1. Target(w.image, w.reloc)' = t /\ \A name : AddressOf(name)' = AddressOf(name) BY LayoutStays
<1>2. QED BY <1>1 DEF Agrees

\* A step of the loop: the relocation, and what it writes and notes unless it is empty.
LEMMA RelocateIs ==
  ASSUME BindInv, Relocate
  PROVE  \E v \in ToSet(Work) :
           \/ words' = words /\ applied' = applied
           \/ /\ v.reloc.kind # "none" /\ Value(v.image, v.reloc) # None
              /\ words' = Written(Target(v.image, v.reloc), Content(v.image, v.reloc))
              /\ applied' = Append(applied, [image |-> v.image, reloc |-> v.reloc,
                                             addend |-> Or(v.reloc.addend, Word(Target(v.image, v.reloc)))])
<1>1. stage = "relocate" /\ todo # <<>> BY DEF Relocate
<1>2. todo \in Seq(ToSet(Work)) BY <1>1 DEF BindInv
<1>3. Head(todo) \in ToSet(Work) BY <1>1, <1>2, HeadTailProperties
<1>4. PICK v : v = Head(todo) OBVIOUS
<1>5. \/ words' = words /\ applied' = applied
      \/ /\ v.reloc.kind # "none" /\ CanApply(v.image, v.reloc)
         /\ words' = Written(Target(v.image, v.reloc), Content(v.image, v.reloc))
         /\ applied' = Append(applied, [image |-> v.image, reloc |-> v.reloc,
                                        addend |-> Or(v.reloc.addend, Word(Target(v.image, v.reloc)))])
  BY <1>4 DEF Relocate
<1>6. CanApply(v.image, v.reloc) => Value(v.image, v.reloc) # None BY DEF CanApply
<1>7. QED BY <1>3, <1>4, <1>5, <1>6

LEMMA RelocateKeeps ==
  ASSUME BindInv, PlaceInv', Relocate
  PROVE  BindInv'
<1>1. /\ stage = "relocate" /\ stage' = "relocate" /\ todo # <<>> /\ todo' = Tail(todo)
      /\ system' = system /\ images' = images
  BY DEF Relocate, graphVars
<1>2. system \in Systems /\ images \in Seq(Placed) BY DEF BindInv, PlaceInv, GraphInv, GraphType
<1>3. Work' = Work /\ \A w : FromWork(w)' = FromWork(w) BY <1>1, LayoutStays
<1>4. todo' \in Seq(ToSet(Work)')
  <2>1. todo \in Seq(ToSet(Work)) BY <1>1 DEF BindInv
  <2>2. QED BY <1>1, <1>3, <2>1, HeadTailProperties
<1>5. applied \in Seq(ToSet(applied)) /\ \A n \in DOMAIN applied : FromWork(applied[n]) /\ (Lasts(n) => Agrees(applied[n]))
  BY <1>1 DEF BindInv
<1>6. SUFFICES /\ applied' \in Seq(ToSet(applied'))
               /\ \A n \in DOMAIN applied' : FromWork(applied'[n]) /\ (Lasts(n)' => Agrees(applied[n])')
  BY <1>1, <1>3, <1>4 DEF BindInv, Early
<1>7. PICK v \in ToSet(Work) :
        \/ words' = words /\ applied' = applied
        \/ /\ v.reloc.kind # "none" /\ Value(v.image, v.reloc) # None
           /\ words' = Written(Target(v.image, v.reloc), Content(v.image, v.reloc))
           /\ applied' = Append(applied, [image |-> v.image, reloc |-> v.reloc,
                                          addend |-> Or(v.reloc.addend, Word(Target(v.image, v.reloc)))])
  BY RelocateIs
<1>8. CASE words' = words /\ applied' = applied
  <2>1. ASSUME NEW w, Agrees(w) PROVE Agrees(w)'
    <3>1. PICK t : t = Target(w.image, w.reloc) OBVIOUS
    <3>2. Word(t)' = Word(t) BY <1>8 DEF Word
    <3>3. QED BY <1>1, <2>1, <3>1, <3>2, AppliedKeep
  <2>2. \A n : Lasts(n)' = Lasts(n) BY <1>1, <1>8, LastsStays
  <2>3. QED BY <1>5, <1>8, <2>1, <2>2
<1>9. CASE /\ v.reloc.kind # "none" /\ Value(v.image, v.reloc) # None
           /\ words' = Written(Target(v.image, v.reloc), Content(v.image, v.reloc))
           /\ applied' = Append(applied, [image |-> v.image, reloc |-> v.reloc,
                                          addend |-> Or(v.reloc.addend, Word(Target(v.image, v.reloc)))])
  <2>1. PICK new : new = [image |-> v.image, reloc |-> v.reloc,
                          addend |-> Or(v.reloc.addend, Word(Target(v.image, v.reloc)))]
    OBVIOUS
  <2>2. /\ new.image = v.image /\ new.reloc = v.reloc
        /\ new.addend = Or(v.reloc.addend, Word(Target(v.image, v.reloc)))
    BY <2>1
  <2>3. applied' = Append(applied, new) BY <1>9, <2>1
  <2>4. applied' \in Seq(ToSet(applied')) BY <1>5, <2>3, AppendedSet
  <2>5. PICK L \in Nat : L = Len(applied) /\ DOMAIN applied = 1 .. L BY <1>5, LenProperties
  <2>6. /\ DOMAIN applied' = 1 .. L + 1 /\ applied'[L + 1] = new
        /\ \A n \in 1 .. L : applied'[n] = applied[n]
    BY <1>5, <2>3, <2>5, AppendedSet
  <2>7. FromWork(new) BY <2>2 DEF FromWork
  <2>8. Agrees(new)' BY <1>1, <1>2, <1>9, <2>2, BindAgrees
  <2>9. Touched(new) = Touched(v) BY <2>2 DEF Touched
  <2>10. ASSUME NEW n \in 1 .. L, Lasts(n)' PROVE Agrees(applied[n])'
    <3>1. n \in DOMAIN applied BY <2>5
    <3>2. Lasts(n) /\ Target(applied[n].image, applied[n].reloc) \notin Touched(v)
      BY <1>1, <1>5, <2>3, <2>9, <2>10, <3>1, LastsGrows
    <3>3. PICK content : content = Content(v.image, v.reloc) OBVIOUS
    <3>4. \A k \in DOMAIN content : Target(v.image, v.reloc) + k \in Touched(v) BY <1>2, <3>3, ContentTouches
    <3>5. words' = Written(Target(v.image, v.reloc), content) BY <1>9, <3>3
    <3>6. PICK t : t = Target(applied[n].image, applied[n].reloc) OBVIOUS
    <3>7. Word(t)' = Word(t) BY <3>2, <3>4, <3>5, <3>6, SlotStays
    <3>8. Agrees(applied[n]) BY <1>5, <3>1, <3>2
    <3>9. PICK w : w = applied[n] OBVIOUS
    <3>10. Agrees(w)' BY <1>1, <3>6, <3>7, <3>8, <3>9, AppliedKeep
    <3>11. w = applied'[n] BY <2>6, <3>9
    <3>12. QED BY <3>10, <3>11 DEF Agrees
  <2>11. ASSUME NEW n \in DOMAIN applied'
         PROVE  FromWork(applied'[n]) /\ (Lasts(n)' => Agrees(applied[n])')
    <3>1. n \in 1 .. L \/ n = L + 1 BY <2>5, <2>6
    <3>2. CASE n \in 1 .. L
      <4>1. applied'[n] = applied[n] /\ FromWork(applied[n]) BY <1>5, <2>5, <2>6, <3>2
      <4>2. Lasts(n)' => Agrees(applied[n])' BY <2>10, <3>2
      <4>3. QED BY <4>1, <4>2 DEF Agrees
    <3>3. CASE n = L + 1
      <4>1. applied'[n] = new BY <2>6, <3>3
      <4>2. QED BY <2>7, <2>8, <4>1 DEF Agrees
    <3>4. QED BY <3>1, <3>2, <3>3
  <2>12. QED BY <2>4, <2>11
<1>10. QED BY <1>7, <1>8, <1>9

LEMMA AppliedStays ==
  ASSUME system' = system, images' = images, words' = words, applied' = applied,
         \A n \in DOMAIN applied : FromWork(applied[n]) /\ (Lasts(n) => Agrees(applied[n]))
  PROVE  \A n \in DOMAIN applied' : FromWork(applied[n])' /\ (Lasts(n)' => Agrees(applied[n])')
<1> SUFFICES ASSUME NEW n \in DOMAIN applied PROVE FromWork(applied[n])' /\ (Lasts(n)' => Agrees(applied[n])')
  OBVIOUS
<1>1. PICK w : w = applied[n] OBVIOUS
<1>2. FromWork(w)' /\ (Lasts(n)' = Lasts(n)) BY <1>1, LayoutStays, LastsStays
<1>3. ASSUME Lasts(n) PROVE Agrees(w)'
  <2>1. PICK t : t = Target(w.image, w.reloc) OBVIOUS
  <2>2. Word(t)' = Word(t) BY DEF Word
  <2>3. Agrees(w) BY <1>1, <1>3
  <2>4. QED BY <2>1, <2>2, <2>3, AppliedKeep
<1>4. QED BY <1>1, <1>2, <1>3 DEF FromWork, Agrees

LEMMA DecideKeeps ==
  ASSUME BindInv, PlaceInv', Decide
  PROVE  BindInv'
<1>1. /\ stage = "relocate" /\ stage' = "resolve" /\ todo' = Resolvers
      /\ system' = system /\ images' = images /\ words' = words /\ applied' = applied
  BY DEF Decide, graphVars
<1>2. system \in Systems /\ images \in Seq(Placed) BY DEF BindInv, PlaceInv, GraphInv, GraphType
<1>3. Work \in Seq(ToSet(Work)) BY <1>2, WorkIs
<1>4. PICK R : R = {w \in ToSet(Work) : IsResolver(w)} OBVIOUS
<1>5. \A S : Only(Work, {w \in ToSet(Work) : IsResolver(w) /\ w.image \in S}) \in Seq(R)
  <2> SUFFICES ASSUME NEW S PROVE Only(Work, {w \in ToSet(Work) : IsResolver(w) /\ w.image \in S}) \in Seq(R)
    OBVIOUS
  <2>1. PICK T : T = {w \in ToSet(Work) : IsResolver(w) /\ w.image \in S} OBVIOUS
  <2>2. Only(Work, T) \in Seq(ToSet(Work) \cap T) BY <1>3, OnlyIs
  <2>3. ToSet(Work) \cap T \subseteq R BY <1>4, <2>1
  <2>4. Only(Work, T) \in Seq(R) BY <2>2, <2>3
  <2>5. QED BY <2>1, <2>4
<1>6. PICK last : last = IF linker = None THEN {} ELSE {Len(images)} OBVIOUS
<1>7. PICK a \in Seq(R), b \in Seq(R), d \in Seq(R) : Resolvers = a \o b \o d
  <2> DEFINE of(S) == Only(Work, {w \in ToSet(Work) : IsResolver(w) /\ w.image \in S})
  <2>1. Resolvers = of(last) \o of(DOMAIN images \ (last \cup {1})) \o of({1}) BY <1>6 DEF Resolvers
  <2>2. /\ of(last) \in Seq(R) /\ of(DOMAIN images \ (last \cup {1})) \in Seq(R) /\ of({1}) \in Seq(R)
    BY <1>5
  <2>3. QED BY <2>1, <2>2
<1>8. Resolvers \in Seq(R)
  <2>1. a \o b \in Seq(R) BY ConcatProperties
  <2>2. a \o b \o d \in Seq(R) BY <2>1, ConcatProperties
  <2>3. QED BY <1>7, <2>2
<1>9. Work' = Work /\ \A w : FromWork(w)' = FromWork(w) BY <1>1, LayoutStays
<1>10. todo' \in Seq({w \in ToSet(Work)' : IsResolver(w)}) BY <1>1, <1>4, <1>8, <1>9
<1>11. \A n \in DOMAIN applied' : FromWork(applied[n])' /\ (Lasts(n)' => Agrees(applied[n])')
  BY <1>1, <1>9, AppliedStays DEF BindInv
<1>12. QED BY <1>1, <1>9, <1>10, <1>11 DEF BindInv, Early, IsResolver

\* A resolver's answer goes into its slot alone.
LEMMA RunResolverIs ==
  ASSUME BindInv, RunResolver
  PROVE  \E v \in ToSet(Work) :
           /\ IsResolver(v)
           /\ \E content : /\ words' = Written(Target(v.image, v.reloc), content)
                           /\ \A k \in DOMAIN content : Target(v.image, v.reloc) + k \in Touched(v)
<1>1. stage = "resolve" /\ todo # <<>> BY DEF RunResolver
<1>2. system \in Systems /\ images \in Seq(Placed) BY DEF BindInv, PlaceInv, GraphInv, GraphType
<1>3. PICK R : R = {w \in ToSet(Work) : IsResolver(w)} OBVIOUS
<1>4. todo \in Seq(R) BY <1>1, <1>3 DEF BindInv
<1>5. Head(todo) \in R BY <1>1, <1>4, HeadTailProperties
<1>6. PICK v \in ToSet(Work) : v = Head(todo) /\ IsResolver(v) BY <1>3, <1>5
<1>7. PICK content : DOMAIN content = {0} /\ words' = Written(Target(v.image, v.reloc), content)
  BY <1>6 DEF RunResolver
<1>8. \A k \in DOMAIN content : Target(v.image, v.reloc) + k \in Touched(v)
  <2>1. PICK t \in Int : t = Target(v.image, v.reloc) BY <1>2, <1>6, TargetIs
  <2>2. v.reloc.kind # "copy" BY <1>6 DEF IsResolver
  <2>3. Touched(v) = {t} BY <1>2, <1>6, <2>1, <2>2, TargetIs
  <2>4. QED BY <1>7, <2>1, <2>3
<1>9. QED BY <1>6, <1>7, <1>8

LEMMA RunResolverKeeps ==
  ASSUME BindInv, PlaceInv', RunResolver
  PROVE  BindInv'
<1>1. /\ stage = "resolve" /\ stage' = "resolve" /\ todo # <<>> /\ todo' = Tail(todo)
      /\ system' = system /\ images' = images /\ applied' = applied
  BY DEF RunResolver, graphVars
<1>2. system \in Systems /\ images \in Seq(Placed) BY DEF BindInv, PlaceInv, GraphInv, GraphType
<1>3. Work' = Work /\ \A w : FromWork(w)' = FromWork(w) BY <1>1, LayoutStays
<1>4. PICK R : R = {w \in ToSet(Work) : IsResolver(w)} OBVIOUS
<1>5. todo \in Seq(R) BY <1>1, <1>4 DEF BindInv
<1>6. Head(todo) \in R /\ todo' \in Seq(R) BY <1>1, <1>5, HeadTailProperties
<1>7. todo' \in Seq({w \in ToSet(Work)' : IsResolver(w)}) BY <1>3, <1>4, <1>6
<1>8. PICK v \in ToSet(Work) : /\ IsResolver(v)
                               /\ \E content : /\ words' = Written(Target(v.image, v.reloc), content)
                                               /\ \A k \in DOMAIN content : Target(v.image, v.reloc) + k \in Touched(v)
  BY RunResolverIs
<1>9. ASSUME NEW n \in DOMAIN applied' PROVE FromWork(applied[n])' /\ (Lasts(n)' => Agrees(applied[n])')
  <2>1. PICK w : w = applied[n] OBVIOUS
  <2>2. FromWork(w) /\ (Lasts(n) => Agrees(w)) BY <1>1, <1>9, <2>1 DEF BindInv
  <2>3. FromWork(w)' /\ Lasts(n)' = Lasts(n) BY <1>1, <1>3, <2>2, LastsStays
  <2>4. ASSUME Lasts(n) PROVE Agrees(w)'
    <3>1. PICK t : t = Target(w.image, w.reloc) OBVIOUS
    <3>2. t \notin Touched(v) BY <1>8, <2>1, <2>4, <3>1 DEF Lasts
    <3>3. Word(t)' = Word(t) BY <1>8, <3>2, SlotStays
    <3>4. QED BY <1>1, <2>2, <2>4, <3>1, <3>3, AppliedKeep
  <2>5. QED BY <1>1, <2>1, <2>3, <2>4 DEF FromWork, Agrees
<1>10. QED BY <1>1, <1>7, <1>9 DEF BindInv, Early, IsResolver

LEMMA BindStays ==
  ASSUME BindInv, PlaceInv', system' = system, images' = images, words' = words, applied' = applied, todo' = todo,
         stage' = stage \/ (stage = "resolve" /\ stage' = "running")
  PROVE  BindInv'
<1>1. Work' = Work BY LayoutStays
<1>2. applied' \in Seq(ToSet(applied')) /\ (stage' \in Early => applied' = <<>>)
  BY DEF BindInv, Early
<1>3. stage' = "relocate" => todo' \in Seq(ToSet(Work)') BY <1>1 DEF BindInv
<1>4. stage' = "resolve" => todo' \in Seq({w \in ToSet(Work)' : IsResolver(w)})
  BY <1>1 DEF BindInv
<1>5. stage' \in {"relocate", "resolve", "running"} =>
        \A n \in DOMAIN applied' : FromWork(applied[n])' /\ (Lasts(n)' => Agrees(applied[n])')
  BY AppliedStays DEF BindInv
<1>6. QED BY <1>2, <1>3, <1>4, <1>5 DEF BindInv, IsResolver

LEMMA BindKeeps == BindInv /\ [Next]_vars => BindInv'
<1> SUFFICES ASSUME BindInv, [Next]_vars PROVE BindInv'
  OBVIOUS
<1>1. PlaceInv' BY PlaceKeeps DEF BindInv
<1>2. CASE Fail BY <1>1, <1>2, FailKeeps
<1>3. CASE Open \/ Walk \/ Place \/ Arrange \/ MapImage \/ Reserve \/ InstallBlock \/ BuildDtv
  <2>1. stage \in Early /\ applied' = applied /\ stage' \in Early \cup {"failed"}
    <3>1. CASE Open BY <3>1 DEF Open, Early
    <3>2. CASE Walk BY <3>2 DEF Walk, Early
    <3>3. CASE Place BY <3>3 DEF Place, Early
    <3>4. CASE Arrange \/ MapImage
      <4>1. CASE Arrange
        <5>1. stage = "place" /\ stage' = "map" BY <4>1, Zenon DEF Arrange
        <5>2. applied' = applied BY <4>1, Zenon DEF Arrange
        <5>3. QED BY <5>1, <5>2 DEF Early
      <4>2. CASE MapImage BY <4>2 DEF MapImage, Early
      <4>3. QED BY <3>4, <4>1, <4>2
    <3>5. CASE Reserve BY <3>5 DEF Reserve, Early
    <3>6. CASE InstallBlock BY <3>6 DEF InstallBlock, Early
    <3>7. CASE BuildDtv BY <3>7 DEF BuildDtv, Early
    <3>8. QED BY <1>3, <3>1, <3>2, <3>3, <3>4, <3>5, <3>6, <3>7
  <2>2. QED BY <1>1, <2>1, EarlyKeeps
<1>4. CASE Prepare BY <1>1, <1>4, PrepareKeeps
<1>5. CASE Relocate BY <1>1, <1>5, RelocateKeeps
<1>6. CASE Decide BY <1>1, <1>6, DecideKeeps
<1>7. CASE RunResolver BY <1>1, <1>7, RunResolverKeeps
<1>8. CASE Run \/ Ended \/ UNCHANGED vars
  <2>1. /\ system' = system /\ images' = images /\ words' = words /\ applied' = applied /\ todo' = todo
        /\ stage' = stage \/ (stage = "resolve" /\ stage' = "running")
    BY <1>8 DEF Run, Ended, vars, graphVars, loaderVars
  <2>2. QED BY <1>1, <2>1, BindStays
<1>9. QED
  BY <1>2, <1>3, <1>4, <1>5, <1>6, <1>7, <1>8
  DEF Next, CannotOpen, CannotMap, NoRoomForTls, CannotPrepare, CannotRelocate, CannotDecide, ResolverFails

LEMMA BindInvTells == BindInv => BindingsFollowLoadOrder
<1> SUFFICES ASSUME BindInv, stage = "running",
                    NEW n \in DOMAIN applied, applied[n].reloc.kind = "bind", Lasts(n),
                    NEW name \in applied[n].reloc.sym
             PROVE  LET d == FirstDefinition(name, Defined)
                    IN  Word(Target(applied[n].image, applied[n].reloc)) =
                          (IF Definers(name, Defined) = {} THEN 0 ELSE Bias(images[d.image]) + d.value)
                            + applied[n].addend
  BY DEF BindingsFollowLoadOrder
<1>1. Agrees(applied[n]) BY DEF BindInv
<1>2. Word(Target(applied[n].image, applied[n].reloc)) = AddressOf(name) + applied[n].addend BY <1>1 DEF Agrees
<1>3. QED BY <1>2 DEF AddressOf

\* When the first instruction of a dynamic program runs, each slot that no later
\* relocation and no resolver is for holds the address of its name in the first object,
\* in load order, that defines it, plus its addend, for all objects, symbols and
\* relocations, whichever of them overlap elsewhere.
THEOREM BindingsAlwaysFollow == Spec => []BindingsFollowLoadOrder
<1>1. Init => BindInv BY InitBindInv
<1>2. BindInv /\ [Next]_vars => BindInv' BY BindKeeps
<1>3. BindInv => BindingsFollowLoadOrder BY BindInvTells
<1>4. QED BY <1>1, <1>2, <1>3, PTL DEF Spec

-----------------------------------------------------------------------------
(* Where thread-local storage lies.                                        *)

LEMMA ThreadFacts ==
  ASSUME system \in Systems, images \in Seq(Placed)
  PROVE  /\ WithTls \subseteq Nat /\ IsFiniteSet(WithTls) /\ Cardinality(WithTls) \in Nat
         /\ \A i \in WithTls : /\ i \in DOMAIN images
                               /\ Tls(i).memsz \in Nat /\ Tls(i).align \in Nat
                               /\ DOMAIN Tls(i).image = 1 .. Len(Tls(i).image) /\ Len(Tls(i).image) \in Nat
         /\ \A i \in DOMAIN images : \A s \in ToSet(Symbols(i)) : s.value \in Nat
<1>1. PICK N \in Nat : DOMAIN images = 1 .. N BY LenProperties
<1>2. WithTls \in SUBSET (1 .. N) BY <1>1 DEF WithTls
<1>3. IsFiniteSet(1 .. N) BY FS_Interval
<1>4. IsFiniteSet(WithTls) /\ Cardinality(WithTls) \in Nat BY <1>2, <1>3, FS_Subset, FS_CardinalityType
<1>5. ASSUME NEW i \in DOMAIN images
      PROVE  /\ \A s \in ToSet(Symbols(i)) : s.value \in Nat
             /\ \A t \in Object(images[i]).tls : t.memsz \in Nat /\ t.align \in Nat /\ t.image \in Seq(ToSet(t.image))
  <2>1. images[i] \in Placed OBVIOUS
  <2>2. images[i].path \in {q \in DOMAIN system.objects : system.objects[q].sound}
    BY <2>1 DEF Placed, Usable
  <2>3. PICK o : o = system.objects[images[i].path] OBVIOUS
  <2>4. /\ \A d \in ToSet(o.symbols) : d.value \in Nat
        /\ \A t \in o.tls : t.memsz \in Nat /\ t.align \in Nat /\ t.image \in Seq(ToSet(t.image))
    BY <2>2, <2>3, ObjectsAssumption
  <2>5. QED BY <2>3, <2>4 DEF Symbols, Object
<1>6. ASSUME NEW i \in WithTls
      PROVE  /\ i \in DOMAIN images
             /\ Tls(i).memsz \in Nat /\ Tls(i).align \in Nat
             /\ DOMAIN Tls(i).image = 1 .. Len(Tls(i).image) /\ Len(Tls(i).image) \in Nat
  <2>1. i \in DOMAIN images /\ Object(images[i]).tls # {} BY DEF WithTls, None
  <2>2. Tls(i) \in Object(images[i]).tls BY <2>1 DEF Tls
  <2>3. Tls(i).memsz \in Nat /\ Tls(i).align \in Nat /\ Tls(i).image \in Seq(ToSet(Tls(i).image))
    BY <1>5, <2>1, <2>2
  <2>4. QED BY <2>1, <2>3, LenProperties
<1>7. QED BY <1>2, <1>4, <1>5, <1>6

LEMMA ModuleIds ==
  ASSUME system \in Systems, images \in Seq(Placed)
  PROVE  /\ \A i \in WithTls : ModuleId(i) \in 1 .. Cardinality(WithTls)
         /\ \A i, j \in WithTls : ModuleId(i) = ModuleId(j) => i = j
<1>1. \A i \in WithTls : ModuleId(i) = Rank(i, WithTls) BY DEF ModuleId, Rank
<1>2. WithTls \subseteq Nat /\ IsFiniteSet(WithTls) /\ Cardinality(WithTls) \in Nat BY ThreadFacts
<1>3. \A i \in WithTls : /\ ModuleId(i) \in 1 .. Cardinality(WithTls)
                         /\ \A j \in WithTls : j < i => ModuleId(j) < ModuleId(i)
  BY <1>1, <1>2, RankRises
<1>4. ASSUME NEW i \in WithTls, NEW j \in WithTls, ModuleId(i) = ModuleId(j) PROVE i = j
  <2>1. i \in Nat /\ j \in Nat BY <1>2
  <2>2. ModuleId(i) \in Nat /\ ModuleId(j) \in Nat BY <1>2, <1>3
  <2>3. ~(i < j) /\ ~(j < i) BY <1>3, <1>4, <2>2
  <2>4. QED BY <2>1, <2>3
<1>5. QED BY <1>3, <1>4

\* Thread-local storage is above the images, and below what Prepare writes.
LEMMA ThreadPlaces ==
  ASSUME system \in Systems, images \in Seq(Placed), images # <<>>
  PROVE  /\ Top \in Nat /\ ThreadPointer \in Nat /\ Top <= ThreadPointer
         /\ TlsEnd \in Nat /\ HeapStart \in Nat /\ TlsEnd <= HeapStart
         /\ DtvStart = ThreadPointer + Dtv /\ Dtv \in Nat /\ DtvPointer \in Nat /\ DtvPointer < Dtv
         /\ TcbReserved \in Nat
<1>1. PICK N \in Nat \ {0} : DOMAIN images = 1 .. N
  <2>1. Len(images) \in Nat \ {0} BY EmptySeq
  <2>2. QED BY <2>1, LenProperties
<1>2. Top \in Nat
  <2>1. PICK f : f = [i \in 1 .. N |-> EndOf(images[i])] OBVIOUS
  <2>2. PICK E : E = {f[i] : i \in 1 .. N} OBVIOUS
  <2>3. \A i \in 1 .. N : images[i] \in Placed BY <1>1
  <2>4. \A i \in 1 .. N : f[i] \in Nat BY <2>1, <2>3, PlacedFacts
  <2>5. f \in Surjection(1 .. N, E) BY <2>1, <2>2 DEF Surjection
  <2>6. IsFiniteSet(E)
    <3>1. IsFiniteSet(1 .. N) BY FS_Interval
    <3>2. QED BY <2>5, <3>1, FS_Surjection
  <2>7. E \subseteq Nat /\ E # {}
    <3>1. 1 \in 1 .. N OBVIOUS
    <3>2. QED BY <2>2, <2>4, <3>1
  <2>8. Top = Max(E)
    <3>1. E = {EndOf(images[i]) : i \in 1 .. N} BY <2>1, <2>2
    <3>2. QED BY <1>1, <3>1 DEF Top
  <2>9. QED BY <2>6, <2>7, <2>8, MaxIs
<1>3. /\ StackSize \in Nat /\ TcbOffset \in Nat /\ TcbReserved \in Nat /\ Dtv \in Nat /\ DtvPointer \in Nat
      /\ DtvPointer < Dtv
  BY ObjectsAssumption
<1>4. PICK room \in Nat : room = TlsPages * PageSize
  <2>1. TlsPages \in Nat /\ PageSize \in Nat BY LayoutAssumption, PageSizeAssumption
  <2>2. QED BY <2>1
<1>5. BumpSize \in Nat /\ PageSize \in Nat BY LayoutAssumption, PageSizeAssumption
<1>6. ThreadPointer = Top + StackSize + TcbOffset BY DEF ThreadPointer, TlsBase
<1>7. TlsEnd = Top + StackSize + room BY <1>4 DEF TlsEnd, TlsBase
<1>8. HeapStart = Top + StackSize + room + PageSize + BumpSize + PageSize
  BY <1>4 DEF HeapStart, CombinedHeap, BumpBase, TlsBase
<1>9. QED BY <1>2, <1>3, <1>5, <1>6, <1>7, <1>8 DEF DtvStart

LEMMA AlignedAbove ==
  ASSUME NEW c \in Nat, NEW a \in Nat \ {0}
  PROVE  /\ ((c + a - 1) \div a) * a \in Nat
         /\ c <= ((c + a - 1) \div a) * a
         /\ (((c + a - 1) \div a) * a) % a = 0
<1>1. PICK n \in Nat : n = c + a - 1 OBVIOUS
<1>2. PICK q \in Nat : q = n \div a OBVIOUS
<1>3. PICK r \in 0 .. a - 1 : r = n % a OBVIOUS
<1>4. n = a * q + r BY <1>2, <1>3
<1>5. PICK p \in Nat : p = q * a
  <2>1. q * a \in Nat OBVIOUS
  <2>2. QED BY <2>1
<1>6. a * q = p BY <1>5
<1>7. n = p + r BY <1>4, <1>6
<1>8. c <= p BY <1>1, <1>7
<1>9. p % a = 0
  <2>1. PICK d \in Nat : d = p \div a OBVIOUS
  <2>2. PICK e \in 0 .. a - 1 : e = p % a OBVIOUS
  <2>3. p = a * d + e BY <2>1, <2>2
  <2>4. CASE d >= q + 1
    <3>1. a * d >= a * (q + 1) BY <2>4
    <3>2. a * (q + 1) = a * q + a OBVIOUS
    <3>3. a * d \in Nat OBVIOUS
    <3>4. QED BY <1>6, <2>3, <3>1, <3>2, <3>3
  <2>5. CASE d < q
    <3>1. a * q >= a * (d + 1) BY <2>5
    <3>2. a * (d + 1) = a * d + a OBVIOUS
    <3>3. a * d \in Nat OBVIOUS
    <3>4. QED BY <1>6, <2>3, <3>1, <3>2, <3>3
  <2>6. CASE d = q BY <1>6, <2>2, <2>3, <2>6
  <2>7. QED BY <2>4, <2>5, <2>6
<1>10. QED BY <1>1, <1>2, <1>5, <1>8, <1>9

-----------------------------------------------------------------------------
(* What TlsContext knows of a name.                                        *)

Storage(name) ==
  LET d == FirstDefinition(name, ThreadSymbols)
  IN  [module |-> ModuleId(d.image), start |-> blocks[d.image], offset |-> d.value]

LEMMA ThreadSymbolsAre ==
  ASSUME system \in Systems, images \in Seq(Placed), NEW i \in DOMAIN images
  PROVE  ThreadSymbols(i) \in Seq(ToSet(Symbols(i)))
<1>1. images[i] \in Placed OBVIOUS
<1>2. PICK all : all = Symbols(i) OBVIOUS
<1>3. all \in Seq(ToSet(all)) BY <1>1, <1>2, PlacedFacts DEF Symbols
<1>4. PICK S : S = {s \in ToSet(all) : s.defined /\ s.tls} OBVIOUS
<1>5. ThreadLocal(i) = Only(all, S) BY <1>2, <1>4 DEF ThreadLocal
<1>6. Only(all, S) \in Seq(ToSet(all) \cap S) BY <1>3, OnlyIs
<1>7. Seq(ToSet(all) \cap S) \subseteq Seq(ToSet(all)) OBVIOUS
<1>8. <<>> \in Seq(ToSet(all)) OBVIOUS
<1>9. QED BY <1>2, <1>5, <1>6, <1>7, <1>8 DEF ThreadSymbols

LEMMA ThreadLocalsAre ==
  ASSUME system \in Systems, images \in Seq(Placed), NEW name
  PROVE  /\ name \in DOMAIN ThreadLocals <=> Definers(name, ThreadSymbols) # {}
         /\ name \in DOMAIN ThreadLocals =>
              /\ ThreadLocals[name] = Storage(name)
              /\ FirstDefinition(name, ThreadSymbols).image \in WithTls
              /\ FirstDefinition(name, ThreadSymbols).value \in Nat
<1>1. PICK N \in Nat : DOMAIN images = 1 .. N BY LenProperties
<1>2. \A i \in 1 .. N : /\ Len(ThreadSymbols(i)) \in Nat /\ DOMAIN ThreadSymbols(i) = 1 .. Len(ThreadSymbols(i))
                        /\ \A k \in DOMAIN ThreadSymbols(i) : ThreadSymbols(i)[k] \in ToSet(Symbols(i))
  <2> SUFFICES ASSUME NEW i \in 1 .. N
               PROVE  /\ Len(ThreadSymbols(i)) \in Nat /\ DOMAIN ThreadSymbols(i) = 1 .. Len(ThreadSymbols(i))
                      /\ \A k \in DOMAIN ThreadSymbols(i) : ThreadSymbols(i)[k] \in ToSet(Symbols(i))
    OBVIOUS
  <2>1. ThreadSymbols(i) \in Seq(ToSet(Symbols(i))) BY <1>1, ThreadSymbolsAre
  <2>2. Len(ThreadSymbols(i)) \in Nat /\ DOMAIN ThreadSymbols(i) = 1 .. Len(ThreadSymbols(i)) BY <2>1, LenProperties
  <2>3. QED BY <2>1, <2>2
<1> DEFINE entry(i, k) ==
             [name |-> ThreadSymbols(i)[k].name,
              value |-> [module |-> ModuleId(i), start |-> blocks[i], offset |-> ThreadSymbols(i)[k].value]]
<1>3. PICK lists : lists = [i \in 1 .. N |-> [k \in DOMAIN ThreadSymbols(i) |-> entry(i, k)]] OBVIOUS
<1>4. PICK X : X = UNION {{entry(i, k) : k \in DOMAIN ThreadSymbols(i)} : i \in 1 .. N} OBVIOUS
<1>5. lists \in Seq(Seq(X))
  <2>1. ASSUME NEW i \in 1 .. N PROVE lists[i] \in Seq(X)
    <3>1. \A k \in DOMAIN ThreadSymbols(i) : entry(i, k) \in X BY <1>4
    <3>2. lists[i] = [k \in 1 .. Len(ThreadSymbols(i)) |-> entry(i, k)] BY <1>2, <1>3
    <3>3. QED BY <1>2, <3>1, <3>2
  <2>2. QED BY <1>3, <2>1
<1>6. ThreadLocals = FirstWins(FlattenSeq(lists))
  <2> DEFINE table(i) ==
               IF i \notin WithTls THEN <<>>
               ELSE [k \in DOMAIN ThreadLocal(i) |->
                       [name |-> ThreadLocal(i)[k].name,
                        value |-> [module |-> ModuleId(i), start |-> blocks[i], offset |-> ThreadLocal(i)[k].value]]]
  <2>1. ASSUME NEW i \in 1 .. N PROVE table(i) = lists[i]
    <3>1. CASE i \in WithTls
      <4>1. ThreadSymbols(i) = ThreadLocal(i) BY <3>1 DEF ThreadSymbols
      <4>2. QED BY <1>3, <3>1, <4>1
    <3>2. CASE i \notin WithTls
      <4>1. ThreadSymbols(i) = <<>> BY <3>2 DEF ThreadSymbols
      <4>2. lists[i] \in Seq(X) /\ DOMAIN lists[i] = {} BY <1>3, <1>5, <4>1
      <4>3. Len(lists[i]) = 0
        <5>1. Len(lists[i]) \in Nat /\ DOMAIN lists[i] = 1 .. Len(lists[i]) BY <4>2, LenProperties
        <5>2. PICK L \in Nat : L = Len(lists[i]) BY <5>1
        <5>3. 1 .. L = {} BY <4>2, <5>1, <5>2
        <5>4. ASSUME L # 0 PROVE FALSE
          <6>1. 1 \in 1 .. L BY <5>4
          <6>2. 1 \in {} BY <5>3, <6>1
          <6>3. QED BY <6>2
        <5>5. QED BY <5>2, <5>4
      <4>4. lists[i] = <<>> BY <4>2, <4>3, EmptySeq
      <4>5. QED BY <3>2, <4>4
    <3>3. QED BY <3>1, <3>2
  <2>2. [i \in DOMAIN images |-> table(i)] = lists
    <3>1. lists = [i \in 1 .. N |-> lists[i]] BY <1>3
    <3> HIDE DEF table
    <3>2. QED BY <1>1, <2>1, <3>1
  <2>3. QED BY <2>2 DEF ThreadLocals, Table
<1>7. ASSUME NEW i \in 1 .. N
      PROVE  /\ HasName(lists[i], name) <=> \E s \in ToSet(ThreadSymbols(i)) : s.name = name
             /\ Named(name, lists[i]) = {n \in DOMAIN ThreadSymbols(i) : ThreadSymbols(i)[n].name = name}
  <2>1. /\ DOMAIN lists[i] = DOMAIN ThreadSymbols(i)
        /\ \A k \in DOMAIN ThreadSymbols(i) : lists[i][k].name = ThreadSymbols(i)[k].name
    BY <1>3
  <2>2. QED BY <2>1 DEF HasName, Named, ToSet
<1>8. PICK E : E = FlattenSeq(lists) OBVIOUS
<1>9. PICK holders : holders = {i \in DOMAIN lists : HasName(lists[i], name)} OBVIOUS
<1>10. holders = Definers(name, ThreadSymbols) BY <1>1, <1>3, <1>7, <1>9 DEF Definers
<1>11. /\ name \in DOMAIN FirstWins(E) <=> holders # {}
       /\ holders # {} =>
            FirstWins(E)[name] = lists[Min(holders)][Min(Named(name, lists[Min(holders)]))].value
  <2>1. holders \in SUBSET DOMAIN lists /\ \A i \in DOMAIN lists : i \in holders <=> HasName(lists[i], name)
    BY <1>9
  <2>2. QED BY <1>5, <1>8, <2>1, FirstOfFirst
<1>12. ThreadLocals = FirstWins(E) BY <1>6, <1>8
<1>13. ASSUME holders # {}
       PROVE  /\ ThreadLocals[name] = Storage(name)
              /\ FirstDefinition(name, ThreadSymbols).image \in WithTls
              /\ FirstDefinition(name, ThreadSymbols).value \in Nat
  <2>1. PICK i : i = Min(holders) OBVIOUS
  <2>2. i \in 1 .. N /\ i \in holders
    <3>1. holders \subseteq 1 .. N BY <1>3, <1>9
    <3>2. holders \subseteq Nat BY <3>1
    <3>3. i \in holders BY <1>13, <2>1, <3>2, MinIs
    <3>4. QED BY <3>1, <3>3
  <2>3. PICK k : k = Min(Named(name, lists[i])) OBVIOUS
  <2>4. Named(name, lists[i]) = {n \in DOMAIN ThreadSymbols(i) : ThreadSymbols(i)[n].name = name} BY <1>7, <2>2
  <2>5. k \in DOMAIN ThreadSymbols(i)
    <3>1. DOMAIN lists[i] = DOMAIN ThreadSymbols(i) BY <1>3, <2>2
    <3>2. HasName(lists[i], name) BY <1>9, <2>2
    <3>3. Named(name, lists[i]) # {} BY <3>2 DEF HasName, Named
    <3>4. DOMAIN ThreadSymbols(i) = 1 .. Len(ThreadSymbols(i)) BY <1>2, <2>2
    <3>5. Named(name, lists[i]) \subseteq Nat BY <2>4, <3>4
    <3>6. k \in Named(name, lists[i]) BY <2>3, <3>3, <3>5, MinIs
    <3>7. QED BY <2>4, <3>6
  <2>6. ThreadLocals[name] = lists[i][k].value BY <1>11, <1>12, <1>13, <2>1, <2>3
  <2>7. lists[i][k].value = [module |-> ModuleId(i), start |-> blocks[i], offset |-> ThreadSymbols(i)[k].value]
    BY <1>3, <2>2, <2>5
  <2>8. FirstDefinition(name, ThreadSymbols) = [image |-> i, value |-> ThreadSymbols(i)[k].value]
    BY <1>10, <2>1, <2>3, <2>4 DEF FirstDefinition
  <2>9. PICK d : d = FirstDefinition(name, ThreadSymbols) OBVIOUS
  <2>10. d.image = i /\ d.value = ThreadSymbols(i)[k].value BY <2>8, <2>9
  <2>11. Storage(name) = [module |-> ModuleId(d.image), start |-> blocks[d.image], offset |-> d.value]
    BY <2>9 DEF Storage
  <2>12. i \in WithTls BY <2>5 DEF ThreadSymbols
  <2>13. d.value \in Nat
    <3>1. ThreadSymbols(i)[k] \in ToSet(Symbols(i)) BY <1>2, <2>2, <2>5
    <3>2. \A s \in ToSet(Symbols(i)) : s.value \in Nat BY <1>1, <2>2, ThreadFacts
    <3>3. QED BY <2>10, <3>1, <3>2
  <2>14. QED BY <2>6, <2>7, <2>9, <2>10, <2>11, <2>12, <2>13
<1>14. QED BY <1>10, <1>11, <1>12, <1>13

\* __tls_get_addr finds the block of a module by its number.
LEMMA TlsAddressIs ==
  ASSUME system \in Systems, images \in Seq(Placed), NEW name, Definers(name, ThreadSymbols) # {}, NEW offset
  PROVE  TlsAddress(Storage(name).module, offset) = {Storage(name).start + offset}
<1>1. PICK T : T = ThreadLocals OBVIOUS
<1>2. name \in DOMAIN T /\ T[name] = Storage(name) BY <1>1, ThreadLocalsAre
<1>3. ASSUME NEW n \in DOMAIN T, T[n].module = T[name].module PROVE T[n].start = T[name].start
  <2> DEFINE owner(m) == FirstDefinition(m, ThreadSymbols).image
  <2>1. \A m \in DOMAIN T : T[m] = Storage(m) /\ owner(m) \in WithTls BY <1>1, ThreadLocalsAre
  <2>2. \A m : Storage(m).module = ModuleId(owner(m)) /\ Storage(m).start = blocks[owner(m)] BY DEF Storage
  <2> HIDE DEF owner
  <2>3. PICK i \in WithTls : T[n].module = ModuleId(i) /\ T[n].start = blocks[i] BY <2>1, <2>2
  <2>4. PICK j \in WithTls : T[name].module = ModuleId(j) /\ T[name].start = blocks[j] BY <1>2, <2>1, <2>2
  <2>5. i = j BY <1>3, <2>3, <2>4, ModuleIds
  <2>6. QED BY <2>3, <2>4, <2>5
<1>4. PICK module, start : module = T[name].module /\ start = T[name].start OBVIOUS
<1>5. TlsAddress(module, offset) = {T[n].start + offset : n \in {m \in DOMAIN T : T[m].module = module}}
  BY <1>1 DEF TlsAddress
<1>6. TlsAddress(module, offset) = {start + offset} BY <1>2, <1>3, <1>4, <1>5
<1>7. QED BY <1>2, <1>4, <1>6

\* What a relocation about a thread-local name puts in its slot.
StorageSlot(name, r) ==
  CASE r.kind = "dtpmod" -> Storage(name).module
    [] r.kind = "dtpoff" -> Storage(name).offset + Or(r.addend, 0)
    [] r.kind = "tpoff"  -> Storage(name).start + Storage(name).offset + Or(r.addend, 0) - ThreadPointer

StorageKinds == {"dtpmod", "dtpoff", "tpoff"}

LEMMA StorageValue ==
  ASSUME system \in Systems, images \in Seq(Placed), NEW i, NEW r, r.kind \in StorageKinds,
         r.sym \in Option(r.sym), NEW name \in r.sym, Definers(name, ThreadSymbols) # {}
  PROVE  Value(i, r) = {StorageSlot(name, r)}
<1>1. r.sym = {name} BY DEF Option, None, Some
<1>2. PICK T : T = ThreadLocals OBVIOUS
<1>3. name \in DOMAIN T /\ T[name] = Storage(name) BY <1>2, ThreadLocalsAre
<1>4. Found(r, T) = {Storage(name)} BY <1>1, <1>3 DEF Found
<1>5. \A x, default : Or({x}, default) = x BY DEF Or, None
<1>6. PICK s : s = Storage(name) OBVIOUS
<1>7. PICK at : at = Target(i, r) OBVIOUS
<1>8. CASE r.kind = "dtpmod"
  <2>1. Value(i, r) = {DtpMod(r, at)} BY <1>7, <1>8 DEF Value, Some
  <2>2. DtpMod(r, at) = s.module
    <3>1. {tls.module : tls \in Found(r, ThreadLocals)} = {s.module} BY <1>2, <1>4, <1>6
    <3>2. QED BY <1>5, <3>1 DEF DtpMod
  <2>3. StorageSlot(name, r) = s.module BY <1>6, <1>8 DEF StorageSlot
  <2>4. QED BY <2>1, <2>2, <2>3
<1>9. CASE r.kind = "dtpoff"
  <2>1. Value(i, r) = {DtpOff(r, at)} BY <1>7, <1>9 DEF Value, Some
  <2>2. DtpOff(r, at) = s.offset + Or(r.addend, 0)
    <3>1. {tls.offset + Or(r.addend, 0) : tls \in Found(r, ThreadLocals)} = {s.offset + Or(r.addend, 0)}
      BY <1>2, <1>4, <1>6
    <3>2. QED BY <1>5, <3>1 DEF DtpOff
  <2>3. StorageSlot(name, r) = s.offset + Or(r.addend, 0) BY <1>6, <1>9 DEF StorageSlot
  <2>4. QED BY <2>1, <2>2, <2>3
<1>10. CASE r.kind = "tpoff"
  <2>1. Value(i, r) = {TpOff(r, at)} BY <1>7, <1>10 DEF Value, Some
  <2>2. TpOff(r, at) = s.start + s.offset + Or(r.addend, 0) - ThreadPointer
    <3>1. {tls.start + tls.offset + Or(r.addend, 0) - ThreadPointer : tls \in Found(r, ThreadLocals)}
          = {s.start + s.offset + Or(r.addend, 0) - ThreadPointer}
      BY <1>2, <1>4, <1>6
    <3>2. QED BY <1>5, <3>1 DEF TpOff
  <2>3. StorageSlot(name, r) = s.start + s.offset + Or(r.addend, 0) - ThreadPointer
    BY <1>6, <1>10 DEF StorageSlot
  <2>4. QED BY <2>1, <2>2, <2>3
<1>11. QED BY <1>8, <1>9, <1>10 DEF StorageKinds

LEMMA AddendIs ==
  ASSUME system \in Systems, images \in Seq(Placed), NEW w \in ToSet(Work)
  PROVE  Or(w.reloc.addend, 0) \in Int
<1>1. w.image \in DOMAIN images /\ w.reloc \in ToSet(Object(images[w.image]).relocs) BY WorkIs
<1>2. images[w.image] \in Placed BY <1>1
<1>3. images[w.image].path \in {q \in DOMAIN system.objects : system.objects[q].sound} BY <1>2 DEF Placed, Usable
<1>4. PICK o : o = system.objects[images[w.image].path] OBVIOUS
<1>5. \A r \in ToSet(o.relocs) : r.addend \subseteq Int BY <1>3, <1>4, ObjectsAssumption
<1>6. w.reloc.addend \subseteq Int BY <1>1, <1>4, <1>5 DEF Object
<1>7. PICK a : a = w.reloc.addend OBVIOUS
<1>8. CASE a = {} BY <1>7, <1>8 DEF Or, None
<1>9. CASE a # {}
  <2>1. (CHOOSE x \in a : TRUE) \in a BY <1>9
  <2>2. Or(a, 0) = CHOOSE x \in a : TRUE BY <1>9 DEF Or, None
  <2>3. QED BY <1>6, <1>7, <2>1, <2>2
<1>10. QED BY <1>8, <1>9

-----------------------------------------------------------------------------
(* Thread-local storage through the stages.                                *)

ThreadStages == {"tls", "prepare", "relocate", "resolve", "running"}

Late == {"relocate", "resolve", "running"}

BlockPlaced(i) ==
  /\ i \in WithTls /\ blocks[i] \in Nat
  /\ ThreadPointer + TcbReserved <= blocks[i] /\ blocks[i] + Tls(i).memsz <= TlsEnd
  /\ Tls(i).align # 0 => blocks[i] % Tls(i).align = 0
  /\ Len(Tls(i).image) <= Tls(i).memsz

AreApart(i, j) == blocks[i] + Tls(i).memsz <= blocks[j] \/ blocks[j] + Tls(j).memsz <= blocks[i]

ImageHeld(i) ==
  \A k \in DOMAIN Tls(i).image :
    LET a == blocks[i] + k - 1
    IN  a \notin DtvCells /\ Unnamed(a) => Word(a) = Tls(i).image[k]

DtvHolds == \A i \in WithTls : Unnamed(DtvStart + ModuleId(i)) => Word(DtvStart + ModuleId(i)) = blocks[i]

\* The slot of a relocation about thread-local storage holds what its name asks for.
StorageAgrees(w) ==
  w.reloc.kind \in StorageKinds =>
    \A name \in w.reloc.sym : Definers(name, ThreadSymbols) # {} =>
      Word(Target(w.image, w.reloc)) = StorageSlot(name, w.reloc)

\* The blocks lie one above the other below the heap, the DTV with them; what comes
\* later writes above them, or where a relocation says.
ThreadInv ==
  /\ BindInv
  /\ stage \in {"open", "graph", "place", "map"} => blocks = <<>>
  /\ stage \in {"map"} \cup ThreadStages => images # <<>>
  /\ stage \in ThreadStages =>
       /\ \A i \in DOMAIN blocks : BlockPlaced(i)
       /\ \A i, j \in DOMAIN blocks : i # j => AreApart(i, j)
  /\ stage = "tls" => \A i \in DOMAIN blocks : ImageHeld(i)
  /\ stage \in {"prepare"} \cup Late => DOMAIN blocks = WithTls /\ (WithTls # {} => DtvEnd <= TlsEnd)
  /\ stage \in {"prepare"} \cup Late => (\A i \in DOMAIN blocks : ImageHeld(i)) /\ DtvHolds
  /\ stage \in Late => \A n \in DOMAIN applied : Lasts(n) => StorageAgrees(applied[n])

LEMMA StorageStays ==
  ASSUME system' = system, images' = images
  PROVE  /\ WithTls' = WithTls /\ ThreadPointer' = ThreadPointer /\ TlsEnd' = TlsEnd
         /\ DtvStart' = DtvStart /\ DtvEnd' = DtvEnd /\ DtvCells' = DtvCells
         /\ \A i : Tls(i)' = Tls(i) /\ ModuleId(i)' = ModuleId(i)
         /\ \A name : Definers(name, ThreadSymbols)' = Definers(name, ThreadSymbols)
         /\ \A name : FirstDefinition(name, ThreadSymbols)' = FirstDefinition(name, ThreadSymbols)
<1>1. \A m : Object(m)' = Object(m) BY DEF Object
<1>2. \A m : Bias(m)' = Bias(m) BY <1>1 DEF Bias
<1>3. \A m : EndOf(m)' = EndOf(m) BY <1>1, <1>2 DEF EndOf
<1>4. Top' = Top BY <1>3 DEF Top
<1>5. ThreadPointer' = ThreadPointer /\ TlsEnd' = TlsEnd BY <1>4 DEF ThreadPointer, TlsEnd, TlsBase
<1>6. WithTls' = WithTls BY <1>1 DEF WithTls
<1>7. \A i : ModuleId(i)' = ModuleId(i) BY <1>6 DEF ModuleId
<1>8. \A i : Tls(i)' = Tls(i) BY <1>1 DEF Tls
<1>9. DtvStart' = DtvStart BY <1>5 DEF DtvStart
<1>10. DtvEnd' = DtvEnd BY <1>6, <1>9 DEF DtvEnd
<1>11. DtvCells' = DtvCells BY <1>5, <1>6, <1>9 DEF DtvCells
<1>12. \A i : ThreadSymbols(i)' = ThreadSymbols(i) BY <1>1, <1>6 DEF ThreadSymbols, ThreadLocal, Symbols
<1>13. \A name : Definers(name, ThreadSymbols)' = Definers(name, ThreadSymbols) BY <1>12 DEF Definers
<1>14. \A name : FirstDefinition(name, ThreadSymbols)' = FirstDefinition(name, ThreadSymbols)
  BY DEF FirstDefinition, Definers, ThreadSymbols, ThreadLocal, WithTls, Symbols, Object
<1>15. QED BY <1>5, <1>6, <1>7, <1>8, <1>9, <1>10, <1>11, <1>13, <1>14

\* What needs no memory stays with the blocks.
LEMMA BlocksStay ==
  ASSUME system' = system, images' = images, blocks' = blocks
  PROVE  /\ \A i : BlockPlaced(i)' = BlockPlaced(i)
         /\ \A i, j : AreApart(i, j)' = AreApart(i, j)
         /\ \A name, r : StorageSlot(name, r)' = StorageSlot(name, r)
<1>1. \A i : BlockPlaced(i)' = BlockPlaced(i) BY StorageStays DEF BlockPlaced
<1>2. \A i, j : AreApart(i, j)' = AreApart(i, j) BY StorageStays DEF AreApart
<1>3. \A name : Storage(name)' = Storage(name) BY StorageStays DEF Storage
<1>4. ThreadPointer' = ThreadPointer BY StorageStays
<1>5. \A name, r : StorageSlot(name, r)' = StorageSlot(name, r) BY <1>3, <1>4 DEF StorageSlot
<1>6. QED BY <1>1, <1>2, <1>5

LEMMA ThreadType ==
  ASSUME ThreadInv
  PROVE  system \in Systems /\ images \in Seq(Placed)
BY DEF ThreadInv, BindInv, PlaceInv, GraphInv, GraphType

LEMMA CursorIs ==
  ASSUME ThreadInv, stage = "tls"
  PROVE  /\ Cursor \in Nat /\ ThreadPointer + TcbReserved <= Cursor
         /\ \A i \in DOMAIN blocks : blocks[i] + Tls(i).memsz <= Cursor
<1>1. system \in Systems /\ images \in Seq(Placed) /\ images # <<>> BY ThreadType DEF ThreadInv, ThreadStages
<1>2. ThreadPointer \in Nat /\ TcbReserved \in Nat BY <1>1, ThreadPlaces
<1>3. PICK D : D = DOMAIN blocks OBVIOUS
<1>4. \A i \in D : i \in WithTls /\ blocks[i] \in Nat
  BY <1>3 DEF ThreadInv, ThreadStages, BlockPlaced
<1>5. \A i \in D : Tls(i).memsz \in Nat BY <1>1, <1>4, ThreadFacts
<1>6. PICK f : f = [i \in D |-> blocks[i] + Tls(i).memsz] OBVIOUS
<1>7. PICK E : E = {f[i] : i \in D} OBVIOUS
<1>8. \A i \in D : f[i] \in Nat BY <1>4, <1>5, <1>6
<1>9. IsFiniteSet(E)
  <2>1. IsFiniteSet(WithTls) BY <1>1, ThreadFacts
  <2>2. D \in SUBSET WithTls BY <1>4
  <2>3. IsFiniteSet(D) BY <2>1, <2>2, FS_Subset
  <2>4. f \in Surjection(D, E) BY <1>6, <1>7 DEF Surjection
  <2>5. QED BY <2>3, <2>4, FS_Surjection
<1>10. PICK low \in Nat : low = ThreadPointer + TcbReserved BY <1>2
<1>11. IsFiniteSet({low}) BY FS_Singleton
<1>12. PICK all : all = {low} \cup E OBVIOUS
<1>13. IsFiniteSet(all) BY <1>9, <1>11, <1>12, FS_Union
<1>14. all \subseteq Nat /\ all # {} BY <1>7, <1>8, <1>12
<1>15. Cursor = Max(all)
  <2>1. E = {blocks[i] + Tls(i).memsz : i \in DOMAIN blocks} BY <1>3, <1>6, <1>7
  <2>2. QED BY <1>10, <1>12, <2>1 DEF Cursor
<1>16. Max(all) \in all /\ \A n \in all : n <= Max(all) BY <1>13, <1>14, MaxIs
<1>17. \A i \in D : f[i] \in all BY <1>7, <1>12
<1>18. QED BY <1>3, <1>6, <1>10, <1>12, <1>14, <1>15, <1>16, <1>17

\* A new block goes above those that are there.
LEMMA InstallBlockKeeps ==
  ASSUME ThreadInv, BindInv', InstallBlock
  PROVE  ThreadInv'
<1>1. /\ stage = "tls" /\ stage' = "tls" /\ system' = system /\ images' = images
  BY DEF InstallBlock, graphVars
<1>2. system \in Systems /\ images \in Seq(Placed) /\ images # <<>> BY <1>1, ThreadType DEF ThreadInv, ThreadStages
<1>3. PICK i \in WithTls :
       /\ IsNextBlock(i) /\ BlockFits(i)
       /\ blocks' = [j \in DOMAIN blocks \cup {i} |-> IF j = i THEN BlockStart(i) ELSE blocks[j]]
       /\ words' = Written(BlockStart(i), [k \in 0 .. Tls(i).memsz - 1 |->
                                             IF k < Len(Tls(i).image) THEN Tls(i).image[k + 1] ELSE 0])
  BY DEF InstallBlock
<1>4. i \notin DOMAIN blocks BY <1>3 DEF IsNextBlock
<1>5. /\ \A j \in DOMAIN blocks : BlockPlaced(j) /\ ImageHeld(j)
      /\ \A j, k \in DOMAIN blocks : j # k => AreApart(j, k)
  BY <1>1 DEF ThreadInv, ThreadStages
<1>6. PICK size \in Nat, len \in Nat : /\ size = Tls(i).memsz /\ len = Len(Tls(i).image)
                                       /\ DOMAIN Tls(i).image = 1 .. len
  BY <1>2, <1>3, ThreadFacts
<1>7. PICK cursor \in Nat : /\ cursor = Cursor /\ ThreadPointer + TcbReserved <= cursor
                            /\ \A j \in DOMAIN blocks : blocks[j] + Tls(j).memsz <= cursor
  BY <1>1, CursorIs
<1>8. PICK start \in Nat : /\ start = BlockStart(i) /\ cursor <= start
                           /\ Tls(i).align # 0 => start % Tls(i).align = 0
  <2>1. PICK a \in Nat \ {0} : a = IF Tls(i).align = 0 THEN 1 ELSE Tls(i).align
    <3>1. Tls(i).align \in Nat BY <1>2, <1>3, ThreadFacts
    <3>2. QED BY <3>1
  <2>2. BlockStart(i) = ((cursor + a - 1) \div a) * a BY <1>7, <2>1 DEF BlockStart
  <2>3. PICK start : start = ((cursor + a - 1) \div a) * a OBVIOUS
  <2>4. start \in Nat /\ cursor <= start /\ start % a = 0 BY <2>3, AlignedAbove
  <2>5. QED BY <2>1, <2>2, <2>3, <2>4
<1>9. PICK content : content = [k \in 0 .. size - 1 |-> IF k < len THEN Tls(i).image[k + 1] ELSE 0] OBVIOUS
<1>10. words' = Written(start, content) BY <1>3, <1>6, <1>8, <1>9
<1>11. /\ DOMAIN blocks' = DOMAIN blocks \cup {i} /\ blocks'[i] = start
       /\ \A j \in DOMAIN blocks : blocks'[j] = blocks[j]
  BY <1>3, <1>4, <1>8
<1>12. len <= size /\ start + size <= TlsEnd BY <1>3, <1>6, <1>8 DEF BlockFits
<1>13. ThreadPointer \in Nat /\ TcbReserved \in Nat BY <1>2, ThreadPlaces
<1>14. /\ WithTls' = WithTls /\ ThreadPointer' = ThreadPointer /\ TlsEnd' = TlsEnd /\ DtvCells' = DtvCells
       /\ \A j : Tls(j)' = Tls(j)
       /\ \A a : Unnamed(a)' = Unnamed(a)
  BY <1>1, StorageStays, LayoutStays
<1>15. ThreadPointer + TcbReserved <= start BY <1>7, <1>8, <1>13
<1>16. BlockPlaced(i)' BY <1>3, <1>6, <1>8, <1>11, <1>12, <1>14, <1>15 DEF BlockPlaced
<1>17. \A j \in DOMAIN blocks : BlockPlaced(j)' BY <1>5, <1>11, <1>14 DEF BlockPlaced
<1>18. \A j, k \in DOMAIN blocks : j # k => AreApart(j, k)' BY <1>5, <1>11, <1>14 DEF AreApart
<1>19. ASSUME NEW j \in DOMAIN blocks PROVE AreApart(i, j)' /\ AreApart(j, i)'
  <2>1. BlockPlaced(j) /\ blocks[j] + Tls(j).memsz <= cursor BY <1>5, <1>7
  <2>2. blocks[j] \in Nat /\ Tls(j).memsz \in Nat BY <1>2, <2>1, ThreadFacts DEF BlockPlaced
  <2>3. blocks[j] + Tls(j).memsz <= start BY <1>8, <2>1, <2>2
  <2>4. QED BY <1>11, <1>14, <2>3 DEF AreApart
<1>20. ASSUME NEW j \in DOMAIN blocks PROVE ImageHeld(j)'
  <2>1. BlockPlaced(j) /\ ImageHeld(j) /\ blocks[j] + Tls(j).memsz <= cursor BY <1>5, <1>7
  <2>2. PICK b \in Nat, m \in Nat, l \in Nat : /\ b = blocks[j] /\ m = Tls(j).memsz /\ l = Len(Tls(j).image)
                                               /\ DOMAIN Tls(j).image = 1 .. l /\ l <= m /\ b + m <= cursor
    BY <1>2, <2>1, ThreadFacts DEF BlockPlaced
  <2>3. ASSUME NEW k \in 1 .. l PROVE Word(b + k - 1)' = Word(b + k - 1)
    <3>1. b + k - 1 < start BY <1>8, <2>2
    <3>2. \A n \in DOMAIN content : b + k - 1 # start + n BY <1>9, <3>1
    <3>3. PICK a : a = b + k - 1 OBVIOUS
    <3>4. a \notin {start + n : n \in DOMAIN content} BY <3>2, <3>3
    <3>5. Word(a)' = Word(a) BY <1>10, <3>4, WrittenElsewhere
    <3>6. QED BY <3>3, <3>5
  <2>4. \A k \in 1 .. l : b + k - 1 \notin DtvCells /\ Unnamed(b + k - 1) => Word(b + k - 1) = Tls(j).image[k]
    BY <2>1, <2>2 DEF ImageHeld
  <2>5. \A k \in 1 .. l : b + k - 1 \notin DtvCells /\ Unnamed(b + k - 1) => Word(b + k - 1)' = Tls(j).image[k]
    BY <2>3, <2>4
  <2>6. blocks'[j] = b /\ Tls(j)' = Tls(j) /\ DtvCells' = DtvCells BY <1>11, <1>14, <2>2
  <2>7. QED BY <1>14, <2>2, <2>5, <2>6 DEF ImageHeld
<1>21. ImageHeld(i)'
  <2>1. ASSUME NEW k \in 1 .. len PROVE Word(start + k - 1)' = Tls(i).image[k]
    <3>1. PICK n \in 0 .. size - 1 : n = k - 1 BY <1>12
    <3>2. n \in Int /\ n \in DOMAIN content /\ n < len /\ n + 1 = k /\ start + n = start + k - 1 BY <1>9, <3>1
    <3>3. content[n] = Tls(i).image[k] BY <1>9, <3>1, <3>2
    <3>4. Word(start + n)' = content[n] BY <1>10, <3>2, WrittenThere
    <3>5. QED BY <3>2, <3>3, <3>4
  <2>2. blocks'[i] = start /\ Tls(i)' = Tls(i) /\ DOMAIN Tls(i).image = 1 .. len BY <1>6, <1>11, <1>14
  <2>3. QED BY <2>1, <2>2 DEF ImageHeld
<1>22. \A j \in DOMAIN blocks' : BlockPlaced(j)' /\ ImageHeld(j)' BY <1>11, <1>16, <1>17, <1>20, <1>21
<1>23. \A j, k \in DOMAIN blocks' : j # k => AreApart(j, k)' BY <1>11, <1>18, <1>19
<1>24. QED BY <1>1, <1>2, <1>22, <1>23 DEF ThreadInv, Late

\* A table of one number more than there are blocks, over them or above them.
LEMMA BuildDtvKeeps ==
  ASSUME ThreadInv, BindInv', BuildDtv
  PROVE  ThreadInv'
<1>1. /\ stage = "tls" /\ stage' = "prepare" /\ system' = system /\ images' = images /\ blocks' = blocks
      /\ WithTls = DOMAIN blocks /\ (WithTls # {} => DtvEnd <= TlsEnd)
  BY DEF BuildDtv, graphVars
<1>2. system \in Systems /\ images \in Seq(Placed) /\ images # <<>> BY <1>1, ThreadType DEF ThreadInv, ThreadStages
<1>3. /\ \A i \in DOMAIN blocks : BlockPlaced(i) /\ ImageHeld(i)
      /\ \A i, j \in DOMAIN blocks : i # j => AreApart(i, j)
  BY <1>1 DEF ThreadInv, ThreadStages
<1>4. /\ WithTls' = WithTls /\ TlsEnd' = TlsEnd /\ DtvStart' = DtvStart /\ DtvEnd' = DtvEnd
      /\ DtvCells' = DtvCells /\ (\A i : Tls(i)' = Tls(i) /\ ModuleId(i)' = ModuleId(i))
      /\ \A a : Unnamed(a)' = Unnamed(a)
  BY <1>1, StorageStays, LayoutStays
<1>5. /\ \A i \in DOMAIN blocks : BlockPlaced(i)'
      /\ \A i, j \in DOMAIN blocks : i # j => AreApart(i, j)'
  BY <1>1, <1>3, BlocksStay
<1>6. (\A i \in WithTls : ImageHeld(i)') /\ DtvHolds'
  <2>1. CASE WithTls = {} BY <1>4, <2>1 DEF DtvHolds
  <2>2. CASE WithTls # {}
    <3>1. PICK thread \in Nat, pointer \in Nat, dtv \in Nat :
            thread = ThreadPointer /\ pointer = DtvPointer /\ dtv = Dtv /\ pointer < dtv /\ DtvStart = thread + dtv
      BY <1>2, ThreadPlaces
    <3>2. PICK N \in Nat : /\ N = Cardinality(WithTls) /\ \A i \in WithTls : ModuleId(i) \in 1 .. N
                           /\ \A i, j \in WithTls : ModuleId(i) = ModuleId(j) => i = j
      BY <1>2, ThreadFacts, ModuleIds
    <3>3. PICK content :
            content = [k \in {pointer, dtv} \cup {dtv + ModuleId(i) : i \in WithTls} |->
                         IF k = pointer THEN DtvStart
                         ELSE IF k = dtv THEN 1
                         ELSE blocks[CHOOSE i \in WithTls : dtv + ModuleId(i) = k]]
      OBVIOUS
    <3>4. words' = Written(thread, content) BY <2>2, <3>1, <3>3 DEF BuildDtv
    <3>5. ASSUME NEW a, a \notin DtvCells PROVE Word(a)' = Word(a)
      <4>1. DtvCells = {thread + dtv + k : k \in 0 .. N} \cup {thread + pointer} BY <3>1, <3>2 DEF DtvCells
      <4>2. ASSUME NEW k \in DOMAIN content PROVE thread + k \in DtvCells
        <5>1. k = pointer \/ k = dtv \/ \E i \in WithTls : k = dtv + ModuleId(i) BY <3>3
        <5>2. CASE k = pointer BY <4>1, <5>2
        <5>3. CASE k = dtv
          <6>1. 0 \in 0 .. N /\ thread + dtv + 0 = thread + dtv OBVIOUS
          <6>2. QED BY <4>1, <5>3, <6>1
        <5>4. ASSUME NEW i \in WithTls, k = dtv + ModuleId(i) PROVE thread + k \in DtvCells
          <6>1. PICK id \in 1 .. N : id = ModuleId(i) BY <3>2
          <6>2. id \in 0 .. N /\ thread + k = thread + dtv + id BY <5>4, <6>1
          <6>3. QED BY <4>1, <6>2
        <5>5. QED BY <5>1, <5>2, <5>3, <5>4
      <4>3. a \notin {thread + k : k \in DOMAIN content} BY <3>5, <4>2
      <4>4. QED BY <3>4, <4>3, WrittenElsewhere
    <3>6. ASSUME NEW i \in WithTls PROVE ImageHeld(i)'
      <4>1. ImageHeld(i) BY <1>1, <1>3
      <4>2. blocks'[i] = blocks[i] BY <1>1
      <4>3. QED BY <1>4, <3>5, <4>1, <4>2 DEF ImageHeld
    <3>7. ASSUME NEW i \in WithTls PROVE Word(DtvStart + ModuleId(i))' = blocks[i]
      <4>1. PICK id \in 1 .. N : id = ModuleId(i) BY <3>2
      <4>2. PICK k \in Nat : k = dtv + id OBVIOUS
      <4>3. k # pointer /\ k # dtv /\ k \in DOMAIN content BY <3>1, <3>3, <4>1, <4>2
      <4>4. \A j \in WithTls : dtv + ModuleId(j) = k <=> j = i
        <5> SUFFICES ASSUME NEW j \in WithTls, dtv + ModuleId(j) = k PROVE j = i BY <4>1, <4>2
        <5>1. PICK other \in 1 .. N : other = ModuleId(j) BY <3>2
        <5>2. other = id BY <4>2, <5>1
        <5>3. QED BY <3>2, <4>1, <5>1, <5>2
      <4>5. (CHOOSE j \in WithTls : dtv + ModuleId(j) = k) = i BY <4>4
      <4>6. content[k] = blocks[i] BY <3>3, <4>3, <4>5
      <4>7. Word(thread + k)' = content[k] BY <3>4, <4>3, WrittenThere
      <4>8. thread + k = DtvStart + ModuleId(i) BY <3>1, <4>1, <4>2
      <4>9. PICK a : a = thread + k OBVIOUS
      <4>10. Word(a)' = blocks[i] BY <4>6, <4>7, <4>9
      <4>11. QED BY <1>4, <4>8, <4>9, <4>10
    <3>8. DtvHolds' BY <1>1, <1>4, <3>7 DEF DtvHolds
    <3>9. QED BY <3>6, <3>8
  <2>3. QED BY <2>1, <2>2
<1>7. QED BY <1>1, <1>2, <1>4, <1>5, <1>6 DEF ThreadInv, Late

\* The window keeps the blocks and the DTV if only words that a relocation names are written.
LEMMA HoldsKeep ==
  ASSUME ThreadInv, stage \in {"prepare"} \cup Late, system' = system, images' = images, blocks' = blocks,
         \A i \in DOMAIN blocks : ImageHeld(i), DtvHolds,
         \A a \in Nat : ThreadPointer <= a /\ a < TlsEnd /\ Unnamed(a) => Word(a)' = Word(a)
  PROVE  (\A i \in DOMAIN blocks' : ImageHeld(i)') /\ DtvHolds'
<1>1. system \in Systems /\ images \in Seq(Placed) /\ images # <<>>
  BY ThreadType DEF ThreadInv, ThreadStages, Late
<1>2. /\ DOMAIN blocks = WithTls /\ \A i \in WithTls : BlockPlaced(i)
      /\ (WithTls # {} => DtvEnd <= TlsEnd)
  BY DEF ThreadInv, ThreadStages, Late
<1>3. PICK thread \in Nat, reserved \in Nat, end \in Nat, dtv \in Nat :
        /\ thread = ThreadPointer /\ reserved = TcbReserved /\ end = TlsEnd /\ dtv = DtvStart /\ thread <= dtv
  BY <1>1, ThreadPlaces
<1>4. /\ DtvStart' = DtvStart /\ DtvCells' = DtvCells /\ WithTls' = WithTls
      /\ (\A i : Tls(i)' = Tls(i) /\ ModuleId(i)' = ModuleId(i))
      /\ \A a : Unnamed(a)' = Unnamed(a)
  BY StorageStays, LayoutStays
<1>5. ASSUME NEW i \in WithTls PROVE ImageHeld(i)'
  <2>1. PICK b \in Nat, m \in Nat, l \in Nat :
          /\ b = blocks[i] /\ m = Tls(i).memsz /\ l = Len(Tls(i).image)
          /\ DOMAIN Tls(i).image = 1 .. l /\ l <= m /\ b + m <= end /\ thread + reserved <= b
    BY <1>1, <1>2, <1>3, ThreadFacts DEF BlockPlaced
  <2>2. ASSUME NEW k \in 1 .. l, Unnamed(b + k - 1) PROVE Word(b + k - 1)' = Word(b + k - 1)
    <3>1. PICK a \in Nat : a = b + k - 1 OBVIOUS
    <3>2. thread <= a
      <4>1. thread <= b BY <2>1
      <4>2. QED BY <3>1, <4>1
    <3>3. a < end
      <4>1. k <= m BY <2>1
      <4>2. QED BY <2>1, <3>1, <4>1
    <3>4. Word(a)' = Word(a) BY <1>3, <2>2, <3>1, <3>2, <3>3
    <3>5. QED BY <3>1, <3>4
  <2>3. \A k \in 1 .. l : b + k - 1 \notin DtvCells /\ Unnamed(b + k - 1) => Word(b + k - 1) = Tls(i).image[k]
    BY <1>2, <2>1 DEF ImageHeld
  <2>4. \A k \in 1 .. l : b + k - 1 \notin DtvCells /\ Unnamed(b + k - 1) => Word(b + k - 1)' = Tls(i).image[k]
    BY <2>2, <2>3
  <2>5. blocks'[i] = b /\ Tls(i)' = Tls(i) /\ DtvCells' = DtvCells BY <1>4, <2>1
  <2>6. QED BY <1>4, <2>1, <2>4, <2>5 DEF ImageHeld
<1>6. ASSUME NEW i \in WithTls, Unnamed(DtvStart + ModuleId(i)) PROVE Word(DtvStart + ModuleId(i))' = blocks[i]
  <2>1. PICK N \in Nat : N = Cardinality(WithTls) BY <1>1, ThreadFacts
  <2>2. PICK id \in 1 .. N : id = ModuleId(i) BY <1>1, <2>1, ModuleIds
  <2>3. dtv + 1 + N <= end BY <1>2, <1>3, <2>1 DEF DtvEnd
  <2>4. PICK a \in Nat : a = dtv + id OBVIOUS
  <2>5. thread <= a /\ a < end BY <1>3, <2>3, <2>4
  <2>6. Word(a)' = Word(a) BY <1>3, <1>6, <2>2, <2>4, <2>5
  <2>7. Word(a) = blocks[i] BY <1>3, <1>6, <2>2, <2>4 DEF DtvHolds
  <2>8. QED BY <1>3, <1>4, <2>2, <2>4, <2>6, <2>7
<1>7. QED BY <1>2, <1>4, <1>5, <1>6 DEF DtvHolds

LEMMA PrepareKeepsThreads ==
  ASSUME ThreadInv, BindInv', Prepare
  PROVE  ThreadInv'
<1>1. /\ stage = "prepare" /\ stage' = "relocate" /\ system' = system /\ images' = images /\ blocks' = blocks
      /\ applied' = applied
  BY DEF Prepare, graphVars
<1>2. system \in Systems /\ images \in Seq(Placed) /\ images # <<>> BY <1>1, ThreadType DEF ThreadInv, ThreadStages
<1>3. PICK content : DOMAIN content = {0, 5, 6} /\ words' = Written(HeapStart, content) BY DEF Prepare
<1>4. PICK heap \in Nat, end \in Nat : heap = HeapStart /\ end = TlsEnd /\ end <= heap BY <1>2, ThreadPlaces
<1>5. ASSUME NEW a \in Nat, a < end PROVE Word(a)' = Word(a)
  <2>1. \A k \in DOMAIN content : a # heap + k
    <3> SUFFICES ASSUME NEW k \in {0, 5, 6} PROVE a # heap + k BY <1>3
    <3>1. QED BY <1>4, <1>5
  <2>2. a \notin {heap + k : k \in DOMAIN content} BY <2>1
  <2>3. QED BY <1>3, <1>4, <2>2, WrittenElsewhere
<1>6. (\A i \in DOMAIN blocks : ImageHeld(i)) /\ DtvHolds BY <1>1 DEF ThreadInv
<1>7. (\A i \in DOMAIN blocks' : ImageHeld(i)') /\ DtvHolds' BY <1>1, <1>4, <1>5, <1>6, HoldsKeep
<1>8. /\ \A i \in DOMAIN blocks' : BlockPlaced(i)'
      /\ \A i, j \in DOMAIN blocks' : i # j => AreApart(i, j)'
  BY <1>1, BlocksStay DEF ThreadInv, ThreadStages
<1>9. DOMAIN blocks' = WithTls' /\ (WithTls' # {} => DtvEnd' <= TlsEnd')
  <2>1. DOMAIN blocks = WithTls /\ (WithTls # {} => DtvEnd <= TlsEnd) BY <1>1 DEF ThreadInv
  <2>2. QED BY <1>1, <2>1, StorageStays
<1>10. DOMAIN applied' = {}
  <2>1. applied' = <<>> BY <1>1 DEF ThreadInv, BindInv, Early
  <2>2. DOMAIN <<>> = {} OBVIOUS
  <2>3. QED BY <2>1, <2>2
<1>11. QED BY <1>1, <1>2, <1>7, <1>8, <1>9, <1>10 DEF ThreadInv

\* A relocation about thread-local storage leaves in its slot what its name asks for.
LEMMA StorageWritten ==
  ASSUME system \in Systems, images \in Seq(Placed), system' = system, images' = images, blocks' = blocks,
         NEW w \in ToSet(Work),
         words' = Written(Target(w.image, w.reloc), Content(w.image, w.reloc)),
         NEW new, new.image = w.image, new.reloc = w.reloc
  PROVE  StorageAgrees(new)'
<1> SUFFICES ASSUME w.reloc.kind \in StorageKinds, NEW name \in w.reloc.sym, Definers(name, ThreadSymbols)' # {}
             PROVE  Word(Target(w.image, w.reloc))' = StorageSlot(name, w.reloc)'
  BY DEF StorageAgrees
<1>1. PICK i, r : i = w.image /\ r = w.reloc OBVIOUS
<1>2. PICK t \in Int : t = Target(i, r) BY <1>1, TargetIs
<1>3. r.sym \in Option(r.sym) BY <1>1, TargetIs
<1>4. Definers(name, ThreadSymbols) # {} BY StorageStays
<1>5. Value(i, r) = {StorageSlot(name, r)} BY <1>1, <1>3, <1>4, StorageValue
<1>6. PICK v : v = StorageSlot(name, r) OBVIOUS
<1>7. (CHOOSE x \in Value(i, r) : TRUE) = v BY <1>5, <1>6
<1>8. r.kind # "copy" BY <1>1 DEF StorageKinds
<1>9. Content(i, r) = [k \in {0} |-> v] BY <1>7, <1>8 DEF Content
<1>10. PICK content : content = [k \in {0} |-> v] OBVIOUS
<1>11. words' = Written(t, content) /\ 0 \in DOMAIN content /\ content[0] = v /\ 0 \in Int
  BY <1>1, <1>2, <1>9, <1>10
<1>12. Word(t + 0)' = content[0] BY <1>11, WrittenThere
<1>13. t + 0 = t OBVIOUS
<1>14. Word(t)' = v BY <1>11, <1>12, <1>13
<1>15. Target(w.image, w.reloc)' = t /\ StorageSlot(name, r)' = StorageSlot(name, r)
  BY <1>1, <1>2, LayoutStays, BlocksStay
<1>16. QED BY <1>1, <1>6, <1>14, <1>15

\* What was applied about thread-local storage stays in its slot, like what Agrees.
LEMMA StorageKept ==
  ASSUME system' = system, images' = images, blocks' = blocks, NEW w, StorageAgrees(w),
         NEW t, t = Target(w.image, w.reloc), Word(t)' = Word(t)
  PROVE  StorageAgrees(w)'
<1>1. /\ Target(w.image, w.reloc)' = t
      /\ \A name : StorageSlot(name, w.reloc)' = StorageSlot(name, w.reloc)
      /\ \A name : Definers(name, ThreadSymbols)' = Definers(name, ThreadSymbols)
  BY LayoutStays, BlocksStay, StorageStays
<1>2. QED BY <1>1 DEF StorageAgrees

\* A step after the DTV is built that writes only words a relocation names, and no
\* slot that lasts.
LEMMA LateKeeps ==
  ASSUME ThreadInv, BindInv', stage \in Late, stage' \in Late,
         system' = system, images' = images, blocks' = blocks,
         \A a : Unnamed(a) => Word(a)' = Word(a),
         \A n \in DOMAIN applied' : Lasts(n)' => StorageAgrees(applied[n])'
  PROVE  ThreadInv'
<1>1. stage \in ThreadStages /\ stage' \in ThreadStages BY DEF Late, ThreadStages
<1>2. images # <<>> /\ DOMAIN blocks = WithTls /\ (WithTls # {} => DtvEnd <= TlsEnd) BY <1>1 DEF ThreadInv
<1>3. /\ \A i \in DOMAIN blocks' : BlockPlaced(i)'
      /\ \A i, j \in DOMAIN blocks' : i # j => AreApart(i, j)'
  BY <1>1, BlocksStay DEF ThreadInv
<1>4. DOMAIN blocks' = WithTls' /\ (WithTls' # {} => DtvEnd' <= TlsEnd') BY <1>2, StorageStays
<1>5. (\A i \in DOMAIN blocks' : ImageHeld(i)') /\ DtvHolds'
  <2>1. (\A i \in DOMAIN blocks : ImageHeld(i)) /\ DtvHolds BY DEF ThreadInv
  <2>2. QED BY <2>1, HoldsKeep
<1>6. stage' \notin {"open", "graph", "place", "map", "tls", "prepare"} BY DEF Late
<1>7. QED BY <1>1, <1>2, <1>3, <1>4, <1>5, <1>6 DEF ThreadInv

LEMMA ThreadStays ==
  ASSUME ThreadInv, BindInv', UNCHANGED <<system, images, words, blocks, applied>>,
         stage' = stage \/ (stage \in Late /\ stage' \in Late)
  PROVE  ThreadInv'
<1>1. system' = system /\ images' = images /\ words' = words /\ blocks' = blocks /\ applied' = applied
  OBVIOUS
<1>2. \A a : Word(a)' = Word(a) BY <1>1 DEF Word
<1>3. ASSUME NEW w, StorageAgrees(w) PROVE StorageAgrees(w)'
  <2>1. PICK t : t = Target(w.image, w.reloc) OBVIOUS
  <2>2. QED BY <1>1, <1>2, <1>3, <2>1, StorageKept
<1>4. CASE stage \in Late /\ stage' \in Late
  <2>1. ASSUME NEW n \in DOMAIN applied', Lasts(n)' PROVE StorageAgrees(applied[n])'
    <3>1. PICK w : w = applied[n] OBVIOUS
    <3>2. Lasts(n) BY <1>1, <2>1, LastsStays
    <3>3. StorageAgrees(w) BY <1>1, <1>4, <2>1, <3>1, <3>2 DEF ThreadInv
    <3>4. StorageAgrees(w)' BY <1>3, <3>3
    <3>5. QED BY <1>1, <3>1, <3>4 DEF StorageAgrees
  <2>2. QED BY <1>1, <1>2, <1>4, <2>1, LateKeeps
<1>5. CASE stage \notin Late /\ stage' = stage
  <2>1. /\ WithTls' = WithTls /\ DtvEnd' = DtvEnd /\ TlsEnd' = TlsEnd /\ DtvStart' = DtvStart
        /\ DtvCells' = DtvCells
        /\ (\A i : Tls(i)' = Tls(i) /\ ModuleId(i)' = ModuleId(i))
        /\ \A a : Unnamed(a)' = Unnamed(a)
    BY <1>1, StorageStays, LayoutStays
  <2>2. \A i : ImageHeld(i)' = ImageHeld(i) BY <1>1, <1>2, <2>1 DEF ImageHeld
  <2>3. DtvHolds' = DtvHolds BY <1>1, <1>2, <2>1 DEF DtvHolds
  <2>4. /\ \A i : BlockPlaced(i)' = BlockPlaced(i)
        /\ \A i, j : AreApart(i, j)' = AreApart(i, j)
    BY <1>1, BlocksStay
  <2>5. stage' \in ThreadStages =>
          /\ \A i \in DOMAIN blocks' : BlockPlaced(i)'
          /\ \A i, j \in DOMAIN blocks' : i # j => AreApart(i, j)'
    BY <1>1, <1>5, <2>4 DEF ThreadInv
  <2>6. QED BY <1>1, <1>5, <2>1, <2>2, <2>3, <2>5 DEF ThreadInv
<1>6. QED BY <1>4, <1>5

\* What a relocation or a resolver writes is named by it.
LEMMA NamedOnly ==
  ASSUME NEW v \in ToSet(Work), v.reloc.kind # "none",
         NEW content, words' = Written(Target(v.image, v.reloc), content),
         \A k \in DOMAIN content : Target(v.image, v.reloc) + k \in Touched(v)
  PROVE  \A a : Unnamed(a) => Word(a)' = Word(a)
<1> SUFFICES ASSUME NEW a, Unnamed(a) PROVE Word(a)' = Word(a)
  OBVIOUS
<1>1. a \notin Touched(v) BY DEF Unnamed
<1>2. QED BY <1>1, SlotStays

LEMMA RelocateKeepsThreads ==
  ASSUME ThreadInv, BindInv', Relocate
  PROVE  ThreadInv'
<1>1. /\ stage = "relocate" /\ stage' = "relocate" /\ todo # <<>>
      /\ system' = system /\ images' = images /\ blocks' = blocks
  BY DEF Relocate, graphVars
<1>2. system \in Systems /\ images \in Seq(Placed) /\ BindInv BY <1>1, ThreadType DEF ThreadInv
<1>3. applied \in Seq(ToSet(applied)) BY <1>2 DEF BindInv
<1>4. \A n \in DOMAIN applied : Lasts(n) => StorageAgrees(applied[n]) BY <1>1 DEF ThreadInv, Late
<1>5. stage \in Late /\ stage' \in Late BY <1>1 DEF Late
<1>6. PICK v \in ToSet(Work) :
        \/ words' = words /\ applied' = applied
        \/ /\ v.reloc.kind # "none" /\ Value(v.image, v.reloc) # None
           /\ words' = Written(Target(v.image, v.reloc), Content(v.image, v.reloc))
           /\ applied' = Append(applied, [image |-> v.image, reloc |-> v.reloc,
                                          addend |-> Or(v.reloc.addend, Word(Target(v.image, v.reloc)))])
  BY <1>2, RelocateIs
<1>7. CASE words' = words /\ applied' = applied BY <1>1, <1>5, <1>7, ThreadStays
<1>8. CASE /\ v.reloc.kind # "none"
           /\ words' = Written(Target(v.image, v.reloc), Content(v.image, v.reloc))
           /\ applied' = Append(applied, [image |-> v.image, reloc |-> v.reloc,
                                          addend |-> Or(v.reloc.addend, Word(Target(v.image, v.reloc)))])
  <2>1. PICK new : new = [image |-> v.image, reloc |-> v.reloc,
                          addend |-> Or(v.reloc.addend, Word(Target(v.image, v.reloc)))]
    OBVIOUS
  <2>2. new.image = v.image /\ new.reloc = v.reloc BY <2>1
  <2>3. applied' = Append(applied, new) BY <1>8, <2>1
  <2>4. PICK L \in Nat : L = Len(applied) /\ DOMAIN applied = 1 .. L BY <1>3, LenProperties
  <2>5. /\ DOMAIN applied' = 1 .. L + 1 /\ applied'[L + 1] = new
        /\ \A n \in 1 .. L : applied'[n] = applied[n]
    BY <1>3, <2>3, <2>4, AppendedSet
  <2>6. Touched(new) = Touched(v) BY <2>2 DEF Touched
  <2>7. PICK content : content = Content(v.image, v.reloc) OBVIOUS
  <2>8. /\ \A k \in DOMAIN content : Target(v.image, v.reloc) + k \in Touched(v)
        /\ words' = Written(Target(v.image, v.reloc), content)
    BY <1>2, <1>8, <2>7, ContentTouches
  <2>9. StorageAgrees(new)' BY <1>1, <1>2, <1>8, <2>2, StorageWritten
  <2>10. ASSUME NEW n \in 1 .. L, Lasts(n)', NEW w, w = applied[n] PROVE StorageAgrees(w)'
    <3>1. n \in DOMAIN applied BY <2>4
    <3>2. Lasts(n) /\ Target(applied[n].image, applied[n].reloc) \notin Touched(v)
      BY <1>1, <1>3, <2>3, <2>6, <2>10, <3>1, LastsGrows
    <3>3. PICK t : t = Target(w.image, w.reloc) OBVIOUS
    <3>4. Word(t)' = Word(t) BY <2>8, <2>10, <3>2, <3>3, SlotStays
    <3>5. StorageAgrees(w) BY <1>4, <2>10, <3>1, <3>2
    <3>6. QED BY <1>1, <3>3, <3>4, <3>5, StorageKept
  <2>11. \A n \in DOMAIN applied' : Lasts(n)' => StorageAgrees(applied[n])'
    <3> SUFFICES ASSUME NEW n \in DOMAIN applied', Lasts(n)' PROVE StorageAgrees(applied[n])'
      OBVIOUS
    <3>1. n \in 1 .. L \/ n = L + 1 BY <2>4, <2>5
    <3>2. CASE n \in 1 .. L
      <4>1. PICK w : w = applied[n] OBVIOUS
      <4>2. StorageAgrees(w)' BY <2>10, <3>2, <4>1
      <4>3. w = applied'[n] BY <2>5, <3>2, <4>1
      <4>4. QED BY <4>2, <4>3 DEF StorageAgrees
    <3>3. CASE n = L + 1
      <4>1. applied'[n] = new BY <2>5, <3>3
      <4>2. QED BY <2>9, <4>1 DEF StorageAgrees
    <3>4. QED BY <3>1, <3>2, <3>3
  <2>12. \A a : Unnamed(a) => Word(a)' = Word(a) BY <1>8, <2>8, NamedOnly
  <2>13. QED BY <1>1, <1>5, <2>11, <2>12, LateKeeps
<1>9. QED BY <1>6, <1>7, <1>8

LEMMA RunResolverKeepsThreads ==
  ASSUME ThreadInv, BindInv', RunResolver
  PROVE  ThreadInv'
<1>1. /\ stage = "resolve" /\ stage' = "resolve" /\ todo # <<>> /\ applied' = applied
      /\ system' = system /\ images' = images /\ blocks' = blocks
  BY DEF RunResolver, graphVars
<1>2. BindInv BY DEF ThreadInv
<1>3. stage \in Late /\ stage' \in Late BY <1>1 DEF Late
<1>4. \A n \in DOMAIN applied : Lasts(n) => StorageAgrees(applied[n]) BY <1>3 DEF ThreadInv
<1>5. PICK v \in ToSet(Work) : /\ IsResolver(v)
                               /\ \E content : /\ words' = Written(Target(v.image, v.reloc), content)
                                               /\ \A k \in DOMAIN content : Target(v.image, v.reloc) + k \in Touched(v)
  BY <1>2, RunResolverIs
<1>6. v.reloc.kind # "none" BY <1>5 DEF IsResolver
<1>7. \A a : Unnamed(a) => Word(a)' = Word(a) BY <1>5, <1>6, NamedOnly
<1>8. ASSUME NEW n \in DOMAIN applied', Lasts(n)' PROVE StorageAgrees(applied[n])'
  <2>1. PICK w : w = applied[n] OBVIOUS
  <2>2. Lasts(n) BY <1>1, <1>8, LastsStays
  <2>3. StorageAgrees(w) BY <1>1, <1>4, <1>8, <2>1, <2>2
  <2>4. PICK t : t = Target(w.image, w.reloc) OBVIOUS
  <2>5. t \notin Touched(v) BY <1>5, <2>1, <2>2, <2>4 DEF Lasts
  <2>6. Word(t)' = Word(t) BY <1>5, <2>5, SlotStays
  <2>7. StorageAgrees(w)' BY <1>1, <2>3, <2>4, <2>6, StorageKept
  <2>8. QED BY <1>1, <2>1, <2>7 DEF StorageAgrees
<1>9. QED BY <1>1, <1>3, <1>7, <1>8, LateKeeps

LEMMA ThreadStarts == Init => ThreadInv
<1> SUFFICES ASSUME Init PROVE ThreadInv
  OBVIOUS
<1>1. BindInv BY InitBindInv
<1>2. stage = "open" /\ blocks = <<>> BY DEF Init
<1>3. QED BY <1>1, <1>2 DEF ThreadInv, ThreadStages, Late

\* Up to the map there are no blocks.
LEMMA ThreadsWait ==
  ASSUME ThreadInv, BindInv', stage \in {"open", "graph", "place", "map"}, blocks' = blocks,
         stage' \in {"open", "graph", "place", "map", "tls", "failed"},
         stage' \in {"map", "tls"} => images' # <<>>
  PROVE  ThreadInv'
<1>1. blocks' = <<>> BY DEF ThreadInv
<1>2. DOMAIN blocks' = {}
  <2>1. DOMAIN <<>> = {} OBVIOUS
  <2>2. QED BY <1>1, <2>1
<1>3. stage' \notin {"prepare", "relocate", "resolve", "running"} OBVIOUS
<1>4. QED BY <1>1, <1>2, <1>3 DEF ThreadInv, ThreadStages, Late

LEMMA ArrangeHasImages == Arrange => images' # <<>>
<1> SUFFICES ASSUME Arrange PROVE images' # <<>>
  OBVIOUS
<1>1. PICK first, libraries, last : images' = <<first>> \o libraries \o last BY DEF Arrange
<1>2. QED BY <1>1

LEMMA ThreadKeeps == ThreadInv /\ [Next]_vars => ThreadInv'
<1> SUFFICES ASSUME ThreadInv, [Next]_vars PROVE ThreadInv'
  OBVIOUS
<1>1. BindInv' BY BindKeeps DEF ThreadInv
<1>2. CASE Fail
  <2>1. stage' = "failed" BY <1>2 DEF Fail
  <2>2. QED BY <1>1, <2>1 DEF ThreadInv, ThreadStages, Late
<1>3. CASE Open
  <2>1. stage = "open" /\ stage' = "graph" /\ blocks' = blocks BY <1>3 DEF Open
  <2>2. QED BY <1>1, <2>1, ThreadsWait
<1>4. CASE Walk
  <2>1. stage = "graph" /\ stage' \in {"place", "failed", "graph"} /\ blocks' = blocks BY <1>4 DEF Walk
  <2>2. stage' \in {"open", "graph", "place", "map", "tls", "failed"} /\ stage' \notin {"map", "tls"} BY <2>1
  <2>3. QED BY <1>1, <2>1, <2>2, ThreadsWait
<1>5. CASE Place
  <2>1. stage = "place" /\ stage' = "place" /\ blocks' = blocks BY <1>5 DEF Place
  <2>2. QED BY <1>1, <2>1, ThreadsWait
<1>6. CASE Arrange
  <2>1. stage = "place" /\ stage' = "map" /\ blocks' = blocks BY <1>6, Zenon DEF Arrange
  <2>2. images' # <<>> BY <1>6, ArrangeHasImages
  <2>3. QED BY <1>1, <2>1, <2>2, ThreadsWait
<1>7. CASE MapImage
  <2>1. stage = "map" /\ stage' = "map" /\ blocks' = blocks /\ images' = images BY <1>7 DEF MapImage
  <2>2. images # <<>> BY <2>1 DEF ThreadInv
  <2>3. QED BY <1>1, <2>1, <2>2, ThreadsWait
<1>8. CASE Reserve
  <2>1. stage = "map" /\ stage' = "tls" /\ blocks' = blocks /\ images' = images BY <1>8 DEF Reserve
  <2>2. images # <<>> BY <2>1 DEF ThreadInv
  <2>3. QED BY <1>1, <2>1, <2>2, ThreadsWait
<1>9. CASE InstallBlock BY <1>1, <1>9, InstallBlockKeeps
<1>10. CASE BuildDtv BY <1>1, <1>10, BuildDtvKeeps
<1>11. CASE Prepare BY <1>1, <1>11, PrepareKeepsThreads
<1>12. CASE Relocate BY <1>1, <1>12, RelocateKeepsThreads
<1>13. CASE RunResolver BY <1>1, <1>13, RunResolverKeepsThreads
<1>14. CASE Decide
  <2>1. stage = "relocate" /\ stage' = "resolve" /\ UNCHANGED <<system, images, words, blocks, applied>>
    BY <1>14 DEF Decide, graphVars
  <2>2. QED BY <1>1, <2>1, ThreadStays DEF Late
<1>15. CASE Run
  <2>1. stage = "resolve" /\ stage' = "running" /\ UNCHANGED <<system, images, words, blocks, applied>>
    BY <1>15 DEF Run, graphVars
  <2>2. QED BY <1>1, <2>1, ThreadStays DEF Late
<1>16. CASE Ended \/ UNCHANGED vars
  <2>1. stage' = stage /\ UNCHANGED <<system, images, words, blocks, applied>>
    BY <1>16 DEF Ended, vars, graphVars, loaderVars
  <2>2. QED BY <1>1, <2>1, ThreadStays
<1>17. QED
  BY <1>2, <1>3, <1>4, <1>5, <1>6, <1>7, <1>8, <1>9, <1>10, <1>11, <1>12, <1>13, <1>14, <1>15, <1>16
  DEF Next, CannotOpen, CannotMap, NoRoomForTls, CannotPrepare, CannotRelocate, CannotDecide, ResolverFails

LEMMA ThreadInvTells == ThreadInv => ThreadStorageAgrees
<1> SUFFICES ASSUME ThreadInv, stage = "running"
             PROVE  BlocksApart /\ BlocksHold /\ VariablesAgree
  BY DEF ThreadStorageAgrees
<1>1. system \in Systems /\ images \in Seq(Placed) /\ BindInv BY ThreadType DEF ThreadInv
<1>2. /\ DOMAIN blocks = WithTls /\ \A i \in WithTls : BlockPlaced(i)
      /\ \A i, j \in WithTls : i # j => AreApart(i, j)
  BY DEF ThreadInv, ThreadStages, Late
<1>3. BlocksApart
  <2>1. ASSUME NEW i \in WithTls
        PROVE  /\ blocks[i] >= ThreadPointer + TcbReserved
               /\ Tls(i).align # 0 => blocks[i] % Tls(i).align = 0
    <3>1. BlockPlaced(i) BY <1>2
    <3>2. QED BY <3>1 DEF BlockPlaced
  <2>2. ASSUME NEW i \in WithTls, NEW j \in WithTls \ {i}
        PROVE  blocks[i] + Tls(i).memsz <= blocks[j] \/ blocks[j] + Tls(j).memsz <= blocks[i]
    BY <1>2 DEF AreApart
  <2>3. QED BY <2>1, <2>2 DEF BlocksApart
<1>4. BlocksHold /\ DtvHolds
  <2>1. (\A i \in WithTls : ImageHeld(i)) /\ DtvHolds BY <1>2 DEF ThreadInv, Late
  <2>2. QED BY <2>1 DEF BlocksHold, ImageHeld
<1>5. VariablesAgree
  <2> SUFFICES ASSUME NEW n \in DOMAIN applied, Lasts(n),
                      NEW name \in applied[n].reloc.sym, Definers(name, ThreadSymbols) # {}
               PROVE  LET r == applied[n].reloc
                          d == FirstDefinition(name, ThreadSymbols)
                          slot == Word(Target(applied[n].image, r))
                          entry == DtvStart + ModuleId(d.image)
                          variable == blocks[d.image] + d.value + Or(r.addend, 0)
                      IN  /\ r.kind = "dtpmod" =>
                               slot = ModuleId(d.image) /\ (Unnamed(entry) => Word(entry) = blocks[d.image])
                          /\ r.kind = "dtpoff" => TlsAddress(ModuleId(d.image), slot) = {variable}
                          /\ r.kind = "tpoff" => ThreadPointer + slot = variable
    BY DEF VariablesAgree
  <2>1. PICK r : r = applied[n].reloc OBVIOUS
  <2>2. PICK d : d = FirstDefinition(name, ThreadSymbols) OBVIOUS
  <2>3. PICK slot : slot = Word(Target(applied[n].image, applied[n].reloc)) OBVIOUS
  <2>4. PICK addend \in Int : addend = Or(r.addend, 0)
    <3>1. FromWork(applied[n]) BY <1>1 DEF BindInv
    <3>2. PICK v \in ToSet(Work) : v.reloc = r BY <2>1, <3>1 DEF FromWork
    <3>3. QED BY <1>1, <3>2, AddendIs
  <2>5. d.image \in WithTls /\ d.value \in Nat
    <3>1. name \in DOMAIN ThreadLocals BY <1>1, ThreadLocalsAre
    <3>2. QED BY <1>1, <2>2, <3>1, ThreadLocalsAre
  <2>6. PICK start \in Nat, value \in Nat, thread \in Nat :
          start = blocks[d.image] /\ value = d.value /\ thread = ThreadPointer
    <3>1. BlockPlaced(d.image) BY <1>2, <2>5
    <3>2. ThreadPointer \in Nat
      <4>1. images # <<>> BY DEF ThreadInv, ThreadStages
      <4>2. QED BY <1>1, <4>1, ThreadPlaces
    <3>3. QED BY <2>5, <3>1, <3>2 DEF BlockPlaced
  <2>7. Storage(name) = [module |-> ModuleId(d.image), start |-> start, offset |-> value]
    BY <2>2, <2>6 DEF Storage
  <2>8. r.kind \in StorageKinds => slot = StorageSlot(name, r)
    <3>1. StorageAgrees(applied[n]) BY DEF ThreadInv, Late
    <3>2. QED BY <2>1, <2>3, <3>1 DEF StorageAgrees
  <2>9. ASSUME r.kind = "dtpmod"
        PROVE  /\ slot = ModuleId(d.image)
               /\ Unnamed(DtvStart + ModuleId(d.image)) => Word(DtvStart + ModuleId(d.image)) = blocks[d.image]
    <3>1. slot = ModuleId(d.image) BY <2>7, <2>8, <2>9 DEF StorageSlot, StorageKinds
    <3>2. QED BY <1>4, <2>5, <3>1 DEF DtvHolds
  <2>10. ASSUME r.kind = "dtpoff" PROVE TlsAddress(ModuleId(d.image), slot) = {start + value + addend}
    <3>1. slot = value + addend BY <2>4, <2>7, <2>8, <2>10 DEF StorageSlot, StorageKinds
    <3>2. TlsAddress(Storage(name).module, slot) = {Storage(name).start + slot} BY <1>1, TlsAddressIs
    <3>3. TlsAddress(ModuleId(d.image), slot) = {start + slot} BY <2>7, <3>2
    <3>4. start + slot = start + value + addend BY <3>1
    <3>5. QED BY <3>3, <3>4
  <2>11. ASSUME r.kind = "tpoff" PROVE thread + slot = start + value + addend
    <3>1. slot = start + value + addend - thread
      BY <2>4, <2>6, <2>7, <2>8, <2>11 DEF StorageSlot, StorageKinds
    <3>2. QED BY <3>1
  <2>12. QED BY <2>1, <2>2, <2>3, <2>4, <2>6, <2>9, <2>10, <2>11
<1>6. QED BY <1>3, <1>4, <1>5

\* When the first instruction of a dynamic program runs, the blocks of thread-local
\* storage are apart and aligned, and filled but for words that the DTV is put on or a
\* relocation names; and each slot that no later relocation and no resolver is for
\* speaks of the address of its variable in the block of the first object that defines
\* it, as number (with its DTV entry, unless a relocation names that), offset (through
\* TlsContext::get_addr at the relocations) or distance: for all objects, blocks and
\* relocations.  __tls_get_addr in the run has no TlsContext and is not meant.
THEOREM ThreadStorageAlwaysAgrees == Spec => []ThreadStorageAgrees
<1>1. Init => ThreadInv BY ThreadStarts
<1>2. ThreadInv /\ [Next]_vars => ThreadInv' BY ThreadKeeps
<1>3. ThreadInv => ThreadStorageAgrees BY ThreadInvTells
<1>4. QED BY <1>1, <1>2, <1>3, PTL DEF Spec
=============================================================================
