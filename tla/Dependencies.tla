---------------------------- MODULE Dependencies ----------------------------
(***************************************************************************)
(* plan_dynamic_dependency_graph of elf/mod.rs: from a program to all the  *)
(* libraries it needs, depth first, within the allowed directories.  The   *)
(* recursion of visit_dependency is a stack of frames, one for each object *)
(* being visited, with the position of its next DT_NEEDED entry.           *)
(***************************************************************************)
EXTENDS Integers, Sequences, Options

CONSTANTS
  Systems,   \* the file systems to load from: [root, allowed, links, objects, ...]
  Dirs,
  Names

Path == [dir : Dirs, name : Names]

\* The entries of one name are one entry: plan_dynamic_load drops the later ones.
ASSUME SystemsAssumption ==
  \A s \in Systems :
    /\ s.root \in Path /\ s.allowed \subseteq Dirs
    /\ DOMAIN s.links \subseteq Path
    /\ \A p \in DOMAIN s.links : s.links[p] \in Path
    /\ \A p \in DOMAIN s.objects : s.objects[p].needed \in Seq(Names)

VARIABLES
  system,    \* the file system, which does not change
  walk,      \* "before", "walking", "done" or why it ended
  frames,    \* the stack; its paths are the code's visiting
  visited, nodes, edges

graphVars == <<system, walk, frames, visited, nodes, edges>>

Refusals == {"forbidden", "cycle", "unreadable"}

Frame == [path : Path, next : Nat \ {0}]

\* canonicalize, which leaves a path without a file as it is.
Canonical(p) == IF p \in DOMAIN system.links THEN system.links[p] ELSE p

Root == Canonical(system.root)

\* A file that plan_dynamic_load makes a plan of.
Usable(p) == p \in DOMAIN system.objects /\ system.objects[p].sound

Needed(p) == system.objects[p].needed

Child(p, i) == Canonical([p EXCEPT !.name = Needed(p)[i]])

Children(p) == {Child(p, i) : i \in DOMAIN Needed(p)}

Visiting == {frames[n].path : n \in DOMAIN frames}

GraphInit ==
  /\ system \in Systems
  /\ walk = "before"
  /\ frames = <<>> /\ nodes = <<>>
  /\ visited = {} /\ edges = {}

Refuse(reason, below) ==
  /\ walk' = reason
  /\ frames' = below
  /\ UNCHANGED nodes

MutVisit(p, below) ==
  \/ /\ p.dir \notin system.allowed
     /\ Refuse("forbidden", below)
     /\ UNCHANGED visited
  \/ /\ p.dir \in system.allowed /\ p \in visited
     /\ walk' = "walking" /\ frames' = below
     /\ UNCHANGED <<visited, nodes>>
  \/ /\ p.dir \in system.allowed /\ p \notin visited /\ Usable(p)
     /\ walk' = "walking"
     /\ frames' = Append(below, [path |-> p, next |-> 1])
     /\ nodes' = Append(nodes, p)
     /\ visited' = visited \cup {p}

\* visit_dependency up to its loop; below is the stack of its caller.
Visit(p, below) ==
  \/ /\ p.dir \notin system.allowed
     /\ Refuse("forbidden", below)
     /\ UNCHANGED visited
  \/ /\ p.dir \in system.allowed /\ p \in Visiting
     /\ Refuse("cycle", below)
     /\ UNCHANGED visited
  \/ /\ p.dir \in system.allowed /\ p \in visited \ Visiting
     /\ walk' = "walking" /\ frames' = below
     /\ UNCHANGED <<visited, nodes>>
  \/ /\ p.dir \in system.allowed /\ p \notin visited /\ ~Usable(p)
     /\ Refuse("unreadable", below)
     /\ visited' = visited \cup {p}
  \/ /\ p.dir \in system.allowed /\ p \notin visited /\ Usable(p)
     /\ walk' = "walking"
     /\ frames' = Append(below, [path |-> p, next |-> 1])
     /\ nodes' = Append(nodes, p)
     /\ visited' = visited \cup {p}

VisitRoot ==
  /\ walk = "before"
  /\ Visit(Root, <<>>)
  /\ UNCHANGED <<system, edges>>

\* The next DT_NEEDED entry of the object on top.
VisitChild ==
  /\ walk = "walking" /\ frames # <<>>
  /\ LET n == Len(frames)
         top == frames[n]
     IN  /\ top.next <= Len(Needed(top.path))
         /\ edges' = edges \cup {<<top.path, Child(top.path, top.next)>>}
         /\ Visit(Child(top.path, top.next), [frames EXCEPT ![n].next = @ + 1])
  /\ UNCHANGED system

\* The return of visit_dependency.
LeaveNode ==
  /\ walk = "walking" /\ frames # <<>>
  /\ LET n == Len(frames)
         top == frames[n]
     IN  /\ top.next > Len(Needed(top.path))
         /\ frames' = SubSeq(frames, 1, n - 1)
         /\ walk' = IF n = 1 THEN "done" ELSE walk
  /\ UNCHANGED <<system, visited, nodes, edges>>

GraphNext == VisitRoot \/ VisitChild \/ LeaveNode

-----------------------------------------------------------------------------
NodeSet == {nodes[i] : i \in DOMAIN nodes}

\* No object of S needs only objects outside S: following S never ends.
Unending(S) == S # {} /\ \A p \in S : Children(p) \cap S # {}

\* What the loader goes on with: every object that is needed, once, each after
\* one that needs it, and no cycle among them.
ExactGraph ==
  /\ nodes # <<>> /\ nodes[1] = Root
  /\ \A i, j \in DOMAIN nodes : nodes[i] = nodes[j] => i = j
  /\ \A i \in DOMAIN nodes : i # 1 => \E j \in 1 .. i - 1 : nodes[i] \in Children(nodes[j])
  /\ \A p \in NodeSet :
       /\ p.dir \in system.allowed /\ Usable(p)
       /\ Children(p) \subseteq NodeSet
       /\ \A c \in Children(p) : <<p, c>> \in edges
  /\ \A e \in edges : e[1] \in NodeSet /\ e[2] \in Children(e[1])
  /\ \A S \in SUBSET NodeSet : ~Unending(S)

\* GraphIsExact: when plan_dynamic_dependency_graph returns, its nodes are the
\* program and everything it needs, each once and after an object that needs it,
\* all usable and allowed, its edges are their DT_NEEDED entries, and they have
\* no cycle; when it reports a cycle, the objects on its stack hold one.
GraphIsExact ==
  /\ walk = "done" => ExactGraph
  /\ walk = "cycle" => \E S \in SUBSET Visiting : Unending(S)
=============================================================================
