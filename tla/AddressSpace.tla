---------------------------- MODULE AddressSpace ----------------------------
(***************************************************************************)
(* What a guest may rely on of its address space: which of its cells are   *)
(* mapped, and how each may be used.  A mapping takes cells that were free *)
(* and leaves all others alone, a protection changes one interval of       *)
(* mapped cells and nothing else, and no cell is ever taken away.          *)
(***************************************************************************)
EXTENDS Integers

CONSTANT Perms

VARIABLE space   \* pairs of a mapped cell and what may be done with it

OneMeaning(sp) ==
  /\ sp \subseteq Nat \X Perms
  /\ \A x, y \in sp : x[1] = y[1] => x = y

Cells(sp) == {x[1] : x \in sp}

Init == OneMeaning(space)

\* What a step adds.
New == space' \ space

\* One call may map several ranges (arch_prctl maps up to three pages).
MapCells ==
  /\ space \subseteq space'
  /\ OneMeaning(New) /\ Cells(New) \cap Cells(space) = {}

\* All that changes lies in one interval, mapped throughout and now alike.
ProtectCells ==
  \E p \in Perms :
     /\ New \subseteq Cells(space) \X {p}
     /\ \A x, y \in New : \A c \in x[1] .. y[1] : <<c, p>> \in space'
     /\ space' = {x \in space : x[1] \notin Cells(New)} \cup New

Next == MapCells \/ ProtectCells

Spec == Init /\ [][Next]_space
=============================================================================
