------------------------------ MODULE EventLog ------------------------------
(***************************************************************************)
(* The event history file of daoti-daemon and the page EventLog::history   *)
(* reads from it.  An event is identified by the daemon run that published *)
(* it and by its sequence number, which starts again with every run.  A    *)
(* line is an event, or None when it does not parse.                       *)
(*                                                                         *)
(* history reads the file backwards in chunks and parses each chunk by     *)
(* itself, so a line that a chunk boundary cuts is not found.  All lines   *)
(* have the same length here.                                              *)
(***************************************************************************)
EXTENDS Integers, Sequences, FiniteSets, SequencesExt, Options

CONSTANTS
  LineLen,   \* bytes of a line, the newline included
  Chunk      \* bytes history reads at a time

ASSUME SizeAssumption == LineLen \in Nat \ {0, 1} /\ Chunk \in Nat \ {0}

\* Boundaries between chunks, as offsets from the start of the file.
Boundaries(file) ==
  {b \in 1..(LineLen * Len(file)) :
     b < LineLen * Len(file) /\ (LineLen * Len(file) - b) % Chunk = 0}

\* A boundary just before the newline leaves the JSON whole.
Cut(file, i) ==
  \E b \in Boundaries(file) : LineLen * (i - 1) < b /\ b < LineLen * i - 1

Before(seq, before) == \A b \in before : seq < b

MutCandidates(file, before) ==
  {i \in DOMAIN file : ~Cut(file, i) /\ \E e \in file[i] : \A b \in before : e.seq <= b}

\* Lines the scan accepts.
Candidates(file, before) ==
  {i \in DOMAIN file : ~Cut(file, i) /\ \E e \in file[i] : Before(e.seq, before)}

\* The scan stops at the limit, having started at the end.
LastOf(positions, limit) ==
  {i \in positions : Cardinality({j \in positions : j > i}) < limit}

EventAt(file, i) == CHOOSE e \in file[i] : TRUE

\* Newest first by sequence number; the sort is stable.
Newer(file, i, j) ==
  LET s == EventAt(file, i).seq
      t == EventAt(file, j).seq
  IN  s > t \/ (s = t /\ i > j)

\* How many of the lines come before line i on the page.
Ahead(file, lines, i) == Cardinality({j \in lines : Newer(file, j, i)})

History(file, before, limit) ==
  LET lines == LastOf(Candidates(file, before), limit)
  IN  [k \in 1..Cardinality(lines) |->
         EventAt(file, CHOOSE i \in lines : Ahead(file, lines, i) = k - 1)]
=============================================================================
