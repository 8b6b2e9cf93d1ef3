----------------------------- MODULE CpuHistory -----------------------------
(***************************************************************************)
(* The processor with a memory of what its program did: what it compared   *)
(* last, the long subtraction it is in the middle of, and the calls that   *)
(* have not returned.  The processor does not read them.                   *)
(***************************************************************************)
EXTENDS Cpu, Sequences

VARIABLES
  compared,      \* what the flags compare, if a comparison set them
  borrowed,      \* the limbs subtracted so far, the highest first
  calls          \* where the return addresses of the open calls are

historyVars == <<cpuStatus, steps, rip, regs, flags, cpuMem, fsBase, compared, borrowed, calls>>

KeepsFlags ==
  {"bytexor", "unary", "mul", "div", "imul", "shiftcl", "mov", "movx", "cbw", "xchg", "lea",
   "setcc", "cmov", "stos", "push", "pop", "pushf", "leave", "call", "ret", "jmp", "jcc",
   "nop", "cpuid", "hlt", "syscall"}

Compared(x, y, w, signed) == Some([lhs |-> x, rhs |-> y, w |-> w, signed |-> signed])

\* The comparisons and the differences, each at the width of its operands;
\* signed is FALSE where the flags are those of wider operands.  A cmp of
\* two bytes and a sign-extended one has neither.
Comparison(i) ==
  CASE i.form = "wide" /\ i.op = "sub" -> Compared(Rd(i.dst, 8), Rd(i.src, 8), 8, TRUE)
    [] i.form = "byte" /\ i.op = "sub" -> Compared(Rd(i.dst, 1), Rd(i.src, 1), 1, FALSE)
    [] i.form = "al" /\ IsSub(i.op) ->
         Compared(Low(regs["rax"], 1), Rd(i.src, 1), 1, FALSE)
    [] i.form = "ax" /\ IsSub(i.op) ->
         Compared(Low(regs["rax"], i.w), Rd(i.src, i.w), i.w, i.w = 8)
    [] i.form = "cmp" \/ (i.form = "imm" /\ i.op \in {"sub", "cmp"}) ->
         Compared(Rd(i.dst, i.w), Rd(i.src, i.w), i.w, TRUE)
    [] i.form = "imm8" /\ i.op \in {"sub", "cmp"} ->
         Compared(Rd(i.dst, 1), Rd(i.src, 1), 1, TRUE)
    [] i.form = "short" /\ i.op \in {"sub", "cmp"} /\ i.w \in {4, 8} ->
         Compared(Rd(i.dst, i.w), Low(Extend(Rd(i.src, 1), 1, 8), i.w), i.w, TRUE)
    [] i.form = "cmpxchg" -> Compared(Rd(i.dst, i.w), Low(regs["rax"], i.w), i.w, TRUE)
    [] i.form \in KeepsFlags -> compared
    [] OTHER -> None

Unborrowed == [lhs |-> <<>>, rhs |-> <<>>, lost |-> FALSE]

\* A sub starts a long subtraction and each sbb adds a limb; it is lost from the
\* limb on whose right side and carry do not fit a word.
Borrow(i) ==
  CASE i.form = "wide" /\ i.op = "sub" ->
         [lhs |-> <<Rd(i.dst, 8)>>, rhs |-> <<Rd(i.src, 8)>>, lost |-> FALSE]
    [] i.form = "wide" /\ i.op = "sbb" /\ borrowed.lhs # <<>> ->
         [lhs |-> <<Rd(i.dst, 8)>> \o borrowed.lhs, rhs |-> <<Rd(i.src, 8)>> \o borrowed.rhs,
          lost |-> borrowed.lost \/ Rd(i.src, 8) + Carry >= Modulus(8)]
    [] i.form \in KeepsFlags -> borrowed
    [] OTHER -> Unborrowed

\* The slots the program stores to by address.
Overwritten(i) ==
  IF i.form = "stos" THEN Stored(i)
  ELSE IF i.dst.kind = "mem" THEN {Address(i.dst)} ELSE {}

\* A call opens; a program that raises rsp above the return address of a
\* call, or stores to it, gives the call up.
OpenCalls(i) ==
  (IF i.form = "call" THEN {[slot |-> Top - 1, ret |-> Next1]} ELSE {})
    \cup {c \in calls : c.slot >= regs'["rsp"] /\ c.slot \notin Overwritten(i)}

Step(i) ==
  /\ Execute(i)
  /\ compared' = Comparison(i)
  /\ borrowed' = Borrow(i)
  /\ calls' = OpenCalls(i)

HistoryInit ==
  /\ CpuInit
  /\ compared = None
  /\ borrowed = Unborrowed
  /\ calls = {}

CpuNext ==
  \/ \E i \in Code[rip] : Step(i)
  \/ Stop /\ UNCHANGED <<compared, borrowed, calls>>

CpuSpec == HistoryInit /\ [][CpuNext]_historyVars

----------------------------------------------------------------------------
Less(x, y) == \E n \in DOMAIN x : x[n] < y[n] /\ \A m \in 1 .. n - 1 : x[m] = y[m]

\* Any number of moves, pushes, calls and jumps after a comparison, the
\* conditions of setcc and jcc (parse_jcc) still say how its two operands
\* compare: unsigned always; signed where the flags are of their width, which those
\* of a byte sub (0x28) and of al and eax with an immediate (0x2c, 0x3c, 0x2d) are
\* not.  A cmp or sub of two bytes and a sign-extended one (0x83) is no comparison
\* here: its flags are those of four bytes.
ConditionsCompare ==
  \A c \in compared :
    LET x == c.lhs
        y == c.rhs
    IN  /\ Holds("e", flags) <=> x = y
        /\ Holds("ne", flags) <=> x # y
        /\ Holds("b", flags) <=> x < y
        /\ Holds("ae", flags) <=> x >= y
        /\ Holds("be", flags) <=> x <= y
        /\ Holds("a", flags) <=> x > y
        /\ c.signed =>
             /\ Holds("l", flags) <=> Signed(x, c.w) < Signed(y, c.w)
             /\ Holds("ge", flags) <=> Signed(x, c.w) >= Signed(y, c.w)
             /\ Holds("le", flags) <=> Signed(x, c.w) <= Signed(y, c.w)
             /\ Holds("g", flags) <=> Signed(x, c.w) > Signed(y, c.w)

\* A sub and the sbbs after it (0x29, 0x2b, 0x19, 0x1b) leave in the carry
\* the borrow of the whole subtraction, limb by limb, up to an sbb whose right
\* side has all bits set and whose carry is set: there rhs + carry wraps to 0
\* (runtime.rs:5017-5022) and the code loses the borrow: EverySbbBorrows.
BorrowsChain ==
  borrowed.lhs # <<>> /\ ~borrowed.lost => (flags.cf <=> Less(borrowed.lhs, borrowed.rhs))

\* The arms of 0x19 and 0x1b are "sbb r/m64, r64" (runtime.rs:4966): whatever the
\* right sides, the carry is the borrow of the whole subtraction.
EverySbbBorrows == borrowed.lhs # <<>> => (flags.cf <=> Less(borrowed.lhs, borrowed.rhs))

\* A ret (0xc3, 0xc2) at the return address of an open call goes back to the
\* instruction after that call, whatever was pushed, popped and called since.
ReturnsToCaller ==
  [][\A i \in Code[rip] : \A c \in calls :
       Step(i) /\ i.form = "ret" /\ c.slot = Top => rip' = c.ret]_historyVars
=============================================================================
