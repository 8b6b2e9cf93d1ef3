------------------------------- MODULE Words -------------------------------
(***************************************************************************)
(* The numbers of the emulated processor.  An operand has 1, 2, 4 or 8     *)
(* bytes; a register holds 8.  How many bits a width has is a parameter,   *)
(* so that small processors can be checked exhaustively; the bitwise       *)
(* operations of the host are parameters, closed on words.                 *)
(***************************************************************************)
EXTENDS Integers, FiniteSets

CONSTANTS
  BitsOf,        \* the bits of each width: 8, 16, 32 and 64 in the code
  Power,         \* Power[n] is 2^n
  And(_, _), Or(_, _), Xor(_, _)

Widths == {1, 2, 4, 8}
Modulus(w) == Power[BitsOf[w]]
Half(w) == Power[BitsOf[w] - 1]
Word == 0 .. Modulus(8) - 1

ASSUME PowersAssumption ==
  /\ BitsOf \in [Widths -> Nat \ {0}]
  /\ Power \in [0 .. BitsOf[8] -> Nat \ {0}]
  /\ Power[0] = 1
  /\ \A n \in 0 .. BitsOf[8] - 1 : Power[n + 1] = 2 * Power[n]

\* Two bytes make a word, and a word holds the flags.
ASSUME WidthsAssumption ==
  /\ BitsOf[2] = 2 * BitsOf[1]
  /\ \A w \in Widths : BitsOf[w] <= BitsOf[8] /\ Modulus(8) % Modulus(w) = 0
  /\ Modulus(2) = Modulus(1) * Modulus(1)
  /\ Modulus(8) >= 64 /\ Modulus(8) >= BitsOf[8]

ASSUME BitwiseAssumption ==
  \A x, y \in Word :
    /\ And(x, y) \in Word
    /\ Or(x, y) \in Word
    /\ Xor(x, y) \in Word

Low(x, w) == x % Modulus(w)
Wrap(x) == Low(x, 8)
Negative(x, w) == x >= Half(w)
Signed(x, w) == IF Negative(x, w) THEN x - Modulus(w) ELSE x

\* The value x of width w, sign-extended to width v.
Extend(x, w, v) == Low(Signed(x, w), v)

\* x with its low bytes replaced by the value v of width w.
Insert(x, w, v) == x - Low(x, w) + v

Ones(x, w) == {n \in 0 .. BitsOf[w] - 1 : (x \div Power[n]) % 2 = 1}
IsLowestOne(n, x) == \A k \in Ones(x, 8) : n <= k
IsHighestOne(n, x) == \A k \in Ones(x, 8) : k <= n

ASSUME OnesAssumption ==
  \A x \in Word \ {0} :
    /\ \E n \in Ones(x, 8) : IsLowestOne(n, x)
    /\ \E n \in Ones(x, 8) : IsHighestOne(n, x)

EvenParity(x) == Cardinality(Ones(x, 1)) % 2 = 0

Flags == [cf : BOOLEAN, pf : BOOLEAN, zf : BOOLEAN, sf : BOOLEAN, of : BOOLEAN, df : BOOLEAN]

LogicFlags(x, w) ==
  LET r == Low(x, w)
  IN  [cf |-> FALSE, pf |-> EvenParity(r), zf |-> r = 0, sf |-> Negative(r, w),
       of |-> FALSE, df |-> FALSE]

SumFlags(x, lhs, rhs, w) ==
  LET r == Low(x, w)
      a == Low(lhs, w)
      b == Low(rhs, w)
  IN  [cf |-> r < a, pf |-> EvenParity(r), zf |-> r = 0, sf |-> Negative(r, w),
       of |-> /\ Negative(a, w) <=> Negative(b, w)
              /\ ~(Negative(r, w) <=> Negative(a, w)),
       df |-> FALSE]

\* Mutant: the overflow of a difference without a look at the right side.
DifferenceFlagsByResult(x, lhs, rhs, w) ==
  LET r == Low(x, w)
      a == Low(lhs, w)
      b == Low(rhs, w)
  IN  [cf |-> a < b, pf |-> EvenParity(r), zf |-> r = 0, sf |-> Negative(r, w),
       of |-> ~(Negative(r, w) <=> Negative(a, w)), df |-> FALSE]

DifferenceFlags(x, lhs, rhs, w) ==
  LET r == Low(x, w)
      a == Low(lhs, w)
      b == Low(rhs, w)
  IN  [cf |-> a < b, pf |-> EvenParity(r), zf |-> r = 0, sf |-> Negative(r, w),
       of |-> /\ ~(Negative(a, w) <=> Negative(b, w))
              /\ Negative(r, w) <=> Negative(b, w),
       df |-> FALSE]

ArithFlags(x, lhs, rhs, isSub, w) ==
  IF isSub THEN DifferenceFlags(x, lhs, rhs, w) ELSE SumFlags(x, lhs, rhs, w)

\* The flags as pushfq and syscall store them, and as popfq reads them.
Bit(b, n) == IF b THEN n ELSE 0
FlagsWord(f) ==
  Bit(f.cf, 1) + Bit(f.pf, 2) + Bit(f.zf, 4) + Bit(f.sf, 8) + Bit(f.df, 16) + Bit(f.of, 32)
IsSet(x, n) == (x \div n) % 2 = 1
WordFlags(x) ==
  [cf |-> IsSet(x, 1), pf |-> IsSet(x, 2), zf |-> IsSet(x, 4), sf |-> IsSet(x, 8),
   of |-> IsSet(x, 32), df |-> IsSet(x, 16)]

Conditions ==
  {"o", "no", "b", "ae", "e", "ne", "be", "a", "s", "ns", "p", "np", "l", "ge", "le", "g"}

Holds(cc, f) ==
  CASE cc = "o" -> f.of
    [] cc = "no" -> ~f.of
    [] cc = "b" -> f.cf
    [] cc = "ae" -> ~f.cf
    [] cc = "e" -> f.zf
    [] cc = "ne" -> ~f.zf
    [] cc = "be" -> f.cf \/ f.zf
    [] cc = "a" -> ~f.cf /\ ~f.zf
    [] cc = "s" -> f.sf
    [] cc = "ns" -> ~f.sf
    [] cc = "p" -> f.pf
    [] cc = "np" -> ~f.pf
    [] cc = "l" -> ~(f.sf <=> f.of)
    [] cc = "ge" -> f.sf <=> f.of
    [] cc = "le" -> f.zf \/ ~(f.sf <=> f.of)
    [] cc = "g" -> ~f.zf /\ (f.sf <=> f.of)
=============================================================================
