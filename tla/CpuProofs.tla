----------------------------- MODULE CpuProofs -----------------------------
(***************************************************************************)
(* Proofs about the processor, for every number of bits: registers and     *)
(* memory hold words, the flags of a difference compare its operands, the  *)
(* carry of a chain of sbb is the borrow of the whole while no limb loses   *)
(* it, and a return goes where its call said.                              *)
(***************************************************************************)
EXTENDS CpuHistory, TLAPS

-----------------------------------------------------------------------------
(* Division.                                                               *)

LEMMA DivisionWithRest ==
  ASSUME NEW p \in Nat \ {0}, NEW n \in Int
  PROVE  /\ n = p * (n \div p) + (n % p)
         /\ n \div p \in Int
         /\ p * (n \div p) \in Int
         /\ n % p \in 0 .. p - 1
<1>1. n = p * (n \div p) + (n % p) /\ n \div p \in Int BY SMT
<1>2. n % p \in 0 .. p - 1 BY SMT
<1>3. p * (n \div p) \in Int BY <1>1
<1>4. QED BY <1>1, <1>2, <1>3

LEMMA NextMultiple ==
  ASSUME NEW p \in Nat \ {0}, NEW a \in Int, NEW b \in Int, a < b
  PROVE  p * a + p <= p * b
<1>1. p * (b - a) >= p BY SMT
<1>2. p * (b - a) = p * b - p * a BY SMT
<1>3. p * a \in Int /\ p * b \in Int OBVIOUS
<1>4. QED BY <1>1, <1>2, <1>3

LEMMA RestIsUnique ==
  ASSUME NEW p \in Nat \ {0}, NEW q \in Int, NEW r \in 0 .. p - 1, NEW n \in Int, n = p * q + r
  PROVE  n % p = r
<1> DEFINE k == n \div p
           s == n % p
<1>1. n = p * k + s /\ k \in Int /\ s \in 0 .. p - 1 /\ p * k \in Int BY DivisionWithRest
<1>2. p * q \in Int OBVIOUS
<1> HIDE DEF k, s
<1>3. CASE q < k
  <2>1. p * q + p <= p * k BY <1>1, <1>3, NextMultiple
  <2>2. QED BY <1>1, <1>2, <2>1
<1>4. CASE k < q
  <2>1. p * k + p <= p * q BY <1>1, <1>4, NextMultiple
  <2>2. QED BY <1>1, <1>2, <2>1
<1>5. CASE k = q
  <2>1. p * k = p * q BY <1>5
  <2>2. s = r BY <1>1, <1>2, <2>1
  <2>3. QED BY <2>2 DEF s
<1>6. QED BY <1>1, <1>3, <1>4, <1>5

LEMMA RestOfSmall ==
  ASSUME NEW p \in Nat \ {0}, NEW r \in 0 .. p - 1 PROVE r % p = r
BY SMT

\* A multiple of p does not change the rest.
LEMMA RestOfSum ==
  ASSUME NEW p \in Nat \ {0}, NEW k \in Int, NEW n \in Int PROVE (n + p * k) % p = n % p
<1> DEFINE q == n \div p
           r == n % p
<1>1. n = p * q + r /\ q \in Int /\ r \in 0 .. p - 1 BY DivisionWithRest
<1>2. (n + p * k) % p = r
  <2> HIDE DEF q, r
  <2>1. p * k \in Int /\ p * q \in Int BY <1>1
  <2>2. p * (q + k) = p * q + p * k BY <1>1, SMT
  <2>3. n + p * k = p * (q + k) + r BY <1>1, <2>1, <2>2
  <2>4. q + k \in Int /\ n + p * k \in Int BY <1>1, <2>1
  <2>5. QED BY <1>1, <2>3, <2>4, RestIsUnique
<1>3. QED BY <1>2

-----------------------------------------------------------------------------
(* Words.                                                                  *)

LEMMA WidthFacts ==
  ASSUME NEW w \in Widths
  PROVE  /\ BitsOf[w] \in Nat \ {0}
         /\ BitsOf[w] <= BitsOf[8]
         /\ Modulus(w) \in Nat \ {0}
         /\ Half(w) \in Nat \ {0}
         /\ Modulus(w) = 2 * Half(w)
<1>1. BitsOf[w] \in Nat \ {0} /\ BitsOf[8] \in Nat \ {0} BY PowersAssumption DEF Widths
<1>2. BitsOf[w] <= BitsOf[8] BY WidthsAssumption
<1>3. BitsOf[w] \in 0 .. BitsOf[8] /\ BitsOf[w] - 1 \in 0 .. BitsOf[8] - 1
      /\ BitsOf[w] - 1 \in 0 .. BitsOf[8]
  BY <1>1, <1>2
<1>4. Power[BitsOf[w]] \in Nat \ {0} /\ Power[BitsOf[w] - 1] \in Nat \ {0}
  BY <1>3, PowersAssumption
<1>5. Power[(BitsOf[w] - 1) + 1] = 2 * Power[BitsOf[w] - 1] BY <1>3, PowersAssumption
<1>6. (BitsOf[w] - 1) + 1 = BitsOf[w] BY <1>1
<1>7. QED BY <1>1, <1>2, <1>4, <1>5, <1>6 DEF Modulus, Half

LEMMA PowerFacts ==
  ASSUME NEW n \in 0 .. BitsOf[8] PROVE Power[n] \in Nat \ {0}
BY PowersAssumption

\* The modulus of a word is a multiple of that of a width.
LEMMA Multiples ==
  ASSUME NEW w \in Widths
  PROVE  \E k \in Nat : Modulus(8) = Modulus(w) * k
<1>1. Modulus(8) \in Nat \ {0} /\ Modulus(w) \in Nat \ {0} BY WidthFacts DEF Widths
<1>2. Modulus(8) % Modulus(w) = 0 BY WidthsAssumption
<1>3. PICK k \in Int : /\ Modulus(8) = Modulus(w) * k + (Modulus(8) % Modulus(w))
                       /\ Modulus(w) * k \in Int
  <2>1. Modulus(8) \in Int BY <1>1
  <2>2. QED BY <1>1, <2>1, DivisionWithRest
<1>4. Modulus(8) = Modulus(w) * k BY <1>1, <1>2, <1>3
<1>5. ~(k < 0)
  <2>1. SUFFICES ASSUME k < 0 PROVE FALSE OBVIOUS
  <2>2. Modulus(w) * k + Modulus(w) <= Modulus(w) * 0 BY <1>1, <1>3, <2>1, NextMultiple
  <2>3. Modulus(w) * 0 = 0 BY <1>1
  <2>4. QED BY <1>1, <1>3, <1>4, <2>2, <2>3
<1>6. QED BY <1>3, <1>4, <1>5

LEMMA WidthWithinWord ==
  ASSUME NEW w \in Widths PROVE Modulus(w) <= Modulus(8)
<1>1. PICK k \in Nat : Modulus(8) = Modulus(w) * k BY Multiples
<1>2. Modulus(8) \in Nat \ {0} /\ Modulus(w) \in Nat \ {0} BY WidthFacts DEF Widths
<1>3. k # 0
  <2>1. SUFFICES ASSUME k = 0 PROVE FALSE OBVIOUS
  <2>2. Modulus(w) * 0 = 0 BY <1>2
  <2>3. QED BY <1>1, <1>2, <2>1, <2>2
<1>4. Modulus(w) * 0 + Modulus(w) <= Modulus(w) * k BY <1>2, <1>3, NextMultiple
<1>5. Modulus(w) * 0 = 0 BY <1>2
<1>6. QED BY <1>1, <1>2, <1>4, <1>5

LEMMA LowRange ==
  ASSUME NEW w \in Widths, NEW x \in Int
  PROVE  Low(x, w) \in 0 .. Modulus(w) - 1 /\ Low(x, w) \in Word /\ Low(x, w) \in Nat
<1>1. Modulus(w) \in Nat \ {0} /\ Modulus(8) \in Nat \ {0} BY WidthFacts DEF Widths
<1>2. x % Modulus(w) \in 0 .. Modulus(w) - 1 BY <1>1, DivisionWithRest
<1>3. Modulus(w) <= Modulus(8) BY WidthWithinWord
<1>4. QED BY <1>1, <1>2, <1>3 DEF Low, Word

LEMMA WrapRange ==
  ASSUME NEW x \in Int PROVE Wrap(x) \in Word
BY LowRange DEF Wrap, Widths

LEMMA LowOfSmall ==
  ASSUME NEW w \in Widths, NEW x \in 0 .. Modulus(w) - 1 PROVE Low(x, w) = x
BY WidthFacts, RestOfSmall DEF Low

\* Cutting to a word first changes nothing of a shorter width.
LEMMA LowOfWrap ==
  ASSUME NEW w \in Widths, NEW x \in Int PROVE Low(Wrap(x), w) = Low(x, w)
<1>1. Modulus(w) \in Nat \ {0} /\ Modulus(8) \in Nat \ {0} BY WidthFacts DEF Widths
<1>2. PICK k \in Nat : Modulus(8) = Modulus(w) * k BY Multiples
<1> DEFINE q == x \div Modulus(8)
           r == x % Modulus(8)
<1>3. x = Modulus(8) * q + r /\ q \in Int /\ r \in 0 .. Modulus(8) - 1 BY <1>1, DivisionWithRest
<1> HIDE DEF q
<1>4. Modulus(8) * q = Modulus(w) * (k * q)
  BY <1>1, <1>2, <1>3, SMT
<1>5. k * q \in Int /\ Modulus(w) * (k * q) \in Int /\ r \in Int BY <1>1, <1>2, <1>3
<1>6. x = r + Modulus(w) * (k * q) BY <1>3, <1>4, <1>5
<1>7. (r + Modulus(w) * (k * q)) % Modulus(w) = r % Modulus(w) BY <1>1, <1>5, RestOfSum
<1>8. x % Modulus(w) = r % Modulus(w) BY <1>6, <1>7
<1>9. QED BY <1>8 DEF Low, Wrap

LEMMA LowOfDifference ==
  ASSUME NEW w \in Widths, NEW x \in Int, NEW y \in Int
  PROVE  Low(x - y, w) = IF Low(x, w) >= Low(y, w) THEN Low(x, w) - Low(y, w)
                         ELSE Low(x, w) - Low(y, w) + Modulus(w)
<1> DEFINE p == Modulus(w)
<1>1. p \in Nat \ {0} BY WidthFacts
<1>2. /\ x = p * (x \div p) + Low(x, w) /\ x \div p \in Int
      /\ Low(x, w) \in 0 .. p - 1 /\ p * (x \div p) \in Int
  BY <1>1, DivisionWithRest DEF Low
<1>3. /\ y = p * (y \div p) + Low(y, w) /\ y \div p \in Int
      /\ Low(y, w) \in 0 .. p - 1 /\ p * (y \div p) \in Int
  BY <1>1, DivisionWithRest DEF Low
<1>4. ASSUME NEW q \in Int, NEW s \in Int, NEW a \in 0 .. p - 1, NEW b \in 0 .. p - 1,
             x = p * q + a, y = p * s + b
      PROVE  (x - y) % p = IF a >= b THEN a - b ELSE a - b + p
  <2> HIDE DEF p
  <2>1. p * q \in Int /\ p * s \in Int BY <1>1
  <2>2. p * (q - s) = p * q - p * s /\ p * (q - s) \in Int BY <1>1, SMT
  <2>3. p * (q - s - 1) = p * q - p * s - p /\ q - s - 1 \in Int BY <1>1, SMT
  <2>4. x - y \in Int OBVIOUS
  <2>5. CASE a >= b
    <3>1. x - y = p * (q - s) + (a - b) BY <1>4, <2>1, <2>2, <1>1
    <3>2. a - b \in 0 .. p - 1 BY <1>1, <2>5
    <3>3. PICK k \in Int, r \in 0 .. p - 1 : k = q - s /\ r = a - b BY <3>2
    <3>4. x - y = p * k + r BY <3>1, <3>3
    <3>5. (x - y) % p = r BY <1>1, <2>4, <3>4, RestIsUnique
    <3>6. QED BY <2>5, <3>3, <3>5
  <2>6. CASE ~(a >= b)
    <3>1. x - y = p * (q - s - 1) + (a - b + p) BY <1>4, <2>1, <2>3, <1>1
    <3>2. a - b + p \in 0 .. p - 1 BY <1>1, <2>6
    <3>3. PICK k \in Int, r \in 0 .. p - 1 : k = q - s - 1 /\ r = a - b + p BY <2>3, <3>2
    <3>4. x - y = p * k + r BY <3>1, <3>3
    <3>5. (x - y) % p = r BY <1>1, <2>4, <3>4, RestIsUnique
    <3>6. QED BY <2>6, <3>3, <3>5
  <2>7. QED BY <2>5, <2>6
<1> HIDE DEF p
<1>5. (x - y) % p = IF Low(x, w) >= Low(y, w) THEN Low(x, w) - Low(y, w)
                    ELSE Low(x, w) - Low(y, w) + p
  BY <1>2, <1>3, <1>4
<1>6. QED BY <1>5 DEF Low, p

\* Flags that compare x and y: unsigned in the carry, signed in the sign and
\* the overflow.
SaysLess(f, x, y) == (f.zf <=> x = y) /\ (f.cf <=> x < y)
SaysSignedLess(f, x, y, w) == (f.sf <=> f.of) <=> Signed(x, w) >= Signed(y, w)

\* update_flags_arith_width, for a subtraction: the flags of a difference at
\* width w compare the low parts of its operands.
LEMMA DifferenceCompares ==
  ASSUME NEW w \in Widths, NEW x \in Int, NEW y \in Int, NEW z \in Int,
         Low(z, w) = Low(x - y, w)
  PROVE  /\ SaysLess(DifferenceFlags(z, x, y, w), Low(x, w), Low(y, w))
         /\ SaysSignedLess(DifferenceFlags(z, x, y, w), Low(x, w), Low(y, w), w)
<1> DEFINE f == DifferenceFlags(z, x, y, w)
<1>1. /\ f.cf <=> Low(x, w) < Low(y, w)
      /\ f.zf <=> Low(z, w) = 0
      /\ f.sf <=> Negative(Low(z, w), w)
      /\ f.of <=> /\ ~(Negative(Low(x, w), w) <=> Negative(Low(y, w), w))
                  /\ Negative(Low(z, w), w) <=> Negative(Low(y, w), w)
  BY DEF DifferenceFlags
<1> HIDE DEF f
<1>2. PICK p \in Nat, h \in Nat, a \in Nat, b \in Nat :
        /\ p = Modulus(w) /\ h = Half(w) /\ p = 2 * h
        /\ a = Low(x, w) /\ b = Low(y, w) /\ a < p /\ b < p
  <2>1. Modulus(w) \in Nat /\ Half(w) \in Nat /\ Modulus(w) = 2 * Half(w) BY WidthFacts
  <2>2. Low(x, w) \in Nat /\ Low(x, w) < Modulus(w) BY <2>1, LowRange
  <2>3. Low(y, w) \in Nat /\ Low(y, w) < Modulus(w) BY <2>1, LowRange
  <2>4. QED BY <2>1, <2>2, <2>3
<1>3. Low(z, w) = IF a >= b THEN a - b ELSE a - b + p BY <1>2, LowOfDifference
<1>4. SaysLess(f, a, b) BY <1>1, <1>2, <1>3 DEF SaysLess
<1>5. SaysSignedLess(f, a, b, w)
  <2>1. Signed(a, w) = (IF a >= h THEN a - p ELSE a) /\ Signed(b, w) = (IF b >= h THEN b - p ELSE b)
    BY <1>2 DEF Signed, Negative
  <2>2. /\ f.sf <=> Low(z, w) >= h
        /\ f.of <=> ~(a >= h <=> b >= h) /\ (Low(z, w) >= h <=> b >= h)
    BY <1>1, <1>2 DEF Negative
  <2>3. (f.sf <=> f.of) <=> (Low(z, w) >= h <=> (~(a >= h <=> b >= h) /\ (Low(z, w) >= h <=> b >= h)))
    BY <2>2
  <2>4. (Low(z, w) >= h <=> (~(a >= h <=> b >= h) /\ (Low(z, w) >= h <=> b >= h)))
          <=> Signed(a, w) >= Signed(b, w)
    BY <1>2, <1>3, <2>1
  <2>5. QED BY <2>3, <2>4 DEF SaysSignedLess
<1>6. QED BY <1>2, <1>4, <1>5 DEF f

-----------------------------------------------------------------------------
(* Parts of words.                                                         *)

\* What is below k blocks of p numbers lies in one of them.
LEMMA BlockOf ==
  ASSUME NEW p \in Nat \ {0}, NEW k \in Nat, NEW n \in 0 .. p * k - 1
  PROVE  /\ n \div p \in Nat
         /\ n \div p < k
         /\ n = p * (n \div p) + (n % p)
         /\ n % p \in 0 .. p - 1
<1>1. p * k \in Nat /\ n \in Int OBVIOUS
<1>2. /\ n = p * (n \div p) + (n % p)
      /\ n \div p \in Int
      /\ p * (n \div p) \in Int
      /\ n % p \in 0 .. p - 1
  BY <1>1, DivisionWithRest
<1>3. ASSUME NEW q \in Int, NEW r \in 0 .. p - 1, n = p * q + r PROVE q \in Nat /\ q < k
  <2>1. p * q \in Int OBVIOUS
  <2>2. ~(q < 0)
    <3>1. SUFFICES ASSUME q < 0 PROVE FALSE OBVIOUS
    <3>2. p * q + p <= p * 0 BY <3>1, NextMultiple
    <3>3. p * 0 = 0 OBVIOUS
    <3>4. QED BY <1>3, <2>1, <3>2, <3>3
  <2>3. ~(k < q)
    <3>1. SUFFICES ASSUME k < q PROVE FALSE OBVIOUS
    <3>2. p * k + p <= p * q BY <3>1, NextMultiple
    <3>3. QED BY <1>1, <1>3, <2>1, <3>2
  <2>4. ~(k = q)
    <3>1. SUFFICES ASSUME k = q PROVE FALSE OBVIOUS
    <3>2. p * k = p * q BY <3>1
    <3>3. QED BY <1>1, <1>3, <2>1, <3>2
  <2>5. QED BY <2>2, <2>3, <2>4
<1>4. QED BY <1>2, <1>3

\* Another rest stays in the block.
LEMMA ReplaceRest ==
  ASSUME NEW p \in Nat \ {0}, NEW k \in Nat, NEW n \in 0 .. p * k - 1, NEW v \in 0 .. p - 1
  PROVE  n - (n % p) + v \in 0 .. p * k - 1
<1>1. PICK q \in Nat, r \in 0 .. p - 1 : n = p * q + r /\ q < k /\ r = n % p BY BlockOf
<1>2. p * q + p <= p * k BY <1>1, NextMultiple
<1>3. p * q \in Nat /\ p * k \in Nat OBVIOUS
<1>4. n - r + v = p * q + v BY <1>1, <1>3
<1>5. p * q + v \in 0 .. p * k - 1 BY <1>2, <1>3
<1>6. QED BY <1>1, <1>4, <1>5

LEMMA InsertType ==
  ASSUME NEW w \in Widths, NEW x \in Word, NEW v \in 0 .. Modulus(w) - 1
  PROVE  Insert(x, w, v) \in Word
<1>1. PICK k \in Nat : Modulus(8) = Modulus(w) * k BY Multiples
<1>2. Modulus(w) \in Nat \ {0} BY WidthFacts
<1>3. x \in 0 .. Modulus(w) * k - 1 BY <1>1 DEF Word
<1>4. x - (x % Modulus(w)) + v \in 0 .. Modulus(w) * k - 1 BY <1>2, <1>3, ReplaceRest
<1>5. QED BY <1>1, <1>4 DEF Insert, Low, Word

LEMMA InsertHighType ==
  ASSUME NEW x \in Word, NEW v \in 0 .. Modulus(1) - 1
  PROVE  InsertHigh(x, v) \in Word
<1> DEFINE p == Modulus(1)
<1>1. p \in Nat \ {0} BY WidthFacts DEF Widths
<1>2. PICK k \in Nat : Modulus(8) = p * (p * k) /\ p * k \in Nat
  <2>1. PICK k \in Nat : Modulus(8) = Modulus(2) * k BY Multiples DEF Widths
  <2>2. Modulus(2) = p * p BY WidthsAssumption
  <2>3. (p * p) * k = p * (p * k) /\ p * k \in Nat BY <1>1, SMT
  <2>4. QED BY <2>1, <2>2, <2>3
<1> HIDE DEF p
<1>3. x \in 0 .. p * (p * k) - 1 BY <1>2 DEF Word
<1>4. PICK q \in Nat, r \in 0 .. p - 1 : x = p * q + r /\ q < p * k /\ q = x \div p
  BY <1>1, <1>2, <1>3, BlockOf
<1>5. q \in 0 .. p * k - 1 BY <1>2, <1>4
<1>6. v \in 0 .. p - 1 BY DEF p
<1>7. q - (q % p) + v \in 0 .. p * k - 1 BY <1>1, <1>5, <1>6, ReplaceRest
<1>8. PICK t \in 0 .. p * k - 1, s \in 0 .. p - 1 : t = q - s + v /\ s = q % p
  <2>1. q % p \in 0 .. p - 1 BY <1>1, <1>4, DivisionWithRest
  <2>2. QED BY <1>7, <2>1
<1>9. InsertHigh(x, v) = x + (v - s) * p BY <1>4, <1>8 DEF InsertHigh, Low, p
<1>10. x + (v - s) * p = p * t + r
  <2>1. p * t = p * q + (v - s) * p BY <1>1, <1>4, <1>6, <1>8, SMT
  <2>2. p * t \in Int /\ p * q \in Int /\ (v - s) * p \in Int BY <1>1, <1>4, <1>6, <1>8
  <2>3. QED BY <1>4, <2>1, <2>2
<1>11. p * t + r \in 0 .. p * (p * k) - 1
  <2>1. t \in Nat /\ t < p * k BY <1>2, <1>8
  <2>2. p * t + p <= p * (p * k) BY <1>1, <1>2, <2>1, NextMultiple
  <2>3. p * t \in Nat /\ p * (p * k) \in Nat BY <1>1, <1>2, <2>1
  <2>4. QED BY <1>1, <1>4, <2>2, <2>3
<1>12. QED BY <1>2, <1>9, <1>10, <1>11 DEF Word

-----------------------------------------------------------------------------
(* Types.                                                                  *)

MachineOK ==
  /\ regs \in [Registers -> Word]
  /\ cpuMem \in [Slots -> Word]

TypeOK ==
  /\ cpuStatus \in {"running", "exited", "faulted", "error"}
  /\ steps \in Nat
  /\ rip \in Word
  /\ MachineOK
  /\ flags \in Flags
  /\ fsBase \in Word

LEMMA WordFacts ==
  /\ 1 \in Widths /\ 2 \in Widths /\ 4 \in Widths /\ 8 \in Widths
  /\ Word \subseteq Nat
  /\ 0 \in Word
  /\ Modulus(8) \in Nat \ {0}
  /\ \A x \in Word : Low(x, 8) = x
<1>1. Modulus(8) \in Nat \ {0} BY WidthFacts DEF Widths
<1>2. \A x \in Word : Low(x, 8) = x BY LowOfSmall DEF Word, Widths
<1>3. QED BY <1>1, <1>2 DEF Word, Widths

LEMMA InstructionFacts ==
  ASSUME NEW i \in Instructions
  PROVE  /\ i.w \in Widths
         /\ i.dst \in Operands
         /\ i.src \in Operands
         /\ i.form = "xchg" => i.src.kind = "reg"
         /\ i.form = "lea" => i.src.kind = "mem"
         /\ i.form = "cbw" => i.w # 1
BY DEF Instructions

LEMMA OperandFacts ==
  ASSUME NEW o \in Operands
  PROVE  /\ o.kind \in {"reg", "mem", "imm"}
         /\ o.kind = "reg" => o.reg \in Registers
         /\ o.kind = "mem" => /\ o.base \in Option(Registers) /\ o.index \in Option(Registers)
                              /\ o.scale \in Nat /\ o.disp \in Word
         /\ o.kind = "imm" => o.val \in Word
<1>1. CASE o \in [kind : {"reg"}, reg : Registers, high : {FALSE}] BY <1>1
<1>2. CASE o \in [kind : {"reg"}, reg : HighByte, high : {TRUE}] BY <1>2 DEF HighByte, Registers
<1>3. CASE o \in [kind : {"mem"}, base : Option(Registers), index : Option(Registers),
                  scale : {1, 2, 4, 8}, disp : Word, fs : BOOLEAN]
  BY <1>3
<1>4. CASE o \in [kind : {"imm"}, val : Word] BY <1>4
<1>5. QED BY <1>1, <1>2, <1>3, <1>4 DEF Operands

LEMMA ValueType ==
  ASSUME MachineOK, NEW r \in Option(Registers) PROVE ValueOf(r) \in Word
<1>1. CASE r = None BY <1>1, WordFacts DEF ValueOf
<1>2. CASE r # None
  <2>1. \E s \in Registers : r = Some(s) BY <1>2 DEF Option
  <2>2. (CHOOSE s \in Registers : r = Some(s)) \in Registers BY <2>1
  <2>3. QED BY <1>2, <2>2 DEF ValueOf, MachineOK
<1>3. QED BY <1>1, <1>2

LEMMA AddressType ==
  ASSUME MachineOK, fsBase \in Word, NEW o \in Operands, o.kind = "mem"
  PROVE  Address(o) \in Word
<1>1. /\ o.base \in Option(Registers) /\ o.index \in Option(Registers)
      /\ o.scale \in Nat /\ o.disp \in Word
  BY OperandFacts
<1>2. ValueOf(o.base) \in Nat /\ ValueOf(o.index) \in Nat /\ o.disp \in Nat /\ fsBase \in Nat
  BY <1>1, ValueType, WordFacts
<1>3. o.scale * ValueOf(o.index) \in Nat BY <1>1, <1>2
<1>4. ValueOf(o.base) + o.scale * ValueOf(o.index) + o.disp \in Int BY <1>2, <1>3
<1>5. Effective(o) \in Word BY <1>4, WrapRange DEF Effective
<1>6. (IF o.fs THEN fsBase ELSE 0) \in Int BY <1>2
<1>7. Effective(o) \in Int
  <2>1. Word \subseteq Int BY DEF Word
  <2>2. QED BY <1>5, <2>1
<1>8. Effective(o) + (IF o.fs THEN fsBase ELSE 0) \in Int BY <1>6, <1>7
<1>9. QED BY <1>8, WrapRange DEF Address

LEMMA ContentType ==
  ASSUME MachineOK, NEW o \in Operands, o.kind = "mem" => Address(o) \in Slots
  PROVE  Content(o) \in Nat
<1>1. CASE o.kind = "reg"
  <2>1. regs[o.reg] \in Nat BY <1>1, OperandFacts, WordFacts DEF MachineOK
  <2>2. Modulus(1) \in Nat \ {0} BY WidthFacts, WordFacts
  <2>3. regs[o.reg] \div Modulus(1) \in Nat BY <2>1, <2>2, SMT
  <2>4. QED BY <1>1, <2>1, <2>3 DEF Content
<1>2. CASE o.kind = "mem" BY <1>2, WordFacts DEF Content, MachineOK
<1>3. CASE o.kind = "imm" BY <1>3, OperandFacts, WordFacts DEF Content
<1>4. QED BY <1>1, <1>2, <1>3, OperandFacts

LEMMA ReadType ==
  ASSUME MachineOK, NEW o \in Operands, o.kind = "mem" => Address(o) \in Slots, NEW w \in Widths
  PROVE  /\ Rd(o, w) \in 0 .. Modulus(w) - 1
         /\ Rd(o, w) \in Word
         /\ Rd(o, w) \in Nat
<1>1. Content(o) \in Int BY ContentType
<1>2. QED BY <1>1, LowRange DEF Rd

LEMMA MergeType ==
  ASSUME NEW x \in Word, NEW w \in Widths, NEW v \in 0 .. Modulus(w) - 1, v \in Word
  PROVE  Merge(x, w, v) \in Word
BY InsertType DEF Merge

LEMMA WriteAsType ==
  ASSUME MachineOK, NEW o \in Operands, NEW w \in Widths, NEW m \in Widths, NEW v \in Int,
         WriteAs(o, w, m, v)
  PROVE  MachineOK'
<1>1. CASE o.kind = "reg" /\ UNCHANGED cpuMem
           /\ regs' = [regs EXCEPT ![o.reg] = IF o.high THEN InsertHigh(@, Low(v, 1))
                                                        ELSE Merge(@, w, Low(v, w))]
  <2>1. Low(v, 1) \in 0 .. Modulus(1) - 1 /\ Low(v, w) \in 0 .. Modulus(w) - 1 /\ Low(v, w) \in Word
    BY LowRange, WordFacts
  <2>2. o.reg \in Registers /\ regs[o.reg] \in Word BY <1>1, OperandFacts DEF MachineOK
  <2>3. InsertHigh(regs[o.reg], Low(v, 1)) \in Word BY <2>1, <2>2, InsertHighType
  <2>4. Merge(regs[o.reg], w, Low(v, w)) \in Word BY <2>1, <2>2, MergeType
  <2>5. regs' \in [Registers -> Word] BY <1>1, <2>2, <2>3, <2>4 DEF MachineOK
  <2>6. QED BY <1>1, <2>5 DEF MachineOK
<1>2. CASE o.kind = "mem" /\ UNCHANGED regs
           /\ cpuMem' = [cpuMem EXCEPT ![Address(o)] = Insert(@, m, Low(v, m))]
  <2>1. Low(v, m) \in 0 .. Modulus(m) - 1 BY LowRange
  <2>2. ASSUME Address(o) \in Slots PROVE Insert(cpuMem[Address(o)], m, Low(v, m)) \in Word
    BY <2>1, <2>2, InsertType DEF MachineOK
  <2>3. cpuMem' \in [Slots -> Word] BY <1>2, <2>2 DEF MachineOK
  <2>4. QED BY <1>2, <2>3 DEF MachineOK
<1>3. QED BY <1>1, <1>2 DEF WriteAs

LEMMA WriteType ==
  ASSUME MachineOK, NEW o \in Operands, NEW w \in Widths, NEW v \in Int, Wr(o, w, v)
  PROVE  MachineOK'
BY WriteAsType DEF Wr

LEMMA SetRegisterType ==
  ASSUME MachineOK, NEW r, NEW v \in Word, SetRegister(r, v)
  PROVE  MachineOK'
BY DEF MachineOK, SetRegister

LEMMA FlagsType ==
  ASSUME NEW x, NEW y, NEW z, NEW w
  PROVE  /\ DifferenceFlags(z, x, y, w) \in Flags
         /\ SumFlags(z, x, y, w) \in Flags
         /\ \A s : ArithFlags(z, x, y, s, w) \in Flags
         /\ LogicFlags(z, w) \in Flags
         /\ WordFlags(z) \in Flags
<1>a. ASSUME NEW u, NEW v PROVE (u < v) \in BOOLEAN /\ (u = v) \in BOOLEAN
  OBVIOUS
<1>b. ASSUME NEW u PROVE Negative(u, w) \in BOOLEAN /\ EvenParity(u) \in BOOLEAN
  BY DEF Negative, EvenParity
<1>1. DifferenceFlags(z, x, y, w) \in Flags
  <2> DEFINE a == Low(x, w)
             b == Low(y, w)
             r == Low(z, w)
             of == ~(Negative(a, w) <=> Negative(b, w)) /\ (Negative(r, w) <=> Negative(b, w))
  <2>1. /\ (a < b) \in BOOLEAN /\ (r = 0) \in BOOLEAN
        /\ Negative(r, w) \in BOOLEAN /\ EvenParity(r) \in BOOLEAN /\ of \in BOOLEAN
    BY <1>a, <1>b
  <2>2. DifferenceFlags(z, x, y, w)
          = [cf |-> a < b, pf |-> EvenParity(r), zf |-> r = 0, sf |-> Negative(r, w),
             of |-> of, df |-> FALSE]
    BY DEF DifferenceFlags
  <2> HIDE DEF a, b, r, of
  <2>3. QED BY <2>1, <2>2 DEF Flags
<1>2. SumFlags(z, x, y, w) \in Flags
  <2> DEFINE a == Low(x, w)
             b == Low(y, w)
             r == Low(z, w)
             of == (Negative(a, w) <=> Negative(b, w)) /\ ~(Negative(r, w) <=> Negative(a, w))
  <2>1. /\ (r < a) \in BOOLEAN /\ (r = 0) \in BOOLEAN
        /\ Negative(r, w) \in BOOLEAN /\ EvenParity(r) \in BOOLEAN /\ of \in BOOLEAN
    BY <1>a, <1>b
  <2>2. SumFlags(z, x, y, w)
          = [cf |-> r < a, pf |-> EvenParity(r), zf |-> r = 0, sf |-> Negative(r, w),
             of |-> of, df |-> FALSE]
    BY DEF SumFlags
  <2> HIDE DEF a, b, r, of
  <2>3. QED BY <2>1, <2>2 DEF Flags
<1>3. LogicFlags(z, w) \in Flags
  <2>1. (Low(z, w) = 0) \in BOOLEAN /\ Negative(Low(z, w), w) \in BOOLEAN
        /\ EvenParity(Low(z, w)) \in BOOLEAN
    BY DEF Negative, EvenParity
  <2>2. QED BY <2>1 DEF LogicFlags, Flags
<1>4. WordFlags(z) \in Flags BY DEF WordFlags, Flags, IsSet
<1>5. QED BY <1>1, <1>2, <1>3, <1>4 DEF ArithFlags

LEMMA ChosenFlagsType ==
  ASSUME NEW op, NEW x, NEW y, NEW z, NEW w, NEW v
  PROVE  /\ (IF IsLogic(op) THEN LogicFlags(z, v) ELSE ArithFlags(z, x, y, IsSub(op), w)) \in Flags
         /\ ArithFlags(z, x, y, op \in {"sub", "cmp"}, w) \in Flags
<1>1. DifferenceFlags(z, x, y, w) \in Flags /\ SumFlags(z, x, y, w) \in Flags
      /\ LogicFlags(z, v) \in Flags
  BY FlagsType
<1>2. ArithFlags(z, x, y, IsSub(op), w) \in Flags
  BY <1>1 DEF ArithFlags
<1>3. ArithFlags(z, x, y, op \in {"sub", "cmp"}, w) \in Flags
  BY <1>1 DEF ArithFlags
<1>4. QED BY <1>1, <1>2, <1>3

LEMMA FlagsWordType == FlagsWord(flags) \in Word
<1>1. ASSUME NEW n \in Nat, NEW b PROVE Bit(b, n) \in {0, n} BY DEF Bit
<1>2. PICK a \in {0, 1}, b \in {0, 2}, c \in {0, 4}, d \in {0, 8}, e \in {0, 16}, f \in {0, 32} :
        FlagsWord(flags) = a + b + c + d + e + f
  BY <1>1 DEF FlagsWord
<1>3. FlagsWord(flags) \in 0 .. 63 BY <1>2
<1>4. Modulus(8) >= 64 BY WidthsAssumption
<1>5. QED BY <1>3, <1>4, WordFacts DEF Word

LEMMA CarryType == Carry \in {0, 1}
BY DEF Carry

SumOps == {"add", "adc", "sub", "cmp", "sbb"}
LogicOps == {"and", "or", "xor"}

LEMMA OutcomeType ==
  ASSUME NEW op \in SumOps \cup LogicOps, NEW x \in Word, NEW y \in Word
  PROVE  Outcome(op, x, y) \in Word
<1>1. CASE op \in LogicOps BY <1>1, BitwiseAssumption DEF Outcome, IsLogic, Logic, LogicOps
<1>2. x \in Int /\ y \in Int /\ Carry \in Int BY WordFacts, CarryType
<1>3. Wrap(x + y) \in Word /\ Wrap(x + y + Carry) \in Word /\ Wrap(x - y) \in Word
      /\ Wrap(x - y - Carry) \in Word
  BY <1>2, WrapRange
<1>4. CASE op \in SumOps BY <1>3, <1>4 DEF Outcome, IsLogic, SumOps
<1>5. QED BY <1>1, <1>4

ShiftOps == {"shl", "sal", "shr", "sar", "rol", "ror"}

LEMMA SignedType ==
  ASSUME NEW w \in Widths, NEW x \in Int PROVE Signed(x, w) \in Int
BY WidthFacts DEF Signed

LEMMA ShiftedType ==
  ASSUME NEW op \in ShiftOps, NEW w \in Widths, NEW x \in Int, NEW n \in 0 .. BitsOf[w]
  PROVE  Shifted(op, x, n, w) \in Int
<1>1. BitsOf[w] \in Nat /\ BitsOf[w] <= BitsOf[8] /\ BitsOf[8] \in Nat BY WidthFacts, WordFacts
<1>2. n \in 0 .. BitsOf[8] /\ BitsOf[w] - n \in 0 .. BitsOf[8] /\ BitsOf[w] - n \in 0 .. BitsOf[w]
      /\ BitsOf[w] - (BitsOf[w] - n) = n
  BY <1>1
<1>3. ASSUME NEW k \in 0 .. BitsOf[8], NEW y \in Int
      PROVE  Low(y * Power[k], w) \in Int /\ y \div Power[k] \in Int
  <2>1. Power[k] \in Nat \ {0} BY PowerFacts
  <2>2. y * Power[k] \in Int BY <2>1
  <2>3. y \div Power[k] \in Int BY <2>1, SMT
  <2>4. Low(y * Power[k], w) \in Nat BY <2>2, LowRange
  <2>5. QED BY <2>3, <2>4
<1>4. Low(Signed(x, w) \div Power[n], w) \in Int
  <2>1. Signed(x, w) \div Power[n] \in Int BY <1>2, <1>3, SignedType
  <2>2. QED BY <2>1, LowRange
<1>5. Rotated(x, n, w) \in Int /\ Rotated(x, BitsOf[w] - n, w) \in Int BY <1>2, <1>3 DEF Rotated
<1>6. Low(x * Power[n], w) \in Int /\ x \div Power[n] \in Int BY <1>2, <1>3
<1>7. QED BY <1>4, <1>5, <1>6 DEF Shifted, ShiftOps

\* What a legal instruction may read.
LEMMA LegalReads ==
  ASSUME TypeOK, NEW i \in Instructions, Legal(i), i.form # "lea", NEW o \in {i.dst, i.src}
  PROVE  /\ o \in Operands
         /\ Content(o) \in Nat
         /\ \A w \in Widths : /\ Rd(o, w) \in 0 .. Modulus(w) - 1
                              /\ Rd(o, w) \in Word
                              /\ Rd(o, w) \in Nat
<1>1. o \in Operands BY InstructionFacts
<1>2. o.kind = "mem" => Address(o) \in Slots BY DEF Legal, Reads
<1>3. MachineOK BY DEF TypeOK
<1>4. QED BY <1>1, <1>2, <1>3, ContentType, ReadType

LEMMA QuotientType ==
  ASSUME NEW n \in Word, NEW d \in Word \ {0}
  PROVE  n \div d \in Word /\ n % d \in Word
<1>1. n \in Nat /\ d \in Nat \ {0} BY WordFacts
<1>2. n < Modulus(8) /\ d < Modulus(8) /\ Modulus(8) \in Nat BY WordFacts DEF Word
<1>3. n % d \in Word
  <2>1. n % d \in 0 .. d - 1 BY <1>1, DivisionWithRest
  <2>2. QED BY <1>1, <1>2, <2>1 DEF Word
<1>4. PICK k \in Nat : k = n + 1 /\ n \in 0 .. d * k - 1
  <2>1. d * (n + 1) \in Int /\ n + 1 <= d * (n + 1) BY <1>1, SMT
  <2>2. QED BY <1>1, <2>1
<1>5. n \div d \in Nat /\ n \div d < k BY <1>1, <1>4, BlockOf
<1>6. n \div d \in Word
  <2>1. n \div d <= n BY <1>1, <1>4, <1>5
  <2>2. QED BY <1>1, <1>2, <1>5, <2>1 DEF Word
<1>7. QED BY <1>3, <1>6

LEMMA ArithmeticType ==
  ASSUME TypeOK, NEW i \in Instructions, Legal(i), Arithmetic(i)
  PROVE  MachineOK' /\ flags' \in Flags
<1>1. MachineOK /\ flags \in Flags BY DEF TypeOK
<1>2. i.w \in Widths /\ i.dst \in Operands /\ i.src \in Operands BY InstructionFacts
<1> DEFINE Safe == \A w \in Widths : /\ Rd(i.dst, w) \in Word /\ Rd(i.dst, w) \in Int
                                     /\ Rd(i.src, w) \in Word /\ Rd(i.src, w) \in Int
<1>3. ASSUME i.form # "lea" PROVE Safe BY <1>3, LegalReads
<1> HIDE DEF Safe
<1>4. 1 \in Widths /\ 4 \in Widths /\ 8 \in Widths BY WordFacts
<1>5. Word \subseteq Int BY DEF Word
<1>6. regs["rax"] \in Word /\ regs["rcx"] \in Word /\ regs["rdx"] \in Word BY <1>1 DEF MachineOK, Registers
<1>7. ASSUME NEW op \in SumOps \cup LogicOps, NEW x \in Word, NEW y \in Word
      PROVE  Outcome(op, x, y) \in Word /\ Outcome(op, x, y) \in Int
  BY <1>5, OutcomeType
<1>8. CASE Wide(i)
  <2>1. i.op \in SumOps \cup LogicOps BY <1>8 DEF Wide, Legal, Decodes, SumOps, LogicOps
  <2>2. Safe BY <1>3, <1>8 DEF Wide
  <2>3. Outcome(i.op, Rd(i.dst, 8), Rd(i.src, 8)) \in Int BY <1>4, <1>7, <2>1, <2>2 DEF Safe
  <2>4. MachineOK' BY <1>1, <1>2, <1>4, <1>8, <2>3, WriteType DEF Wide
  <2>5. flags' \in Flags BY <1>8, ChosenFlagsType DEF Wide
  <2>6. QED BY <2>4, <2>5
<1>9. CASE AddSized(i)
  <2>1. Safe BY <1>3, <1>9 DEF AddSized
  <2>2. Rd(i.dst, i.w) + Rd(i.src, i.w) \in Int BY <1>2, <2>1 DEF Safe
  <2>3. MachineOK' BY <1>1, <1>2, <1>9, <2>2, WriteType DEF AddSized
  <2>4. QED BY <1>9, <2>3, FlagsType DEF AddSized
<1>10. CASE ByteArith(i)
  <2>1. i.op \in SumOps \cup LogicOps BY <1>10 DEF ByteArith, Legal, Decodes, SumOps, LogicOps
  <2>2. Safe BY <1>3, <1>10 DEF ByteArith
  <2>3. Outcome(i.op, Rd(i.dst, 1), Rd(i.src, 1)) \in Int BY <1>4, <1>7, <2>1, <2>2 DEF Safe
  <2>4. Low(Outcome(i.op, Rd(i.dst, 1), Rd(i.src, 1)), 1) \in Int BY <1>4, <2>3, LowRange
  <2>5. MachineOK' BY <1>1, <1>2, <1>4, <1>10, <2>4, WriteType DEF ByteArith
  <2>6. flags' \in Flags BY <1>10, ChosenFlagsType DEF ByteArith
  <2>7. QED BY <2>5, <2>6
<1>11. CASE ByteXor(i)
  <2>1. Safe BY <1>3, <1>11 DEF ByteXor
  <2>2. Xor(Rd(i.dst, 1), Rd(i.src, 1)) \in Int BY <1>4, <1>5, <2>1, BitwiseAssumption DEF Safe
  <2>3. MachineOK' BY <1>1, <1>2, <1>4, <1>11, <2>2, WriteType DEF ByteXor
  <2>4. QED BY <1>1, <1>11, <2>3 DEF ByteXor
<1>12. CASE AlImmediate(i)
  <2>1. i.op \in SumOps \cup LogicOps BY <1>12 DEF AlImmediate, Legal, Decodes, SumOps, LogicOps
  <2>2. Safe BY <1>3, <1>12 DEF AlImmediate
  <2> DEFINE z == Low(Outcome(i.op, Low(regs["rax"], 1), Rd(i.src, 1)), 1)
  <2>3. Low(regs["rax"], 1) \in Word BY <1>4, <1>5, <1>6, LowRange
  <2>4. Outcome(i.op, Low(regs["rax"], 1), Rd(i.src, 1)) \in Int BY <1>4, <1>7, <2>1, <2>2, <2>3 DEF Safe
  <2>5. z \in 0 .. Modulus(1) - 1 BY <1>4, <2>4, LowRange
  <2>6. Insert(regs["rax"], 1, z) \in Word BY <1>4, <1>6, <2>5, InsertType
  <2>7. UNCHANGED <<regs, cpuMem>> \/ SetRegister("rax", Insert(regs["rax"], 1, z)) BY <1>12 DEF AlImmediate
  <2> HIDE DEF z
  <2>8. MachineOK' BY <1>1, <2>6, <2>7, SetRegisterType DEF MachineOK
  <2>9. flags' \in Flags BY <1>12, ChosenFlagsType DEF AlImmediate
  <2>10. QED BY <2>8, <2>9
<1>13. CASE AxImmediate(i)
  <2>1. i.op \in SumOps \cup LogicOps BY <1>13 DEF AxImmediate, Legal, Decodes, SumOps, LogicOps
  <2>2. Safe BY <1>3, <1>13 DEF AxImmediate
  <2>3. Low(regs["rax"], i.w) \in Word BY <1>2, <1>5, <1>6, LowRange
  <2>4. Outcome(i.op, Low(regs["rax"], i.w), Rd(i.src, i.w)) \in Word BY <1>2, <1>7, <2>1, <2>2, <2>3 DEF Safe
  <2>5. MachineOK' BY <1>1, <1>13, <2>4, SetRegisterType DEF AxImmediate
  <2>6. flags' \in Flags BY <1>13, ChosenFlagsType DEF AxImmediate
  <2>7. QED BY <2>5, <2>6
<1>14. CASE Compare(i) BY <1>1, <1>14, FlagsType DEF Compare, MachineOK
<1>15. CASE Test(i) BY <1>1, <1>15, FlagsType DEF Test, MachineOK
<1>16. CASE XorSized(i)
  <2>1. Safe BY <1>3, <1>16 DEF XorSized
  <2>2. Xor(Rd(i.dst, i.w), Rd(i.src, i.w)) \in Int BY <1>2, <1>5, <2>1, BitwiseAssumption DEF Safe
  <2>3. MachineOK' BY <1>1, <1>2, <1>16, <2>2, WriteType DEF XorSized
  <2>4. QED BY <1>16, <2>3, FlagsType DEF XorSized
<1>17. ASSUME NEW x, NEW y, NEW z \in Int, NEW w, Immediate(i, x, y, z, w)
       PROVE  MachineOK' /\ flags' \in Flags
  <2>1. (IF i.w = 2 THEN 4 ELSE i.w) \in Widths BY <1>2, <1>4
  <2>2. MachineOK' BY <1>1, <1>2, <1>17, <2>1, WriteAsType DEF Immediate, MachineOK
  <2>3. QED BY <1>17, <2>2, ChosenFlagsType DEF Immediate
<1>18. CASE SizedImmediate(i)
  <2>1. i.op \in SumOps \cup LogicOps BY <1>18 DEF SizedImmediate, Legal, Decodes, SumOps, LogicOps
  <2>2. Safe BY <1>3, <1>18 DEF SizedImmediate
  <2>3. Outcome(i.op, Rd(i.dst, i.w), Rd(i.src, i.w)) \in Int BY <1>2, <1>7, <2>1, <2>2 DEF Safe
  <2>4. QED BY <1>17, <1>18, <2>3 DEF SizedImmediate
<1>19. CASE ByteImmediate(i)
  <2> DEFINE op == IF i.op = "adc" THEN "add" ELSE i.op
  <2>1. op \in SumOps \cup LogicOps BY <1>19 DEF ByteImmediate, Legal, Decodes, SumOps, LogicOps
  <2>2. Safe BY <1>3, <1>19 DEF ByteImmediate
  <2>3. Outcome(op, Rd(i.dst, 1), Rd(i.src, 1)) \in Int BY <1>4, <1>7, <2>1, <2>2 DEF Safe
  <2>4. QED BY <1>17, <1>19, <2>3 DEF ByteImmediate
<1>20. CASE ShortImmediate(i)
  <2> DEFINE op == IF i.op = "or" THEN "adc" ELSE i.op
  <2>1. op \in SumOps \cup LogicOps BY <1>20 DEF ShortImmediate, Legal, Decodes, SumOps, LogicOps
  <2>2. Safe BY <1>3, <1>20 DEF ShortImmediate
  <2>3. Extend(Rd(i.src, 1), 1, 8) \in Word BY <1>4, <2>2, SignedType, LowRange DEF Safe, Extend
  <2>4. Outcome(op, Rd(i.dst, i.w), Extend(Rd(i.src, 1), 1, 8)) \in Int
    BY <1>2, <1>7, <2>1, <2>2, <2>3 DEF Safe
  <2>5. QED BY <1>17, <1>20, <2>4 DEF ShortImmediate
<1>21. CASE IncDec(i)
  <2>1. Safe BY <1>3, <1>21 DEF IncDec
  <2> DEFINE z == IF i.op = "dec" THEN Rd(i.dst, i.w) - 1 ELSE Rd(i.dst, i.w) + 1
             f == ArithFlags(z, Rd(i.dst, i.w), 1, i.op = "dec", i.w)
  <2>2. z \in Int BY <1>2, <2>1 DEF Safe
  <2>3. f \in Flags BY FlagsType
  <2>4. Wr(i.dst, i.w, z) /\ flags' = [f EXCEPT !.cf = f.cf \/ flags.cf] BY <1>21 DEF IncDec
  <2> HIDE DEF z, f
  <2>5. MachineOK' BY <1>1, <1>2, <2>2, <2>4, WriteType
  <2>6. flags' \in Flags BY <2>3, <2>4 DEF Flags
  <2>7. QED BY <2>5, <2>6
<1>22. CASE Unary(i)
  <2>1. Safe BY <1>3, <1>22 DEF Unary
  <2> DEFINE w == IF i.w = 1 \/ i.dst.kind = "mem" THEN i.w ELSE 8
             z == IF i.op = "not" THEN Modulus(w) - 1 - Rd(i.dst, w) ELSE -Rd(i.dst, w)
  <2>2. Wr(i.dst, w, z) /\ UNCHANGED flags BY <1>22 DEF Unary
  <2>3. w \in Widths BY <1>2, <1>4
  <2> HIDE DEF w
  <2>4. Modulus(w) \in Int /\ Rd(i.dst, w) \in Int BY <2>1, <2>3, WidthFacts DEF Safe
  <2>5. z \in Int BY <2>4
  <2> HIDE DEF z
  <2>6. MachineOK' BY <1>1, <1>2, <2>2, <2>3, <2>5, WriteType
  <2>7. QED BY <1>1, <2>2, <2>6
<1>23. CASE Multiply(i)
  <2>1. Safe BY <1>3, <1>23 DEF Multiply
  <2>2. PICK x \in Int, y \in Int :
          regs' = [regs EXCEPT !["rax"] = Wrap(x * y), !["rdx"] = Wrap((x * y) \div Modulus(8))]
    <3>1. regs["rax"] \in Int /\ Signed(regs["rax"], 8) \in Int BY <1>4, <1>5, <1>6, SignedType
    <3>2. Rd(i.dst, 8) \in Int /\ Signed(Rd(i.dst, 8), 8) \in Int BY <1>4, <2>1, SignedType DEF Safe
    <3>3. QED BY <1>23, <3>1, <3>2 DEF Multiply
  <2>3. x * y \in Int /\ Modulus(8) \in Nat \ {0} BY WordFacts
  <2>4. (x * y) \div Modulus(8) \in Int BY <2>3, DivisionWithRest
  <2>5. Wrap(x * y) \in Word /\ Wrap((x * y) \div Modulus(8)) \in Word BY <2>3, <2>4, WrapRange
  <2>6. PICK u \in Word, v \in Word : regs' = [regs EXCEPT !["rax"] = u, !["rdx"] = v]
    BY <2>2, <2>5
  <2>7. UNCHANGED <<flags, cpuMem>> BY <1>23 DEF Multiply
  <2>8. QED BY <1>1, <2>6, <2>7 DEF MachineOK
<1>24. CASE Divide(i)
  <2>1. Safe BY <1>3, <1>24 DEF Divide
  <2>2. PICK d \in Word \ {0}, r \in {"rax", "rdx"} :
          regs' = [regs EXCEPT !["rax"] = @ \div d, !["rdx"] = regs[r] % d]
    BY <1>2, <1>4, <1>24, <2>1 DEF Divide, Legal, Safe
  <2>3. regs["rax"] \div d \in Word /\ regs[r] % d \in Word BY <1>6, QuotientType
  <2>4. QED BY <1>1, <1>24, <2>2, <2>3 DEF Divide, MachineOK
<1>25. CASE Multiply2(i)
  <2>1. Safe BY <1>3, <1>25 DEF Multiply2
  <2>2. Rd(i.dst, i.w) * Rd(i.src, i.w) \in Int BY <1>2, <2>1 DEF Safe
  <2>3. MachineOK' BY <1>1, <1>2, <1>25, <2>2, WriteType DEF Multiply2
  <2>4. QED BY <1>1, <1>25, <2>3 DEF Multiply2
<1>26. ASSUME NEW w \in Widths
       PROVE  BitsOf[w] \in Nat \ {0} /\ 1 \in 0 .. BitsOf[w]
              /\ \A n \in Int : n % BitsOf[w] \in 0 .. BitsOf[w]
  <2>1. BitsOf[w] \in Nat \ {0} BY WidthFacts
  <2>2. \A n \in Int : n % BitsOf[w] \in 0 .. BitsOf[w] - 1 BY <2>1, DivisionWithRest
  <2>3. QED BY <2>1, <2>2
<1>27. ASSUME NEW op \in ShiftOps PROVE ByteShift(op) \in ShiftOps /\ PlainShift(op) \in ShiftOps
  BY <1>27 DEF ShiftOps, ByteShift, PlainShift
<1>28. CASE ShiftOne(i)
  <2>1. Safe BY <1>3, <1>28 DEF ShiftOne
  <2> DEFINE x == Rd(i.dst, i.w)
             op == IF i.w = 1 THEN ByteShift(i.op) ELSE PlainShift(i.op)
             z == IF i.w \in {2, 4} /\ i.op = "sar" THEN x \div 2 + Half(i.w)
                  ELSE Shifted(op, x, 1, i.w)
  <2>2. Wr(i.dst, i.w, z) /\ flags' = (IF i.w = 1 THEN flags ELSE LogicFlags(z, i.w))
    BY <1>28 DEF ShiftOne
  <2>3. i.op \in ShiftOps BY <1>28 DEF ShiftOne, Legal, Decodes, ShiftOps
  <2>4. x \in Int BY <1>2, <2>1 DEF Safe
  <2>5. op \in ShiftOps BY <1>27, <2>3
  <2> HIDE DEF x, op
  <2>6. Shifted(op, x, 1, i.w) \in Int BY <1>2, <1>26, <2>4, <2>5, ShiftedType
  <2>7. x \div 2 + Half(i.w) \in Int BY <1>2, <2>4, WidthFacts
  <2>8. z \in Int BY <2>6, <2>7
  <2> HIDE DEF z
  <2>9. MachineOK' BY <1>1, <1>2, <2>2, <2>8, WriteType
  <2>10. QED BY <1>1, <2>2, <2>9, FlagsType
<1>29. CASE ShiftCl(i)
  <2>1. Safe BY <1>3, <1>29 DEF ShiftCl
  <2>2. i.op \in ShiftOps BY <1>29 DEF ShiftCl, Legal, Decodes, ShiftOps
  <2>3. regs["rcx"] % BitsOf[8] \in 0 .. BitsOf[8] BY <1>4, <1>5, <1>6, <1>26
  <2>4. Shifted(PlainShift(i.op), Rd(i.dst, 8), regs["rcx"] % BitsOf[8], 8) \in Int
    BY <1>4, <1>27, <2>1, <2>2, <2>3, ShiftedType DEF Safe
  <2>5. MachineOK' BY <1>1, <1>2, <1>4, <1>29, <2>4, WriteType DEF ShiftCl
  <2>6. QED BY <1>1, <1>29, <2>5 DEF ShiftCl
<1>30. CASE ShiftImmediate(i)
  <2>1. Safe BY <1>3, <1>30 DEF ShiftImmediate
  <2> DEFINE w == IF i.w = 1 THEN 1 ELSE 8
             n == Rd(i.src, 1)
             count == IF w = 8 /\ i.op = "sar" /\ n >= BitsOf[8] THEN BitsOf[8] - 1 ELSE n % BitsOf[w]
             op == IF w = 1 THEN ByteShift(i.op) ELSE i.op
             z == Shifted(op, Rd(i.dst, w), count, w)
  <2>2. Wr(i.dst, w, z) /\ flags' = (IF w = 1 THEN LogicFlags(z, 1) ELSE flags)
    BY <1>30 DEF ShiftImmediate
  <2>3. i.op \in ShiftOps BY <1>30 DEF ShiftImmediate, Legal, Decodes, ShiftOps
  <2>4. w \in Widths BY <1>4
  <2>5. n \in Int BY <1>4, <2>1 DEF Safe
  <2>6. op \in ShiftOps BY <1>27, <2>3
  <2>7. count \in 0 .. BitsOf[w]
    <3>1. n % BitsOf[w] \in 0 .. BitsOf[w] BY <1>26, <2>4, <2>5
    <3> HIDE DEF w, n
    <3>2. BitsOf[w] \in Nat \ {0} BY <1>26, <2>4
    <3>3. QED BY <3>1, <3>2
  <2> HIDE DEF w, n, count, op
  <2>8. Rd(i.dst, w) \in Int BY <2>1, <2>4 DEF Safe
  <2>9. z \in Int BY <2>4, <2>6, <2>7, <2>8, ShiftedType
  <2> HIDE DEF z
  <2>10. MachineOK' BY <1>1, <1>2, <2>2, <2>4, <2>9, WriteType
  <2>11. QED BY <1>1, <2>2, <2>10, FlagsType
<1>31. QED
  BY <1>8, <1>9, <1>10, <1>11, <1>12, <1>13, <1>14, <1>15, <1>16, <1>18, <1>19, <1>20, <1>21,
     <1>22, <1>23, <1>24, <1>25, <1>28, <1>29, <1>30
     DEF Arithmetic

LEMMA DataType ==
  ASSUME TypeOK, NEW i \in Instructions, Legal(i), Data(i)
  PROVE  MachineOK' /\ flags' \in Flags
<1>1. MachineOK /\ flags \in Flags /\ fsBase \in Word BY DEF TypeOK
<1>2. i.w \in Widths /\ i.dst \in Operands /\ i.src \in Operands BY InstructionFacts
<1> DEFINE Safe == /\ Content(i.dst) \in Int
                   /\ Content(i.src) \in Int
                   /\ \A w \in Widths : /\ Rd(i.dst, w) \in Word /\ Rd(i.dst, w) \in Int
                                        /\ Rd(i.dst, w) \in 0 .. Modulus(w) - 1
                                        /\ Rd(i.src, w) \in Word /\ Rd(i.src, w) \in Int
<1>3. ASSUME i.form # "lea" PROVE Safe BY <1>3, LegalReads
<1> HIDE DEF Safe
<1>4. 1 \in Widths /\ 2 \in Widths /\ 4 \in Widths /\ 8 \in Widths BY WordFacts
<1>5. Word \subseteq Int BY DEF Word
<1>6. \A r \in Registers : regs[r] \in Word BY <1>1 DEF MachineOK
<1>7. {"rax", "rcx", "rdi"} \subseteq Registers BY DEF Registers
<1>8. ASSUME NEW x \in Int, NEW u \in Widths, NEW v \in Widths
      PROVE  Extend(x, u, v) \in 0 .. Modulus(v) - 1 /\ Extend(x, u, v) \in Word
  BY SignedType, LowRange DEF Extend
<1>9. CASE Move(i)
  <2>1. Safe BY <1>3, <1>9 DEF Move
  <2> DEFINE w == IF i.op = "c7" /\ i.w = 2 THEN 4 ELSE i.w
  <2>2. w \in Widths BY <1>2, <1>4
  <2>3. WriteAs(i.dst, w, i.w, Rd(i.src, i.w)) /\ UNCHANGED flags BY <1>9 DEF Move
  <2> HIDE DEF w
  <2>4. MachineOK' BY <1>1, <1>2, <2>1, <2>2, <2>3, WriteAsType DEF Safe
  <2>5. QED BY <1>1, <2>3, <2>4
<1>10. CASE MoveExtended(i)
  <2>1. Safe BY <1>3, <1>10 DEF MoveExtended
  <2>2. i.op \in {"zx", "sx", "sx4"} BY <1>10 DEF MoveExtended, Legal, Decodes
  <2>3. Rd(i.src, i.w) \in Int BY <1>2, <2>1 DEF Safe
  <2>4. Extend(Rd(i.src, i.w), i.w, 8) \in Int /\ Extend(Rd(i.src, i.w), i.w, 4) \in Int
    BY <1>2, <1>4, <1>5, <1>8, <2>3
  <2>5. PICK v \in Int : Wr(i.dst, 8, v) BY <1>10, <2>2, <2>3, <2>4 DEF MoveExtended
  <2>6. MachineOK' BY <1>1, <1>2, <1>4, <2>5, WriteType
  <2>7. QED BY <1>1, <1>10, <2>6 DEF MoveExtended
<1>11. CASE Convert(i)
  <2>1. i.form = "cbw" /\ UNCHANGED flags BY <1>11 DEF Convert
  <2>2. i.w \div 2 \in Widths
    <3>1. i.w \in {2, 4, 8} BY <1>2, <2>1, InstructionFacts DEF Widths
    <3>2. 2 \div 2 = 1 /\ 4 \div 2 = 2 /\ 8 \div 2 = 4 OBVIOUS
    <3>3. QED BY <1>4, <3>1, <3>2
  <2> DEFINE h == i.w \div 2
             v == Extend(Low(regs["rax"], h), h, i.w)
  <2>3. SetRegister("rax", Merge(regs["rax"], i.w, v)) BY <1>11 DEF Convert
  <2> HIDE DEF h
  <2>4. h \in Widths BY <2>2 DEF h
  <2>5. Low(regs["rax"], h) \in Int BY <1>5, <1>6, <1>7, <2>4, LowRange
  <2>6. v \in 0 .. Modulus(i.w) - 1 /\ v \in Word BY <1>2, <1>8, <2>4, <2>5
  <2> HIDE DEF v
  <2>7. Merge(regs["rax"], i.w, v) \in Word BY <1>2, <1>6, <1>7, <2>6, MergeType
  <2>8. MachineOK' BY <1>1, <2>3, <2>7, SetRegisterType
  <2>9. QED BY <1>1, <2>1, <2>8
<1>12. CASE Exchange(i)
  <2>1. Safe BY <1>3, <1>12 DEF Exchange
  <2>2. i.src.reg \in Registers /\ i.form = "xchg"
    BY <1>2, <1>12, InstructionFacts, OperandFacts DEF Exchange
  <2> DEFINE x == Content(i.dst)
             y == regs[i.src.reg]
             w == IF i.dst.kind = "mem" THEN i.w ELSE IF i.op = "91" THEN 4 ELSE 8
  <2>3. w \in Widths /\ x \in Int /\ y \in Word /\ y \in Int
    BY <1>2, <1>4, <1>5, <1>6, <2>1, <2>2 DEF Safe
  <2>4. \/ /\ i.dst.kind = "mem"
           /\ cpuMem' = [cpuMem EXCEPT ![Address(i.dst)] = Insert(@, w, Low(y, w))]
           /\ regs' = [regs EXCEPT ![i.src.reg] = Low(x, w)]
        \/ /\ regs' = [regs EXCEPT ![i.dst.reg] = Low(y, w), ![i.src.reg] = Low(x, w)]
           /\ UNCHANGED cpuMem
    BY <1>12 DEF Exchange
  <2>5. UNCHANGED flags BY <1>12 DEF Exchange
  <2> HIDE DEF x, y, w
  <2>6. Low(x, w) \in Word /\ Low(y, w) \in Word /\ Low(y, w) \in 0 .. Modulus(w) - 1
    BY <2>3, LowRange
  <2>7. ASSUME i.dst.kind = "mem"
        PROVE  Address(i.dst) \in Slots /\ Insert(cpuMem[Address(i.dst)], w, Low(y, w)) \in Word
    <3>1. Address(i.dst) \in Slots BY <2>2, <2>7 DEF Legal, Reads
    <3>2. cpuMem[Address(i.dst)] \in Word BY <1>1, <3>1 DEF MachineOK
    <3>3. QED BY <2>3, <2>6, <3>1, <3>2, InsertType
  <2>8. regs' \in [Registers -> Word] BY <1>1, <2>4, <2>6 DEF MachineOK
  <2>9. cpuMem' \in [Slots -> Word] BY <1>1, <2>4, <2>7 DEF MachineOK
  <2>10. QED BY <1>1, <2>5, <2>8, <2>9 DEF MachineOK
<1>13. CASE LoadAddress(i)
  <2>1. i.src.kind = "mem" BY <1>2, <1>13, InstructionFacts DEF LoadAddress
  <2>2. Address(i.src) \in Word BY <1>1, <1>2, <2>1, AddressType
  <2>3. MachineOK' BY <1>1, <1>13, <2>2, SetRegisterType DEF LoadAddress
  <2>4. QED BY <1>1, <1>13, <2>3 DEF LoadAddress
<1>14. CASE SetOn(i)
  <2>1. MachineOK' BY <1>1, <1>2, <1>4, <1>14, WriteType DEF SetOn
  <2>2. QED BY <1>1, <1>14, <2>1 DEF SetOn
<1>15. CASE MoveOn(i)
  <2>1. Safe BY <1>3, <1>15 DEF MoveOn
  <2>2. Rd(i.src, 8) \in Int BY <1>4, <2>1 DEF Safe
  <2>3. Wr(i.dst, 8, Rd(i.src, 8)) \/ UNCHANGED <<regs, cpuMem>> BY <1>15 DEF MoveOn
  <2>4. MachineOK' BY <1>1, <1>2, <1>4, <2>2, <2>3, WriteType DEF MachineOK
  <2>5. QED BY <1>1, <1>15, <2>4 DEF MoveOn
<1>16. CASE CompareExchange(i)
  <2>1. Safe BY <1>3, <1>16 DEF CompareExchange
  <2>2. Merge(regs["rax"], i.w, Rd(i.dst, i.w)) \in Word
    BY <1>2, <1>6, <1>7, <2>1, MergeType DEF Safe
  <2>3. Rd(i.src, i.w) \in Int BY <1>2, <2>1 DEF Safe
  <2>4. \/ Wr(i.dst, i.w, Rd(i.src, i.w))
        \/ SetRegister("rax", Merge(regs["rax"], i.w, Rd(i.dst, i.w)))
    BY <1>16 DEF CompareExchange
  <2>5. MachineOK' BY <1>1, <1>2, <2>2, <2>3, <2>4, WriteType, SetRegisterType
  <2>6. flags' \in Flags BY <1>16, FlagsType DEF CompareExchange
  <2>7. QED BY <2>5, <2>6
<1>17. CASE BitTest(i)
  <2>1. MachineOK' BY <1>1, <1>17 DEF BitTest, MachineOK
  <2>2. PICK b \in BOOLEAN : flags' = [flags EXCEPT !.cf = b] BY <1>17 DEF BitTest
  <2>3. flags' \in Flags BY <1>1, <2>2 DEF Flags
  <2>4. QED BY <2>1, <2>3
<1>18. CASE BitScan(i)
  <2>1. Safe BY <1>3, <1>18 DEF BitScan
  <2> DEFINE x == Rd(i.src, 8)
             n == CHOOSE n \in Ones(x, 8) :
                    IF i.op = "bsf" THEN IsLowestOne(n, x) ELSE IsHighestOne(n, x)
  <2>2. x \in Word BY <1>4, <2>1 DEF Safe
  <2>3. IF x = 0 THEN UNCHANGED <<regs, cpuMem>> ELSE SetRegister(i.dst.reg, n) BY <1>18 DEF BitScan
  <2>4. flags' = [flags EXCEPT !.zf = x = 0] BY <1>18 DEF BitScan
  <2> HIDE DEF x
  <2>5. ASSUME x # 0 PROVE n \in Word
    <3>1. \E k \in Ones(x, 8) : IF i.op = "bsf" THEN IsLowestOne(k, x) ELSE IsHighestOne(k, x)
      BY <2>2, <2>5, OnesAssumption
    <3>2. n \in Ones(x, 8) BY <3>1
    <3>3. BitsOf[8] \in Nat \ {0} /\ BitsOf[8] <= Modulus(8) BY <1>4, WidthFacts, WidthsAssumption
    <3>4. n \in 0 .. BitsOf[8] - 1 BY <3>2 DEF Ones
    <3> HIDE DEF n
    <3>5. QED BY <3>3, <3>4, WordFacts DEF Word
  <2> HIDE DEF n
  <2>6. MachineOK' BY <1>1, <2>3, <2>5, SetRegisterType DEF MachineOK
  <2>7. PICK b \in BOOLEAN : flags' = [flags EXCEPT !.zf = b] BY <2>4
  <2>8. flags' \in Flags BY <1>1, <2>7 DEF Flags
  <2>9. QED BY <2>6, <2>8
<1>19. CASE StoreString(i)
  <2>1. PICK k \in Int : regs' = [regs EXCEPT !["rdi"] = Wrap(k), !["rcx"] = IF i.op = "rep" THEN 0 ELSE @]
    <3>0. regs["rdi"] \in Int /\ regs["rcx"] \in Int BY <1>5, <1>6, <1>7
    <3>1. Stride \in Int /\ Count(i) \in Int BY <3>0 DEF Stride, Count
    <3>2. Stride * Count(i) \in Int BY <3>1
    <3>3. regs["rdi"] + Stride * Count(i) \in Int BY <3>0, <3>2
    <3>4. QED BY <1>19, <3>3 DEF StoreString
  <2>2. Wrap(k) \in Word /\ 0 \in Word BY WrapRange, WordFacts
  <2>3. regs' \in [Registers -> Word] BY <1>1, <2>1, <2>2 DEF MachineOK
  <2>4. Low(regs["rax"], i.w) \in 0 .. Modulus(i.w) - 1 BY <1>2, <1>5, <1>6, <1>7, LowRange
  <2>5. \A s \in Slots : cpuMem[s] \in Word /\ Insert(cpuMem[s], i.w, Low(regs["rax"], i.w)) \in Word
    BY <1>1, <1>2, <2>4, InsertType DEF MachineOK
  <2>6. cpuMem' \in [Slots -> Word] BY <1>19, <2>5 DEF StoreString
  <2>7. QED BY <1>1, <1>19, <2>3, <2>6 DEF StoreString, MachineOK
<1>20. QED
  BY <1>9, <1>10, <1>11, <1>12, <1>13, <1>14, <1>15, <1>16, <1>17, <1>18, <1>19 DEF Data

\* Where control goes, and what a system call may change.
ControlOK == cpuStatus \in {"running", "exited", "faulted", "error"} /\ rip \in Word /\ fsBase \in Word

LEMMA NextAddressType == ASSUME TypeOK PROVE Next1 \in Word
<1>1. rip + 1 \in Int BY WordFacts DEF TypeOK
<1>2. QED BY <1>1, WrapRange DEF Next1

LEMMA StraightType == ASSUME TypeOK, Straight PROVE ControlOK'
BY NextAddressType DEF TypeOK, Straight, ControlOK

LEMMA JumpType == ASSUME TypeOK, NEW target \in Word, Jump(target) PROVE ControlOK'
BY DEF TypeOK, Jump, ControlOK

LEMMA GoesStraight ==
  ASSUME NEW i, Arithmetic(i) \/ Data(i) PROVE Straight
<1>1. CASE Arithmetic(i)
  BY <1>1 DEF Arithmetic, Wide, AddSized, ByteArith, ByteXor, AlImmediate, AxImmediate, Compare,
    Test, XorSized, SizedImmediate, ByteImmediate, ShortImmediate, Immediate, IncDec, Unary,
    Multiply, Divide, Multiply2, ShiftOne, ShiftCl, ShiftImmediate
<1>2. CASE Data(i)
  BY <1>2 DEF Data, Move, MoveExtended, Convert, Exchange, LoadAddress, SetOn, MoveOn,
    CompareExchange, BitTest, BitScan, StoreString
<1>3. QED BY <1>1, <1>2

LEMMA ControlType ==
  ASSUME TypeOK, NEW i \in Instructions, Legal(i), Control(i)
  PROVE  MachineOK' /\ flags' \in Flags /\ ControlOK'
<1>1. MachineOK /\ flags \in Flags /\ ControlOK BY DEF TypeOK, ControlOK
<1>2. i.dst \in Operands /\ i.src \in Operands BY InstructionFacts
<1>3. ASSUME i.form # "lea" PROVE Rd(i.src, 8) \in Word /\ Rd(i.src, 8) \in Int
  BY <1>3, LegalReads, WordFacts
<1>4. Word \subseteq Int /\ Next1 \in Word BY NextAddressType DEF Word
<1>5. /\ regs \in [Registers -> Word] /\ cpuMem \in [Slots -> Word]
      /\ Top \in Word /\ regs["rbp"] \in Word
  BY <1>1 DEF MachineOK, Top, Registers
<1>6. ASSUME NEW v \in Word, PushWord(v), Top > 0
      PROVE  MachineOK'
  <2>1. Top - 1 \in Word BY <1>5, <1>6, WordFacts DEF Word
  <2>2. QED BY <1>5, <1>6, <2>1 DEF PushWord, MachineOK
<1>7. Wrap(Top + 1) \in Word /\ Wrap(regs["rbp"] + 1) \in Word
  <2>0. Top \in Int /\ regs["rbp"] \in Int BY <1>4, <1>5
  <2>1. Top + 1 \in Int /\ regs["rbp"] + 1 \in Int BY <2>0
  <2>2. QED BY <2>1, WrapRange
<1>8. ASSUME i.form # "lea" PROVE Target(i) \in Word
  <2>1. Next1 + Rd(i.src, 8) \in Int BY <1>3, <1>4, <1>8
  <2>2. Wrap(Next1 + Rd(i.src, 8)) \in Word BY <2>1, WrapRange
  <2>3. QED BY <1>3, <1>8, <2>2 DEF Target
<1>9. CASE Push(i)
  <2>1. MachineOK' BY <1>3, <1>6, <1>9 DEF Push, Legal
  <2>2. QED BY <1>1, <1>9, <2>1, StraightType DEF Push
<1>10. CASE Pop(i)
  <2>1. cpuMem[Top] \in Word BY <1>5, <1>10 DEF Pop, Legal
  <2>2. MachineOK' BY <1>5, <1>7, <1>10, <2>1 DEF Pop, MachineOK
  <2>3. QED BY <1>1, <1>10, <2>2, StraightType DEF Pop
<1>11. CASE PushFlags(i)
  <2>1. MachineOK' BY <1>6, <1>11, FlagsWordType DEF PushFlags, Legal
  <2>2. QED BY <1>1, <1>11, <2>1, StraightType DEF PushFlags
<1>12. CASE PopFlags(i)
  <2>1. MachineOK' BY <1>1, <1>7, <1>12, SetRegisterType DEF PopFlags
  <2>2. QED BY <1>12, <2>1, FlagsType, StraightType DEF PopFlags
<1>13. CASE Leave(i)
  <2>1. cpuMem[regs["rbp"]] \in Word BY <1>5, <1>13 DEF Leave, Legal
  <2>2. MachineOK' BY <1>5, <1>7, <1>13, <2>1 DEF Leave, MachineOK
  <2>3. QED BY <1>1, <1>13, <2>2, StraightType DEF Leave
<1>14. CASE Call(i)
  <2>1. MachineOK' BY <1>4, <1>6, <1>14 DEF Call, Legal
  <2>2. Target(i) \in Word BY <1>8, <1>14 DEF Call
  <2>3. QED BY <1>1, <1>14, <2>1, <2>2, JumpType DEF Call
<1>15. CASE Ret(i)
  <2>1. cpuMem[Top] \in Word BY <1>5, <1>15 DEF Ret, Legal
  <2>2. Rd(i.src, 8) \in Int BY <1>3, <1>15 DEF Ret
  <2>3. Top + 1 + Rd(i.src, 8) \in Int BY <1>4, <1>5, <2>2
  <2>4. MachineOK' BY <1>1, <1>15, <2>3, WrapRange, SetRegisterType DEF Ret
  <2>5. QED BY <1>1, <1>15, <2>1, <2>4, JumpType DEF Ret
<1>16. CASE JumpTo(i)
  <2>1. Target(i) \in Word BY <1>8, <1>16 DEF JumpTo
  <2>2. QED BY <1>1, <1>16, <2>1, JumpType DEF JumpTo, MachineOK
<1>17. CASE JumpOn(i)
  <2>1. Target(i) \in Word BY <1>8, <1>17 DEF JumpOn
  <2>2. (IF Holds(i.cc, flags) THEN Target(i) ELSE Next1) \in Word BY <1>4, <2>1
  <2>3. ControlOK' BY <1>17, <2>2, JumpType DEF JumpOn
  <2>4. QED BY <1>1, <1>17, <2>3 DEF JumpOn, MachineOK
<1>18. CASE NoOperation(i) BY <1>1, <1>18, StraightType DEF NoOperation, MachineOK
<1>19. CASE Identify(i)
  <2>1. \A r \in HighByte : Cpuid[r] \in Word BY CpuAssumption DEF HighByte
  <2>2. regs' \in [Registers -> Word] BY <1>5, <1>19, <2>1, WordFacts DEF Identify
  <2>3. QED BY <1>1, <1>5, <1>19, <2>2, StraightType DEF Identify, MachineOK
<1>20. CASE Halt(i) BY <1>1, <1>20 DEF Halt, MachineOK, ControlOK
<1>21. CASE SystemCall(i)
  <2>1. PICK r \in Results :
          /\ regs' = [regs EXCEPT !["rax"] = r.rax, !["rcx"] = Next1, !["r11"] = FlagsWord(flags)]
          /\ fsBase' = IF r.fs = None THEN fsBase ELSE CHOOSE b \in Word : r.fs = Some(b)
          /\ cpuStatus' = IF r.exit THEN "exited" ELSE cpuStatus
    BY <1>21 DEF SystemCall
  <2>2. r.rax \in Word /\ r.fs \in Option(Word) BY CpuAssumption
  <2>3. regs' \in [Registers -> Word] BY <1>4, <1>5, <2>1, <2>2, FlagsWordType
  <2>4. ASSUME r.fs # None PROVE (CHOOSE b \in Word : r.fs = Some(b)) \in Word
    BY <2>2, <2>4 DEF Option
  <2>5. fsBase' \in Word BY <1>1, <2>1, <2>4 DEF ControlOK
  <2>6. rip' = Next1 /\ UNCHANGED <<flags, cpuMem>> BY <1>21 DEF SystemCall
  <2>7. cpuStatus' \in {"running", "exited", "faulted", "error"} BY <1>1, <2>1 DEF ControlOK
  <2>8. QED BY <1>1, <1>4, <1>5, <2>3, <2>5, <2>6, <2>7 DEF MachineOK, ControlOK
<1>22. QED
  BY <1>9, <1>10, <1>11, <1>12, <1>13, <1>14, <1>15, <1>16, <1>17, <1>18, <1>19, <1>20, <1>21
     DEF Control

LEMMA InitTypeOK == HistoryInit => TypeOK
<1>1. SUFFICES ASSUME HistoryInit PROVE TypeOK OBVIOUS
<1>2. PICK e \in Entries : rip = e.rip /\ regs = e.regs /\ cpuMem = e.mem
  BY <1>1 DEF HistoryInit, CpuInit
<1>3. e.rip \in Word /\ e.regs \in [Registers -> Word] /\ e.mem \in [Slots -> Word]
  BY CpuAssumption
<1>4. flags \in Flags BY <1>1, FlagsType DEF HistoryInit, CpuInit
<1>5. QED BY <1>1, <1>2, <1>3, <1>4, WordFacts DEF HistoryInit, CpuInit, TypeOK, MachineOK

LEMMA StepTypeOK ==
  ASSUME TypeOK, NEW i \in Code[rip], Execute(i) PROVE TypeOK'
<1>1. i \in Instructions BY CpuAssumption DEF TypeOK
<1>2. MachineOK' /\ flags' \in Flags /\ ControlOK'
  <2>1. CASE Arithmetic(i) BY <1>1, <2>1, ArithmeticType, GoesStraight, StraightType DEF Execute
  <2>2. CASE Data(i) BY <1>1, <2>2, DataType, GoesStraight, StraightType DEF Execute
  <2>3. CASE Control(i) BY <1>1, <2>3, ControlType DEF Execute
  <2>4. QED BY <2>1, <2>2, <2>3 DEF Execute
<1>3. steps' \in Nat BY DEF TypeOK, Execute
<1>4. QED BY <1>2, <1>3 DEF TypeOK, ControlOK

\* Registers and memory hold words, whatever the program does.
THEOREM TypeCorrect == CpuSpec => []TypeOK
<1>1. ASSUME TypeOK, [CpuNext]_historyVars PROVE TypeOK'
  <2>1. CASE \E i \in Code[rip] : Step(i) BY <1>1, <2>1, StepTypeOK DEF Step
  <2>2. CASE Stop BY <1>1, <2>2 DEF Stop, TypeOK, MachineOK
  <2>3. CASE UNCHANGED historyVars BY <1>1, <2>3 DEF historyVars, TypeOK, MachineOK
  <2>4. QED BY <1>1, <2>1, <2>2, <2>3 DEF CpuNext
<1>2. QED BY <1>1, InitTypeOK, PTL DEF CpuSpec

-----------------------------------------------------------------------------
(* Conditions.                                                             *)

\* The row an instruction executes is the one its form names.
LEMMA FormNamesRow ==
  ASSUME NEW i, Execute(i)
  PROVE  /\ i.form = "wide" => Wide(i)
         /\ i.form = "byte" => ByteArith(i)
         /\ i.form = "al" => AlImmediate(i)
         /\ i.form = "ax" => AxImmediate(i)
         /\ i.form = "cmp" => Compare(i)
         /\ i.form = "imm" => SizedImmediate(i)
         /\ i.form = "imm8" => ByteImmediate(i)
         /\ i.form = "short" => ShortImmediate(i)
         /\ i.form = "cmpxchg" => CompareExchange(i)
         /\ i.form = "ret" => Ret(i)
         /\ i.form = "call" => Call(i)
         /\ i.form = "push" => Push(i)
         /\ i.form = "pushf" => PushFlags(i)
BY DEF Execute, Arithmetic, Wide, AddSized, ByteArith, ByteXor, AlImmediate, AxImmediate, Compare,
  Test, XorSized, SizedImmediate, ByteImmediate, ShortImmediate, IncDec, Unary,
  Multiply, Divide, Multiply2, ShiftOne, ShiftCl, ShiftImmediate,
  Data, Move, MoveExtended, Convert, Exchange, LoadAddress, SetOn, MoveOn,
  CompareExchange, BitTest, BitScan, StoreString,
  Control, Push, Pop, PushFlags, PopFlags, Leave, Call, Ret, JumpTo, JumpOn, NoOperation,
  Identify, Halt, SystemCall

LEMMA FlagsKept ==
  ASSUME NEW i, Execute(i), i.form \in KeepsFlags PROVE flags' = flags
<1>1. CASE Arithmetic(i)
  BY <1>1 DEF KeepsFlags, Arithmetic, Wide, AddSized, ByteArith, ByteXor, AlImmediate, AxImmediate,
    Compare, Test, XorSized, SizedImmediate, ByteImmediate, ShortImmediate, IncDec, Unary,
    Multiply, Divide, Multiply2, ShiftOne, ShiftCl, ShiftImmediate
<1>2. CASE Data(i)
  BY <1>2 DEF KeepsFlags, Data, Move, MoveExtended, Convert, Exchange, LoadAddress, SetOn, MoveOn,
    CompareExchange, BitTest, BitScan, StoreString
<1>3. CASE Control(i)
  BY <1>3 DEF KeepsFlags, Control, Push, Pop, PushFlags, PopFlags, Leave, Call, Ret, JumpTo,
    JumpOn, NoOperation, Identify, Halt, SystemCall
<1>4. QED BY <1>1, <1>2, <1>3 DEF Execute

\* Two numbers of a width, flagged at that width or at the full one.
LEMMA SizedCompare ==
  ASSUME NEW w \in Widths, NEW x \in Int, NEW y \in Int, NEW f,
         f = ArithFlags(Wrap(x - y), x, y, TRUE, w)
  PROVE  SaysLess(f, Low(x, w), Low(y, w)) /\ SaysSignedLess(f, Low(x, w), Low(y, w), w)
<1>1. x - y \in Int OBVIOUS
<1>2. Wrap(x - y) \in Int BY <1>1, WrapRange DEF Word
<1>3. Low(Wrap(x - y), w) = Low(x - y, w) BY <1>1, LowOfWrap
<1>4. f = DifferenceFlags(Wrap(x - y), x, y, w) BY DEF ArithFlags
<1>5. QED BY <1>2, <1>3, <1>4, DifferenceCompares

LEMMA NarrowCompare ==
  ASSUME NEW w \in Widths, NEW x \in 0 .. Modulus(w) - 1, NEW y \in 0 .. Modulus(w) - 1, NEW f,
         f = ArithFlags(Low(Wrap(x - y), w), x, y, TRUE, 8)
  PROVE  SaysLess(f, x, y)
<1>1. Modulus(w) \in Nat /\ Modulus(w) <= Modulus(8) /\ Modulus(8) \in Nat
  BY WidthFacts, WidthWithinWord, WordFacts
<1>2. x \in Word /\ y \in Word /\ x \in Int /\ y \in Int /\ x - y \in Int BY <1>1 DEF Word
<1>3. Low(x, 8) = x /\ Low(y, 8) = y BY <1>2, WordFacts
<1>4. Low(x, w) = x /\ Low(y, w) = y BY LowOfSmall
<1> DEFINE z == Low(Wrap(x - y), w)
<1>5. z = IF x >= y THEN x - y ELSE x - y + Modulus(w)
  BY <1>2, <1>4, LowOfWrap, LowOfDifference
<1>6. z \in Word BY <1>2, LowOfWrap, LowRange
<1>7. Low(z, 8) = z BY <1>6, WordFacts
<1>8. f.zf = (Low(z, 8) = 0) /\ f.cf = (Low(x, 8) < Low(y, 8)) BY DEF ArithFlags, DifferenceFlags
<1> HIDE DEF z
<1>9. (z = 0) <=> (x = y) BY <1>1, <1>2, <1>5
<1>10. QED BY <1>3, <1>7, <1>8, <1>9 DEF SaysLess

\* What the flags say of a comparison, in the form the steps preserve.
Told(c, f) ==
  /\ c.w \in Widths
  /\ c.lhs \in 0 .. Modulus(c.w) - 1 /\ c.rhs \in 0 .. Modulus(c.w) - 1
  /\ SaysLess(f, c.lhs, c.rhs)
  /\ c.signed => SaysSignedLess(f, c.lhs, c.rhs, c.w)
FlagsTell == \A c \in compared : Told(c, flags)

LEMMA ToldIsCompared == FlagsTell => ConditionsCompare
<1>1. ASSUME NEW c \in compared, Told(c, flags)
      PROVE  LET x == c.lhs
                 y == c.rhs
             IN  /\ Holds("e", flags) <=> x = y
                 /\ Holds("ne", flags) <=> x # y
                 /\ Holds("b", flags) <=> x < y
                 /\ Holds("ae", flags) <=> x >= y
                 /\ Holds("be", flags) <=> x <= y
                 /\ Holds("a", flags) <=> x > y
                 /\ c.signed =>
                      /\ Holds("l", flags) <=> Signed(x, c.w) < Signed(y, c.w)
                      /\ Holds("ge", flags) <=> Signed(x, c.w) >= Signed(y, c.w)
                      /\ Holds("le", flags) <=> Signed(x, c.w) <= Signed(y, c.w)
                      /\ Holds("g", flags) <=> Signed(x, c.w) > Signed(y, c.w)
  <2>1. PICK x \in Int, y \in Int : x = c.lhs /\ y = c.rhs BY <1>1 DEF Told
  <2>2. (flags.zf <=> x = y) /\ (flags.cf <=> x < y) BY <1>1, <2>1 DEF Told, SaysLess
  <2>3. /\ Holds("e", flags) <=> flags.zf
        /\ Holds("ne", flags) <=> ~flags.zf
        /\ Holds("b", flags) <=> flags.cf
        /\ Holds("ae", flags) <=> ~flags.cf
        /\ Holds("be", flags) <=> flags.cf \/ flags.zf
        /\ Holds("a", flags) <=> ~flags.cf /\ ~flags.zf
        /\ Holds("l", flags) <=> ~(flags.sf <=> flags.of)
        /\ Holds("ge", flags) <=> (flags.sf <=> flags.of)
        /\ Holds("le", flags) <=> flags.zf \/ ~(flags.sf <=> flags.of)
        /\ Holds("g", flags) <=> ~flags.zf /\ (flags.sf <=> flags.of)
    BY DEF Holds
  <2>4. ASSUME c.signed
        PROVE  /\ Holds("l", flags) <=> Signed(x, c.w) < Signed(y, c.w)
               /\ Holds("ge", flags) <=> Signed(x, c.w) >= Signed(y, c.w)
               /\ Holds("le", flags) <=> Signed(x, c.w) <= Signed(y, c.w)
               /\ Holds("g", flags) <=> Signed(x, c.w) > Signed(y, c.w)
    <3>1. c.w \in Widths /\ SaysSignedLess(flags, x, y, c.w) BY <1>1, <2>1, <2>4 DEF Told
    <3>2. PICK u \in Int, v \in Int : u = Signed(x, c.w) /\ v = Signed(y, c.w) BY <3>1, SignedType
    <3>3. (flags.sf <=> flags.of) <=> u >= v BY <3>1, <3>2 DEF SaysSignedLess
    <3>4. x = y => u = v BY <3>2
    <3>5. u = v => x = y
      <4>1. PICK p \in Nat : p = Modulus(c.w) BY <3>1, WidthFacts
      <4>2. x \in 0 .. p - 1 /\ y \in 0 .. p - 1 BY <1>1, <2>1, <4>1 DEF Told
      <4>3. QED BY <3>2, <4>1, <4>2 DEF Signed
    <3>6. QED BY <2>2, <2>3, <3>2, <3>3, <3>4, <3>5
  <2>5. QED BY <2>1, <2>2, <2>3, <2>4
<1>2. QED BY <1>1 DEF FlagsTell, ConditionsCompare

\* The comparisons, each with the flags its row computes.
LEMMA ComparisonTold ==
  ASSUME TypeOK, NEW i \in Instructions, Legal(i), Execute(i), NEW c \in Comparison(i),
         i.form \notin KeepsFlags
  PROVE  Told(c, flags')
<1>1. i.w \in Widths /\ 1 \in Widths /\ 4 \in Widths /\ 8 \in Widths BY InstructionFacts, WordFacts
<1>2. Word \subseteq Int /\ \A x \in Word : Low(x, 8) = x BY WordFacts DEF Word
<1>3. regs["rax"] \in Word /\ regs["rax"] \in Int BY <1>2 DEF TypeOK, MachineOK, Registers
<1> DEFINE Safe == \A w \in Widths :
                     /\ Rd(i.dst, w) \in 0 .. Modulus(w) - 1 /\ Rd(i.dst, w) \in Word
                     /\ Rd(i.src, w) \in 0 .. Modulus(w) - 1 /\ Rd(i.src, w) \in Word
                     /\ Low(Rd(i.dst, w), w) = Rd(i.dst, w)
                     /\ Low(Rd(i.src, w), w) = Rd(i.src, w)
<1>4. ASSUME i.form # "lea" PROVE Safe BY <1>4, LegalReads, LowOfSmall
<1> HIDE DEF Safe
<1>5. ASSUME NEW w \in Widths
      PROVE  Low(regs["rax"], w) \in 0 .. Modulus(w) - 1 /\ Low(regs["rax"], w) \in Word
             /\ Low(Low(regs["rax"], w), w) = Low(regs["rax"], w)
  BY <1>3, LowRange, LowOfSmall
<1>6. ASSUME NEW w \in Widths, NEW x \in Word, NEW y \in Word, NEW s \in BOOLEAN, NEW d,
             d = [lhs |-> Low(x, w), rhs |-> Low(y, w), w |-> w, signed |-> s],
             flags' = ArithFlags(Wrap(x - y), x, y, TRUE, w)
      PROVE  Told(d, flags')
  <2>1. x \in Int /\ y \in Int BY <1>2
  <2>2. Low(x, w) \in 0 .. Modulus(w) - 1 /\ Low(y, w) \in 0 .. Modulus(w) - 1 BY <2>1, LowRange
  <2>3. SaysLess(flags', Low(x, w), Low(y, w)) /\ SaysSignedLess(flags', Low(x, w), Low(y, w), w)
    BY <1>6, <2>1, SizedCompare
  <2>4. d.lhs = Low(x, w) /\ d.rhs = Low(y, w) /\ d.w = w BY <1>6
  <2>5. QED BY <2>2, <2>3, <2>4 DEF Told
<1>7. ASSUME NEW w \in Widths, NEW x \in 0 .. Modulus(w) - 1, NEW y \in 0 .. Modulus(w) - 1, NEW d,
             d = [lhs |-> x, rhs |-> y, w |-> w, signed |-> FALSE],
             flags' = ArithFlags(Low(Wrap(x - y), w), x, y, TRUE, 8)
      PROVE  Told(d, flags')
  <2>1. SaysLess(flags', x, y) BY <1>7, NarrowCompare
  <2>2. d.lhs = x /\ d.rhs = y /\ d.w = w /\ ~d.signed BY <1>7
  <2>3. QED BY <2>1, <2>2 DEF Told
<1>8. ASSUME NEW x, NEW y
      PROVE  /\ Outcome("sub", x, y) = Wrap(x - y) /\ ~IsLogic("sub") /\ IsSub("sub")
             /\ Outcome("cmp", x, y) = Wrap(x - y) /\ ~IsLogic("cmp") /\ IsSub("cmp")
  BY DEF Outcome, IsLogic, IsSub
<1>9. CASE i.form = "wide" /\ i.op = "sub"
  <2>1. Safe BY <1>4, <1>9
  <2> DEFINE x == Rd(i.dst, 8)
             y == Rd(i.src, 8)
  <2>2. c = [lhs |-> x, rhs |-> y, w |-> 8, signed |-> TRUE] BY <1>9 DEF Comparison, Compared, Some
  <2>3. x \in Word /\ y \in Word /\ Low(x, 8) = x /\ Low(y, 8) = y BY <1>1, <2>1 DEF Safe
  <2>4. flags' = ArithFlags(Wrap(x - y), x, Wrap(y + 0), TRUE, 8)
    BY <1>8, <1>9, FormNamesRow DEF Wide
  <2>5. Wrap(y + 0) = y
    <3>1. y \in Int BY <1>2, <2>3
    <3>2. y + 0 = y BY <3>1
    <3>3. QED BY <2>3, <3>2 DEF Wrap
  <2> HIDE DEF x, y
  <2>6. flags' = ArithFlags(Wrap(x - y), x, y, TRUE, 8) BY <2>4, <2>5
  <2>7. QED BY <1>1, <1>6, <2>2, <2>3, <2>6
<1>10. CASE i.form = "byte" /\ i.op = "sub"
  <2>1. Safe BY <1>4, <1>10
  <2> DEFINE x == Rd(i.dst, 1)
             y == Rd(i.src, 1)
  <2>2. c = [lhs |-> x, rhs |-> y, w |-> 1, signed |-> FALSE] BY <1>10 DEF Comparison, Compared, Some
  <2>3. x \in 0 .. Modulus(1) - 1 /\ y \in 0 .. Modulus(1) - 1 BY <1>1, <2>1 DEF Safe
  <2>4. flags' = ArithFlags(Low(Wrap(x - y), 1), x, y, TRUE, 8) BY <1>8, <1>10, FormNamesRow DEF ByteArith
  <2> HIDE DEF x, y
  <2>5. QED BY <1>1, <1>7, <2>2, <2>3, <2>4
<1>11. CASE i.form = "al" /\ IsSub(i.op)
  <2>1. Safe /\ i.op \in {"sub", "cmp"} BY <1>4, <1>11 DEF Legal, Decodes, IsSub
  <2> DEFINE x == Low(regs["rax"], 1)
             y == Rd(i.src, 1)
  <2>2. c = [lhs |-> x, rhs |-> y, w |-> 1, signed |-> FALSE] BY <1>11 DEF Comparison, Compared, Some
  <2>3. x \in 0 .. Modulus(1) - 1 /\ y \in 0 .. Modulus(1) - 1 BY <1>1, <1>5, <2>1 DEF Safe
  <2>4. flags' = ArithFlags(Low(Wrap(x - y), 1), x, y, TRUE, 8)
    BY <1>8, <1>11, <2>1, FormNamesRow DEF AlImmediate
  <2> HIDE DEF x, y
  <2>5. QED BY <1>1, <1>7, <2>2, <2>3, <2>4
<1>12. CASE i.form = "ax" /\ IsSub(i.op)
  <2>1. Safe /\ i.op = "sub" BY <1>4, <1>12 DEF Legal, Decodes, IsSub
  <2> DEFINE x == Low(regs["rax"], i.w)
             y == Rd(i.src, i.w)
  <2>2. c = [lhs |-> x, rhs |-> y, w |-> i.w, signed |-> i.w = 8] BY <1>12 DEF Comparison, Compared, Some
  <2>3. /\ x \in Word /\ y \in Word /\ x \in 0 .. Modulus(i.w) - 1 /\ y \in 0 .. Modulus(i.w) - 1
        /\ Low(x, 8) = x /\ Low(y, 8) = y
    BY <1>1, <1>2, <1>5, <2>1 DEF Safe
  <2>4. flags' = ArithFlags(Wrap(x - y), x, y, TRUE, 8) BY <1>8, <1>12, <2>1, FormNamesRow DEF AxImmediate
  <2> HIDE DEF x, y
  <2>5. Told([lhs |-> Low(x, 8), rhs |-> Low(y, 8), w |-> 8, signed |-> TRUE], flags')
    BY <1>1, <1>6, <2>3, <2>4
  <2>6. SaysLess(flags', x, y) /\ SaysSignedLess(flags', x, y, 8) BY <2>3, <2>5 DEF Told
  <2>7. c.lhs = x /\ c.rhs = y /\ c.w = i.w /\ (c.signed => i.w = 8) BY <2>2
  <2>8. QED BY <1>1, <2>3, <2>6, <2>7 DEF Told
<1>13. CASE i.form = "cmp" \/ (i.form = "imm" /\ i.op \in {"sub", "cmp"})
  <2>1. Safe BY <1>4, <1>13
  <2> DEFINE x == Rd(i.dst, i.w)
             y == Rd(i.src, i.w)
  <2>2. c = [lhs |-> x, rhs |-> y, w |-> i.w, signed |-> TRUE] BY <1>13 DEF Comparison, Compared, Some
  <2>3. x \in Word /\ y \in Word /\ Low(x, i.w) = x /\ Low(y, i.w) = y BY <1>1, <2>1 DEF Safe
  <2>4. flags' = ArithFlags(Wrap(x - y), x, y, TRUE, i.w)
    BY <1>8, <1>13, FormNamesRow DEF Compare, SizedImmediate, Immediate
  <2> HIDE DEF x, y
  <2>5. QED BY <1>1, <1>6, <2>2, <2>3, <2>4
<1>14. CASE i.form = "imm8" /\ i.op \in {"sub", "cmp"}
  <2>1. Safe BY <1>4, <1>14
  <2> DEFINE x == Rd(i.dst, 1)
             y == Rd(i.src, 1)
  <2>2. c = [lhs |-> x, rhs |-> y, w |-> 1, signed |-> TRUE] BY <1>14 DEF Comparison, Compared, Some
  <2>3. x \in Word /\ y \in Word /\ Low(x, 1) = x /\ Low(y, 1) = y BY <1>1, <2>1 DEF Safe
  <2>4. flags' = ArithFlags(Wrap(x - y), x, y, TRUE, 1)
    BY <1>8, <1>14, FormNamesRow DEF ByteImmediate, Immediate
  <2> HIDE DEF x, y
  <2>5. QED BY <1>1, <1>6, <2>2, <2>3, <2>4
<1>15. CASE i.form = "short" /\ i.op \in {"sub", "cmp"} /\ i.w \in {4, 8}
  <2>1. Safe BY <1>4, <1>15
  <2> DEFINE x == Rd(i.dst, i.w)
             y == Extend(Rd(i.src, 1), 1, 8)
  <2>2. c = [lhs |-> x, rhs |-> Low(y, i.w), w |-> i.w, signed |-> TRUE]
    BY <1>15 DEF Comparison, Compared, Some
  <2>3. x \in Word /\ Low(x, i.w) = x BY <1>1, <2>1 DEF Safe
  <2>4. y \in Word BY <1>1, <1>2, <2>1, SignedType, LowRange DEF Extend, Safe
  <2>5. flags' = ArithFlags(Wrap(x - y), x, y, TRUE, i.w)
    BY <1>8, <1>15, FormNamesRow DEF ShortImmediate, Immediate
  <2> HIDE DEF x, y
  <2>6. QED BY <1>1, <1>6, <2>2, <2>3, <2>4, <2>5
<1>16. CASE i.form = "cmpxchg"
  <2>1. Safe BY <1>4, <1>16
  <2> DEFINE x == Rd(i.dst, i.w)
             y == Low(regs["rax"], i.w)
  <2>2. c = [lhs |-> x, rhs |-> y, w |-> i.w, signed |-> TRUE] BY <1>16 DEF Comparison, Compared, Some
  <2>3. x \in Word /\ y \in Word /\ Low(x, i.w) = x /\ Low(y, i.w) = y BY <1>1, <1>5, <2>1 DEF Safe
  <2>4. flags' = ArithFlags(Wrap(x - y), x, y, TRUE, i.w) BY <1>16, FormNamesRow DEF CompareExchange
  <2> HIDE DEF x, y
  <2>5. QED BY <1>1, <1>6, <2>2, <2>3, <2>4
<1>17. QED
  BY <1>9, <1>10, <1>11, <1>12, <1>13, <1>14, <1>15, <1>16 DEF Comparison, None

\* A step of the program, a stop or a stutter.
LEMMA StepCases ==
  ASSUME TypeOK, [CpuNext]_historyVars
  PROVE  \/ \E i \in Code[rip] : i \in Instructions /\ Legal(i) /\ Execute(i) /\ Step(i)
         \/ UNCHANGED <<rip, regs, flags, cpuMem, compared, borrowed, calls>>
<1>1. Code[rip] \subseteq Instructions BY CpuAssumption DEF TypeOK
<1>2. QED BY <1>1 DEF CpuNext, Step, Execute, Stop, historyVars

\* After a comparison and any number of instructions that leave the flags
\* alone, the unsigned conditions say how the two operands compare, at every
\* width and for every number of bits, and so do the signed ones except after a
\* byte sub and a comparison of al or eax with an immediate, whose flags are those
\* of wider operands; a cmp of two bytes with a sign-extended one is left out.
\* Proved from the lemma that the borrow, the sign and the overflow of x - y order
\* x and y (update_flags_arith_width).
THEOREM ConditionsAreRight == CpuSpec => []ConditionsCompare
<1>1. HistoryInit => FlagsTell BY DEF HistoryInit, FlagsTell, None
<1>2. ASSUME TypeOK, FlagsTell, [CpuNext]_historyVars PROVE FlagsTell'
  <2>1. CASE UNCHANGED <<rip, regs, flags, cpuMem, compared, borrowed, calls>>
    BY <1>2, <2>1 DEF FlagsTell
  <2>2. ASSUME NEW i \in Code[rip], i \in Instructions, Legal(i), Execute(i), Step(i)
        PROVE  FlagsTell'
    <3>1. compared' = Comparison(i) BY <2>2 DEF Step
    <3>2. CASE i.form \in KeepsFlags
      <4>1. Comparison(i) = compared BY <3>2 DEF Comparison, KeepsFlags
      <4>2. flags' = flags BY <2>2, <3>2, FlagsKept
      <4>3. QED BY <1>2, <3>1, <4>1, <4>2 DEF FlagsTell
    <3>3. CASE i.form \notin KeepsFlags BY <1>2, <2>2, <3>1, <3>3, ComparisonTold DEF FlagsTell
    <3>4. QED BY <3>2, <3>3
  <2>3. QED BY <1>2, <2>1, <2>2, StepCases
<1>3. QED BY <1>1, <1>2, TypeCorrect, ToldIsCompared, PTL DEF CpuSpec

-----------------------------------------------------------------------------
(* Borrows.                                                                *)

\* Another limb, higher than those before.
LEMMA LessCons ==
  ASSUME NEW l \in Seq(Word), NEW r \in Seq(Word), Len(l) = Len(r), NEW x \in Word, NEW y \in Word
  PROVE  Less(<<x>> \o l, <<y>> \o r) <=> x < y \/ (x = y /\ Less(l, r))
<1> DEFINE a == <<x>> \o l
           b == <<y>> \o r
<1>1. /\ DOMAIN l = 1 .. Len(l) /\ Len(l) \in Nat
      /\ DOMAIN a = 1 .. Len(l) + 1 /\ a[1] = x
      /\ \A n \in 1 .. Len(l) : a[n + 1] = l[n]
  OBVIOUS
<1>2. b[1] = y /\ \A n \in 1 .. Len(l) : b[n + 1] = r[n]
  OBVIOUS
<1> HIDE DEF a, b
<1>3. ASSUME x < y PROVE Less(a, b)
  <2>1. 1 \in DOMAIN a /\ a[1] < b[1] /\ \A m \in 1 .. 1 - 1 : a[m] = b[m] BY <1>1, <1>2, <1>3
  <2>2. QED BY <2>1 DEF Less
<1>4. ASSUME x = y, Less(l, r) PROVE Less(a, b)
  <2>1. PICK n \in 1 .. Len(l) : l[n] < r[n] /\ \A m \in 1 .. n - 1 : l[m] = r[m]
    BY <1>1, <1>4 DEF Less
  <2>2. n + 1 \in DOMAIN a /\ a[n + 1] < b[n + 1] BY <1>1, <1>2, <2>1
  <2>3. ASSUME NEW m \in 1 .. (n + 1) - 1 PROVE a[m] = b[m]
    <3>1. CASE m = 1 BY <1>1, <1>2, <1>4, <3>1
    <3>2. CASE m # 1
      <4>1. m - 1 \in 1 .. n - 1 /\ m - 1 \in 1 .. Len(l) /\ (m - 1) + 1 = m BY <1>1, <2>1, <3>2
      <4>2. a[(m - 1) + 1] = l[m - 1] /\ b[(m - 1) + 1] = r[m - 1] /\ l[m - 1] = r[m - 1]
        BY <1>1, <1>2, <2>1, <4>1
      <4>3. QED BY <4>1, <4>2
    <3>3. QED BY <3>1, <3>2
  <2>4. QED BY <2>2, <2>3 DEF Less
<1>5. ASSUME Less(a, b) PROVE x < y \/ (x = y /\ Less(l, r))
  <2>1. PICK n \in 1 .. Len(l) + 1 : a[n] < b[n] /\ \A m \in 1 .. n - 1 : a[m] = b[m]
    BY <1>1, <1>5 DEF Less
  <2>2. CASE n = 1 BY <1>1, <1>2, <2>1, <2>2
  <2>3. CASE n # 1
    <3>1. n - 1 \in 1 .. Len(l) /\ (n - 1) + 1 = n /\ 1 \in 1 .. n - 1 BY <1>1, <2>1, <2>3
    <3>2. x = y BY <1>1, <1>2, <2>1, <3>1
    <3>3. l[n - 1] < r[n - 1]
      <4>1. a[(n - 1) + 1] = l[n - 1] /\ b[(n - 1) + 1] = r[n - 1] BY <1>1, <1>2, <3>1
      <4>2. QED BY <2>1, <3>1, <4>1
    <3>4. ASSUME NEW m \in 1 .. (n - 1) - 1 PROVE l[m] = r[m]
      <4>1. m \in 1 .. Len(l) /\ m + 1 \in 1 .. n - 1 BY <1>1, <2>1, <3>1
      <4>2. QED BY <1>1, <1>2, <2>1, <4>1
    <3>5. QED BY <1>1, <3>1, <3>2, <3>3, <3>4 DEF Less
  <2>4. QED BY <2>2, <2>3
<1>6. QED BY <1>3, <1>4, <1>5 DEF a, b

Borrowing ==
  /\ borrowed.lhs \in Seq(Word) /\ borrowed.rhs \in Seq(Word)
  /\ Len(borrowed.lhs) = Len(borrowed.rhs)
  /\ BorrowsChain

LEMMA StepBorrowing ==
  ASSUME TypeOK, Borrowing, NEW i \in Instructions, Legal(i), Execute(i), borrowed' = Borrow(i)
  PROVE  Borrowing'
<1>1. 8 \in Widths /\ Word \subseteq Int /\ \A x \in Word : Low(x, 8) = x BY WordFacts DEF Word
<1>2. ASSUME i.form = "wide"
      PROVE  /\ Rd(i.dst, 8) \in Word /\ Rd(i.src, 8) \in Word
             /\ Rd(i.dst, 8) \in Int /\ Rd(i.src, 8) \in Int
  BY <1>1, <1>2, LegalReads
<1>3. CASE i.form = "wide" /\ i.op = "sub"
  <2> DEFINE x == Rd(i.dst, 8)
             y == Rd(i.src, 8)
  <2>1. ~(i.form = "wide" /\ i.op = "sbb") BY <1>3
  <2>3. i.form \notin KeepsFlags BY <1>3 DEF KeepsFlags
  <2>10. borrowed' = [lhs |-> <<x>>, rhs |-> <<y>>, lost |-> FALSE] BY <1>3, <2>1, <2>3, Zenon DEF Borrow
  <2>11. i.form \notin {"byte", "al", "ax", "cmp", "imm", "imm8", "short", "cmpxchg"} BY <1>3
  <2>2. [lhs |-> x, rhs |-> y, w |-> 8, signed |-> TRUE] \in Comparison(i)
    BY <1>3, <2>3, <2>11, Zenon DEF Comparison, Compared, Some
  <2>4. Told([lhs |-> x, rhs |-> y, w |-> 8, signed |-> TRUE], flags') BY <2>2, <2>3, ComparisonTold
  <2>5. flags'.cf <=> x < y BY <2>4 DEF Told, SaysLess
  <2>6. x \in Word /\ y \in Word BY <1>2, <1>3
  <2> HIDE DEF x, y
  <2>7. Less(<<x>>, <<y>>) <=> x < y
    <3>1. DOMAIN <<x>> = {1} /\ <<x>>[1] = x /\ <<y>>[1] = y /\ 1 .. 1 - 1 = {} OBVIOUS
    <3>2. QED BY <3>1 DEF Less
  <2>8. borrowed'.lhs = <<x>> /\ borrowed'.rhs = <<y>> BY <2>10
  <2>9. QED BY <2>5, <2>6, <2>7, <2>8 DEF Borrowing, BorrowsChain
<1>4. CASE i.form = "wide" /\ i.op = "sbb" /\ borrowed.lhs # <<>>
  <2> DEFINE x == Rd(i.dst, 8)
             y == Rd(i.src, 8)
  <2>1. borrowed' = [lhs |-> <<x>> \o borrowed.lhs, rhs |-> <<y>> \o borrowed.rhs,
                     lost |-> borrowed.lost \/ y + Carry >= Modulus(8)]
    <3>1. ~(i.form = "wide" /\ i.op = "sub") BY <1>4
    <3>2. i.form \notin KeepsFlags BY <1>4 DEF KeepsFlags
    <3>3. QED BY <1>4, <3>1, <3>2, Zenon DEF Borrow
  <2>2. flags' = ArithFlags(Outcome("sbb", x, y), x, Wrap(y + Carry), TRUE, 8)
    <3>1. ~IsLogic("sbb") /\ IsSub("sbb") BY DEF IsLogic, IsSub
    <3>2. QED BY <1>4, <3>1, FormNamesRow DEF Wide
  <2>3. x \in Word /\ y \in Word /\ x \in Int /\ y \in Int BY <1>2, <1>4
  <2> HIDE DEF x, y
  <2>10. /\ borrowed'.lhs = <<x>> \o borrowed.lhs /\ borrowed'.rhs = <<y>> \o borrowed.rhs
         /\ borrowed'.lost = (borrowed.lost \/ y + Carry >= Modulus(8))
    BY <2>1
  <2>11. /\ borrowed'.lhs \in Seq(Word) /\ borrowed'.rhs \in Seq(Word)
         /\ Len(borrowed'.lhs) = Len(borrowed'.rhs)
    BY <2>3, <2>10 DEF Borrowing
  <2>12. ASSUME ~borrowed'.lost PROVE BorrowsChain'
    <3>1. ~borrowed.lost /\ ~(y + Carry >= Modulus(8)) BY <2>10, <2>12
    <3>2. y + Carry \in Word BY <2>3, <3>1, CarryType, WordFacts DEF Word
    <3>3. flags'.cf <=> Low(x, 8) < Low(Wrap(y + Carry), 8) BY <2>2 DEF ArithFlags, DifferenceFlags
    <3>4. flags'.cf <=> x < y + Carry BY <1>1, <2>3, <3>2, <3>3 DEF Wrap
    <3>5. flags'.cf <=> x < y \/ (x = y /\ flags.cf) BY <2>3, <3>4 DEF Carry
    <3>6. flags.cf <=> Less(borrowed.lhs, borrowed.rhs) BY <1>4, <3>1 DEF Borrowing, BorrowsChain
    <3>7. Less(<<x>> \o borrowed.lhs, <<y>> \o borrowed.rhs) <=> x < y \/ (x = y /\ flags.cf)
      BY <2>3, <3>6, LessCons DEF Borrowing
    <3>8. QED BY <2>10, <3>5, <3>7 DEF BorrowsChain
  <2>13. QED BY <2>11, <2>12 DEF Borrowing, BorrowsChain
<1>5. CASE i.form \in KeepsFlags
  <2>1. Borrow(i) = borrowed BY <1>5 DEF Borrow, KeepsFlags
  <2>2. flags' = flags BY <1>5, FlagsKept
  <2>3. QED BY <2>1, <2>2 DEF Borrowing, BorrowsChain
<1>6. CASE borrowed' = Unborrowed
  <2>1. borrowed'.lhs = <<>> /\ borrowed'.rhs = <<>> BY <1>6 DEF Unborrowed
  <2>2. <<>> \in Seq(Word) OBVIOUS
  <2>3. QED BY <2>1, <2>2 DEF Borrowing, BorrowsChain
<1>7. QED BY <1>3, <1>4, <1>5, <1>6 DEF Borrow

\* A subtraction of any number of limbs, a sub and then an sbb for each
\* higher limb, ends with the carry that says whether the whole left side
\* was less, however many instructions that keep the flags lie between, if no
\* sbb had a right side with all bits set and a carry: that one loses the
\* borrow in the code (runtime.rs:5017-5022).
THEOREM BorrowsAreRight == CpuSpec => []BorrowsChain
<1>1. HistoryInit => Borrowing
  <2>1. SUFFICES ASSUME HistoryInit PROVE Borrowing OBVIOUS
  <2>2. borrowed.lhs = <<>> /\ borrowed.rhs = <<>> BY <2>1 DEF HistoryInit, Unborrowed
  <2>3. <<>> \in Seq(Word) OBVIOUS
  <2>4. QED BY <2>2, <2>3 DEF Borrowing, BorrowsChain
<1>2. ASSUME TypeOK, Borrowing, [CpuNext]_historyVars PROVE Borrowing'
  <2>1. CASE UNCHANGED <<rip, regs, flags, cpuMem, compared, borrowed, calls>>
    BY <1>2, <2>1 DEF Borrowing, BorrowsChain
  <2>2. ASSUME NEW i \in Code[rip], i \in Instructions, Legal(i), Execute(i), Step(i)
        PROVE  Borrowing'
    BY <1>2, <2>2, StepBorrowing DEF Step
  <2>3. QED BY <1>2, <2>1, <2>2, StepCases
<1>3. Borrowing => BorrowsChain BY DEF Borrowing
<1>4. QED BY <1>1, <1>2, <1>3, TypeCorrect, PTL DEF CpuSpec

-----------------------------------------------------------------------------
(* Returns.                                                                *)

\* A store reaches no slot but the one its address names, the slots stos
\* covers, or the slot a push takes.
LEMMA MemoryKept ==
  ASSUME TypeOK, NEW i, Execute(i), NEW s \in Slots, s \notin Overwritten(i),
         i.form \in {"push", "pushf", "call"} => s # Top - 1
  PROVE  cpuMem'[s] = cpuMem[s]
<1>1. cpuMem \in [Slots -> Word] BY DEF TypeOK, MachineOK
<1>2. ASSUME NEW w, NEW m, NEW v, WriteAs(i.dst, w, m, v), i.form # "stos" PROVE cpuMem'[s] = cpuMem[s]
  BY <1>1, <1>2 DEF WriteAs, Overwritten
<1>3. ASSUME NEW w, NEW v, Wr(i.dst, w, v), i.form # "stos" PROVE cpuMem'[s] = cpuMem[s]
  BY <1>2, <1>3 DEF Wr
<1>4. ASSUME NEW v, PushWord(v), i.form \in {"push", "pushf", "call"} PROVE cpuMem'[s] = cpuMem[s]
  BY <1>1, <1>4 DEF PushWord
<1>5. CASE Arithmetic(i)
  <2>1. CASE Wide(i) \/ AddSized(i) \/ ByteArith(i) \/ ByteXor(i) \/ XorSized(i)
    BY <1>3, <2>1 DEF Wide, AddSized, ByteArith, ByteXor, XorSized
  <2>2. CASE IncDec(i) \/ Unary(i) \/ Multiply2(i) \/ ShiftOne(i) \/ ShiftCl(i) \/ ShiftImmediate(i)
    BY <1>3, <2>2 DEF IncDec, Unary, Multiply2, ShiftOne, ShiftCl, ShiftImmediate
  <2>3. CASE SizedImmediate(i) \/ ByteImmediate(i) \/ ShortImmediate(i)
    BY <1>2, <2>3 DEF SizedImmediate, ByteImmediate, ShortImmediate, Immediate
  <2>4. CASE AlImmediate(i) \/ AxImmediate(i) \/ Compare(i) \/ Test(i) \/ Multiply(i) \/ Divide(i)
    BY <2>4 DEF AlImmediate, AxImmediate, Compare, Test, Multiply, Divide, SetRegister
  <2>5. QED BY <1>5, <2>1, <2>2, <2>3, <2>4 DEF Arithmetic
<1>6. CASE Data(i)
  <2>1. CASE Move(i) BY <1>2, <2>1 DEF Move
  <2>2. CASE MoveExtended(i) \/ SetOn(i) \/ MoveOn(i) \/ CompareExchange(i)
    BY <1>3, <2>2 DEF MoveExtended, SetOn, MoveOn, CompareExchange, SetRegister
  <2>3. CASE Convert(i) \/ LoadAddress(i) \/ BitTest(i) \/ BitScan(i)
    BY <2>3 DEF Convert, LoadAddress, BitTest, BitScan, SetRegister
  <2>4. CASE Exchange(i) BY <1>1, <2>4 DEF Exchange, Overwritten
  <2>5. CASE StoreString(i) BY <2>5 DEF StoreString, Overwritten
  <2>6. QED BY <1>6, <2>1, <2>2, <2>3, <2>4, <2>5 DEF Data
<1>7. CASE Control(i)
  <2>1. CASE Push(i) \/ PushFlags(i) \/ Call(i) BY <1>4, <2>1 DEF Push, PushFlags, Call
  <2>2. CASE ~(Push(i) \/ PushFlags(i) \/ Call(i))
    BY <1>7, <2>2 DEF Control, Pop, PopFlags, Leave, Ret, JumpTo, JumpOn, NoOperation,
      Identify, Halt, SystemCall, SetRegister
  <2>3. QED BY <2>1, <2>2
<1>8. QED BY <1>5, <1>6, <1>7 DEF Execute

\* The return addresses of the open calls are where the calls put them, and
\* not below the stack pointer.
CallsHold == \A c \in calls : c.slot \in Slots /\ c.slot >= Top /\ cpuMem[c.slot] = c.ret

LEMMA StepCallsHold ==
  ASSUME TypeOK, CallsHold, NEW i \in Instructions, Legal(i), Execute(i), calls' = OpenCalls(i)
  PROVE  CallsHold'
<1>1. Word \subseteq Int /\ Slots \subseteq Int /\ Top \in Int
  BY CpuAssumption DEF Word, TypeOK, MachineOK, Top, Registers
<1>2. i.form \in {"push", "pushf", "call"} => Top' = Top - 1 /\ Top - 1 \in Slots
  <2>1. i.form \in {"push", "pushf", "call"} => \E v : PushWord(v)
    BY FormNamesRow DEF Push, PushFlags, Call
  <2>2. regs \in [Registers -> Word] /\ "rsp" \in Registers BY DEF TypeOK, MachineOK, Registers
  <2>3. i.form \in {"push", "pushf", "call"} => Top' = Top - 1 BY <2>1, <2>2 DEF PushWord, Top
  <2>4. QED BY <2>3 DEF Legal
<1>3. ASSUME NEW c \in calls, c.slot >= regs'["rsp"], c.slot \notin Overwritten(i)
      PROVE  c.slot \in Slots /\ c.slot >= Top' /\ cpuMem'[c.slot] = c.ret
  <2>1. c.slot \in Slots /\ c.slot >= Top /\ cpuMem[c.slot] = c.ret BY DEF CallsHold
  <2>2. c.slot # Top - 1 BY <1>1, <2>1
  <2>3. cpuMem'[c.slot] = cpuMem[c.slot] BY <1>3, <2>1, <2>2, MemoryKept
  <2>4. QED BY <1>3, <2>1, <2>3 DEF Top
<1>4. ASSUME i.form = "call"
      PROVE  Top - 1 \in Slots /\ Top - 1 >= Top' /\ cpuMem'[Top - 1] = Next1
  <2>1. cpuMem' = [cpuMem EXCEPT ![Top - 1] = Next1] BY <1>4, FormNamesRow DEF Call, PushWord
  <2>2. QED BY <1>1, <1>2, <1>4, <2>1 DEF TypeOK, MachineOK
<1>5. ASSUME NEW c \in calls' PROVE c.slot \in Slots /\ c.slot >= Top' /\ cpuMem'[c.slot] = c.ret
  <2>1. \/ i.form = "call" /\ c = [slot |-> Top - 1, ret |-> Next1]
        \/ c \in calls /\ c.slot >= regs'["rsp"] /\ c.slot \notin Overwritten(i)
    BY <1>5 DEF OpenCalls
  <2>2. CASE i.form = "call" /\ c = [slot |-> Top - 1, ret |-> Next1] BY <1>4, <2>2
  <2>3. QED BY <1>3, <2>1, <2>2
<1>6. QED BY <1>5 DEF CallsHold

\* A ret whose stack pointer is at the return address of an open call goes
\* to the instruction after the call, whatever ran in between: no push, call
\* or store to another slot can reach a return address that is still above
\* the stack pointer.
THEOREM ReturnsGoBack == CpuSpec => ReturnsToCaller
<1>1. HistoryInit => CallsHold BY DEF HistoryInit, CallsHold
<1>2. ASSUME TypeOK, CallsHold, [CpuNext]_historyVars PROVE CallsHold'
  <2>1. CASE UNCHANGED <<rip, regs, flags, cpuMem, compared, borrowed, calls>>
    BY <1>2, <2>1 DEF CallsHold, Top
  <2>2. ASSUME NEW i \in Code[rip], i \in Instructions, Legal(i), Execute(i), Step(i)
        PROVE  CallsHold'
    BY <1>2, <2>2, StepCallsHold DEF Step
  <2>3. QED BY <1>2, <2>1, <2>2, StepCases
<1>3. ASSUME CallsHold, NEW i \in Code[rip], NEW c \in calls, Step(i), i.form = "ret", c.slot = Top
      PROVE  rip' = c.ret
  <2>1. rip' = cpuMem[Top] BY <1>3, FormNamesRow DEF Step, Ret, Jump
  <2>2. QED BY <1>3, <2>1 DEF CallsHold
<1>4. CallsHold => [\A i \in Code[rip] : \A c \in calls :
                      Step(i) /\ i.form = "ret" /\ c.slot = Top => rip' = c.ret]_historyVars
  BY <1>3
<1>5. QED BY <1>1, <1>2, <1>4, TypeCorrect, PTL DEF CpuSpec, ReturnsToCaller
=============================================================================
