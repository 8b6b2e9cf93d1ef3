-------------------------------- MODULE Cpu --------------------------------
(***************************************************************************)
(* X86_64Interpreter::run: one instruction a step, over the registers, the *)
(* flags and the memory of the guest.  An instruction is what the prefixes *)
(* and ModR/M bytes decode to: a form (a row of the match on the opcode),  *)
(* an operation, a width and two operands.  An address names one eight-    *)
(* byte slot, of which an access takes the low bytes; an instruction takes *)
(* one address, and Code[a] holds the instructions a may hold.             *)
(***************************************************************************)
EXTENDS Words, Options

CONSTANTS
  Slots,         \* the mapped addresses
  Code,          \* the instructions an address may hold
  Entries,       \* the states a program may be entered in
  Results,       \* what the system call handler may answer
  Cpuid,         \* what CPUID answers
  MaxSteps       \* 10_000_000 in the code

VARIABLES
  cpuStatus,     \* running, exited, faulted, or error: run() answered Err
  steps,         \* instructions begun
  rip,
  regs,          \* the general registers
  flags,
  cpuMem,        \* what each slot holds
  fsBase         \* what a segment override adds

cpuVars == <<cpuStatus, steps, rip, regs, flags, cpuMem, fsBase>>

Registers == {"rax", "rcx", "rdx", "rbx", "rsp", "rbp", "rdi", "r11"}
HighByte == {"rax", "rcx", "rdx", "rbx"}

Operands ==
  [kind : {"reg"}, reg : Registers, high : {FALSE}]
    \cup [kind : {"reg"}, reg : HighByte, high : {TRUE}]
    \cup [kind : {"mem"}, base : Option(Registers), index : Option(Registers),
          scale : {1, 2, 4, 8}, disp : Word, fs : BOOLEAN]
    \cup [kind : {"imm"}, val : Word]

\* An immediate shift has its count in src.  What the decoding fixes: xchg
\* has a register, lea an address, and 0x98 no width of one byte.
Instructions ==
  {i \in [form : STRING, op : STRING, w : Widths, dst : Operands, src : Operands, cc : Conditions] :
     /\ i.form = "xchg" => i.src.kind = "reg"
     /\ i.form = "lea" => i.src.kind = "mem"
     /\ i.form = "cbw" => i.w # 1}

ASSUME CpuAssumption ==
  /\ Slots \subseteq Word
  /\ Code \in [Word -> SUBSET Instructions]
  /\ Entries \subseteq [rip : Word, regs : [Registers -> Word], mem : [Slots -> Word]]
  /\ Results \subseteq [rax : Word, fs : Option(Word), exit : BOOLEAN]
  /\ Cpuid \in [{"rax", "rcx", "rdx", "rbx"} -> Word]
  /\ MaxSteps \in Nat

----------------------------------------------------------------------------
\* Operands.

ValueOf(r) == IF r = None THEN 0 ELSE regs[CHOOSE s \in Registers : r = Some(s)]

Effective(o) == Wrap(ValueOf(o.base) + o.scale * ValueOf(o.index) + o.disp)
Address(o) == Wrap(Effective(o) + (IF o.fs THEN fsBase ELSE 0))

Content(o) ==
  CASE o.kind = "reg" -> IF o.high THEN regs[o.reg] \div Modulus(1) ELSE regs[o.reg]
    [] o.kind = "mem" -> cpuMem[Address(o)]
    [] o.kind = "imm" -> o.val
Rd(o, w) == Low(Content(o), w)

\* A write of four bytes clears the rest of a register, a shorter one keeps it.
Merge(old, w, v) == IF w \in {4, 8} THEN v ELSE Insert(old, w, v)
InsertHigh(old, v) == old + (v - Low(old \div Modulus(1), 1)) * Modulus(1)

\* v goes to a register as w bytes, or to memory as m bytes.
WriteAs(o, w, m, v) ==
  \/ /\ o.kind = "reg"
     /\ regs' = [regs EXCEPT ![o.reg] = IF o.high THEN InsertHigh(@, Low(v, 1))
                                                  ELSE Merge(@, w, Low(v, w))]
     /\ UNCHANGED cpuMem
  \/ /\ o.kind = "mem"
     /\ cpuMem' = [cpuMem EXCEPT ![Address(o)] = Insert(@, m, Low(v, m))]
     /\ UNCHANGED regs
Wr(o, w, v) == WriteAs(o, w, w, v)

SetRegister(r, v) == regs' = [regs EXCEPT ![r] = v] /\ UNCHANGED cpuMem

Next1 == Wrap(rip + 1)
Straight == rip' = Next1 /\ UNCHANGED <<cpuStatus, fsBase>>
Jump(target) == rip' = target /\ UNCHANGED <<cpuStatus, fsBase>>
Carry == IF flags.cf THEN 1 ELSE 0

----------------------------------------------------------------------------
\* Sums and comparisons.

Logic(op, x, y) == CASE op = "and" -> And(x, y) [] op = "or" -> Or(x, y) [] op = "xor" -> Xor(x, y)
IsLogic(op) == op \in {"and", "or", "xor"}
IsSub(op) == op \in {"sub", "sbb", "cmp"}

\* The result at the width of the registers: the caller cuts it to size.
Outcome(op, x, y) ==
  CASE IsLogic(op) -> Logic(op, x, y)
    [] op = "add" -> Wrap(x + y)
    [] op = "adc" -> Wrap(x + y + Carry)
    [] op \in {"sub", "cmp"} -> Wrap(x - y)
    [] op = "sbb" -> Wrap(x - y - Carry)

\* Mutant: sbb flags as if there were no carry.
WideIgnoringCarry(i) ==
  /\ i.form = "wide"
  /\ LET x == Rd(i.dst, 8)
         y == Rd(i.src, 8)
         z == Outcome(i.op, x, y)
     IN  /\ flags' = IF IsLogic(i.op) THEN LogicFlags(z, 8)
                                      ELSE ArithFlags(z, x, y, IsSub(i.op), 8)
         /\ Wr(i.dst, 8, z)
  /\ Straight

\* 0x03, 0x09, 0x0b, 0x19, 0x1b, 0x21, 0x23, 0x29, 0x2b: eight bytes
\* whatever the operand size; sbb folds the carry into the right side.
Wide(i) ==
  /\ i.form = "wide"
  /\ LET x == Rd(i.dst, 8)
         y == Rd(i.src, 8)
         z == Outcome(i.op, x, y)
         rhs == Wrap(y + (IF i.op = "sbb" THEN Carry ELSE 0))
     IN  /\ flags' = IF IsLogic(i.op) THEN LogicFlags(z, 8)
                                      ELSE ArithFlags(z, x, rhs, IsSub(i.op), 8)
         /\ Wr(i.dst, 8, z)
  /\ Straight

\* 0x01.
AddSized(i) ==
  /\ i.form = "add"
  /\ LET x == Rd(i.dst, i.w)
         y == Rd(i.src, i.w)
     IN  /\ Wr(i.dst, i.w, x + y)
         /\ flags' = ArithFlags(x + y, x, y, FALSE, i.w)
  /\ Straight

\* 0x00, 0x08, 0x20, 0x28: the flags of sums are those of eight bytes.
ByteArith(i) ==
  /\ i.form = "byte"
  /\ LET x == Rd(i.dst, 1)
         y == Rd(i.src, 1)
         z == Low(Outcome(i.op, x, y), 1)
     IN  /\ Wr(i.dst, 1, z)
         /\ flags' = IF IsLogic(i.op) THEN LogicFlags(z, 1)
                                      ELSE ArithFlags(z, x, y, IsSub(i.op), 8)
  /\ Straight

\* 0x30: the flags stay as they were.
ByteXor(i) ==
  /\ i.form = "bytexor"
  /\ Wr(i.dst, 1, Xor(Rd(i.dst, 1), Rd(i.src, 1)))
  /\ Straight
  /\ UNCHANGED flags

\* 0x04, 0x0c, 0x24, 0x2c, 0x34, 0x3c: al and an immediate byte.
AlImmediate(i) ==
  /\ i.form = "al"
  /\ LET x == Low(regs["rax"], 1)
         y == Rd(i.src, 1)
         z == Low(Outcome(i.op, x, y), 1)
     IN  /\ IF i.op = "cmp" THEN UNCHANGED <<regs, cpuMem>>
                            ELSE SetRegister("rax", Insert(regs["rax"], 1, z))
         /\ flags' = IF IsLogic(i.op) THEN LogicFlags(z, 8)
                                      ELSE ArithFlags(z, x, y, IsSub(i.op), 8)
  /\ Straight

\* 0x05, 0x0d, 0x25, 0x2d, 0x35: the result of four bytes is not cut to four.
AxImmediate(i) ==
  /\ i.form = "ax"
  /\ LET x == Low(regs["rax"], i.w)
         y == Rd(i.src, i.w)
         z == Outcome(i.op, x, y)
     IN  /\ SetRegister("rax", z)
         /\ flags' = IF IsLogic(i.op) THEN LogicFlags(z, 8)
                                      ELSE ArithFlags(z, x, y, IsSub(i.op), 8)
  /\ Straight

\* 0x38, 0x39, 0x3a, 0x3b, 0x3d.
Compare(i) ==
  /\ i.form = "cmp"
  /\ LET x == Rd(i.dst, i.w)
         y == Rd(i.src, i.w)
     IN  flags' = ArithFlags(Wrap(x - y), x, y, TRUE, i.w)
  /\ Straight
  /\ UNCHANGED <<regs, cpuMem>>

\* 0x85, 0xa8, 0xa9; 0x84, 0xf6/0 and 0xf7/0 set the flags of eight bytes.
Test(i) ==
  /\ i.form = "test"
  /\ LET w == IF i.op = "full" THEN 8 ELSE i.w
     IN  flags' = LogicFlags(And(Rd(i.dst, i.w), Rd(i.src, i.w)), w)
  /\ Straight
  /\ UNCHANGED <<regs, cpuMem>>

\* 0x31, 0x33.
XorSized(i) ==
  /\ i.form = "xor"
  /\ LET z == Xor(Rd(i.dst, i.w), Rd(i.src, i.w))
     IN  /\ Wr(i.dst, i.w, z)
         /\ flags' = LogicFlags(z, i.w)
  /\ Straight

\* The end of 0x80, 0x81 and 0x83: sub and cmp are differences, whatever
\* else is flagged as a sum; a result of two bytes clears the upper half of
\* a register, as one of four does.
Immediate(i, x, y, z, w) ==
  /\ IF i.op = "cmp" THEN UNCHANGED <<regs, cpuMem>>
                     ELSE WriteAs(i.dst, IF i.w = 2 THEN 4 ELSE i.w, i.w, z)
  /\ flags' = ArithFlags(z, x, y, i.op \in {"sub", "cmp"}, w)
  /\ Straight

\* 0x81.
SizedImmediate(i) ==
  /\ i.form = "imm"
  /\ LET x == Rd(i.dst, i.w)
         y == Rd(i.src, i.w)
     IN  Immediate(i, x, y, Outcome(i.op, x, y), i.w)

\* 0x80: adc, which only memory has, adds no carry.
ByteImmediate(i) ==
  /\ i.form = "imm8"
  /\ LET x == Rd(i.dst, 1)
         y == Rd(i.src, 1)
     IN  Immediate(i, x, y, Outcome(IF i.op = "adc" THEN "add" ELSE i.op, x, y), 1)

\* 0x83: a sign-extended byte; /1, the code of or, adds with carry, and two
\* bytes have the flags of four.
ShortImmediate(i) ==
  /\ i.form = "short"
  /\ LET x == Rd(i.dst, i.w)
         y == Extend(Rd(i.src, 1), 1, 8)
     IN  Immediate(i, x, y, Outcome(IF i.op = "or" THEN "adc" ELSE i.op, x, y),
                   IF i.w = 8 THEN 8 ELSE 4)

\* 0xff/0, 0xff/1: the carry of before is kept beside the new one.
IncDec(i) ==
  /\ i.form = "incdec"
  /\ LET x == Rd(i.dst, i.w)
         z == IF i.op = "dec" THEN x - 1 ELSE x + 1
         f == ArithFlags(z, x, 1, i.op = "dec", i.w)
     IN  /\ Wr(i.dst, i.w, z)
         /\ flags' = [f EXCEPT !.cf = f.cf \/ flags.cf]
  /\ Straight

\* 0xf6/2, 0xf6/3, 0xf7/2, 0xf7/3: a register of 0xf7 has eight bytes.
Unary(i) ==
  /\ i.form = "unary"
  /\ LET w == IF i.w = 1 \/ i.dst.kind = "mem" THEN i.w ELSE 8
         x == Rd(i.dst, w)
     IN  Wr(i.dst, w, IF i.op = "not" THEN Modulus(w) - 1 - x ELSE -x)
  /\ Straight
  /\ UNCHANGED flags

\* 0xf7/4, 0xf7/5: rdx:rax = rax * a register.
Multiply(i) ==
  /\ i.form = "mul"
  /\ LET x == IF i.op = "imul" THEN Signed(regs["rax"], 8) ELSE regs["rax"]
         y == IF i.op = "imul" THEN Signed(Rd(i.dst, 8), 8) ELSE Rd(i.dst, 8)
     IN  regs' = [regs EXCEPT !["rax"] = Wrap(x * y), !["rdx"] = Wrap((x * y) \div Modulus(8))]
  /\ Straight
  /\ UNCHANGED <<flags, cpuMem>>

\* 0xf7/6, 0xf7/7: the upper half of the dividend is not read; with a
\* divisor in memory it is what the remainder is taken of.
Divide(i) ==
  /\ i.form = "div"
  /\ LET d == Rd(i.dst, IF i.dst.kind = "mem" THEN i.w ELSE 8)
         r == IF i.dst.kind = "mem" THEN "rdx" ELSE "rax"
     IN  regs' = [regs EXCEPT !["rax"] = @ \div d, !["rdx"] = regs[r] % d]
  /\ Straight
  /\ UNCHANGED <<flags, cpuMem>>

\* 0x0f 0xaf: the flags stay as they were.
Multiply2(i) ==
  /\ i.form = "imul"
  /\ Wr(i.dst, i.w, Rd(i.dst, i.w) * Rd(i.src, i.w))
  /\ Straight
  /\ UNCHANGED flags

----------------------------------------------------------------------------
\* Shifts of a value of width w.

Rotated(x, n, w) == Low(x * Power[n], w) + x \div Power[BitsOf[w] - n]

Shifted(op, x, n, w) ==
  CASE op \in {"shl", "sal"} -> Low(x * Power[n], w)
    [] op = "shr" -> x \div Power[n]
    [] op = "sar" -> Low(Signed(x, w) \div Power[n], w)
    [] op = "rol" -> Rotated(x, n, w)
    [] op = "ror" -> Rotated(x, BitsOf[w] - n, w)

\* A byte has rotations in the place of sal and sar; 0xd1 and 0xd3 shift
\* where they should rotate.
ByteShift(op) == CASE op = "sal" -> "rol" [] op = "sar" -> "ror" [] OTHER -> op
PlainShift(op) == CASE op = "rol" -> "shl" [] op = "ror" -> "shr" [] OTHER -> op

\* 0xd0, 0xd1: by one; only 0xd1 sets the flags, and its sar of two or four
\* bytes always sets the sign.
ShiftOne(i) ==
  /\ i.form = "shift1"
  /\ LET x == Rd(i.dst, i.w)
         z == IF i.w \in {2, 4} /\ i.op = "sar" THEN x \div 2 + Half(i.w)
              ELSE Shifted(IF i.w = 1 THEN ByteShift(i.op) ELSE PlainShift(i.op), x, 1, i.w)
     IN  /\ Wr(i.dst, i.w, z)
         /\ flags' = IF i.w = 1 THEN flags ELSE LogicFlags(z, i.w)
  /\ Straight

\* 0xd3: by cl, the eight bytes of a register.
ShiftCl(i) ==
  /\ i.form = "shiftcl"
  /\ Wr(i.dst, 8, Shifted(PlainShift(i.op), Rd(i.dst, 8), regs["rcx"] % BitsOf[8], 8))
  /\ Straight
  /\ UNCHANGED flags

\* 0xc0, 0xc1: by an immediate, one byte or eight; only 0xc0 sets the flags.
ShiftImmediate(i) ==
  /\ i.form = "shiftimm"
  /\ LET w == IF i.w = 1 THEN 1 ELSE 8
         n == Rd(i.src, 1)
         count == IF w = 8 /\ i.op = "sar" /\ n >= BitsOf[8] THEN BitsOf[8] - 1 ELSE n % BitsOf[w]
         z == Shifted(IF w = 1 THEN ByteShift(i.op) ELSE i.op, Rd(i.dst, w), count, w)
     IN  /\ Wr(i.dst, w, z)
         /\ flags' = IF w = 1 THEN LogicFlags(z, 1) ELSE flags
  /\ Straight

----------------------------------------------------------------------------
\* Moves.

\* 0x88, 0x8a, 0x89, 0x8b, 0xb8, 0xc6; 0xc7 clears the rest of a register.
Move(i) ==
  /\ i.form = "mov"
  /\ WriteAs(i.dst, IF i.op = "c7" /\ i.w = 2 THEN 4 ELSE i.w, i.w, Rd(i.src, i.w))
  /\ Straight
  /\ UNCHANGED flags

\* 0x0f 0xb6, 0x0f 0xb7: i.w bytes into eight; 0x0f 0xbe, 0x63: with sign.
MoveExtended(i) ==
  /\ i.form = "movx"
  /\ LET x == Rd(i.src, i.w)
     IN  Wr(i.dst, 8, CASE i.op = "zx" -> x
                           [] i.op = "sx" -> Extend(x, i.w, 8)
                           [] i.op = "sx4" -> Extend(x, i.w, 4))
  /\ Straight
  /\ UNCHANGED flags

\* 0x98: the lower half of i.w bytes of rax, extended to all of them.
Convert(i) ==
  /\ i.form = "cbw"
  /\ SetRegister("rax", Merge(regs["rax"], i.w, Extend(Low(regs["rax"], i.w \div 2), i.w \div 2, i.w)))
  /\ Straight
  /\ UNCHANGED flags

\* 0x87: registers change places whole; of memory i.w bytes, which clear
\* the rest of the register.  0x91 cuts both to four bytes.
Exchange(i) ==
  /\ i.form = "xchg"
  /\ LET x == Content(i.dst)
         y == regs[i.src.reg]
         w == IF i.dst.kind = "mem" THEN i.w ELSE IF i.op = "91" THEN 4 ELSE 8
     IN  IF i.dst.kind = "mem"
         THEN /\ cpuMem' = [cpuMem EXCEPT ![Address(i.dst)] = Insert(@, w, Low(y, w))]
              /\ regs' = [regs EXCEPT ![i.src.reg] = Low(x, w)]
         ELSE /\ regs' = [regs EXCEPT ![i.dst.reg] = Low(y, w), ![i.src.reg] = Low(x, w)]
              /\ UNCHANGED cpuMem
  /\ Straight
  /\ UNCHANGED flags

\* 0x8d: the segment override is added to the address too.
LoadAddress(i) ==
  /\ i.form = "lea"
  /\ SetRegister(i.dst.reg, Address(i.src))
  /\ Straight
  /\ UNCHANGED flags

\* 0x0f 0x90.
SetOn(i) ==
  /\ i.form = "setcc"
  /\ Wr(i.dst, 1, IF Holds(i.cc, flags) THEN 1 ELSE 0)
  /\ Straight
  /\ UNCHANGED flags

\* 0x0f 0x40: eight bytes whatever the operand size; 0x47, cmova, reads the
\* carry alone.
MoveOn(i) ==
  /\ i.form = "cmov"
  /\ IF (i.cc = "a" /\ ~flags.cf) \/ (i.cc # "a" /\ Holds(i.cc, flags))
     THEN Wr(i.dst, 8, Rd(i.src, 8))
     ELSE UNCHANGED <<regs, cpuMem>>
  /\ Straight
  /\ UNCHANGED flags

\* 0x0f 0xb1.
CompareExchange(i) ==
  /\ i.form = "cmpxchg"
  /\ LET old == Rd(i.dst, i.w)
         acc == Low(regs["rax"], i.w)
     IN  /\ flags' = ArithFlags(Wrap(old - acc), old, acc, TRUE, i.w)
         /\ IF old = acc THEN Wr(i.dst, i.w, Rd(i.src, i.w))
                         ELSE SetRegister("rax", Merge(regs["rax"], i.w, old))
  /\ Straight

\* 0x0f 0xa3; of memory the slot that holds the bit.
BitTest(i) ==
  /\ i.form = "bt"
  /\ LET n == Content(i.src)
         x == IF i.dst.kind = "mem" THEN cpuMem[Wrap(Address(i.dst) + n \div BitsOf[8])]
                                    ELSE Content(i.dst)
         w == IF i.dst.kind = "mem" \/ i.w = 8 THEN 8 ELSE 4
     IN  flags' = [flags EXCEPT !.cf = (x \div Power[n % BitsOf[w]]) % 2 = 1]
  /\ Straight
  /\ UNCHANGED <<regs, cpuMem>>

\* 0x0f 0xbc, 0x0f 0xbd: of zero only the flag is set.
BitScan(i) ==
  /\ i.form = "bitscan"
  /\ LET x == Rd(i.src, 8)
         n == CHOOSE n \in Ones(x, 8) :
                IF i.op = "bsf" THEN IsLowestOne(n, x) ELSE IsHighestOne(n, x)
     IN  /\ flags' = [flags EXCEPT !.zf = x = 0]
         /\ IF x = 0 THEN UNCHANGED <<regs, cpuMem>> ELSE SetRegister(i.dst.reg, n)
  /\ Straight

\* 0xab: i.w bytes of rax into rcx slots, upwards or, as DF says, downwards.
Count(i) == IF i.op = "rep" THEN regs["rcx"] ELSE 1
Stride == IF flags.df THEN -1 ELSE 1
Stored(i) == {Wrap(regs["rdi"] + Stride * n) : n \in 0 .. Count(i) - 1}

StoreString(i) ==
  /\ i.form = "stos"
  /\ cpuMem' = [s \in Slots |-> IF s \in Stored(i) THEN Insert(cpuMem[s], i.w, Low(regs["rax"], i.w))
                                                 ELSE cpuMem[s]]
  /\ regs' = [regs EXCEPT !["rdi"] = Wrap(@ + Stride * Count(i)),
                          !["rcx"] = IF i.op = "rep" THEN 0 ELSE @]
  /\ Straight
  /\ UNCHANGED flags

----------------------------------------------------------------------------
\* The stack and control.

Top == regs["rsp"]

\* Mutant: the word lands where rsp was.
PushAtTop(v) ==
  /\ cpuMem' = [cpuMem EXCEPT ![Top] = v]
  /\ regs' = [regs EXCEPT !["rsp"] = Top - 1]

PushWord(v) ==
  /\ cpuMem' = [cpuMem EXCEPT ![Top - 1] = v]
  /\ regs' = [regs EXCEPT !["rsp"] = Top - 1]

\* 0x50, 0x68, 0x6a, 0xff/6.
Push(i) ==
  /\ i.form = "push"
  /\ PushWord(Rd(i.src, 8))
  /\ Straight
  /\ UNCHANGED flags

\* 0x58: rsp moves up whatever was popped into it.
Pop(i) ==
  /\ i.form = "pop"
  /\ regs' = [regs EXCEPT ![i.dst.reg] = cpuMem[Top], !["rsp"] = Wrap(Top + 1)]
  /\ Straight
  /\ UNCHANGED <<flags, cpuMem>>

\* 0x9c.
PushFlags(i) ==
  /\ i.form = "pushf"
  /\ PushWord(FlagsWord(flags))
  /\ Straight
  /\ UNCHANGED flags

\* 0x9d.
PopFlags(i) ==
  /\ i.form = "popf"
  /\ flags' = WordFlags(cpuMem[Top])
  /\ SetRegister("rsp", Wrap(Top + 1))
  /\ Straight

\* 0xc9.
Leave(i) ==
  /\ i.form = "leave"
  /\ regs' = [regs EXCEPT !["rsp"] = Wrap(regs["rbp"] + 1), !["rbp"] = cpuMem[regs["rbp"]]]
  /\ Straight
  /\ UNCHANGED <<flags, cpuMem>>

\* 0xeb, 0xe9, 0xe8 and 0x70 add a displacement, 0xff/2 and 0xff/4 read the
\* target.
Target(i) == IF i.op = "rel" THEN Wrap(Next1 + Rd(i.src, 8)) ELSE Rd(i.src, 8)

Call(i) ==
  /\ i.form = "call"
  /\ PushWord(Next1)
  /\ Jump(Target(i))
  /\ UNCHANGED flags

\* 0xc3, and 0xc2 with the slots it drops.
Ret(i) ==
  /\ i.form = "ret"
  /\ SetRegister("rsp", Wrap(Top + 1 + Rd(i.src, 8)))
  /\ Jump(cpuMem[Top])
  /\ UNCHANGED flags

JumpTo(i) ==
  /\ i.form = "jmp"
  /\ Jump(Target(i))
  /\ UNCHANGED <<regs, flags, cpuMem>>

JumpOn(i) ==
  /\ i.form = "jcc"
  /\ Jump(IF Holds(i.cc, flags) THEN Target(i) ELSE Next1)
  /\ UNCHANGED <<regs, flags, cpuMem>>

\* 0x90, 0x0f 0x1f, 0x0f 0x1e.
NoOperation(i) ==
  /\ i.form = "nop"
  /\ Straight
  /\ UNCHANGED <<regs, flags, cpuMem>>

\* 0x0f 0x31 and 0x0f 0xa2.
Identify(i) ==
  /\ i.form = "cpuid"
  /\ regs' = [r \in Registers |->
                CASE i.op = "rdtsc" /\ r \in {"rax", "rdx"} -> 0
                  [] i.op = "cpuid" /\ r \in HighByte -> Cpuid[r]
                  [] OTHER -> regs[r]]
  /\ Straight
  /\ UNCHANGED <<flags, cpuMem>>

\* 0xf4.
Halt(i) ==
  /\ i.form = "hlt"
  /\ cpuStatus' = "faulted"
  /\ UNCHANGED <<rip, regs, flags, cpuMem, fsBase>>

\* 0x0f 0x05: the handler answers rax, and may move the thread pointer or end
\* the program; rcx and r11 get what the processor saves there.
SystemCall(i) ==
  /\ i.form = "syscall"
  /\ \E r \in Results :
       /\ regs' = [regs EXCEPT !["rax"] = r.rax, !["rcx"] = Next1, !["r11"] = FlagsWord(flags)]
       /\ fsBase' = IF r.fs = None THEN fsBase ELSE CHOOSE b \in Word : r.fs = Some(b)
       /\ cpuStatus' = IF r.exit THEN "exited" ELSE cpuStatus
  /\ rip' = Next1
  /\ UNCHANGED <<flags, cpuMem>>

----------------------------------------------------------------------------
\* What run() answers Err to.

Reads(i) ==
  {o \in {i.dst, i.src} : o.kind = "mem" /\ i.form # "lea"}

\* The operations the match has an arm for.
Decodes(i) ==
  CASE i.form = "wide" -> i.op \in {"add", "or", "and", "sub", "sbb"}
    [] i.form = "byte" -> i.op \in {"add", "or", "and", "sub"}
    [] i.form = "al" -> i.op \in {"add", "or", "and", "sub", "xor", "cmp"}
    [] i.form = "ax" -> i.op \in {"add", "or", "and", "sub", "xor"}
    [] i.form = "imm" -> i.op \in {"add", "or", "adc", "sbb", "and", "sub", "xor", "cmp"}
    [] i.form = "imm8" -> \/ i.op \in {"add", "or", "and", "sub", "xor", "cmp"}
                          \/ i.op = "adc" /\ i.dst.kind = "mem"
    [] i.form = "short" -> i.op \in {"add", "or", "sbb", "and", "sub", "xor", "cmp"}
    [] i.form = "unary" -> i.w # 1 \/ i.dst.kind = "reg"
    [] i.form = "mul" -> i.dst.kind = "reg"
    [] i.form = "div" -> i.dst.kind = "reg" \/ i.op = "div"
    [] i.form \in {"shift1", "shiftimm"} ->
         i.op \in {"shl", "shr", "sal", "sar"} \/ (i.w # 1 /\ i.op \in {"rol", "ror"})
    [] i.form = "shiftcl" ->
         i.dst.kind = "reg" /\ i.op \in {"shl", "shr", "sal", "sar", "rol", "ror"}
    [] i.form = "movx" -> i.op \in {"zx", "sx", "sx4"}
    [] OTHER -> TRUE

Legal(i) ==
  /\ Decodes(i)
  /\ \A o \in Reads(i) : Address(o) \in Slots
  /\ i.form \in {"push", "pushf", "call"} => Top > 0 /\ Top - 1 \in Slots
  /\ i.form \in {"pop", "popf", "ret"} => Top \in Slots
  /\ i.form = "leave" => regs["rbp"] \in Slots
  /\ i.form = "stos" => Stored(i) \subseteq Slots
  /\ i.form = "bt" /\ i.dst.kind = "mem" =>
       Wrap(Address(i.dst) + Content(i.src) \div BitsOf[8]) \in Slots
  /\ i.form = "div" =>
       Rd(i.dst, IF i.dst.kind = "mem" THEN i.w ELSE 8) # 0

Arithmetic(i) ==
  \/ Wide(i) \/ AddSized(i) \/ ByteArith(i) \/ ByteXor(i) \/ AlImmediate(i) \/ AxImmediate(i)
  \/ Compare(i) \/ Test(i) \/ XorSized(i) \/ SizedImmediate(i) \/ ByteImmediate(i)
  \/ ShortImmediate(i) \/ IncDec(i) \/ Unary(i) \/ Multiply(i) \/ Divide(i) \/ Multiply2(i)
  \/ ShiftOne(i) \/ ShiftCl(i) \/ ShiftImmediate(i)

Data(i) ==
  \/ Move(i) \/ MoveExtended(i) \/ Convert(i) \/ Exchange(i) \/ LoadAddress(i) \/ SetOn(i)
  \/ MoveOn(i) \/ CompareExchange(i) \/ BitTest(i) \/ BitScan(i) \/ StoreString(i)

Control(i) ==
  \/ Push(i) \/ Pop(i) \/ PushFlags(i) \/ PopFlags(i) \/ Leave(i) \/ Call(i) \/ Ret(i)
  \/ JumpTo(i) \/ JumpOn(i) \/ NoOperation(i) \/ Identify(i) \/ Halt(i) \/ SystemCall(i)

Execute(i) ==
  /\ cpuStatus = "running" /\ steps < MaxSteps
  /\ i \in Code[rip]
  /\ Legal(i)
  /\ steps' = steps + 1
  /\ Arithmetic(i) \/ Data(i) \/ Control(i)

\* An instruction that is not legal, no instruction, or the limit of steps.
Stop ==
  /\ cpuStatus = "running"
  /\ steps = MaxSteps \/ Code[rip] = {} \/ \E i \in Code[rip] : ~Legal(i)
  /\ cpuStatus' = "error"
  /\ UNCHANGED <<steps, rip, regs, flags, cpuMem, fsBase>>

CpuInit ==
  /\ \E e \in Entries : rip = e.rip /\ regs = e.regs /\ cpuMem = e.mem
  /\ cpuStatus = "running"
  /\ steps = 0
  /\ flags = WordFlags(0)
  /\ fsBase = 0
=============================================================================
