------------------------------- MODULE MCCpu -------------------------------
EXTENDS CpuHistory

Bits == INSTANCE Bitwise

MCBitsOf == [w \in {1, 2, 4, 8} |-> CASE w = 1 -> 2 [] w = 2 -> 4 [] w = 4 -> 5 [] w = 8 -> 6]
MCPower == [n \in 0 .. 6 |-> 2 ^ n]
MCAnd(x, y) == Bits!&(x, y)
MCOr(x, y) == Bits!|(x, y)
MCXor(x, y) == Bits!^^(x, y)

MCSlots == {40, 41} \cup 50 .. 54
MCCpuid == [r \in {"rax", "rcx", "rdx", "rbx"} |-> 5]
MCResults ==
  {[rax |-> 7, fs |-> None, exit |-> FALSE],
   [rax |-> 0, fs |-> Some(40), exit |-> FALSE],
   [rax |-> 0, fs |-> None, exit |-> TRUE]}

Reg(r) == [kind |-> "reg", reg |-> r, high |-> FALSE]
High(r) == [kind |-> "reg", reg |-> r, high |-> TRUE]
At(r, disp) == [kind |-> "mem", base |-> Some(r), index |-> None, scale |-> 1, disp |-> disp, fs |-> FALSE]
AtFs == [kind |-> "mem", base |-> None, index |-> Some("rdx"), scale |-> 2, disp |-> 40, fs |-> TRUE]
Imm(v) == [kind |-> "imm", val |-> v]

Ins(form, op, w, dst, src) ==
  [form |-> form, op |-> op, w |-> w, dst |-> dst, src |-> src, cc |-> "a"]
On(form, cc, dst, src) ==
  [form |-> form, op |-> "rel", w |-> 1, dst |-> dst, src |-> src, cc |-> cc]
rax == Reg("rax")
rcx == Reg("rcx")
data == At("rbx", 0)
byte == Imm(3)

\* Everything that compares, subtracts or sets the flags, of registers, a
\* high byte, memory and immediates.
Flagging ==
  {Ins("wide", op, 8, d, rcx) : op \in {"add", "or", "and", "sub", "sbb"}, d \in {rax, data}}
    \cup {Ins("byte", op, 1, d, rcx) : op \in {"add", "and", "sub"}, d \in {rax, High("rax")}}
    \cup {Ins("al", op, 1, rax, byte) : op \in {"add", "sub", "xor", "cmp"}}
    \cup {Ins("ax", op, w, rax, Imm(33)) : op \in {"sub", "or"}, w \in {4, 8}}
    \cup {Ins(f, "cmp", w, d, rcx) : f \in {"cmp", "add", "test", "xor"}, w \in {2, 4, 8}, d \in {rax, data}}
    \cup {Ins("cmp", "cmp", 1, High("rax"), rcx), Ins("test", "full", 8, rax, rcx)}
    \cup {Ins("imm", op, w, rax, Imm(33)) : op \in {"add", "adc", "sbb", "sub", "cmp"}, w \in {2, 4, 8}}
    \cup {Ins("imm8", op, 1, d, byte) : op \in {"adc", "sub", "cmp"}, d \in {rax, data}}
    \cup {Ins("short", op, w, rax, byte) : op \in {"or", "and", "sub", "cmp"}, w \in {2, 4, 8}}
    \cup {Ins("incdec", op, w, rax, rcx) : op \in {"inc", "dec"}, w \in {2, 8}}
    \cup {Ins("shift1", op, w, rax, rcx) : op \in {"sar", "sal"}, w \in {1, 4, 8}}
    \cup {Ins("shiftimm", op, w, rax, byte) : op \in {"sar", "shl"}, w \in {1, 8}}
    \cup {Ins("cmpxchg", "cmpxchg", w, d, rcx) : w \in {4, 8}, d \in {Reg("rdx"), data}}
    \cup {Ins("bt", "bt", 8, d, rcx) : d \in {rax, data}}
    \cup {Ins("bitscan", op, 8, rcx, rax) : op \in {"bsf", "bsr"}}

\* Everything that leaves the flags alone, and is not about the stack.
Keeping ==
  {Ins("bytexor", "xor", 1, rax, rcx), Ins("mul", "imul", 8, rcx, rcx), Ins("mul", "mul", 8, rcx, rcx),
   Ins("div", "div", 8, rcx, rcx), Ins("div", "div", 8, data, rcx), Ins("imul", "imul", 4, rax, rcx),
   Ins("shiftcl", "rol", 8, rax, rcx), Ins("shiftimm", "ror", 8, rax, byte), Ins("shift1", "ror", 1, rax, rcx),
   Ins("mov", "c7", 2, rax, rcx), Ins("mov", "89", 4, AtFs, rax), Ins("movx", "zx", 2, rax, data),
   Ins("movx", "sx", 4, rax, data), Ins("movx", "sx4", 1, rax, data), Ins("cbw", "cbw", 4, rax, rax),
   Ins("xchg", "87", 4, data, rax), Ins("xchg", "91", 4, rax, rcx), Ins("lea", "lea", 8, rax, At("rbx", 5)),
   Ins("stos", "one", 4, rax, rax), Ins("stos", "rep", 8, rax, rax), Ins("nop", "nop", 8, rax, rax),
   Ins("cpuid", "cpuid", 8, rax, rax), Ins("cpuid", "rdtsc", 8, rax, rax), Ins("hlt", "hlt", 8, rax, rax),
   Ins("syscall", "syscall", 8, rax, rax)}
    \cup {Ins("unary", op, w, rax, rcx) : op \in {"not", "neg"}, w \in {1, 4}}
    \cup {On(f, cc, rax, rcx) : f \in {"setcc", "cmov"}, cc \in {"l", "a"}}
    \cup {On("jcc", cc, rax, Imm(1)) : cc \in {"p", "o", "ge"}}

\* A second comparison, or another limb.
Closing ==
  {Ins("wide", "sbb", 8, Reg("rdx"), rcx), Ins("wide", "sbb", 8, data, Reg("rdx")),
   Ins("cmp", "cmp", 4, data, rax)}

\* Calls between addresses 10 and 13, and what a function does with the stack.
Calling ==
  {Ins("call", "rel", 8, rax, Imm(63)), Ins("call", "abs", 8, rax, Imm(12)), Ins("ret", "ret", 8, rax, Imm(0)),
   Ins("push", "push", 8, rax, Reg("rbp")), Ins("pop", "pop", 8, Reg("rbp"), rax),
   Ins("mov", "89", 8, Reg("rbp"), Reg("rsp")), Ins("leave", "leave", 8, rax, rax)}
Returning ==
  {Ins("ret", "ret", 8, rax, Imm(0)), Ins("ret", "ret", 8, rax, Imm(1)), Ins("pop", "pop", 8, Reg("rsp"), rax),
   Ins("pushf", "pushf", 8, rax, rax), Ins("popf", "popf", 8, rax, rax), Ins("jmp", "rel", 8, rax, Imm(62)),
   Ins("short", "sub", 8, Reg("rsp"), Imm(1)), Ins("call", "rel", 8, rax, Imm(63))}

MCCode ==
  [a \in Word |-> CASE a = 0 -> Flagging
                    [] a = 1 -> Keeping
                    [] a = 2 -> Closing
                    [] a \in 10 .. 12 -> Calling
                    [] a = 13 -> Returning
                    [] OTHER -> {}]

Values == {0, 1, 2, 15, 31, 32, 34, 63}
MCEntries ==
  {[rip |-> 0,
    regs |-> [r \in Registers |-> CASE r = "rax" -> x [] r = "rcx" -> y [] r = "rdx" -> 33
                                    [] r = "rbx" -> 40 [] r = "rdi" -> 41 [] r = "rsp" -> 52 [] OTHER -> 0],
    mem |-> [s \in MCSlots |-> y]] : x \in Values, y \in Values}
    \cup {[rip |-> 11, regs |-> [r \in Registers |-> IF r \in {"rsp", "rbp"} THEN 54 ELSE 40],
           mem |-> [s \in MCSlots |-> 3]]}
=============================================================================
