---------------------------- MODULE GuestKernel ----------------------------
(***************************************************************************)
(* The kernel a Linux guest sees: NativeSyscallBridge of                   *)
(* elf/syscall_bridge.rs on the MemoryModel of elf/runtime.rs, called by   *)
(* the interpreter at each syscall instruction.  A call that fails ends    *)
(* the guest (run returns the error), keeping what it had already done.    *)
(*                                                                         *)
(* An address is a Nat; what bytes hold is kept only for READ, as          *)
(* positions in the file.  A word takes one cell.                          *)
(***************************************************************************)
EXTENDS GuestLayout, Sequences, Options

CONSTANTS
  Guests,        \* what may be started: [image : an image of GuestLayout, files : names]
  Files,         \* the files of the allowed roots, by name
  TlsSlots,      \* <<0x4000, 0x5000>>: what libc writes above the thread pointer
  GuardOffset,   \* 0x30: the highest word arch_prctl writes at the thread pointer
  CurBrkOffset,  \* 0x222218: where the libc of the fixtures has __curbrk
  Buffers,       \* bounds of the model: arguments ([at, len] and others), descriptors, calls
  Addresses,
  Lengths,
  Protections,
  MaxFd,
  MaxCalls

ASSUME GuestsAssumption == \A g \in Guests : Sound(g.image)

TlsImages == [block : Nat, filesz : Nat]

ASSUME ArgumentsAssumption ==
  /\ \A f \in DOMAIN Files : Files[f].size \in Nat /\ Files[f].span \in Nat /\ Files[f].tls \subseteq TlsImages
  /\ \A g \in Guests : g.files \subseteq DOMAIN Files
  /\ \A b \in Buffers : b.len \in Nat
  /\ TlsSlots \in Nat \X Nat /\ GuardOffset \in Nat /\ CurBrkOffset \in Nat
  /\ Addresses \subseteq Nat /\ Lengths \subseteq Nat /\ Protections \subseteq Perms

VARIABLES
  guest,      \* what was started, with heap_start and heap_end
  mem,        \* the MemoryModel
  files,      \* descriptor -> [name, offset]
  nextFd,
  brk,        \* current_brk
  fs,         \* fs_base
  tls,        \* elf_tls: the PT_TLS of the ELF file mapped last
  status,     \* running, exited, fault (an error), panic
  left,       \* calls the model still makes
  delivered   \* history: the positions each descriptor's READs returned

vars == <<guest, mem, files, nextFd, brk, fs, tls, status, left, delivered>>

Init ==
  /\ guest \in Guests /\ mem = guest.image.mem
  /\ files = <<>> /\ nextFd = 3 /\ brk = guest.image.heapStart
  /\ fs = None /\ tls = None /\ status = "running" /\ left = MaxCalls
  /\ delivered = <<>>

Called == status = "running" /\ left > 0 /\ left' = left - 1 /\ UNCHANGED guest

Return == status' = "running"

Fault == status' = "fault"

-----------------------------------------------------------------------------
(* Calls that answer in a buffer, or read one.                             *)

\* fstat, newfstatat, getrlimit, prlimit64, getrandom, rt_sigprocmask,
\* clock_gettime, ARCH_GET_FS: they differ in the length they write.
AnswerAt(addr, len) ==
  /\ Called
  /\ IF Writable(mem, addr, len) THEN Return ELSE Fault
  /\ UNCHANGED <<mem, files, nextFd, brk, fs, tls, delivered>>

\* write to stdout or stderr; writev is a run of them.
Write(fd, addr, len) ==
  /\ Called
  /\ IF fd \in {1, 2} /\ Readable(mem, addr, len) THEN Return ELSE Fault
  /\ UNCHANGED <<mem, files, nextFd, brk, fs, tls, delivered>>

\* A path is read byte by byte, so it may go on in the next region.
PathReadable(addr, len) == \A a \in addr .. addr + len - 1 : Readable(mem, a, 1)

\* Every open reads the file afresh, and no descriptor is used twice.
OpenAt(cwd, addr, len, name) ==
  /\ Called
  /\ IF ~cwd \/ ~PathReadable(addr, len)
     THEN Fault /\ UNCHANGED <<files, nextFd, delivered>>
     ELSE IF name \in guest.files
          THEN /\ Return /\ nextFd <= MaxFd
               /\ files' = [d \in DOMAIN files \cup {nextFd} |->
                              IF d = nextFd THEN [name |-> name, offset |-> 0] ELSE files[d]]
               /\ delivered' = [d \in DOMAIN delivered \cup {nextFd} |->
                                  IF d = nextFd THEN <<>> ELSE delivered[d]]
               /\ nextFd' = nextFd + 1
          ELSE Return /\ UNCHANGED <<files, nextFd, delivered>>
  /\ UNCHANGED <<mem, brk, fs, tls>>

Positions(start, end) == [i \in 1 .. end - start |-> start + i]

ReadEnd(name, start, count) ==
  IF start + count < Files[name].size THEN start + count ELSE Files[name].size

Read(fd, addr, count) ==
  /\ Called
  /\ \/ /\ fd \in DOMAIN files
        /\ LET file == files[fd]
               end == ReadEnd(file.name, file.offset, count)
           IN  /\ Writable(mem, addr, end - file.offset)
               /\ files' = [files EXCEPT ![fd].offset = end]
               /\ delivered' = [delivered EXCEPT ![fd] = @ \o Positions(file.offset, end)]
        /\ Return
     \/ /\ fd \in DOMAIN files =>
             LET file == files[fd]
             IN  ~Writable(mem, addr, ReadEnd(file.name, file.offset, count) - file.offset)
        /\ Fault /\ UNCHANGED <<files, delivered>>
  /\ UNCHANGED <<mem, nextFd, brk, fs, tls>>

MutPRead(fd, addr, count, start) ==
  /\ Called
  /\ \/ /\ fd \in DOMAIN files /\ start <= Files[files[fd].name].size
        /\ Writable(mem, addr, ReadEnd(files[fd].name, start, count) - start)
        /\ files' = [files EXCEPT ![fd].offset = ReadEnd(files[fd].name, start, count)] /\ Return
     \/ fd \notin DOMAIN files /\ Fault /\ UNCHANGED files
  /\ UNCHANGED <<mem, nextFd, brk, fs, tls, delivered>>

\* A start beyond the end of the file makes a slice that panics.
PRead(fd, addr, count, start) ==
  /\ Called
  /\ IF fd \notin DOMAIN files THEN Fault
     ELSE IF start > Files[files[fd].name].size THEN status' = "panic"
     ELSE IF Writable(mem, addr, ReadEnd(files[fd].name, start, count) - start) THEN Return
     ELSE Fault
  /\ UNCHANGED <<mem, files, nextFd, brk, fs, tls, delivered>>

-----------------------------------------------------------------------------
(* The address space.                                                      *)

MutBrk(addr) ==
  /\ Called /\ Return
  /\ brk' = IF addr = 0 THEN brk ELSE addr
  /\ UNCHANGED <<mem, files, nextFd, fs, tls, delivered>>

\* The whole heap was mapped by the loader; nothing is mapped or unmapped.
Brk(addr) ==
  /\ Called /\ Return
  /\ brk' = IF addr = 0 \/ addr > guest.image.heapEnd THEN brk ELSE addr
  /\ UNCHANGED <<mem, files, nextFd, fs, tls, delivered>>

MProtect(addr, len, perm) ==
  /\ Called
  /\ IF len = 0 THEN Return /\ UNCHANGED mem
     ELSE IF CanProtect(mem, addr, len)
          THEN Return /\ mem' = Protect(mem, addr, len, perm)
          ELSE Fault /\ UNCHANGED mem
  /\ UNCHANGED <<files, nextFd, brk, fs, tls, delivered>>

MMapAnonymous(len, perm) ==
  /\ Called
  /\ IF CanMap(mem, len) THEN Return /\ mem' = Map(mem, len, perm)
     ELSE Fault /\ UNCHANGED mem
  /\ UNCHANGED <<files, nextFd, brk, fs, tls, delivered>>

\* Mapped to be written, filled from the file, then given its permissions.
MMapData(fd, len, perm) ==
  /\ Called /\ fd \in DOMAIN files /\ ~Files[files[fd].name].elf
  /\ IF CanMap(mem, len)
     THEN LET filled == Map(mem, len, ReadWrite)
          IN  /\ Return
              /\ mem' = IF perm = ReadWrite THEN filled
                        ELSE Protect(filled, TopDown(mem, len), AlignUp(len), perm)
     ELSE Fault /\ UNCHANGED mem
  /\ UNCHANGED <<files, nextFd, brk, fs, tls, delivered>>

\* An ELF file is loaded whole, whatever part, place or permission was asked
\* for; relocated; its PT_TLS is kept; and the program break is written to
\* where the libc of the fixtures has it, which may be outside the mapping.
MMapElf(fd, len) ==
  /\ Called /\ fd \in DOMAIN files /\ Files[files[fd].name].elf
  /\ LET elf == Files[files[fd].name]
         size == IF len < elf.span THEN elf.span ELSE len
     IN  IF ~CanMap(mem, size) THEN Fault /\ UNCHANGED <<mem, tls>>
         ELSE /\ mem' = Map(mem, size, ReadWrite)
              /\ IF elf.valid   \* its segments, relocations and PT_TLS are in range
                 THEN /\ tls' = IF elf.tls = None THEN tls ELSE elf.tls
                      /\ IF Writable(mem', TopDown(mem, size) + CurBrkOffset, 1)
                         THEN Return ELSE Fault
                 ELSE Fault /\ UNCHANGED tls
  /\ UNCHANGED <<files, nextFd, brk, fs, delivered>>

-----------------------------------------------------------------------------
(* arch_prctl(ARCH_SET_FS).  Pages that cannot be read are added, in order, *)
(* until one cannot be; the image of the TLS block comes below the thread   *)
(* pointer, with one page for its start; then come the words at it.         *)

Page(addr) == RegionAt(AlignDown(addr), PageSize, ReadWrite)

CanBack(m, addr) == Readable(m, AlignDown(addr), 1) \/ CanAdd(m, Page(addr))

Back(m, addr) == IF Readable(m, AlignDown(addr), 1) THEN m ELSE Add(m, Page(addr))

TlsImage == CHOOSE t \in tls : TRUE

BlockStart(addr) == addr - TlsImage.block

MutToBack(addr) == <<addr + TlsSlots[1]>> \o (IF tls = None THEN <<>> ELSE <<BlockStart(addr)>>)

\* The addresses to back, in order.
ToBack(addr) ==
  <<addr + TlsSlots[1], addr + TlsSlots[2]>> \o (IF tls = None THEN <<>> ELSE <<BlockStart(addr)>>)

\* The memory after the first n of them.
Backed(addr, n) ==
  LET to == ToBack(addr)
      one == IF n >= 1 THEN Back(mem, to[1]) ELSE mem
      two == IF n >= 2 THEN Back(one, to[2]) ELSE one
  IN  IF n >= 3 THEN Back(two, to[3]) ELSE two

BackingFailsAt(addr, n) ==
  /\ \A k \in 1 .. n - 1 : CanBack(Backed(addr, k - 1), ToBack(addr)[k])
  /\ ~CanBack(Backed(addr, n - 1), ToBack(addr)[n])

ThreadPointerWritable(m, addr) ==
  /\ tls # None => Writable(m, BlockStart(addr), TlsImage.filesz)
  /\ Writable(m, addr, 1) /\ Writable(m, addr + GuardOffset, 1)

SetFs(addr) ==
  /\ Called
  /\ \/ \E n \in DOMAIN ToBack(addr) :
          /\ BackingFailsAt(addr, n) /\ Fault
          /\ mem' = Backed(addr, n - 1) /\ UNCHANGED fs
     \/ /\ \A n \in DOMAIN ToBack(addr) : ~BackingFailsAt(addr, n)
        /\ mem' = Backed(addr, Len(ToBack(addr)))
        /\ IF ThreadPointerWritable(mem', addr)
           THEN Return /\ fs' = Some(addr) ELSE Fault /\ UNCHANGED fs
  /\ UNCHANGED <<files, nextFd, brk, tls, delivered>>

-----------------------------------------------------------------------------
(* The rest.                                                               *)

\* close (which keeps the file for later mappings), access, madvise, futex,
\* ioctl, ids, affinity, signals, robust lists: an answer and no effect here.
AnswerOnly ==
  /\ Called /\ Return
  /\ UNCHANGED <<mem, files, nextFd, brk, fs, tls, delivered>>

\* A call, a descriptor or an argument that is not known.
Unsupported ==
  /\ Called /\ Fault
  /\ UNCHANGED <<mem, files, nextFd, brk, fs, tls, delivered>>

\* exit, exit_group, and the signals a guest sends itself.
Exit ==
  /\ Called /\ status' = "exited"
  /\ UNCHANGED <<mem, files, nextFd, brk, fs, tls, delivered>>

Fds == 3 .. MaxFd

Next ==
  \/ \E b \in Buffers : AnswerAt(b.at, b.len)
  \/ \E fd \in {0, 1}, b \in Buffers : Write(fd, b.at, b.len)
  \/ \E cwd \in BOOLEAN, b \in Buffers, f \in DOMAIN Files : OpenAt(cwd, b.at, b.len, f)
  \/ \E d \in Fds, b \in Buffers : Read(d, b.at, b.len)
  \/ \E d \in Fds, b \in Buffers, o \in Lengths : PRead(d, b.at, b.len, o)
  \/ \E a \in Addresses : Brk(a)
  \/ \E a \in Addresses, n \in Lengths, p \in Protections : MProtect(a, n, p)
  \/ \E n \in Lengths, p \in Protections : MMapAnonymous(n, p)
  \/ \E d \in Fds, n \in Lengths, p \in Protections : MMapData(d, n, p)
  \/ \E d \in Fds, n \in Lengths : MMapElf(d, n)
  \/ \E a \in Addresses : SetFs(a)
  \/ AnswerOnly \/ Unsupported \/ Exit

Spec == Init /\ [][Next]_vars

-----------------------------------------------------------------------------
(* Properties.                                                             *)

\* However mappings, splits by mprotect and the pages of arch_prctl follow one
\* another, no two regions share a cell, none is empty, and all are within the
\* bounds: an address has one meaning (add_region, and the splice of mprotect,
\* which does not check).
RegionsApart == Apart(mem)

\* What brk has granted is always mapped, whatever was mapped or protected
\* since: malloc may use all of it (brk moves a number, the loader mapped it).
BrkIsBacked ==
  /\ brk <= guest.image.heapEnd
  /\ guest.image.heapStart .. brk - 1 \subseteq Mapped(mem)

\* The page that libc writes above a thread pointer stays mapped, from the
\* arch_prctl that set it on.
ThreadPointerIsBacked ==
  \A a \in fs : {a, a + GuardOffset, a + TlsSlots[1], a + TlsSlots[2]} \subseteq Mapped(mem)

\* The READs of a descriptor return the bytes of its file once each and in
\* order, whatever PREADs, mappings and READs of other descriptors come between.
ReadsAreContiguous ==
  \A d \in DOMAIN files :
     /\ files[d].offset <= Files[files[d].name].size
     /\ delivered[d] = [i \in 1 .. files[d].offset |-> i]

SpaceOf(m) == UNION {CellsOf(r) \X {r.perm} : r \in m.regions}

Space == INSTANCE AddressSpace WITH space <- SpaceOf(mem)

\* Every call maps free cells, or protects one interval of mapped ones, or
\* leaves the address space alone (AddressSpace.tla).
KeepsAddressSpace == Space!Spec
=============================================================================
