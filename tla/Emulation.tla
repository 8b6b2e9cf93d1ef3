----------------------------- MODULE Emulation -----------------------------
(***************************************************************************)
(* LinuxEmulationHandler: the kernel a dynamically linked program sees.    *)
(* It hands most calls to the bridge of GuestKernel and answers the ones   *)
(* that write, name the system or end the program itself.                  *)
(***************************************************************************)
EXTENDS GuestKernel

CONSTANT UtsnameSize   \* 390

\* The calls of the list that handle_with_memory hands on; a signal the guest
\* sends itself is one of them: it leaves its code in the bridge, where the
\* interpreter does not ask for it, so the guest goes on (AnswerOnly).
Routed ==
  \/ \E b \in Buffers : AnswerAt(b.at, b.len)
  \/ \E there \in BOOLEAN, b \in Buffers, f \in DOMAIN Files : OpenAt(there, b.at, b.len, f)
  \/ \E d \in Fds, b \in Buffers : Read(d, b.at, b.len)
  \/ \E d \in Fds, b \in Buffers, o \in Lengths : PRead(d, b.at, b.len, o)
  \/ \E a \in Addresses : Brk(a)
  \/ \E a \in Addresses, n \in Lengths, p \in Protections : MProtect(a, n, p)
  \/ \E n \in Lengths, p \in Protections : MMapAnonymous(n, p)
  \/ \E d \in Fds, n \in Lengths, p \in Protections : MMapData(d, n, p)
  \/ \E d \in Fds, n \in Lengths : MMapElf(d, n)
  \/ \E a \in Addresses : SetFs(a)
  \/ AnswerOnly

\* Without asking which descriptor it is for.
EmulatedWrite(addr, len) ==
  /\ Called
  /\ IF Readable(mem, addr, len) THEN Return ELSE Fault
  /\ UNCHANGED <<mem, files, nextFd, brk, fs, tls, delivered>>

\* Every buffer is read before anything is written.
EmulatedWritev(buffers) ==
  /\ Called
  /\ IF \A b \in buffers : Readable(mem, b.at, b.len) THEN Return ELSE Fault
  /\ UNCHANGED <<mem, files, nextFd, brk, fs, tls, delivered>>

Uname(addr) ==
  /\ Called
  /\ IF Writable(mem, addr, UtsnameSize) THEN Return ELSE Fault
  /\ UNCHANGED <<mem, files, nextFd, brk, fs, tls, delivered>>

\* exit and exit_group only.
EmulatedExit ==
  /\ Called /\ status' = "exited"
  /\ UNCHANGED <<mem, files, nextFd, brk, fs, tls, delivered>>

\* No name, or a name the injector behind the handler does not know.
Unknown ==
  /\ Called /\ Fault
  /\ UNCHANGED <<mem, files, nextFd, brk, fs, tls, delivered>>

EmulationNext ==
  \/ Routed
  \/ \E b \in Buffers : EmulatedWrite(b.at, b.len)
  \/ \E bs \in SUBSET Buffers : EmulatedWritev(bs)
  \/ \E b \in Buffers : Uname(b.at)
  \/ EmulatedExit \/ Unknown

EmulationSpec == Init /\ [][EmulationNext]_vars
=============================================================================
