------------------------------ MODULE MCGuest ------------------------------
(* The servers of system calls, and the processor: they share no state, and *)
(* one of the two parts runs while the other stays as it started.           *)
EXTENDS Servers, CpuHistory, MCServers, MCCpu

VARIABLE part

serverVars == <<server, vars, hostVars, rulesVars, engineVars>>

GuestInit ==
  /\ part \in {"servers", "processor"}
  /\ ServersInit /\ HistoryInit
  /\ part = "processor" => server = "host"
  /\ part = "servers" =>
       LET e == CHOOSE e \in Entries : TRUE IN rip = e.rip /\ regs = e.regs /\ cpuMem = e.mem

GuestNext ==
  \/ part = "servers" /\ ServersNext /\ UNCHANGED <<part, historyVars>>
  \/ part = "processor" /\ CpuNext /\ UNCHANGED <<part, serverVars>>

GuestSpec == GuestInit /\ [][GuestNext]_<<part, serverVars, historyVars>>

-----------------------------------------------------------------------------
\* One static program with TLS, one without; one with a library.
MCGuests ==
  {[image |-> StaticImage({[vaddr |-> 2, filesz |-> 1, memsz |-> 2, perm |-> {"r", "x"}]}, 1, hasTls),
    files |-> {}] : hasTls \in BOOLEAN}
    \cup {[image |-> CombinedImage(2, 8, {RegionAt(2, 2, {"r", "x"}), RegionAt(6, 2, ReadWrite)}, 2),
           files |-> {"data", "libc", "plugin"}]}

MCFiles ==
  [data   |-> [size |-> 3, elf |-> FALSE, span |-> 0, valid |-> TRUE, tls |-> None],
   libc   |-> [size |-> 3, elf |-> TRUE, span |-> 4, valid |-> TRUE, tls |-> Some([block |-> 3, filesz |-> 1])],
   plugin |-> [size |-> 2, elf |-> TRUE, span |-> 1, valid |-> TRUE, tls |-> None],
   broken |-> [size |-> 2, elf |-> TRUE, span |-> 1, valid |-> FALSE, tls |-> None]]

MCTlsSlots == <<4, 6>>
MCBuffers == {[at |-> 6, len |-> 2], [at |-> 7, len |-> 2], [at |-> 8, len |-> 1]}
MCAddresses == {0, 10, 14, 15, 26}
MCLengths == {0, 3, 4}
MCProtections == {{"r"}, {"r", "w"}}
=============================================================================
