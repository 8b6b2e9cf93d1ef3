---------------------------- MODULE HostExecutor ----------------------------
(***************************************************************************)
(* WindowsFileExecutor of daoti-daemon/executor.rs: the system calls of a  *)
(* captured Linux program carried out on the host, one event after the     *)
(* other, as run_events_with_real_execution feeds them through the rule    *)
(* table of interceptor/mod.rs.                                            *)
(*                                                                         *)
(* A path is a directory and a name; the directory Here is the executor's  *)
(* own cwd.  The host's files are nodes with a length; of what is written  *)
(* only the pipes keep the bytes, each the number of the call it came with.*)
(***************************************************************************)
EXTENDS Integers, Sequences, Functions, TLC, Options

CONSTANTS
  Dirs,       \* directories of the host
  Home,       \* the one the executor starts in
  Names,      \* file names
  Here,       \* stands for a relative path
  Fds,        \* descriptors that calls name
  Counts,     \* numbers of bytes to read or write, offsets, sizes
  PageSize,   \* 4096
  MaxCalls    \* bound: events fed to one executor

PathArgs == [dir : Dirs \cup {Here}, name : Names]

VARIABLES
  handles,    \* handle_table: descriptor -> what it stands for
  nextFd,     \* next_fd
  opens,      \* the open files that handles share: [node, pos]
  pipes,      \* the buffers that handles share: [held, closed], and what was sent and got
  cwd,
  names,      \* the host's directory entries: path -> node
  dirs,       \* the host's directories
  sizes,      \* the length of every node
  pages,      \* mem_pages: address -> size
  nextPage,   \* next_mmap_addr, above where it starts
  heapBrk,    \* heap_brk, above heap_base
  heapData,   \* the length of heap_data
  ctrl,       \* console_ctrl_handler_registered
  report      \* RealExecReport

table == <<handles, nextFd, opens, pipes>>
host == <<cwd, names, dirs, sizes>>
memory == <<pages, nextPage, heapBrk, heapData>>
vars == <<table, host, memory, ctrl, report>>

FileHandle(open, path) == [kind |-> "file", open |-> open, path |-> path]
Reader(pipe) == [kind |-> "reader", pipe |-> pipe]

\* peer is the descriptor of the reading end; pipe, which the code does not
\* keep, is the pipe the two were made for.
Writer(peer, pipe) == [kind |-> "writer", peer |-> peer, pipe |-> pipe]

Init ==
  /\ handles = <<>> /\ nextFd = 0 /\ opens = <<>> /\ pipes = <<>>
  /\ cwd = Home /\ names = <<>> /\ dirs = {Home} /\ sizes = <<>>
  /\ pages = <<>> /\ nextPage = 0 /\ heapBrk = 0 /\ heapData = 0
  /\ ctrl = FALSE
  /\ report = [succeeded |-> 0, failed |-> 0, missed |-> 0]

Calls == report.succeeded + report.failed + report.missed

Counted(outcome) ==
  /\ Calls < MaxCalls
  /\ report' = [report EXCEPT ![outcome] = @ + 1]

\* An operation that may be refused, or end in an error, and then does nothing.
Attempt(can, effect) ==
  \/ can /\ effect /\ Counted("succeeded")
  \/ ~can /\ UNCHANGED <<table, host, memory, ctrl>> /\ Counted("failed")

\* An operation that only answers.
Answer(can) == Attempt(can, UNCHANGED <<table, host, memory, ctrl>>)

IsOpen(fd) == fd \in DOMAIN handles
Is(fd, kind) == IsOpen(fd) /\ handles[fd].kind = kind

Resolve(p) == IF p.dir = Here THEN [p EXCEPT !.dir = cwd] ELSE p

Known(p) == Resolve(p) \in DOMAIN names

MutGrant(new) ==
  LET free == CHOOSE fd \in 0 .. nextFd : /\ (fd .. fd + Len(new) - 1) \cap DOMAIN handles = {}
                                         /\ \A n \in 0 .. fd - 1 : n \in DOMAIN handles
  IN  /\ handles' = [fd \in free .. free + Len(new) - 1 |-> new[fd - free + 1]] @@ handles
      /\ nextFd' = nextFd + Len(new)

\* alloc_fd, and handle_table.insert: a number is never given twice.
Grant(new) ==
  LET given == nextFd .. nextFd + Len(new) - 1
  IN  /\ handles' = [fd \in DOMAIN handles \cup given |->
                       IF fd \in given THEN new[fd - nextFd + 1] ELSE handles[fd]]
      /\ nextFd' = nextFd + Len(new)

-----------------------------------------------------------------------------
(* Files.                                                                  *)

CreateFile(p) ==
  LET path == Resolve(p)
      node == IF Known(p) THEN names[path] ELSE Len(sizes) + 1
  IN  Attempt(path.dir \in dirs,
        /\ names' = (path :> node) @@ names
        /\ sizes' = IF Known(p) THEN sizes ELSE Append(sizes, 0)
        /\ opens' = Append(opens, [node |-> node, pos |-> 0])
        /\ Grant(<<FileHandle(Len(opens) + 1, path)>>)
        /\ UNCHANGED <<pipes, cwd, dirs, memory, ctrl>>)

Least(a, b) == IF a < b THEN a ELSE b
Most(a, b) == IF a < b THEN b ELSE a

ReadFile(fd, count) ==
  LET o == handles[fd].open
      unread == Most(0, sizes[opens[o].node] - opens[o].pos)
  IN  /\ opens' = [opens EXCEPT ![o].pos = @ + Least(count, unread)]
      /\ UNCHANGED pipes

ReadPipe(fd, count) ==
  LET k == handles[fd].pipe
      n == Least(count, Len(pipes[k].held))
  IN  /\ pipes' = [pipes EXCEPT ![k].held = SubSeq(@, n + 1, Len(@)),
                                ![k].got = @ \o SubSeq(pipes[k].held, 1, n)]
      /\ UNCHANGED opens

\* A reader whose writer is closed is refused, even when its buffer is not empty.
Read(fd, count) ==
  Attempt(Is(fd, "file") \/ (Is(fd, "reader") /\ ~pipes[handles[fd].pipe].closed),
    /\ \/ Is(fd, "file") /\ ReadFile(fd, count)
       \/ Is(fd, "reader") /\ ReadPipe(fd, count)
    /\ UNCHANGED <<handles, nextFd, host, memory, ctrl>>)

WriteFile(fd, count) ==
  LET o == handles[fd].open
      end == opens[o].pos + count
  IN  /\ opens' = [opens EXCEPT ![o].pos = end]
      /\ sizes' = IF count = 0 THEN sizes ELSE [sizes EXCEPT ![opens[o].node] = Most(@, end)]
      /\ UNCHANGED pipes

Bytes(count) == [i \in 1 .. count |-> Calls]

\* Into the buffer of the reader that now has the number of the peer.
WritePipe(fd, count) ==
  LET made == handles[fd].pipe
      into == handles[handles[fd].peer].pipe
  IN  /\ pipes' = [k \in DOMAIN pipes |->
                     [pipes[k] EXCEPT !.held = IF k = into THEN @ \o Bytes(count) ELSE @,
                                      !.sent = IF k = made THEN @ \o Bytes(count) ELSE @]]
      /\ UNCHANGED <<opens, sizes>>

PeerReads(fd) ==
  LET peer == handles[fd].peer
  IN  Is(peer, "reader") /\ ~pipes[handles[peer].pipe].closed

Write(fd, count) ==
  Attempt(Is(fd, "file") \/ (Is(fd, "writer") /\ PeerReads(fd)),
    /\ \/ Is(fd, "file") /\ WriteFile(fd, count)
       \/ Is(fd, "writer") /\ WritePipe(fd, count)
    /\ UNCHANGED <<handles, nextFd, cwd, names, dirs, memory, ctrl>>)

\* Any writer that is closed closes the reader its number names.
CloseHandle(fd) ==
  Attempt(IsOpen(fd),
    /\ handles' = Restrict(handles, DOMAIN handles \ {fd})
    /\ pipes' = IF Is(fd, "writer") /\ Is(handles[fd].peer, "reader")
                THEN [pipes EXCEPT ![handles[handles[fd].peer].pipe].closed = TRUE]
                ELSE pipes
    /\ UNCHANGED <<nextFd, opens, host, memory, ctrl>>)

SetFilePointer(fd, offset) ==
  Attempt(Is(fd, "file") /\ offset >= 0,
    /\ opens' = [opens EXCEPT ![handles[fd].open].pos = offset]
    /\ UNCHANGED <<handles, nextFd, pipes, host, memory, ctrl>>)

\* ftruncate: to the position, whatever length the call asks for.
SetEndOfFile(fd) ==
  Attempt(Is(fd, "file"),
    /\ sizes' = [sizes EXCEPT ![opens[handles[fd].open].node] = opens[handles[fd].open].pos]
    /\ UNCHANGED <<table, cwd, names, dirs, memory, ctrl>>)

GetFileAttributes(p) == Answer(Known(p))

\* fstat asks for the path the file was opened by, not for the open file.
GetFileInformation(fd) == Answer(Is(fd, "file") /\ handles[fd].path \in DOMAIN names)

GetFinalPathName(fd) == Answer(Is(fd, "file"))
FlushFileBuffers(fd) == Answer(Is(fd, "file"))
DeviceIoControl(fd) == Answer(IsOpen(fd))

\* getcwd, statfs, getpid, gettid.
AnswerAlways == Answer(TRUE)

-----------------------------------------------------------------------------
(* Directories.                                                            *)

SetCurrentDirectory(d) ==
  Attempt(d \in dirs, cwd' = d /\ UNCHANGED <<table, names, dirs, sizes, memory, ctrl>>)

CreateDirectory(d) ==
  Attempt(TRUE, dirs' = dirs \cup {d} /\ UNCHANGED <<table, cwd, names, sizes, memory, ctrl>>)

\* The directory may be the cwd.
RemoveDirectory(d) ==
  Attempt(d \in dirs /\ \A p \in DOMAIN names : p.dir # d,
    dirs' = dirs \ {d} /\ UNCHANGED <<table, cwd, names, sizes, memory, ctrl>>)

\* Open files keep their node.
DeleteFile(p) ==
  Attempt(Known(p),
    /\ names' = Restrict(names, DOMAIN names \ {Resolve(p)})
    /\ UNCHANGED <<table, cwd, dirs, sizes, memory, ctrl>>)

\* Two names of one node stay as they are.
MoveFile(p, q) ==
  LET old == Resolve(p)
      new == Resolve(q)
      same == new \in DOMAIN names /\ names[new] = names[old]
  IN  Attempt(Known(p) /\ new.dir \in dirs,
        /\ names' = IF same THEN names
                    ELSE (new :> names[old]) @@ Restrict(names, DOMAIN names \ {old})
        /\ UNCHANGED <<table, cwd, dirs, sizes, memory, ctrl>>)

CreateHardLink(p, q) ==
  Attempt(Known(p) /\ ~Known(q) /\ Resolve(q).dir \in dirs,
    /\ names' = (Resolve(q) :> names[Resolve(p)]) @@ names
    /\ UNCHANGED <<table, cwd, dirs, sizes, memory, ctrl>>)

-----------------------------------------------------------------------------
(* Pipes and copies of handles.                                            *)

CreatePipe ==
  LET k == Len(pipes) + 1
  IN  Attempt(TRUE,
        /\ pipes' = Append(pipes, [held |-> <<>>, closed |-> FALSE, sent |-> <<>>, got |-> <<>>])
        /\ Grant(<<Reader(k), Writer(nextFd, k)>>)
        /\ UNCHANGED <<opens, host, memory, ctrl>>)

DuplicateHandle(fd) ==
  Attempt(IsOpen(fd), Grant(<<handles[fd]>>) /\ UNCHANGED <<opens, pipes, host, memory, ctrl>>)

-----------------------------------------------------------------------------
(* Memory, which is only a table, and signals.                             *)

AlignUp(n) == ((n + PageSize - 1) \div PageSize) * PageSize

VirtualAlloc(size) ==
  Attempt(size # 0,
    /\ pages' = (nextPage :> AlignUp(size)) @@ pages
    /\ nextPage' = nextPage + AlignUp(size)
    /\ UNCHANGED <<table, host, heapBrk, heapData, ctrl>>)

\* munmap: the mapping that starts at addr, whatever length the call gives.
VirtualFree(addr) ==
  Attempt(addr \in DOMAIN pages,
    /\ pages' = Restrict(pages, DOMAIN pages \ {addr})
    /\ UNCHANGED <<table, host, nextPage, heapBrk, heapData, ctrl>>)

\* brk(n) with n >= 0 grows the heap by n, where Linux takes an address; a
\* negative number shrinks it.
HeapAlloc(n) ==
  Attempt(TRUE,
    heapBrk' = heapBrk + n /\ heapData' = heapData + n /\ UNCHANGED <<table, host, pages, nextPage, ctrl>>)

HeapFree(n) ==
  /\ n > 0
  /\ Attempt(n <= heapBrk,
       /\ heapBrk' = heapBrk - n
       /\ heapData' = IF heapData >= n THEN heapData - n ELSE heapData
       /\ UNCHANGED <<table, host, pages, nextPage, ctrl>>)

\* rt_sigaction, whose signal number is taken for a flag.
SetConsoleCtrlHandler(enable) ==
  Attempt(enable # None, (\E on \in enable : ctrl' = on) /\ UNCHANGED <<table, host, memory>>)

-----------------------------------------------------------------------------
\* A call with an argument that does not parse, or whose operation is unknown.
Garbled == Answer(FALSE)

\* A system call the rule table has no row for.
Miss == UNCHANGED <<table, host, memory, ctrl>> /\ Counted("missed")

Next ==
  \/ \E p \in PathArgs :
       \/ CreateFile(p) \/ GetFileAttributes(p) \/ DeleteFile(p)
       \/ \E q \in PathArgs : MoveFile(p, q) \/ CreateHardLink(p, q)
  \/ \E fd \in Fds :
       \/ \E n \in Counts : Read(fd, n) \/ Write(fd, n)
       \/ \E n \in Counts \cup {-1} : SetFilePointer(fd, n)
       \/ CloseHandle(fd) \/ SetEndOfFile(fd) \/ GetFileInformation(fd) \/ GetFinalPathName(fd)
       \/ FlushFileBuffers(fd) \/ DeviceIoControl(fd) \/ DuplicateHandle(fd)
  \/ \E d \in Dirs : SetCurrentDirectory(d) \/ CreateDirectory(d) \/ RemoveDirectory(d)
  \/ \E n \in Counts : VirtualAlloc(n) \/ VirtualFree(n) \/ HeapAlloc(n) \/ HeapFree(n)
  \/ \E enable \in Option(BOOLEAN) : SetConsoleCtrlHandler(enable)
  \/ CreatePipe \/ AnswerAlways \/ Garbled \/ Miss

Spec == Init /\ [][Next]_vars

-----------------------------------------------------------------------------
(* Properties.                                                             *)

\* Whatever is closed, copied and reopened, the reading end has got, and still
\* holds, exactly what was written to its own writer, in order; and a writer
\* whose peer's number is still taken finds its own pipe there (a number is
\* never given twice, alloc_fd).
PipesHoldTogether ==
  /\ \A k \in DOMAIN pipes : pipes[k].got \o pipes[k].held = pipes[k].sent
  /\ \A fd \in DOMAIN handles :
       Is(fd, "writer") /\ IsOpen(handles[fd].peer) => handles[handles[fd].peer] = Reader(handles[fd].pipe)
=============================================================================
