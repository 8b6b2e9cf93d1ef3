---------------------------- MODULE ParamConvert ----------------------------
(***************************************************************************)
(* The mapper/ of the local engine: its table of Linux calls, which is not *)
(* the one of the interceptor (SyscallTable), and the conversion of the    *)
(* arguments of the calls it maps.                                         *)
(*                                                                         *)
(* An argument as captured is [text, number, decimal]: the number its text *)
(* is for parse_i32, which takes 0x, and for parse, which does not.        *)
(***************************************************************************)
EXTENDS Integers, Sequences, TLC, Options

\* A row of the table; of an operation's name in brackets or with a slash, an
\* underline is left.
Row(nr, name, operation) == [nr |-> nr, name |-> name, operation |-> operation]

FileRows ==
  {Row(0, "read", "ReadFile"), Row(1, "write", "WriteFile"), Row(2, "open", "CreateFileW"),
   Row(3, "close", "CloseHandle"), Row(4, "stat", "GetFileAttributesExW"),
   Row(5, "fstat", "GetFileInformationByHandle"), Row(6, "lstat", "GetFileAttributesExW"),
   Row(7, "poll", "WaitForMultipleObjects"), Row(8, "lseek", "SetFilePointerEx"),
   Row(9, "mmap", "VirtualAlloc")}

MemoryRows ==
  {Row(10, "mprotect", "VirtualProtect"), Row(11, "munmap", "VirtualFree"),
   Row(12, "brk", "HeapAlloc_HeapFree"), Row(13, "rt_sigaction", "SetConsoleCtrlHandler"),
   Row(14, "rt_sigprocmask", "SetConsoleCtrlHandler"), Row(15, "rt_sigreturn", "NtContinue"),
   Row(16, "ioctl", "DeviceIoControl"), Row(17, "pread64", "ReadFile_offset"),
   Row(18, "pwrite64", "WriteFile_offset"), Row(19, "readv", "ReadFile_loop")}

FileSystemRows ==
  {Row(20, "writev", "WriteFile_loop"), Row(21, "access", "GetFileAttributesW"),
   Row(22, "pipe", "CreatePipe"), Row(23, "select", "WaitForMultipleObjects"),
   Row(24, "sched_yield", "SwitchToThread"), Row(25, "mremap", "VirtualAlloc_remap"),
   Row(32, "dup", "DuplicateHandle"), Row(33, "dup2", "DuplicateHandle_given"),
   Row(39, "getpid", "GetCurrentProcessId"), Row(56, "clone", "CreateThread")}

ProcessRows ==
  {Row(57, "fork", "CreateProcess"), Row(59, "execve", "CreateProcess"),
   Row(60, "exit", "ExitProcess"), Row(61, "wait4", "WaitForSingleObject"),
   Row(62, "kill", "TerminateProcess"), Row(63, "uname", "GetVersionExW"),
   Row(74, "fsync", "FlushFileBuffers"), Row(77, "ftruncate", "SetEndOfFile"),
   Row(79, "getcwd", "GetCurrentDirectoryW")}

DirectoryRows ==
  {Row(80, "chdir", "SetCurrentDirectoryW"), Row(82, "rename", "MoveFileW"),
   Row(83, "mkdir", "CreateDirectoryW"), Row(84, "rmdir", "RemoveDirectoryW"),
   Row(86, "link", "CreateHardLinkW"), Row(87, "unlink", "DeleteFileW"),
   Row(89, "readlink", "GetFinalPathNameByHandleW"), Row(102, "getuid", "GetUserNameW"),
   Row(137, "statfs", "GetDiskFreeSpaceExW"), Row(186, "gettid", "GetCurrentThreadId"),
   Row(231, "exit_group", "ExitProcess")}

MapperRows ==
  LET rows == FileRows \cup MemoryRows \cup FileSystemRows \cup ProcessRows \cup DirectoryRows
  IN  [nr \in {r.nr : r \in rows} |-> CHOOSE r \in rows : r.nr = nr]

-----------------------------------------------------------------------------
(* One argument.                                                           *)

\* Without TEMP and TMP, the directory is C:\Temp.
ConvertPath(arg) ==
  IF arg.text \in {"/dev/null", "/dev/zero"} THEN [path |-> "NUL"]
  ELSE IF arg.text \in {"/tmp", "/var/tmp"} THEN [path |-> "TEMP"]
  ELSE arg

HasBit(flags, bit) == (flags \div bit) % 2 = 1

\* convert_open_flags, whose access rights convert_args throws away: O_CREAT is
\* 0x40, O_TRUNC 0x200, O_APPEND 0x400.  O_CREAT alone becomes CREATE_NEW.
Creation(flags) ==
  CASE HasBit(flags, 64) /\ HasBit(flags, 512) -> "CREATE_ALWAYS"
    [] HasBit(flags, 64) /\ ~HasBit(flags, 512) /\ HasBit(flags, 1024) -> "OPEN_ALWAYS"
    [] HasBit(flags, 64) /\ ~HasBit(flags, 512) /\ ~HasBit(flags, 1024) -> "CREATE_NEW"
    [] ~HasBit(flags, 64) /\ HasBit(flags, 512) -> "TRUNCATE_EXISTING"
    [] OTHER -> "OPEN_EXISTING"

\* convert_mmap_prot: what may be written may be read too.
PageProtection(prot) ==
  LET may == {right \in {1, 2, 4} : HasBit(prot, right)}
  IN  CASE 4 \in may -> IF 2 \in may THEN "EXECUTE_READWRITE"
                        ELSE IF 1 \in may THEN "EXECUTE_READ" ELSE "EXECUTE"
        [] 4 \notin may -> IF 2 \in may THEN "READWRITE" ELSE IF 1 \in may THEN "READONLY" ELSE "NOACCESS"

\* A number is replaced by what it stands for; what is not one is left as it is.
Replaced(arg, number, Meaning(_)) ==
  IF number = None THEN arg ELSE [meaning |-> Meaning(CHOOSE n \in number : TRUE)]

\* STD_INPUT_HANDLE, STD_OUTPUT_HANDLE, STD_ERROR_HANDLE, HANDLE_3 ...
HandleOf(fd) == <<"handle", fd>>

-----------------------------------------------------------------------------
(* convert_args.                                                           *)

ByPath == {"open", "access", "stat", "lstat", "unlink", "chdir", "rename", "mkdir", "rmdir", "link", "readlink", "execve"}

ByHandle == {"read", "write", "pread64", "pwrite64", "lseek"}

\* With fewer arguments nothing is converted.
Needs(name) ==
  CASE name \in ByPath -> 1 [] name = "ftruncate" -> 2
    [] name \in ByHandle \cup {"mprotect"} -> 3 [] name = "mmap" -> 4

\* Of more than these, the rest is dropped.
Keeps(name, count) ==
  LET most == CASE name = "ftruncate" -> 2 [] name \in {"open", "mprotect", "lseek"} -> 3
                [] name \in ByHandle \ {"lseek"} -> 4 [] name = "mmap" -> 6
                [] OTHER -> count
  IN  IF count < most THEN count ELSE most

\* The descriptor of mmap and of ftruncate is only understood in decimal.
ConvertArg(name, i, arg) ==
  CASE name \in ByPath /\ i = 1 -> ConvertPath(arg)
    [] name = "open" /\ i = 2 -> Replaced(arg, arg.number, Creation)
    [] name \in {"mmap", "mprotect"} /\ i = 3 -> Replaced(arg, arg.number, PageProtection)
    [] name \in ByHandle /\ i = 1 -> Replaced(arg, arg.number, HandleOf)
    [] <<name, i>> \in {<<"mmap", 5>>, <<"ftruncate", 1>>} -> Replaced(arg, arg.decimal, HandleOf)
    [] OTHER -> arg

ConvertArgs(name, args) ==
  IF name \notin ByPath \cup ByHandle \cup {"ftruncate", "mprotect", "mmap"} \/ Len(args) < Needs(name) THEN args
  ELSE [i \in 1 .. Keeps(name, Len(args)) |-> ConvertArg(name, i, args[i])]

\* DeterministicMapper::map; the row's needs_param_convert is true of every call
\* that convert_args knows.
MapCall(nr, args) ==
  IF nr \notin DOMAIN MapperRows THEN None
  ELSE Some([operation |-> MapperRows[nr].operation, args |-> ConvertArgs(MapperRows[nr].name, args)])
=============================================================================
