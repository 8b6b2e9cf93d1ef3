---------------------------- MODULE SyscallTable ----------------------------
(***************************************************************************)
(* The table of interceptor/mod.rs that turns a Linux system call into an  *)
(* operation of Windows, read in both directions, and the check of         *)
(* executor/safe.rs that such an operation passes before it is injected.   *)
(***************************************************************************)
EXTENDS Naturals, Functions, TLC, Options

\* One rule; of a name with a bracket or a slash, an underline is left.
Rule(nr, operation) == [nr |-> nr, operation |-> operation]

Table ==
  {Rule(0, "ReadFile"), Rule(1, "WriteFile"), Rule(2, "CreateFileW"), Rule(3, "CloseHandle"),
   Rule(4, "GetFileAttributesExW"), Rule(5, "GetFileInformationByHandle"),
   Rule(8, "SetFilePointerEx"), Rule(9, "VirtualAlloc"), Rule(11, "VirtualFree"),
   Rule(12, "HeapAlloc_HeapFree"), Rule(13, "SetConsoleCtrlHandler"),
   Rule(16, "DeviceIoControl"), Rule(19, "ReadFile_loop"), Rule(20, "WriteFile_loop"),
   Rule(21, "GetFileAttributesW"), Rule(22, "CreatePipe"), Rule(32, "DuplicateHandle"),
   Rule(39, "GetCurrentProcessId"), Rule(74, "FlushFileBuffers"), Rule(77, "SetEndOfFile"),
   Rule(79, "GetCurrentDirectoryW"), Rule(80, "SetCurrentDirectoryW"), Rule(82, "MoveFileW"),
   Rule(83, "CreateDirectoryW"), Rule(84, "RemoveDirectoryW"), Rule(86, "CreateHardLinkW"),
   Rule(87, "DeleteFileW"), Rule(89, "GetFinalPathNameByHandleW"),
   Rule(137, "GetDiskFreeSpaceExW"), Rule(186, "GetCurrentThreadId")}

Mappings == [nr \in {r.nr : r \in Table} |-> (CHOOSE r \in Table : r.nr = nr).operation]

\* RuleInterceptor::intercept; None where the table has no row.
Intercept(nr) == IF nr \in DOMAIN Mappings THEN Some(Mappings[nr]) ELSE None

\* ReverseRuleInterceptor::intercept, by the same table.
InterceptWindows(operation) == {nr \in DOMAIN Mappings : Mappings[nr] = operation}

\* The operations in whose lower-case name a forbidden pattern of shell commands
\* occurs: "format", in "information".
Forbidden == {"GetFileInformationByHandle"}

\* SafeCommandExecutor::validate_inject.
MayInject(operation) == operation \notin Forbidden /\ operation \in Range(Mappings)

\* DERIVED_BLOCKLIST of bilateral/gate.rs.
DerivedBlocklist ==
  {"WriteProcessMemory", "CreateRemoteThread", "CreateRemoteThreadEx", "VirtualAllocEx",
   "SetWindowsHookExW", "TerminateProcess", "DeleteFileW", "RegDeleteKeyW", "RegDeleteKeyExW",
   "RegDeleteTreeW"}
=============================================================================
