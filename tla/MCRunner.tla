------------------------------ MODULE MCRunner ------------------------------
EXTENDS Runner, MCLoader

Command(target, file) == [empty |-> FALSE, target |-> target, file |-> file]

MCCommands ==
  {Command("auto", Some(kind)) : kind \in Kinds} \cup {Command("auto", None)}
    \cup {Command(target, Some("pe")) : target \in {"wsl2", "elsewhere"}}
    \cup {[Command("auto", None) EXCEPT !.empty = TRUE]}

MCExitCodes == {0, 1, 3}

-----------------------------------------------------------------------------
(* A console program of Windows.  The program is loaded where it asks to be, *)
(* but for three that are given a base, as a caller of the function may.     *)

Section(name, rva, raw) == [name |-> name, rva |-> rva, vsize |-> 4, raw |-> raw, inFile |-> TRUE]

PeProgram ==
  [sound |-> TRUE, base |-> 8, at |-> None, entry |-> 0, size |-> 12,
   sections |-> <<Section(".text", 0, <<90, 91>>), Section(".data", 4, <<9, 93>>),
                  Section(".idata", 8, <<95, 96, 0, 97>>)>>,
   imports |-> <<[dll |-> "kernel32.dll", lookup |-> 8, table |-> 6],
                 [dll |-> "kernelbase.dll", lookup |-> 0, table |-> 11]>>,
   closed |-> TRUE,
   thunks |-> (8 :> <<Some("WriteFile"), Some("ExitProcess")>>) @@ (11 :> <<Some("GetStdHandle")>>),
   relocations |-> <<[rva |-> 4, kind |-> 10], [rva |-> 4, kind |-> 0]>>]

MCPeFiles ==
  {PeProgram,
   [PeProgram EXCEPT !.at = Some(20)],
   [PeProgram EXCEPT !.at = Some(4), !.relocations[1].rva = 5],
   [PeProgram EXCEPT !.at = Some(4), !.sections[2].raw = <<3>>],
   [PeProgram EXCEPT !.sound = FALSE],
   [PeProgram EXCEPT !.closed = FALSE],
   [PeProgram EXCEPT !.size = 0],
   [PeProgram EXCEPT !.entry = 12],
   [PeProgram EXCEPT !.sections[1].inFile = FALSE],
   [PeProgram EXCEPT !.sections[2] = [Section(".data", 4, <<>>) EXCEPT !.inFile = FALSE]],
   [PeProgram EXCEPT !.sections[2].rva = 2],
   [PeProgram EXCEPT !.sections[3].rva = 44],
   [PeProgram EXCEPT !.sections[3].rva = 12, !.imports = <<>>],
   [PeProgram EXCEPT !.imports[1].lookup = 2],
   [PeProgram EXCEPT !.imports[1].dll = "ntdll.dll"],
   [PeProgram EXCEPT !.imports[1].table = 0],
   [PeProgram EXCEPT !.imports[1].table = 10],
   [PeProgram EXCEPT !.thunks[11] = <<Some("CreateFileW")>>],
   [PeProgram EXCEPT !.thunks[11] = <<None>>],
   [PeProgram EXCEPT !.relocations[1].kind = 3],
   [PeProgram EXCEPT !.relocations[1].rva = 1],
   [PeProgram EXCEPT !.relocations[1].rva = 6]}

-----------------------------------------------------------------------------
(* A program of macOS.                                                      *)

MachoSegment(vmaddr, vmsize, fileoff, filesize, perm) ==
  [kind |-> "segment", size |-> 9, vmaddr |-> vmaddr, vmsize |-> vmsize,
   fileoff |-> fileoff, filesize |-> filesize, perm |-> perm]

MachoMain(at) == [kind |-> "main", size |-> 3, entryoff |-> at]

OtherCommand == [kind |-> "other", size |-> 2]

MachoOf(commands) ==
  [runnable |-> TRUE, length |-> 40, ncmds |-> Len(commands),
   cmdsSize |-> FoldLeft(LAMBDA n, c : n + c.size, 0, commands), commands |-> commands]

TextSegment == MachoSegment(12, 6, 30, 4, {"r", "x"})
DataSegment == MachoSegment(18, 2, 34, 2, {"r", "w"})

MachoProgram == MachoOf(<<TextSegment, OtherCommand, MachoMain(31), DataSegment>>)

MCMachoFiles ==
  {MachoProgram,
   [MachoProgram EXCEPT !.commands[3] = MachoMain(34)],
   [MachoProgram EXCEPT !.commands[3] = MachoMain(36)],
   [MachoProgram EXCEPT !.commands[3] = MachoMain(0)],
   [MachoProgram EXCEPT !.commands[3] = [MachoMain(31) EXCEPT !.size = 1]],
   MachoOf(<<TextSegment, OtherCommand>>),
   MachoOf(<<TextSegment, MachoMain(31), MachoMain(32)>>),
   [MachoProgram EXCEPT !.runnable = FALSE],
   [MachoProgram EXCEPT !.length = 20],
   [MachoProgram EXCEPT !.ncmds = 3],
   [MachoProgram EXCEPT !.ncmds = 5],
   [MachoProgram EXCEPT !.cmdsSize = 20],
   [MachoProgram EXCEPT !.commands[2].size = 0],
   [MachoProgram EXCEPT !.commands[1].size = 4],
   MachoOf(<<MachoSegment(12, 6, 38, 4, {"r"}), MachoMain(39)>>),
   MachoOf(<<MachoSegment(12, 3, 30, 4, {"r"}), MachoMain(31)>>),
   MachoOf(<<MachoSegment(0, 8, 0, 0, {}), TextSegment, MachoMain(31)>>),
   MachoOf(<<TextSegment, MachoSegment(14, 2, 34, 2, {"r"}), MachoMain(31)>>),
   MachoOf(<<MachoSegment(22, 4, 30, 4, {"r", "x"}), MachoMain(31)>>)}

-----------------------------------------------------------------------------
(* A static program of Linux.                                               *)

StaticSegment(vaddr, offset, filesz, memsz, perm) ==
  [vaddr |-> vaddr, offset |-> offset, filesz |-> filesz, memsz |-> memsz, perm |-> perm]

StaticCode == StaticSegment(34, 2, 6, 6, {"r", "x"})
StaticData == StaticSegment(66, 8, 4, 10, {"r", "w"})

StaticImageOf ==
  [runnable |-> TRUE, entry |-> 36, length |-> 12, headers |-> 3, headerCount |-> 4,
   segments |-> <<StaticCode, StaticData>>,
   tls |-> Some([offset |-> 8, filesz |-> 2, memsz |-> 3, align |-> 2]),
   symbols |-> ("_dl_random" :> 67) @@ ("lock" :> 68) @@ ("main" :> 36),
   resolvers |-> <<[at |-> 70, impl |-> Some(37)], [at |-> 71, impl |-> Some(38)]>>]

ThreadBlock(offset, filesz, memsz, align) == Some([offset |-> offset, filesz |-> filesz, memsz |-> memsz, align |-> align])

MCStaticFiles ==
  {StaticImageOf,
   [StaticImageOf EXCEPT !.tls = None],
   [StaticImageOf EXCEPT !.tls = ThreadBlock(8, 6, 6, 1)],
   [StaticImageOf EXCEPT !.tls = ThreadBlock(8, 1, 90, 8)],
   [StaticImageOf EXCEPT !.tls = ThreadBlock(8, 1, 200, 8)],
   [StaticImageOf EXCEPT !.tls = ThreadBlock(8, 0, 2, 0)],
   [StaticImageOf EXCEPT !.symbols = ("_dl_random" :> 36) @@ ("__libc_single_threaded" :> 36)],
   [StaticImageOf EXCEPT !.symbols = ("__libc_single_threaded" :> 75) @@ ("__libc_lock_lock" :> 74)],
   [StaticImageOf EXCEPT !.symbols = <<>>, !.resolvers = <<>>],
   [StaticImageOf EXCEPT !.resolvers[1].impl = None],
   [StaticImageOf EXCEPT !.resolvers[1].at = 36],
   [StaticImageOf EXCEPT !.resolvers[2].at = 70],
   [StaticImageOf EXCEPT !.headers = 9],
   [StaticImageOf EXCEPT !.headers = 1],
   [StaticImageOf EXCEPT !.length = 9],
   [StaticImageOf EXCEPT !.length = 7],
   [StaticImageOf EXCEPT !.runnable = FALSE],
   [StaticImageOf EXCEPT !.entry = 0],
   [StaticImageOf EXCEPT !.segments = <<>>],
   [StaticImageOf EXCEPT !.segments = <<StaticCode, StaticData, StaticData>>],
   [StaticImageOf EXCEPT !.segments[2].vaddr = 38],
   [StaticImageOf EXCEPT !.segments[2].vaddr = 50]}
=============================================================================
