SPECIFICATION RunnerSpec
CONSTANTS
  Systems <- MCSystems
  Dirs <- MCDirs
  Names <- MCNames
  PageSize = 4
  HeapSize = 8
  BumpSize = 4
  TlsPages = 12
  MmapRoom = 8
  Preferred = 8
  LibraryOffset = 16
  LinkerOffset = 64
  StackSize = 4
  TcbOffset = 2
  TcbReserved = 8
  DtvPointer = 24
  Dtv = 28
  MaxVersions = 2
  Commands <- MCCommands
  ExitCodes <- MCExitCodes
  PeFiles <- MCPeFiles
  PeRoom = 48
  PeStack = 16
  MachoFiles <- MCMachoFiles
  MachoMin = 4
  MachoMax = 32
  MachoStackBase = 24
  MachoStack = 6
  StaticFiles <- MCStaticFiles
  StaticStack = 64
  StaticPageSize = 32
  StaticHeapSize = 32
  StaticMmapRoom = 32
INVARIANTS
  GraphIsExact
  BindingsFollowLoadOrder
  ThreadStorageAgrees
  ImageIsBound
  EntryIsMapped
  StartIsSound
  RunTells
