SPECIFICATION GuestSpec
CONSTANTS
  PageSize = 2
  HeapSize = 4
  BumpSize = 2
  TlsPages = 4
  MmapRoom = 6
  Guests <- MCGuests
  Files <- MCFiles
  TlsSlots <- MCTlsSlots
  GuardOffset = 1
  CurBrkOffset = 3
  Buffers <- MCBuffers
  Addresses <- MCAddresses
  Lengths <- MCLengths
  Protections <- MCProtections
  MaxFd = 4
  MaxCalls = 4
  Dirs = {da, db}
  Home = da
  Names = {f}
  Here = here
  HostFds = {0, 1, 2, 3}
  Counts = {0, 1, 3}
  MaxHostCalls = 4
  Events <- MCEvents
  Programs <- MCPrograms
  Setups <- MCSetups
  Outputs <- MCOutputs
  FallbackThreshold = 2
  MaxEvents = 3
  UtsnameSize = 3
  Jobs <- MCJobs
  MmapBase = 65536
  HeapBase = 131072
  PageBytes = 4096
  BitsOf <- MCBitsOf
  Power <- MCPower
  And <- MCAnd
  Or <- MCOr
  Xor <- MCXor
  Slots <- MCSlots
  Code <- MCCode
  Entries <- MCEntries
  Results <- MCResults
  Cpuid <- MCCpuid
  MaxSteps = 8
INVARIANT TableNeverBlocks
CHECK_DEADLOCK FALSE
