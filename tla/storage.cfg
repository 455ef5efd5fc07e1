SPECIFICATION StorageSpec
CONSTANTS
  \* EasyFs, FileImage and InodeBlocks
  BLOCK_SZ = 2
  INODE_DIRECT_COUNT = 1
  INODE_INDIRECT1_COUNT = 2
  Names = {1, 2}
  BLOCK_BITS = 5
  InodesPerBlock = 5
  TotalBlocks = 16
  InodeBitmapBlocks = 1
  Writes <- MCWrites
  MaxSize = 8
  \* FileImage
  Listings <- MCListings
  HostData <- MCHostData
  UserNames = {1, 2, 3, 4}
  NameLen <- MCNameLen
  NAME_LENGTH_LIMIT = 3
  TestStrings <- MCTestStrings
  Greeting <- MCGreeting
  Buffers <- MCBuffers
  BUFFER = 2
  MaxCalls = 4
  \* BlockCache
  Blocks = {b1, b2, b3}
  Data = {x, y}
  Clients = {c1, c2}
  CacheSize = 2
  MaxHeld = 1
INVARIANTS CacheHasRoom BlocksAccounted DiskPartitioned FilesAsWritten
PROPERTIES BlocksStored BitsAllocated FilesStored
