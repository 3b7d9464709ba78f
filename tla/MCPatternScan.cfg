\* Chunks of 3 bytes, segments of up to 5, patterns of 1 to 3 tokens; words of 2 bytes
\* in chunks of 2, of which one cannot be read, and one write of the game.
CONSTANTS
  Bytes = {0, 1}
  AnyByte = any
  MemorySize = 5
  ChunkBytes = 3
  MaxPattern = 3
  Layouts <- MCLayouts
  ChunkSize = 2
  NeedleSize = 2
  MaxRegionSize = 5
  Contents = {0, 1}
  ImageSize = 5
  MappingLists <- MCMappingLists
  Limits = {0, 1, 2}
  MaxWrites = 1
  MaxUnread = 1
SPECIFICATION SearchSpec
INVARIANTS FirstMatchFound QwordsFound
PROPERTIES ScanEnds
\* The scan returns, and so does the search.
CHECK_DEADLOCK FALSE
