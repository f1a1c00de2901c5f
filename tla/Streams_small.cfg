\* Archives of every format, and every read and extraction of them.
CONSTANTS
  Files <- MCFiles
  ClusterBlocks <- MCClusterBlocks
  Devices = {1, 2}
  VmaRequests <- MCRequests
  Resources <- MCResources
  ChunkSize <- MCChunkSize
  Align <- MCAlign
  Disks <- MCDisks
  Vbks <- MCVbks
  PAGE_SIZE = 5
  DescriptorSize = 1
  OldDescriptorSize = 2
  StoreSize = 2
  OldStoreSize = 1
  TableSize = 2
  MAX_ENTRIES_PER_TABLE = 6
  VbkTrees <- MCVbkTrees
  VbkPaths <- MCVbkPaths
  ItemSize = 2
  Dictionaries <- MCDictionaries
  BlobPageSize = 10
  Trees <- MCTrees
  WimPaths <- MCWimPaths
  Table <- MCTable
  MaxDepth = 5
SPECIFICATION Spec
INVARIANTS
  TypeOK
  VmaReadsDevice
  VmaExtractsDevices
  WimReadsSlice
  XvaReadsImage
  VbkReadsFile
  WimGetResolves
  WimListsDirectories
  VbkFindsItem
  VbkPropertiesOfOnePage
PROPERTY Terminates
