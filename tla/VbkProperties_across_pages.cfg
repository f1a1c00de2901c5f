\* Dictionaries of up to three properties, on pages of ten words.
CONSTANTS
  Files = {}
  ClusterBlocks <- MCClusterBlocks
  Devices = {1, 2}
  VmaRequests = {}
  Resources = {}
  ChunkSize <- MCChunkSize
  Align <- MCAlign
  Disks = {}
  Vbks = {}
  PAGE_SIZE = 5
  DescriptorSize = 1
  OldDescriptorSize = 2
  StoreSize = 2
  OldStoreSize = 1
  TableSize = 2
  MAX_ENTRIES_PER_TABLE = 6
  VbkTrees = {}
  VbkPaths = {}
  ItemSize = 2
  Dictionaries <- MCDictionaries
  BlobPageSize = 10
  Trees = {}
  WimPaths = {}
  Table <- MCTable
  MaxDepth = 5
SPECIFICATION Spec
INVARIANT PropertiesAsWritten
