\* Scans of up to nine pages, in runs of one, two, four and at most five pages; walks of
\* five pages in sound trees, in trees with shared pages and in cycles, read at most three
\* at a time; cells in groups of up to two and blocks of three words;
\* headers of up to five pages.
CONSTANTS
  MaxPages = 9
  PageCounts <- MCPageCounts
  SCAN_CHUNK_MIN_PAGES = 1
  SCAN_CHUNK_MAX_PAGES = 5
  Archives <- MCArchives
  root_page = 0
  WALK_READ_AHEAD_PAGES = 3
  CellLists <- MCCellLists
  KeyLength = 1
  ValueLength = 2
  LSM_CELL_GROUP_MAX = 2
  BlockWords = 3
  LZ4_MAX_DISTANCE = 4
  Headers <- MCHeaderList
  BodyWords = 13
  FixedWords = 4
  CTREE_SLOTS = 2
SPECIFICATION CallSpec
INVARIANTS
  FindsLast
  ReadsLittle
  CallTypeOK
  ReadOnce
  YieldsInKeyOrder
  RefusesOnlyNonTrees
  
  HeaderAsWritten
PROPERTY CallsTerminate
