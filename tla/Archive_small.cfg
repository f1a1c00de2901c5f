\* Mem-tree and up to two ctrees over three keys (a third ctree adds a run of the same kind
\* as the second); two recovery points of an archive that has to be unlocked; four segments,
\* a budget that holds up to three of them and not the largest; keymaps of up to 20 words.
CONSTANTS
  KeyCount = 3
  Position <- MCPosition
  Values = {v, w}
  Tombstone = Tombstone
  Missing = Missing
  MaxMemtree = 3
  MaxCtrees = 2
  Slices <- MCSlices
  ExtentSlices <- MCExtentSlices
  Items <- MCItems
  OwnSize = 1
  ImapEncrypted = TRUE
  Latest = Latest
  Unset = Unset
  Locked = Locked
  FirstPayload = 2
  PageBody = 2
  MAX_PREFETCH_PAGES = 3
  CipherBlock = 2
  Archives <- MCArchives
  SEGMENT_CACHE_BUDGET = 4
  Keymaps <- MCKeymaps
  WrappedKeys <- MCWrappedKeys
  Passwords = {"p", "q", "x"}
  KEY_LENGTH <- MCKeyLength
  MIN_ITER_LOG2 = 1
  MAX_ITER_LOG2 = 2
  MAX_KEYMAP_BLOB = 20
  KeymapSlack = 3
  AesBlock = 2
SPECIFICATION ArchiveSpec
INVARIANTS
  ArchiveTypeOK
  LookupFindsNewest
  ExtentsAreNewest
  ReadersAgree
  ListsAsNew
  ReadsWholeSegments
  HoldsLastUsed
  KeyUnlocks
