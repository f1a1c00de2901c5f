\* Two recovery points of an archive that is not encrypted.
CONSTANTS
  KeyCount = 3
  Position <- MCPosition
  Values = {v, w}
  Tombstone = Tombstone
  Missing = Missing
  MaxMemtree = 3
  MaxCtrees = 2
  Slices <- MCSlices
  ExtentSlices <- MCExtentSlices
  Items <- MCItems
  OwnSize = 1
  ImapEncrypted = FALSE
  Latest = Latest
  Unset = Unset
  Locked = Locked
  FirstPayload = 2
  PageBody = 2
  MAX_PREFETCH_PAGES = 3
  CipherBlock = 2
  Archives = {}
  SEGMENT_CACHE_BUDGET = 4
  Keymaps = {}
  WrappedKeys <- MCWrappedKeys
  Passwords = {"p", "q", "x"}
  KEY_LENGTH <- MCKeyLength
  MIN_ITER_LOG2 = 1
  MAX_ITER_LOG2 = 2
  MAX_KEYMAP_BLOB = 20
  KeymapSlack = 3
  AesBlock = 2
SPECIFICATION ArchiveSpec
INVARIANT HeldVolumeKeepsItsSize
