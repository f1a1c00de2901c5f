\* An archive with a torn commit, of which one page goes bad.
CONSTANTS
  Archives <- GrowingArchives
  MaxPages = 9
  MaxCommits = 3
  MaxCrashes = 1
  MaxDamage = 1
  Sizes = {1}
  MaxFiles = 1
  Stems <- MCStems
  NoTable = NoTable
  ExtentKeys <- MCExtentKeys
  KeyCount <- MCKeyCount
  Position <- MCPosition
  Values <- MCValues
  MaxSlices = 1
  Tombstone = Tombstone
  Missing = Missing
  MaxMemtree = 1
  MaxCtrees = 1
SPECIFICATION OpenedSpec
INVARIANT TornCommitSkipped
CHECK_DEADLOCK FALSE
