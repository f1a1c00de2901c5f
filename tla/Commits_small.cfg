\* The three kinds of page store whose commits are atomic, with crashes, and the two of those
\* that never reuse a page that decay; sets of up to three files, snapshots into two slots,
\* and chains of three backups.
CONSTANTS
  Archives <- MCArchives
  MaxPages = 11
  MaxCommits = 3
  MaxCrashes = 2
  MaxDamage = 1
  Sizes = {1, 3}
  MaxFiles = 3
  Stems <- MCStems
  NoTable = NoTable
  ExtentKeys <- MCExtentKeys
  KeyCount <- MCKeyCount
  Position <- MCPosition
  Values <- MCValues
  MaxSlices = 3
  Tombstone = Tombstone
  Missing = Missing
  MaxMemtree = 1
  MaxCtrees = 2
SPECIFICATION OpenedSpec
INVARIANTS
  OpenedTypeOK
  SetInPlace
  PointsAsBackedUp
PROPERTIES
  CommitsAtomic
  SnapshotsAtomic
  BadPageCostsOneCommit
CHECK_DEADLOCK FALSE
