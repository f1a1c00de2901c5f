\* Up to three extents, and reads of the whole volume, of parts of it and of nothing.
CONSTANTS
  Offsets = {1, 3}
  Slices = {1, 2}
  MaxRows = 3
  Alignment = 2
  WholeSegment = 9
  NoRequest = NoRequest
  NoAnswer = NoAnswer
  Corrupt = Corrupt
  ExtentRows <- MCExtentRows
  Tables <- MCTables
  Elsewhere <- MCElsewhere
  SegmentLength <- MCSegmentLength
  Placement <- MCPlacement
  Requests <- MCRequests
SPECIFICATION ReadSpec
INVARIANTS
  IntervalsDecide
  InOrder
  NothingLost
  Coalesced
PROPERTIES
  KeepsPromise
  AlwaysAnswers
