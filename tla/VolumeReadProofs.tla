-------------------------- MODULE VolumeReadProofs --------------------------
(***************************************************************************)
(* Proofs about ExtentResolve, for every set of extent tables; and that a  *)
(* TIBX volume keeps its promise: VolumeRead implements VolumeImage, for   *)
(* all tables, requests and archives.                                      *)
(***************************************************************************)
EXTENDS VolumeRead, SumLemmas

-----------------------------------------------------------------------------
(***************************************************************************)
(* The inductive invariant.                                                *)
(***************************************************************************)

Sweeping == pc \in {"sweep", "cover"}

\* The rows looked at so far that are not empty are exactly the ones in rows, in
\* table order.
RowsInv ==
  /\ \A k, j \in 1 .. count : k < j => rows[k] < rows[j]
  /\ \A k \in 1 .. count : table[rows[k]].length # 0
  /\ \A r \in 1 .. Len(table) :
       (pc = "keep" => r < index) /\ table[r].length # 0 =>
         \E k \in 1 .. count : rows[k] = r

KeepInv ==
  pc = "keep" => /\ \A k \in 1 .. count : rows[k] < index
                 /\ intervals = <<>>
                 /\ covering = {}
                 /\ previous = 0
                 /\ position = 0

\* The heap holds every extent that has started and not ended, and nothing the
\* sweep has not reached.
HeapInv ==
  Sweeping =>
    /\ \A k \in covering : k < index /\ Offset(k) <= position
    /\ \A k \in 1 .. count : k < index /\ Ends(k) > position => k \in covering
    /\ \A k \in 1 .. count : index <= k => position <= Offset(k)

\* The intervals end at the position the sweep has reached.
FrontierInv == Sweeping => \A i \in 1 .. Len(intervals) : intervals[i].stop <= position

\* previous is the entry the last interval came from.
PreviousInv ==
  Sweeping =>
    /\ previous = 0 => intervals = <<>>
    /\ previous # 0 => /\ intervals # <<>>
                       /\ intervals[Len(intervals)].row = rows[previous]

RowsInRange == \A i \in 1 .. Len(intervals) : intervals[i].row \in 1 .. Len(table)

IInv ==
  /\ TypeOK
  /\ table \in Tables
  /\ RowsInv
  /\ KeepInv
  /\ HeapInv
  /\ FrontierInv
  /\ PreviousInv
  /\ RowsInRange
  /\ IntervalsDecide
  /\ InOrder
  /\ NothingLost
  /\ Coalesced

-----------------------------------------------------------------------------

\* The fields of a row are naturals: what ExtentRowsAssumption says of one row of a table.
LEMMA TableFields ==
  ASSUME NEW t \in Seq(ExtentRows), NEW r \in 1 .. Len(t)
  PROVE  /\ t[r].offset \in Nat
         /\ t[r].length \in Nat
         /\ t[r].slice \in Nat
         /\ t[r].extent \in Nat
         /\ t[r].segment \in Nat
         /\ EndOf(t[r]) \in Nat
         /\ EndOf(t[r]) = t[r].offset + t[r].length
<1>1. t[r] \in ExtentRows
  OBVIOUS
<1>2. QED
  BY <1>1, ExtentRowsAssumption DEF EndOf

\* Offsets and ends of the rows that are kept.
LEMMA EntryTypes ==
  ASSUME table \in Seq(ExtentRows), rows \in Seq(1 .. Len(table)), NEW k \in 1 .. count
  PROVE  /\ rows[k] \in 1 .. Len(table)
         /\ Offset(k) \in Nat
         /\ Ends(k) \in Nat
         /\ index \in Nat \ {0} => Until(k) \in Nat
<1>1. rows[k] \in 1 .. Len(table)
  BY DEF count
<1>2. Offset(k) \in Nat /\ Ends(k) \in Nat
  BY <1>1, TableFields DEF Offset, Ends
<1>3. ASSUME index \in Nat, index >= 1, index <= count
      PROVE  Offset(index) \in Nat
  <2>1. rows[index] \in 1 .. Len(table)
    BY <1>3 DEF count
  <2>2. QED
    BY <2>1, TableFields DEF Offset
<1>4. QED
  BY <1>1, <1>2, <1>3 DEF Until

\* Moving the end of the last interval.
LEMMA ExtendLast ==
  ASSUME NEW s \in Seq(Interval), NEW u \in Nat
  PROVE  LET moved == [s EXCEPT ![Len(s)].stop = u]
         IN  /\ moved \in Seq(Interval)
             /\ Len(moved) = Len(s)
             /\ \A i \in 1 .. Len(s) :
                  /\ i < Len(s) => moved[i] = s[i]
                  /\ i = Len(s) => /\ moved[i].start = s[i].start
                                   /\ moved[i].stop = u
                                   /\ moved[i].row = s[i].row
<1> DEFINE last == [s[Len(s)] EXCEPT !.stop = u]
           moved == [s EXCEPT ![Len(s)] = last]
<1>1. CASE Len(s) = 0
  <2>1. DOMAIN s = {}
    BY <1>1
  <2>2. moved = [i \in DOMAIN s |-> s[i]]
    BY <2>1
  <2>3. s = [i \in DOMAIN s |-> s[i]]
    BY <1>1
  <2>4. [s EXCEPT ![Len(s)].stop = u] = s
    BY <2>2, <2>3
  <2> HIDE DEF moved
  <2>5. \A i \in 1 .. Len(s) : FALSE
    BY <1>1
  <2>6. QED
    BY <2>4, <2>5, Zenon
<1>2. CASE Len(s) # 0
  <2>1. s[Len(s)] \in Interval
    BY <1>2
  <2>2. last \in Interval /\ last.start = s[Len(s)].start /\ last.stop = u /\ last.row = s[Len(s)].row
    BY <2>1 DEF Interval
  <2> HIDE DEF last
  <2>3. moved \in Seq(Interval) /\ Len(moved) = Len(s)
    BY <1>2, <2>2
  <2>4. \A i \in 1 .. Len(s) : moved[i] = IF i = Len(s) THEN last ELSE s[i]
    BY <1>2
  <2>5. QED
    BY <2>2, <2>3, <2>4 DEF last
<1>3. QED
  BY <1>1, <1>2

-----------------------------------------------------------------------------

\* Every step keeps the types, and index within the rows it counts.
LEMMA TypeStep == TypeOK /\ [Next]_vars => TypeOK'
<1> SUFFICES ASSUME TypeOK, [Next]_vars
             PROVE  TypeOK'
  OBVIOUS
<1> USE DEF TypeOK
<1>1. CASE KeepRow
  <2>1. rows' \in Seq(1 .. Len(table)) /\ Len(rows') >= Len(rows)
    <3>1. CASE table[index].length = 0
      BY <1>1, <3>1 DEF KeepRow
    <3>2. CASE table[index].length # 0
      <4>1. rows' = Append(rows, index) /\ index \in 1 .. Len(table)
        BY <1>1, <3>2 DEF KeepRow
      <4>2. QED
        BY <4>1
    <3>3. QED
      BY <3>1, <3>2
  <2>2. QED
    BY <1>1, <2>1 DEF KeepRow, count
<1>2. CASE ReturnDisjoint
  <2>1. \A k \in 1 .. count : [start |-> Offset(k), stop |-> Ends(k), row |-> rows[k]] \in Interval
    BY EntryTypes DEF Interval
  <2>2. intervals' \in Seq(Interval)
    BY <1>2, <2>1 DEF ReturnDisjoint, count
  <2>3. QED
    BY <1>2, <2>2 DEF ReturnDisjoint, count
<1>3. CASE BeginSweep
  BY <1>3 DEF BeginSweep, count
<1>4. CASE Iterate
  <2>1. position' \in Nat
    <3>1. CASE covering = {}
      <4>1. index \in 1 .. count
        BY <1>4, <3>1 DEF Iterate, IterateTo, count
      <4>2. QED
        BY <1>4, <3>1, <4>1, EntryTypes DEF Iterate, IterateTo
    <3>2. CASE covering # {}
      BY <1>4, <3>2 DEF Iterate, IterateTo
    <3>3. QED
      BY <3>1, <3>2
  <2>2. QED
    BY <1>4, <2>1 DEF Iterate, IterateTo, count
<1>5. CASE ReturnSwept
  BY <1>5 DEF ReturnSwept, count
<1>6. CASE Admit
  BY <1>6 DEF Admit, MayAdmit, count
<1>7. CASE Retire
  BY <1>7 DEF Retire, count
<1>8. CASE NoneCovers
  BY <1>8 DEF NoneCovers, count
<1>9. CASE Emit
  <2>1. PICK top \in covering :
          /\ intervals' =
               IF Extends(top)
               THEN [intervals EXCEPT ![Len(intervals)].stop = Until(top)]
               ELSE Append(intervals, [start |-> position, stop |-> Until(top),
                                       row |-> rows[top]])
          /\ position' = Until(top)
          /\ previous' = top
    BY <1>9 DEF Emit
  <2>2. Until(top) \in Nat /\ rows[top] \in Nat
    BY EntryTypes
  <2>3. intervals' \in Seq(Interval)
    <3>1. CASE Extends(top)
      BY <2>1, <2>2, <3>1, ExtendLast
    <3>2. CASE ~Extends(top)
      BY <2>1, <2>2, <3>2 DEF Interval
    <3>3. QED
      BY <3>1, <3>2
  <2>4. /\ position' \in Nat
        /\ previous' \in 0 .. count
    BY <2>1, <2>2 DEF count
  <2>5. QED
    BY <1>9, <2>3, <2>4 DEF Emit, count
<1>10. CASE UNCHANGED vars
  BY <1>10 DEF vars, count
<1>11. QED
  BY <1>1, <1>2, <1>3, <1>4, <1>5, <1>6, <1>7, <1>8, <1>9, <1>10
     DEF Next, Step, Returned

\* Every variable keeps its type, and the sweep stays within the arrays it indexes.
THEOREM TypeCorrect == Spec => []TypeOK
<1>1. Init => TypeOK
  BY TablesAssumption DEF Init, TypeOK, count, Interval
<1>2. QED
  BY <1>1, TypeStep, PTL DEF Spec

-----------------------------------------------------------------------------
(***************************************************************************)
(* What the invariant says of the rows that are kept.                      *)
(***************************************************************************)

\* They are in offset order, none is empty, and none is there twice.
LEMMA EntryOrder ==
  ASSUME TypeOK, table \in Tables, RowsInv
  PROVE  /\ \A k \in 1 .. count : Offset(k) \in Nat /\ Ends(k) \in Nat /\ Offset(k) < Ends(k)
         /\ \A k, j \in 1 .. count : k <= j => Offset(k) <= Offset(j)
         /\ \A k, j \in 1 .. count : rows[k] = rows[j] => k = j
<1>1. /\ table \in Seq(ExtentRows)
      /\ count \in Nat
      /\ \A k \in 1 .. count : rows[k] \in 1 .. Len(table)
  BY DEF TypeOK, count
<1>2. /\ \A k, j \in 1 .. count : k < j => rows[k] < rows[j]
      /\ \A k \in 1 .. count : table[rows[k]].length # 0
  BY DEF RowsInv
<1>3. ASSUME NEW k \in 1 .. count
      PROVE  Offset(k) \in Nat /\ Ends(k) \in Nat /\ Offset(k) < Ends(k)
  <2>1. rows[k] \in 1 .. Len(table) /\ table[rows[k]].length # 0
    BY <1>1, <1>2
  <2>2. QED
    BY <1>1, <2>1, TableFields DEF Offset, Ends
<1>4. ASSUME NEW k \in 1 .. count, NEW j \in 1 .. count, k <= j
      PROVE  Offset(k) <= Offset(j)
  <2>1. rows[k] <= rows[j]
    BY <1>1, <1>2, <1>4
  <2>2. QED
    BY <1>1, <2>1, TablesAssumption, SMTT(30) DEF Offset
<1>5. ASSUME NEW k \in 1 .. count, NEW j \in 1 .. count, rows[k] = rows[j]
      PROVE  k = j
  BY <1>1, <1>2, <1>5
<1>6. QED
  BY <1>3, <1>4, <1>5

\* Once the empty rows are left out, a row that covers a byte is one of them.
LEMMA CoveringEntry ==
  ASSUME TypeOK, table \in Tables, RowsInv, pc = "keep" => index > Len(table),
         NEW q \in 1 .. Len(table), NEW b \in Int, Covers(table, q, b)
  PROVE  \E k \in 1 .. count : rows[k] = q /\ Offset(k) <= b /\ b < Ends(k)
<1>1. table[q].length # 0
  BY TableFields DEF TypeOK, Covers
<1>2. PICK k \in 1 .. count : rows[k] = q
  BY <1>1, SMTT(30) DEF RowsInv, TypeOK
<1>3. QED
  BY <1>2 DEF Covers, Offset, Ends

\* The more recent of two rows is neither less recent nor as recent.
LEMMA RecencyOrder ==
  ASSUME NEW x, NEW y, x.slice \in Nat, x.extent \in Nat, x.segment \in Nat,
         y.slice \in Nat, y.extent \in Nat, y.segment \in Nat
  PROVE  /\ MoreRecent(x, y) => ~MoreRecent(y, x) /\ ~SameRecency(y, x)
         /\ SameRecency(x, y) => ~MoreRecent(y, x)
BY DEF MoreRecent, SameRecency

\* An entry decides a byte if it precedes every other entry that covers it.
LEMMA DecidingEntry ==
  ASSUME TypeOK, table \in Tables, RowsInv, pc = "keep" => index > Len(table),
         NEW k \in 1 .. count, NEW b \in Int, Offset(k) <= b, b < Ends(k),
         \A j \in 1 .. count : Offset(j) <= b /\ b < Ends(j) => j = k \/ Precedes(k, j)
  PROVE  Decides(table, rows[k], b)
<1> DEFINE r == rows[k]
<1>1. /\ table \in Seq(ExtentRows)
      /\ count \in Nat
      /\ \A j \in 1 .. count : rows[j] \in 1 .. Len(table)
  BY DEF TypeOK, count
<1>2. Covers(table, r, b)
  BY DEF Covers, Offset, Ends
<1>3. ASSUME NEW q \in 1 .. Len(table), Covers(table, q, b)
      PROVE  ~MoreRecent(table[q], table[r]) /\ (SameRecency(table[q], table[r]) => r <= q)
  <2>1. PICK j \in 1 .. count : rows[j] = q /\ Offset(j) <= b /\ b < Ends(j)
    BY <1>3, CoveringEntry
  <2>2. /\ table[q].slice \in Nat /\ table[q].extent \in Nat /\ table[q].segment \in Nat
        /\ table[r].slice \in Nat /\ table[r].extent \in Nat /\ table[r].segment \in Nat
    BY <1>1, TableFields
  <2>3. CASE j = k
    BY <1>1, <2>1, <2>2, <2>3 DEF MoreRecent
  <2>4. CASE Precedes(k, j)
    <3> HIDE DEF r
    <3>1. CASE MoreRecent(table[r], table[q])
      BY <2>2, <3>1, RecencyOrder
    <3>2. CASE SameRecency(table[r], table[q]) /\ k < j
      <4>1. r <= q
        BY <1>1, <2>1, <3>2 DEF RowsInv, r
      <4>2. QED
        BY <2>2, <3>2, <4>1, RecencyOrder
    <3>3. QED
      BY <2>1, <2>4, <3>1, <3>2 DEF Precedes, r
  <2>5. QED
    BY <2>1, <2>3, <2>4
<1>4. QED
  BY <1>2, <1>3 DEF Decides

\* The rows stay as they are after the "keep" loop.
LEMMA RowsStep ==
  ASSUME RowsInv, pc # "keep", pc' # "keep", UNCHANGED <<table, rows>>
  PROVE  RowsInv'
BY DEF RowsInv, count

\* A step that adds no interval keeps what is said of the intervals alone.
LEMMA IntervalsStep ==
  ASSUME UNCHANGED <<table, intervals>>,
         RowsInRange, IntervalsDecide, InOrder, Coalesced
  PROVE  RowsInRange' /\ IntervalsDecide' /\ InOrder' /\ Coalesced'
<1>1. RowsInRange'
  BY DEF RowsInRange
<1>2. IntervalsDecide'
  BY DEF IntervalsDecide
<1>3. InOrder'
  BY DEF InOrder
<1>4. Coalesced'
  BY DEF Coalesced
<1>5. QED
  BY <1>1, <1>2, <1>3, <1>4

-----------------------------------------------------------------------------
(***************************************************************************)
(* Each step keeps the invariant (its TypeOK is TypeStep's).               *)
(***************************************************************************)

\* Taking a row over, or leaving an empty one out, keeps the kept rows in order.
LEMMA KeepRowStep ==
  ASSUME IInv, TypeOK', KeepRow
  PROVE  IInv'
<1> USE DEF IInv, KeepRow
<1>1. /\ index \in 1 .. Len(table)
      /\ rows \in Seq(1 .. Len(table))
      /\ \A k \in 1 .. Len(rows) : rows[k] \in 1 .. Len(table)
      /\ Len(rows) \in Nat
  BY DEF TypeOK, count
<1>2. HeapInv' /\ FrontierInv' /\ PreviousInv'
  BY SMTT(30) DEF HeapInv, FrontierInv, PreviousInv, Sweeping
<1>3. NothingLost'
  <2>1. position' = 0 /\ pc' = "keep" /\ table' = table
    BY DEF KeepInv
  <2>2. \A r \in 1 .. Len(table) : \A b \in table[r].offset .. EndOf(table[r]) - 1 : ~(b < 0)
    BY TableFields, SMTT(30) DEF TypeOK
  <2>3. QED
    BY <2>1, <2>2 DEF NothingLost
<1>4. RowsInRange' /\ IntervalsDecide' /\ InOrder' /\ Coalesced'
  BY IntervalsStep
<1>5. CASE table[index].length = 0
  <2>1. rows' = rows /\ table' = table /\ index' = index + 1
    BY <1>5
  <2>2. RowsInv'
    BY <1>1, <1>5, <2>1 DEF RowsInv, count
  <2>3. KeepInv'
    BY <1>1, <2>1 DEF KeepInv, count
  <2>4. QED
    BY <1>2, <1>3, <1>4, <2>2, <2>3
<1>6. CASE table[index].length # 0
  <2>1. /\ rows' = Append(rows, index)
        /\ table' = table
        /\ index' = index + 1
        /\ Len(rows') = Len(rows) + 1
        /\ \A k \in 1 .. Len(rows') : rows'[k] = IF k <= Len(rows) THEN rows[k] ELSE index
    BY <1>1, <1>6
  <2>2. \A k \in 1 .. Len(rows) : rows[k] < index
    BY DEF KeepInv, count
  <2>3. RowsInv'
    <3>1. \A k, j \in 1 .. Len(rows') : k < j => rows'[k] < rows'[j]
      BY <1>1, <2>1, <2>2 DEF RowsInv, count
    <3>2. \A k \in 1 .. Len(rows') : table[rows'[k]].length # 0
      BY <1>1, <1>6, <2>1 DEF RowsInv, count
    <3>3. ASSUME NEW r \in 1 .. Len(table), r < index', table[r].length # 0
          PROVE  \E k \in 1 .. Len(rows') : rows'[k] = r
      <4>1. CASE r = index
        <5>1. rows'[Len(rows')] = index /\ Len(rows') \in 1 .. Len(rows')
          BY <1>1, <2>1
        <5>2. QED
          BY <4>1, <5>1
      <4>2. CASE r # index
        <5>1. r < index
          BY <1>1, <2>1, <3>3, <4>2
        <5>2. PICK k \in 1 .. Len(rows) : rows[k] = r
          BY <3>3, <5>1 DEF RowsInv, count
        <5>3. k \in 1 .. Len(rows') /\ rows'[k] = r
          BY <1>1, <2>1, <5>2
        <5>4. QED
          BY <5>3
      <4>3. QED
        BY <4>1, <4>2
    <3>4. QED
      BY <2>1, <3>1, <3>2, <3>3 DEF RowsInv, count
  <2>4. KeepInv'
    <3>1. \A k \in 1 .. Len(rows') : rows'[k] < index'
      BY <1>1, <2>1, <2>2
    <3>2. QED
      BY <3>1 DEF KeepInv, count
  <2>5. QED
    BY <1>2, <1>3, <1>4, <2>3, <2>4
<1>7. QED
  BY <1>5, <1>6

\* The sweep begins with nothing behind it: position 0, no interval, an empty heap.
LEMMA BeginSweepStep ==
  ASSUME IInv, TypeOK', BeginSweep
  PROVE  IInv'
<1> USE DEF IInv, BeginSweep
<1>1. RowsInv'
  <2>1. \A r \in 1 .. Len(table) : r < index
    BY DEF TypeOK
  <2>2. table' = table /\ rows' = rows
    OBVIOUS
  <2>3. QED
    BY <2>1, <2>2 DEF RowsInv, count
<1>2. intervals = <<>> /\ covering = {} /\ previous = 0 /\ position = 0
  BY DEF KeepInv
<1>3. HeapInv'
  <2>1. \A k \in 1 .. count : Offset(k) \in Nat
    BY EntryOrder
  <2>2. count' = count /\ index' = 1 /\ position' = 0 /\ covering' = {}
    BY <1>2 DEF count
  <2>3. \A k \in 1 .. count : Offset(k)' = Offset(k)
    BY DEF Offset
  <2>4. QED
    BY <2>1, <2>2, <2>3 DEF HeapInv
<1>4. FrontierInv' /\ PreviousInv' /\ KeepInv'
  BY <1>2 DEF FrontierInv, PreviousInv, KeepInv
<1>5. NothingLost'
  BY <1>2 DEF NothingLost
<1>6. QED
  BY <1>1, <1>3, <1>4, <1>5, IntervalsStep

\* At the end of the sweep no extent is left ahead or in the heap, so nothing is lost.
LEMMA ReturnSweptStep ==
  ASSUME IInv, TypeOK', ReturnSwept
  PROVE  IInv'
<1> USE DEF IInv, ReturnSwept
<1>1. RowsInv'
  BY RowsStep
<1>2. KeepInv' /\ HeapInv' /\ FrontierInv' /\ PreviousInv'
  BY DEF KeepInv, HeapInv, FrontierInv, PreviousInv, Sweeping
<1>3. NothingLost'
  <2> SUFFICES ASSUME NEW r \in 1 .. Len(table),
                      NEW b \in table[r].offset .. EndOf(table[r]) - 1
               PROVE  \E i \in 1 .. Len(intervals) : InInterval(i, b)
    BY DEF NothingLost, InInterval
  <2>1. Covers(table, r, b) /\ b \in Int
    BY TableFields DEF Covers, TypeOK
  <2>2. PICK k \in 1 .. count : rows[k] = r /\ Offset(k) <= b /\ b < Ends(k)
    BY <2>1, CoveringEntry
  <2>3. Ends(k) <= position
    BY EntryOrder DEF HeapInv, Sweeping, TypeOK, count
  <2>4. b < position
    BY <2>1, <2>2, <2>3, EntryOrder DEF TypeOK
  <2>5. QED
    BY <2>4 DEF NothingLost
<1>4. QED
  BY <1>1, <1>2, <1>3, IntervalsStep

\* Skipping to the next extent passes over bytes no extent covers.
LEMMA IterateStep ==
  ASSUME IInv, TypeOK', Iterate
  PROVE  IInv'
<1> USE DEF IInv, Iterate, IterateTo
<1>1. RowsInv'
  BY RowsStep
<1>2. /\ count' = count
      /\ \A k \in 1 .. count : Offset(k)' = Offset(k) /\ Ends(k)' = Ends(k)
      /\ \A k \in 1 .. count : Offset(k) \in Nat /\ Ends(k) \in Nat
      /\ position \in Nat /\ index \in Nat /\ count \in Nat
  BY EntryOrder, SMTT(30) DEF Offset, Ends, count, TypeOK
<1>3. CASE covering # {}
  <2>1. position' = position /\ pc' = "cover"
    BY <1>3
  <2>2. HeapInv'
    <3>1. /\ \A k \in covering : k < index /\ Offset(k) <= position
          /\ \A k \in 1 .. count : k < index /\ Ends(k) > position => k \in covering
          /\ \A k \in 1 .. count : index <= k => position <= Offset(k)
      BY DEF HeapInv, Sweeping
    <3>2. covering \subseteq 1 .. count /\ covering' = covering /\ index' = index
      BY DEF TypeOK
    <3>3. QED
      BY <1>2, <2>1, <3>1, <3>2 DEF HeapInv
  <2>3. FrontierInv' /\ PreviousInv' /\ KeepInv'
    BY <2>1 DEF FrontierInv, PreviousInv, KeepInv, Sweeping
  <2>4. NothingLost'
    BY <2>1 DEF NothingLost, InInterval
  <2>5. QED
    BY <1>1, <2>2, <2>3, <2>4, IntervalsStep
<1>4. CASE covering = {}
  <2>1. position' = Offset(index) /\ index \in 1 .. count /\ pc' = "cover"
    BY <1>2, <1>4 DEF TypeOK
  <2>2. position <= position'
    BY <2>1 DEF HeapInv, Sweeping
  <2>3. \A k \in 1 .. count : k < index => Ends(k) <= position
    BY <1>2, <1>4 DEF HeapInv, Sweeping
  <2>4. \A k \in 1 .. count : index <= k => position' <= Offset(k)
    BY <1>2, <2>1, EntryOrder
  <2>5. HeapInv'
    BY <1>2, <1>4, <2>1, <2>2, <2>3, <2>4 DEF HeapInv
  <2>6. FrontierInv'
    <3>1. \A i \in 1 .. Len(intervals) : intervals[i].stop <= position
      BY DEF FrontierInv, Sweeping
    <3>2. \A i \in 1 .. Len(intervals) : intervals[i].stop \in Nat
      <4>1. \A i \in 1 .. Len(intervals) : intervals[i] \in Interval
        BY DEF TypeOK
      <4>2. QED
        BY <4>1 DEF Interval
    <3>3. QED
      BY <1>2, <2>1, <2>2, <3>1, <3>2 DEF FrontierInv
  <2>7. PreviousInv' /\ KeepInv'
    BY <2>1 DEF PreviousInv, KeepInv, Sweeping
  <2>8. NothingLost'
    <3> SUFFICES ASSUME NEW r \in 1 .. Len(table),
                        NEW b \in table[r].offset .. EndOf(table[r]) - 1,
                        b < position'
                 PROVE  \E i \in 1 .. Len(intervals) : InInterval(i, b)
      BY <2>1 DEF NothingLost, InInterval
    <3>1. Covers(table, r, b) /\ b \in Int
      BY TableFields DEF Covers, TypeOK
    <3>2. PICK k \in 1 .. count : rows[k] = r /\ Offset(k) <= b /\ b < Ends(k)
      BY <3>1, CoveringEntry
    <3>3. k < index
      <4>1. position' \in Nat
        BY <1>2, <2>1
      <4>2. ~(position' <= Offset(k))
        BY <1>2, <3>1, <3>2, <4>1
      <4>3. QED
        BY <1>2, <2>4, <4>2
    <3>4. b < position
      BY <1>2, <2>3, <3>1, <3>2, <3>3
    <3>5. QED
      BY <3>4 DEF NothingLost
  <2>9. QED
    BY <1>1, <2>5, <2>6, <2>7, <2>8, IntervalsStep
<1>5. QED
  BY <1>3, <1>4

\* Admitting and retiring change the heap alone.
LEMMA HeapStep ==
  ASSUME IInv, pc = "cover", Sweeping',
         UNCHANGED <<table, rows, position, previous, intervals>>, HeapInv'
  PROVE  /\ (table \in Tables)' /\ RowsInv' /\ KeepInv' /\ HeapInv' /\ FrontierInv'
         /\ PreviousInv' /\ RowsInRange' /\ IntervalsDecide' /\ InOrder' /\ NothingLost'
         /\ Coalesced'
<1> USE DEF IInv
<1>1. RowsInv'
  BY RowsStep DEF Sweeping
<1>2. FrontierInv' /\ PreviousInv' /\ KeepInv'
  BY DEF FrontierInv, PreviousInv, KeepInv, Sweeping
<1>3. NothingLost'
  BY DEF NothingLost, InInterval, Sweeping
<1>4. QED
  BY <1>1, <1>2, <1>3, IntervalsStep

\* An extent put on the heap starts at or before the position, and the rest start later.
LEMMA AdmitStep ==
  ASSUME IInv, TypeOK', Admit
  PROVE  IInv'
<1>1. HeapInv'
  <2>1. /\ covering' = covering \cup {index}
        /\ index' = index + 1
        /\ position' = position
        /\ count' = count
        /\ index <= count /\ Offset(index) <= position
        /\ index \in 1 .. count /\ covering \subseteq 1 .. count
        /\ \A k \in 1 .. count : Offset(k)' = Offset(k) /\ Ends(k)' = Ends(k)
    BY DEF IInv, Admit, MayAdmit, TypeOK, Offset, Ends, count
  <2>2. /\ \A k \in covering : k < index /\ Offset(k) <= position
        /\ \A k \in 1 .. count : k < index /\ Ends(k) > position => k \in covering
        /\ \A k \in 1 .. count : index <= k => position <= Offset(k)
    BY DEF IInv, HeapInv, Admit, Sweeping
  <2>3. \A k \in covering' : k < index' /\ Offset(k)' <= position'
    BY <2>1, <2>2
  <2>4. \A k \in 1 .. count : k < index' /\ Ends(k)' > position' => k \in covering'
    BY <2>1, <2>2
  <2>5. \A k \in 1 .. count : index' <= k => position' <= Offset(k)'
    BY <2>1, <2>2
  <2>6. QED
    BY <2>1, <2>3, <2>4, <2>5 DEF HeapInv
<1>2. QED
  BY <1>1, HeapStep DEF Admit, IInv, Sweeping

\* An extent taken off the heap ended before the position and is needed no more.
LEMMA RetireStep ==
  ASSUME IInv, TypeOK', Retire
  PROVE  IInv'
<1>1. HeapInv'
  <2>1. PICK top \in covering : Ends(top) <= position /\ covering' = covering \ {top}
    BY DEF Retire
  <2>2. /\ index' = index /\ position' = position /\ count' = count
        /\ \A k \in 1 .. count : Offset(k)' = Offset(k) /\ Ends(k)' = Ends(k)
        /\ position \in Nat
        /\ \A k \in 1 .. count : Ends(k) \in Nat
        /\ covering \subseteq 1 .. count
    BY EntryOrder DEF IInv, Retire, TypeOK, Offset, Ends, count
  <2>3. /\ \A k \in covering : k < index /\ Offset(k) <= position
        /\ \A k \in 1 .. count : k < index /\ Ends(k) > position => k \in covering
        /\ \A k \in 1 .. count : index <= k => position <= Offset(k)
    BY DEF IInv, HeapInv, Retire, Sweeping
  <2>4. \A k \in 1 .. count : k < index /\ Ends(k) > position => k \in covering'
    BY <2>1, <2>2, <2>3
  <2>5. QED
    BY <2>1, <2>2, <2>3, <2>4 DEF HeapInv
<1>2. QED
  BY <1>1, HeapStep DEF Retire, IInv, Sweeping

\* With the heap empty, no extent that was started covers the position.
LEMMA NoneCoversStep ==
  ASSUME IInv, TypeOK', NoneCovers
  PROVE  IInv'
<1>1. HeapInv'
  BY DEF IInv, HeapInv, NoneCovers, Sweeping, Offset, Ends, count
<1>2. QED
  BY <1>1, HeapStep DEF NoneCovers, IInv, Sweeping

\* Extents that do not overlap are their own intervals: each byte has one extent to decide it.
LEMMA ReturnDisjointStep ==
  ASSUME IInv, TypeOK', ReturnDisjoint
  PROVE  IInv'
<1>1. /\ TypeOK /\ table \in Tables /\ RowsInv /\ pc = "keep" /\ index > Len(table)
      /\ table' = table /\ rows' = rows /\ index' = index /\ pc' = "done"
      /\ count \in Nat
      /\ \A k \in 1 .. count : rows[k] \in 1 .. Len(table)
  BY DEF IInv, ReturnDisjoint, TypeOK, count
<1>2. /\ Len(intervals') = count
      /\ \A k \in 1 .. count : /\ intervals'[k].start = Offset(k)
                               /\ intervals'[k].stop = Ends(k)
                               /\ intervals'[k].row = rows[k]
  BY <1>1 DEF ReturnDisjoint
<1>3. \A k, j \in 1 .. count : k < j => Ends(k) <= Offset(j)
  <2> SUFFICES ASSUME NEW k \in 1 .. count, NEW j \in 1 .. count, k < j
               PROVE  Ends(k) <= Offset(j)
    OBVIOUS
  <2>1. k \in 1 .. count - 1 /\ k + 1 \in 1 .. count /\ k + 1 <= j
    BY <1>1
  <2>2. Ends(k) <= Offset(k + 1)
    BY <2>1 DEF ReturnDisjoint, NoOverlap
  <2>3. Offset(k + 1) <= Offset(j)
    BY <1>1, <2>1, EntryOrder
  <2>4. QED
    BY <1>1, <2>1, <2>2, <2>3, EntryOrder
<1>4. RowsInv'
  <2>1. \A r \in 1 .. Len(table) : r < index
    BY <1>1 DEF TypeOK
  <2>2. QED
    BY <1>1, <2>1 DEF RowsInv, count
<1>5. KeepInv' /\ HeapInv' /\ FrontierInv' /\ PreviousInv'
  BY <1>1 DEF KeepInv, HeapInv, FrontierInv, PreviousInv, Sweeping
<1>6. RowsInRange'
  BY <1>1, <1>2 DEF RowsInRange
<1>7. IntervalsDecide'
  <2> SUFFICES ASSUME NEW k \in 1 .. count, NEW b \in Offset(k) .. Ends(k) - 1
               PROVE  Decides(table, rows[k], b)
    BY <1>1, <1>2 DEF IntervalsDecide
  <2>1. b \in Int /\ Offset(k) <= b /\ b < Ends(k)
    BY <1>1, EntryOrder
  <2>2. ASSUME NEW j \in 1 .. count, Offset(j) <= b, b < Ends(j)
        PROVE  j = k
    <3>1. Offset(j) \in Nat /\ Ends(j) \in Nat /\ Offset(k) \in Nat /\ Ends(k) \in Nat
      BY <1>1, EntryOrder
    <3>2. ~(j < k)
      BY <1>3, <2>1, <2>2, <3>1
    <3>3. ~(k < j)
      BY <1>3, <2>1, <2>2, <3>1
    <3>4. QED
      BY <1>1, <3>2, <3>3
  <2>3. QED
    BY <1>1, <2>1, <2>2, DecidingEntry
<1>8. InOrder'
  BY <1>1, <1>2, <1>3, EntryOrder DEF InOrder
<1>9. NothingLost'
  <2> SUFFICES ASSUME NEW r \in 1 .. Len(table),
                      NEW b \in table[r].offset .. EndOf(table[r]) - 1
               PROVE  \E k \in 1 .. count : Offset(k) <= b /\ b < Ends(k)
    BY <1>1, <1>2 DEF NothingLost, InInterval
  <2>1. Covers(table, r, b) /\ b \in Int
    BY <1>1, TableFields DEF Covers, TypeOK
  <2>2. QED
    BY <1>1, <2>1, CoveringEntry, SMTT(30)
<1>10. Coalesced'
  BY <1>1, <1>2, EntryOrder DEF Coalesced
<1>11. QED
  BY <1>1, <1>4, <1>5, <1>6, <1>7, <1>8, <1>9, <1>10 DEF IInv

\* The types an interval made from the top of the heap has.
LEMMA TopTypes ==
  ASSUME TypeOK, NEW top \in covering
  PROVE  /\ intervals \in Seq(Interval) /\ Len(intervals) \in Nat
         /\ position \in Nat /\ Until(top) \in Nat /\ rows[top] \in Nat
         /\ top # 0
<1>1. /\ table \in Seq(ExtentRows) /\ rows \in Seq(1 .. Len(table))
      /\ top \in 1 .. count /\ index \in Nat \ {0}
      /\ intervals \in Seq(Interval) /\ position \in Nat
  BY DEF TypeOK
<1>2. rows[top] \in 1 .. Len(table) /\ Until(top) \in Nat
  BY <1>1, EntryTypes
<1>3. rows[top] \in Nat /\ top # 0 /\ Len(intervals) \in Nat
  BY <1>1, <1>2 DEF count
<1>4. QED
  BY <1>1, <1>2, <1>3

\* What Emit makes of the intervals: all but the last stay as they are, and the last
\* runs up to the new position, either as a new one or as the old last one, longer.
LEMMA EmittedIntervals ==
  ASSUME IInv, Emit, NEW top \in covering, Ends(top) > position,
         intervals' = IF Extends(top)
                      THEN [intervals EXCEPT ![Len(intervals)].stop = Until(top)]
                      ELSE Append(intervals, [start |-> position,
                                              stop  |-> Until(top),
                                              row   |-> rows[top]])
  PROVE  LET m == Len(intervals')
         IN  /\ m \in {Len(intervals), Len(intervals) + 1} /\ m >= 1
             /\ \A i \in 1 .. m - 1 : intervals'[i] = intervals[i]
             /\ intervals'[m].stop = Until(top) /\ intervals'[m].row = rows[top]
             /\ m = Len(intervals) =>
                  /\ intervals'[m].start = intervals[m].start
                  /\ intervals[m].stop = position
                  /\ intervals[m].row = rows[top]
             /\ m = Len(intervals) + 1 =>
                  /\ intervals'[m].start = position
                  /\ ~Extends(top)
<1>1. /\ intervals \in Seq(Interval) /\ Len(intervals) \in Nat
      /\ position \in Nat /\ Until(top) \in Nat /\ rows[top] \in Nat
      /\ top # 0
  BY TopTypes DEF IInv
<1>2. CASE Extends(top)
  <2>1. /\ intervals # <<>> /\ intervals[Len(intervals)].row = rows[top]
        /\ intervals[Len(intervals)].stop = position
    BY <1>1, <1>2 DEF IInv, PreviousInv, Extends, Sweeping, Emit
  <2>2. Len(intervals) >= 1
    BY <1>1, <2>1
  <2>3. intervals' = [intervals EXCEPT ![Len(intervals)].stop = Until(top)]
    BY <1>2
  <2>4. /\ Len(intervals') = Len(intervals)
        /\ \A i \in 1 .. Len(intervals) :
             /\ i < Len(intervals) => intervals'[i] = intervals[i]
             /\ i = Len(intervals) => /\ intervals'[i].start = intervals[i].start
                                      /\ intervals'[i].stop = Until(top)
                                      /\ intervals'[i].row = intervals[i].row
    BY <1>1, <2>3, ExtendLast
  <2>5. QED
    BY <1>1, <2>1, <2>2, <2>4
<1>3. CASE ~Extends(top)
  <2> DEFINE new == [start |-> position, stop |-> Until(top), row |-> rows[top]]
  <2>1. intervals' = Append(intervals, new) /\ new \in Interval
    BY <1>1, <1>3 DEF Interval
  <2>2. new.start = position /\ new.stop = Until(top) /\ new.row = rows[top]
    OBVIOUS
  <2> HIDE DEF new
  <2>3. /\ Len(intervals') = Len(intervals) + 1
        /\ \A i \in 1 .. Len(intervals) : intervals'[i] = intervals[i]
        /\ intervals'[Len(intervals) + 1] = new
    BY <1>1, <2>1
  <2>4. QED
    BY <1>1, <1>3, <2>2, <2>3
<1>4. QED
  BY <1>2, <1>3

\* The interval a step of the sweep adds, or lengthens, is decided by the top of the heap.
LEMMA EmitStep ==
  ASSUME IInv, TypeOK', Emit
  PROVE  IInv'
<1>1. PICK top \in covering :
        /\ IsTop(top)
        /\ Ends(top) > position
        /\ intervals' = IF Extends(top)
                        THEN [intervals EXCEPT ![Len(intervals)].stop = Until(top)]
                        ELSE Append(intervals, [start |-> position,
                                                stop  |-> Until(top),
                                                row   |-> rows[top]])
        /\ position' = Until(top)
        /\ previous' = top
  BY DEF Emit
<1> DEFINE u == Until(top)
           m == Len(intervals')
<1>2. /\ TypeOK /\ table \in Tables /\ RowsInv /\ pc = "cover" /\ pc' = "sweep"
      /\ table' = table /\ rows' = rows /\ index' = index /\ covering' = covering
      /\ count \in Nat /\ index \in Nat /\ position \in Nat /\ u \in Nat
      /\ covering \subseteq 1 .. count /\ top \in 1 .. count
      /\ count' = count
      /\ \A k \in 1 .. count : rows[k] \in 1 .. Len(table)
  <2>1. /\ table \in Seq(ExtentRows) /\ rows \in Seq(1 .. Len(table))
        /\ top \in 1 .. count /\ index \in Nat \ {0}
        /\ covering \subseteq 1 .. count /\ position \in Nat
    BY DEF IInv, TypeOK
  <2>2. u \in Nat
    BY <2>1, EntryTypes
  <2>3. count \in Nat /\ \A k \in 1 .. count : rows[k] \in 1 .. Len(table)
    BY <2>1 DEF count
  <2>4. TypeOK /\ table \in Tables /\ RowsInv
    BY DEF IInv
  <2>5. /\ pc = "cover" /\ pc' = "sweep" /\ table' = table /\ rows' = rows
        /\ index' = index /\ covering' = covering /\ count' = count
    BY DEF Emit, count
  <2>6. QED
    BY <2>1, <2>2, <2>3, <2>4, <2>5
<1>3. \A k \in 1 .. count : /\ Offset(k) \in Nat /\ Ends(k) \in Nat
                            /\ Offset(k)' = Offset(k) /\ Ends(k)' = Ends(k)
  BY <1>2, EntryOrder DEF Offset, Ends
<1>4. /\ \A k \in covering : k < index /\ Offset(k) <= position
      /\ \A k \in 1 .. count : k < index /\ Ends(k) > position => k \in covering
  BY <1>2 DEF IInv, HeapInv, Sweeping
\* Nothing starts between the old position and the new one.
<1>5. /\ position < u
      /\ u <= Ends(top)
      /\ \A k \in 1 .. count : index <= k => u <= Offset(k)
  <2>1. CASE index <= count
    <3>1. /\ Offset(index) > position
          /\ index \in 1 .. count
          /\ \A k \in 1 .. count : index <= k => Offset(index) <= Offset(k)
      <4>1. index \in 1 .. count
        BY <1>2, <2>1 DEF TypeOK
      <4>2. ~(Offset(index) <= position)
        BY <2>1 DEF Emit, MayAdmit
      <4>3. QED
        BY <1>2, <1>3, <4>1, <4>2, EntryOrder
    <3>2. QED
      BY <1>1, <1>2, <1>3, <2>1, <3>1 DEF Until
  <2>2. CASE ~(index <= count)
    BY <1>1, <1>2, <1>3, <2>2 DEF Until
  <2>3. QED
    BY <2>1, <2>2
<1>6. \A b \in position .. u - 1 : Decides(table, rows[top], b)
  <2> SUFFICES ASSUME NEW b \in position .. u - 1
               PROVE  Decides(table, rows[top], b)
    OBVIOUS
  <2>1. b \in Int /\ position <= b /\ b < u
    BY <1>2
  <2>2. Offset(top) <= b /\ b < Ends(top)
    BY <1>2, <1>3, <1>4, <1>5, <2>1
  <2>3. ASSUME NEW j \in 1 .. count, Offset(j) <= b, b < Ends(j)
        PROVE  j = top \/ Precedes(top, j)
    <3>1. j < index
      BY <1>2, <1>3, <1>5, <2>1, <2>3
    <3>2. j \in covering
      BY <1>2, <1>3, <1>4, <2>1, <2>3, <3>1
    <3>3. QED
      BY <1>1, <3>2 DEF IsTop
  <2>4. QED
    BY <1>2, <2>1, <2>2, <2>3, DecidingEntry
<1>7. /\ m \in {Len(intervals), Len(intervals) + 1} /\ m >= 1
      /\ \A i \in 1 .. m - 1 : intervals'[i] = intervals[i]
      /\ intervals'[m].stop = u /\ intervals'[m].row = rows[top]
      /\ m = Len(intervals) => /\ intervals'[m].start = intervals[m].start
                               /\ intervals[m].stop = position
                               /\ intervals[m].row = rows[top]
      /\ m = Len(intervals) + 1 => intervals'[m].start = position /\ ~Extends(top)
  BY <1>1, EmittedIntervals
<1>8. /\ Len(intervals) \in Nat
      /\ \A i \in 1 .. Len(intervals) :
           /\ intervals[i].start \in Nat /\ intervals[i].stop \in Nat
           /\ intervals[i].start < intervals[i].stop /\ intervals[i].stop <= position
      /\ \A i, j \in 1 .. Len(intervals) : i < j => intervals[i].stop <= intervals[j].start
  <2>1. \A i \in 1 .. Len(intervals) : intervals[i] \in Interval
    BY <1>2 DEF TypeOK
  <2>2. \A i \in 1 .. Len(intervals) : intervals[i].start \in Nat /\ intervals[i].stop \in Nat
    BY <2>1 DEF Interval
  <2>3. \A i \in 1 .. Len(intervals) : intervals[i].stop <= position
    BY <1>2 DEF IInv, FrontierInv, Sweeping
  <2>4. Len(intervals) \in Nat
    BY <1>2 DEF TypeOK
  <2>5. QED
    BY <2>2, <2>3, <2>4 DEF IInv, InOrder
<1> HIDE DEF u, m
<1>9. /\ m \in Nat
      /\ intervals'[m].start \in Nat /\ intervals'[m].start <= position
      /\ \A i \in 1 .. m : \/ i = m
                           \/ /\ i \in 1 .. m - 1 /\ i \in 1 .. Len(intervals)
                              /\ intervals'[i] = intervals[i]
  <2>1. m \in Nat
    BY <1>7, <1>8
  <2>2. intervals'[m].start \in Nat /\ intervals'[m].start <= position
    <3>1. CASE m = Len(intervals)
      <4>1. m \in 1 .. Len(intervals)
        BY <1>7, <1>8, <3>1
      <4>2. intervals[m].start \in Nat /\ intervals[m].start < intervals[m].stop
        BY <1>8, <4>1
      <4>3. QED
        BY <1>2, <1>7, <3>1, <4>2
    <3>2. CASE m = Len(intervals) + 1
      BY <1>2, <1>7, <3>2
    <3>3. QED
      BY <1>7, <3>1, <3>2
  <2>3. \A i \in 1 .. m : i # m => i \in 1 .. m - 1 /\ i \in 1 .. Len(intervals)
    BY <1>7, <1>8, <2>1
  <2>4. QED
    BY <1>7, <2>1, <2>2, <2>3
<1>10. RowsInv' /\ KeepInv'
  BY <1>2, RowsStep DEF KeepInv
<1>11. HeapInv'
  <2>1. position' = u
    BY <1>1 DEF u
  <2>2. \A k \in covering : Offset(k) <= u
    BY <1>2, <1>3, <1>4, <1>5
  <2>3. \A k \in 1 .. count : k < index /\ Ends(k) > u => k \in covering
    BY <1>2, <1>3, <1>4, <1>5
  <2>4. QED
    BY <1>2, <1>3, <1>4, <1>5, <2>1, <2>2, <2>3 DEF HeapInv
<1>12. FrontierInv'
  <2>1. \A i \in 1 .. m : intervals'[i].stop <= u
    <3> SUFFICES ASSUME NEW i \in 1 .. m PROVE intervals'[i].stop <= u
      OBVIOUS
    <3>1. CASE i = m
      BY <1>2, <1>7, <3>1
    <3>2. CASE i # m
      <4>1. intervals[i].stop \in Nat /\ intervals[i].stop <= position /\ intervals'[i] = intervals[i]
        BY <1>8, <1>9, <3>2
      <4>2. QED
        BY <1>2, <1>5, <4>1
    <3>3. QED
      BY <3>1, <3>2
  <2>2. QED
    BY <1>1, <2>1 DEF FrontierInv, u, m
<1>13. PreviousInv'
  <2>1. intervals' # <<>> /\ intervals'[Len(intervals')].row = rows'[previous'] /\ previous' # 0
    BY <1>1, <1>2, <1>7 DEF m
  <2>2. QED
    BY <2>1 DEF PreviousInv
<1>14. RowsInRange'
  <2>1. \A i \in 1 .. m : intervals'[i].row \in 1 .. Len(table)
    BY <1>2, <1>7, <1>9 DEF IInv, RowsInRange
  <2>2. QED
    BY <1>2, <2>1 DEF RowsInRange, m
<1>15. IntervalsDecide'
  <2> SUFFICES ASSUME NEW i \in 1 .. m,
                      NEW b \in intervals'[i].start .. intervals'[i].stop - 1
               PROVE  Decides(table, intervals'[i].row, b)
    BY <1>2 DEF IntervalsDecide, m
  <2>1. CASE i # m
    <3>1. i \in 1 .. Len(intervals) /\ intervals'[i] = intervals[i]
      BY <1>9, <2>1
    <3>2. QED
      BY <3>1 DEF IInv, IntervalsDecide
  <2>2. CASE i = m /\ b < position
    <3>1. m = Len(intervals) /\ b \in intervals[m].start .. intervals[m].stop - 1
      BY <1>2, <1>7, <1>8, <1>9, <2>2
    <3>2. m \in 1 .. Len(intervals)
      BY <1>7, <1>8, <3>1
    <3>3. QED
      BY <1>7, <2>2, <3>1, <3>2 DEF IInv, IntervalsDecide
  <2>3. CASE i = m /\ b >= position
    <3>1. b \in position .. u - 1
      BY <1>2, <1>7, <1>9, <2>3
    <3>2. QED
      BY <1>6, <1>7, <2>3, <3>1 DEF u
  <2>4. QED
    BY <1>2, <1>8, <1>9, <1>7, <2>1, <2>2, <2>3
<1>16. InOrder'
  <2>1. \A i \in 1 .. m : intervals'[i].start < intervals'[i].stop
    <3> SUFFICES ASSUME NEW i \in 1 .. m PROVE intervals'[i].start < intervals'[i].stop
      OBVIOUS
    <3>1. CASE i = m
      BY <1>2, <1>5, <1>7, <1>9, <3>1
    <3>2. CASE i # m
      BY <1>8, <1>9, <3>2
    <3>3. QED
      BY <3>1, <3>2
  <2>2. ASSUME NEW i \in 1 .. m, NEW j \in 1 .. m, i < j
        PROVE  intervals'[i].stop <= intervals'[j].start
    <3>1. i \in 1 .. Len(intervals) /\ i \in 1 .. m - 1
      BY <1>7, <1>8, <2>2
    <3>2. CASE j # m
      BY <1>8, <1>9, <2>2, <3>1, <3>2, SMTT(30)
    <3>3. CASE j = m /\ m = Len(intervals)
      BY <1>7, <1>8, <2>2, <3>1, <3>3
    <3>4. CASE j = m /\ m = Len(intervals) + 1
      BY <1>7, <1>8, <3>1, <3>4
    <3>5. QED
      BY <1>7, <3>2, <3>3, <3>4
  <2>3. QED
    BY <2>1, <2>2 DEF InOrder, m
<1>17. NothingLost'
  <2> SUFFICES ASSUME NEW r \in 1 .. Len(table),
                      NEW b \in table[r].offset .. EndOf(table[r]) - 1,
                      b < u
               PROVE  \E i \in 1 .. m : intervals'[i].start <= b /\ b < intervals'[i].stop
    BY <1>1, <1>2 DEF NothingLost, InInterval, u, m
  <2>1. m \in 1 .. m /\ b \in Int
    BY <1>2, <1>7, <1>8, TableFields DEF TypeOK
  <2>2. CASE b < position
    <3>1. PICK i \in 1 .. Len(intervals) : intervals[i].start <= b /\ b < intervals[i].stop
      BY <2>2 DEF IInv, NothingLost, InInterval
    <3>2. CASE i \in 1 .. m - 1
      <4>1. intervals'[i] = intervals[i] /\ i \in 1 .. m
        BY <1>7, <1>8, <3>2
      <4>2. QED
        BY <3>1, <4>1
    <3>3. CASE i = m
      <4>1. intervals'[m].start <= b /\ b < intervals'[m].stop
        BY <1>7, <1>8, <3>1, <3>3
      <4>2. QED
        BY <2>1, <4>1
    <3>4. i = m \/ i \in 1 .. m - 1
      BY <1>7, <1>8
    <3>5. QED
      BY <3>2, <3>3, <3>4
  <2>3. CASE b >= position
    <3>1. intervals'[m].start <= b /\ b < intervals'[m].stop
      BY <1>2, <1>7, <1>9, <2>1, <2>3
    <3>2. QED
      BY <2>1, <3>1
  <2>4. QED
    BY <1>2, <2>1, <2>2, <2>3
<1>18. Coalesced'
  <2> SUFFICES ASSUME NEW i \in 1 .. m - 1, intervals'[i].stop = intervals'[i + 1].start
               PROVE  intervals'[i].row # intervals'[i + 1].row
    BY DEF Coalesced, m
  <2>1. CASE i + 1 # m
    <3>1. i \in 1 .. Len(intervals) - 1 /\ i \in 1 .. m - 1 /\ i + 1 \in 1 .. m - 1
      BY <1>7, <1>8, <2>1
    <3>2. QED
      BY <1>7, <3>1 DEF IInv, Coalesced
  <2>2. CASE i + 1 = m /\ m = Len(intervals)
    <3>1. i \in 1 .. Len(intervals) - 1 /\ i \in 1 .. m - 1
      BY <1>7, <1>8, <2>2
    <3>2. intervals[i].stop = intervals[i + 1].start => intervals[i].row # intervals[i + 1].row
      BY <3>1 DEF IInv, Coalesced
    <3>3. QED
      BY <1>7, <2>2, <3>1, <3>2
  <2>3. CASE i + 1 = m /\ m = Len(intervals) + 1
    <3>1. /\ i = Len(intervals) /\ i >= 1
          /\ intervals'[i] = intervals[i]
          /\ intervals[i].stop = position
      BY <1>7, <1>8, <2>3
    <3>2. /\ previous \in 1 .. count
          /\ intervals[i].row = rows[previous]
      BY <1>2, <3>1 DEF IInv, PreviousInv, Sweeping, TypeOK
    <3>3. previous # top
      BY <1>7, <2>3, <3>1 DEF Extends
    <3>4. rows[previous] # rows[top]
      BY <1>2, <3>2, <3>3, EntryOrder
    <3>5. QED
      BY <1>7, <2>3, <3>1, <3>2, <3>4
  <2>4. QED
    BY <1>7, <2>1, <2>2, <2>3
<1>19. QED
  BY <1>2, <1>10, <1>11, <1>12, <1>13, <1>14, <1>15, <1>16, <1>17, <1>18 DEF IInv

-----------------------------------------------------------------------------

\* Nothing is resolved at the start.
LEMMA SweepInit ==
  ASSUME Init
  PROVE  IInv
<1>1. TypeOK
  BY TablesAssumption DEF Init, TypeOK, count, Interval
<1>2. RowsInv /\ KeepInv /\ HeapInv /\ FrontierInv /\ PreviousInv
  BY DEF Init, RowsInv, KeepInv, HeapInv, FrontierInv, PreviousInv, Sweeping, count
<1>3. RowsInRange /\ IntervalsDecide /\ InOrder /\ Coalesced
  BY DEF Init, RowsInRange, IntervalsDecide, InOrder, Coalesced
<1>4. NothingLost
  <2>1. \A r \in 1 .. Len(table) : \A b \in table[r].offset .. EndOf(table[r]) - 1 : ~(b < 0)
    BY <1>1, TableFields DEF TypeOK
  <2>2. QED
    BY <2>1 DEF Init, NothingLost
<1>5. QED
  BY <1>1, <1>2, <1>3, <1>4 DEF Init, IInv

\* Every step of resolving keeps the invariant.
LEMMA SweepStep ==
  ASSUME IInv, [Next]_vars
  PROVE  IInv'
<1>1. TypeOK'
  BY TypeStep DEF IInv
<1>2. CASE UNCHANGED vars
  <2>1. RowsInv' /\ KeepInv' /\ HeapInv' /\ FrontierInv' /\ PreviousInv'
    BY <1>2 DEF IInv, vars, RowsInv, KeepInv, HeapInv, FrontierInv, PreviousInv,
                Sweeping, count, Offset, Ends
  <2>2. NothingLost'
    BY <1>2 DEF IInv, vars, NothingLost, InInterval
  <2>3. QED
    BY <1>1, <1>2, <2>1, <2>2, IntervalsStep DEF IInv, vars
<1>3. CASE Step
  BY <1>1, <1>3, KeepRowStep, ReturnDisjointStep, BeginSweepStep, IterateStep,
     ReturnSweptStep, AdmitStep, RetireStep, NoneCoversStep, EmitStep DEF Step
<1>4. QED
  BY <1>2, <1>3 DEF Next, Returned

\* The invariant the theorems rest on.
THEOREM SweepInvariant == Spec => []IInv
BY SweepInit, SweepStep, PTL DEF Spec

\* Resolving is right for every table of extents: each byte of an interval is decided
\* by the row the interval is read from.
THEOREM ReadsMostRecent == Spec => []IntervalsDecide
BY SweepInvariant, PTL DEF IInv

\* The intervals are in offset order and disjoint, for every table of extents.
THEOREM IntervalsInOrder == Spec => []InOrder
BY SweepInvariant, PTL DEF IInv

\* No byte that an extent covers is lost, for every table of extents.
THEOREM EverythingCovered == Spec => []NothingLost
BY SweepInvariant, PTL DEF IInv

\* No interval is split needlessly, for every table of extents.
THEOREM IntervalsCoalesced == Spec => []Coalesced
BY SweepInvariant, PTL DEF IInv

-----------------------------------------------------------------------------
(***************************************************************************)
(* _extent_base adds up where the writer put an extent.                    *)
(***************************************************************************)

\* The extents of an archive that share segment s, as _extent_base collects them.
LEMMA SharedIndexes ==
  ASSUME NEW t \in Tables, NEW s
  PROVE  /\ \A x \in SharedRows(t) : x.length \in Nat /\ x.index \in Nat
         /\ IndexesOf(t, s) \subseteq Nat
         /\ IsFiniteSet(IndexesOf(t, s))
<1> DEFINE own == {t[r] : r \in 1 .. Len(t)}
           inS == {y \in SharedRows(t) : y.segment = s}
<1>1. t \in Seq(ExtentRows) /\ Len(t) \in Nat
  BY TablesAssumption
<1>2. \A x \in own : x.length \in Nat /\ x.index \in Nat
  <2>1. \A r \in 1 .. Len(t) : t[r] \in ExtentRows
    BY <1>1
  <2> QED
    BY <2>1, ExtentRowsAssumption
<1>3. \A x \in SharedRows(t) : x.length \in Nat /\ x.index \in Nat
  BY <1>2, ArchiveAssumption DEF SharedRows, Recorded
<1>4. IsFiniteSet(own)
  <2>1. [r \in 1 .. Len(t) |-> t[r]] \in Surjection(1 .. Len(t), own)
    BY <1>1 DEF Surjection
  <2>2. IsFiniteSet(1 .. Len(t))
    BY <1>1, FS_Interval
  <2> QED
    BY <2>1, <2>2, FS_Surjection
<1>5. IsFiniteSet(inS)
  <2>1. IsFiniteSet(Elsewhere \cup own)
    BY <1>4, ArchiveAssumption, FS_Union
  <2>2. inS \in SUBSET (Elsewhere \cup own)
    BY DEF SharedRows, Recorded
  <2> QED
    BY <2>1, <2>2, FS_Subset
<1>6. IsFiniteSet(IndexesOf(t, s))
  <2>1. [x \in inS |-> x.index] \in Surjection(inS, IndexesOf(t, s))
    BY DEF Surjection, IndexesOf
  <2> QED
    BY <1>5, <2>1, FS_Surjection
<1> QED
  BY <1>3, <1>6 DEF IndexesOf

\* Of a set of naturals up to n that is not empty there is a greatest one.
LEMMA GreatestNatural ==
  ASSUME NEW T \in SUBSET Nat, T # {}, NEW n \in Nat, \A x \in T : x <= n
  PROVE  \E x \in T : \A y \in T : y <= x
<1> DEFINE D == {d \in Nat : n - d \in T}
<1>1. PICK x \in T : TRUE
  OBVIOUS
<1>2. n - x \in D
  <2>1. n - x \in Nat /\ n - (n - x) = x
    BY <1>1
  <2> QED
    BY <1>1, <2>1
<1>3. PICK d \in D : \A e \in D : d <= e
  BY <1>2, LeastNatural
<1>4. ASSUME NEW y \in T
      PROVE  y <= n - d
  <2>1. n - y \in Nat /\ n - (n - y) = y
    BY <1>4
  <2>2. n - y \in D
    BY <1>4, <2>1
  <2>3. d \in Nat /\ d <= n - y
    BY <1>3, <2>2
  <2> QED
    BY <2>1, <2>3
<1> QED
  BY <1>3, <1>4

\* Wherever an extent of a segment that can be read is, it is where the writer put it.
LEMMA BaseIsPlacement ==
  ASSUME table \in Tables, NEW r \in 1 .. Len(table), table[r].segment \in DOMAIN SegmentLength
  PROVE  /\ ExtentBase(table[r].segment, table[r].index)
                = Placement[<<table[r].segment, table[r].index>>]
         /\ ExtentBase(table[r].segment, table[r].index) \in Int
<1> DEFINE s == table[r].segment
           I == IndexesOf(table, s)
           f == [j \in I |-> AlignUp(LengthAt(table, s, j))]
           Below(i) == {j \in I : j < i}
           Sum(i) == SumFunctionOnSet(f, Below(i))
           wrong == {i \in I : Sum(i) # Placement[<<s, i>>]}
<1>1. /\ \A x \in SharedRows(table) : x.length \in Nat /\ x.index \in Nat
      /\ I \subseteq Nat
      /\ IsFiniteSet(I)
  BY SharedIndexes
<1>2. table[r] \in Recorded(table)
  BY DEF Recorded
<1>3. \A x \in SharedRows(table) : x.segment = s => x.index # WholeSegment /\ LaidOut(x, Recorded(table))
  BY PlacementAssumption DEF SharedRows
<1>4. \A n \in Nat : AlignUp(n) \in Int
  <2> TAKE n \in Nat
  <2>1. n + Alignment - 1 \in Nat /\ Alignment \in Nat \ {0}
    BY ArchiveAssumption
  <2>2. (n + Alignment - 1) \div Alignment \in Int
    BY <2>1
  <2> QED
    BY <2>1, <2>2 DEF AlignUp
<1>5. ASSUME NEW x \in SharedRows(table), x.segment = s
      PROVE  x.index \in I /\ f[x.index] = AlignUp(x.length) /\ f[x.index] \in Int
  <2>1. x.index \in I
    BY <1>5 DEF IndexesOf
  <2> DEFINE same(y) == y.segment = s /\ y.index = x.index
             first == CHOOSE y \in SharedRows(table) : same(y)
  <2>2. first \in SharedRows(table) /\ same(first)
    BY <1>5
  <2>3. first.length = x.length
    <3>1. LaidOut(x, Recorded(table)) /\ x.index # WholeSegment
      BY <1>3, <1>5
    <3>2. first \in Recorded(table) /\ first.index # WholeSegment
      BY <2>2 DEF SharedRows
    <3> QED
      BY <1>5, <2>2, <3>1, <3>2 DEF LaidOut
  <2>4. LengthAt(table, s, x.index) = x.length
    BY <2>3 DEF LengthAt
  <2>5. f[x.index] = AlignUp(x.length)
    BY <2>1, <2>4
  <2> QED
    BY <1>1, <1>4, <1>5, <2>1, <2>5
<1>6. \A j \in I : \E x \in SharedRows(table) : x.segment = s /\ x.index = j
  BY DEF IndexesOf
<1>7. \A j \in I : f[j] \in Int
  BY <1>5, <1>6
<1>8. \A i : Below(i) \subseteq I /\ IsFiniteSet(Below(i))
  BY <1>1, FS_Subset
<1>9. wrong = {}
  <2> SUFFICES ASSUME wrong # {} PROVE FALSE
    OBVIOUS
  <2>1. PICK i \in wrong : \A j \in wrong : i <= j
    BY <1>1, LeastNatural
  <2>2. PICK x \in SharedRows(table) : x.segment = s /\ x.index = i
    BY <1>6
  <2> DEFINE shared == {y \in Recorded(table) : y.segment = x.segment /\ y.index # WholeSegment}
             lower == {y \in shared : y.index < x.index}
  <2>3. shared = {y \in SharedRows(table) : y.segment = s}
    BY <2>2 DEF SharedRows
  <2>4. /\ lower = {} => Placement[<<s, i>>] = 0
        /\ \A y \in lower :
             (\A z \in lower : z.index <= y.index) =>
               Placement[<<s, i>>] = Placement[<<s, y.index>>] + AlignUp(y.length)
    <3>1. LaidOut(x, Recorded(table)) /\ x.index # WholeSegment
      BY <1>3, <2>2
    <3>2. \A y \in lower : y.segment = s
      BY <2>3
    <3> QED
      BY <2>2, <3>1, <3>2, Zenon DEF LaidOut
  <2>5. CASE lower = {}
    <3>1. Below(i) = {}
      BY <1>6, <2>2, <2>3, <2>5
    <3>2. Sum(i) = 0
      BY <3>1, SumOverNone
    <3> QED
      BY <2>1, <2>4, <2>5, <3>2
  <2>6. CASE lower # {}
    <3> DEFINE L == {y.index : y \in lower}
    <3>1. L \subseteq Nat /\ L # {} /\ i \in Nat /\ \A j \in L : j <= i
      <4>1. i \in Nat /\ x.index = i
        BY <1>1, <2>2
      <4>2. \A y \in lower : y.index \in Nat /\ y.index < i
        BY <1>1, <2>3, <4>1
      <4> HIDE DEF lower
      <4>3. L # {}
        BY <2>6
      <4>4. \A j \in L : j \in Nat /\ j <= i
        BY <4>1, <4>2
      <4> QED
        BY <4>1, <4>3, <4>4
    <3>2. PICK p \in L : \A j \in L : j <= p
      BY <3>1, GreatestNatural
    <3>3. PICK y \in lower : y.index = p
      BY <3>2
    <3>4. Placement[<<s, i>>] = Placement[<<s, p>>] + AlignUp(y.length)
      BY <2>4, <3>2, <3>3
    <3>5. y \in SharedRows(table) /\ y.segment = s /\ p < i /\ p \in I
      BY <1>5, <2>2, <2>3, <3>3
    <3>6. f[p] = AlignUp(y.length)
      BY <1>5, <3>3, <3>5
    <3>7. Below(i) = Below(p) \cup {p}
      <4>1. \A j \in I : j < i => j \in L
        BY <1>6, <2>2, <2>3
      <4>2. \A j \in I : j < i <=> j < p \/ j = p
        <5> TAKE j \in I
        <5>1. j \in Nat /\ p \in Nat /\ i \in Nat /\ p < i
          BY <1>1, <3>1, <3>5
        <5>2. j < i => j <= p
          BY <3>2, <4>1
        <5> QED
          BY <5>1, <5>2
      <4> QED
        BY <3>5, <4>2
    <3>8. p \in Below(i) /\ Below(i) \ {p} = Below(p)
      BY <1>1, <3>5, <3>7
    <3>9. Sum(i) = f[p] + Sum(p)
      <4>1. \A j \in Below(i) : f[j] \in Int
        BY <1>7
      <4> HIDE DEF f, Below
      <4>2. SumFunctionOnSet(f, Below(i)) = f[p] + SumFunctionOnSet(f, Below(i) \ {p})
        BY <1>8, <3>8, <4>1, SumWithout
      <4> QED
        BY <3>8, <4>2
    <3>10. Sum(p) \in Int
      <4>1. \A j \in Below(p) : f[j] \in Int
        BY <1>7
      <4> HIDE DEF f, Below
      <4> QED
        BY <1>8, <4>1, SumType
    <3>11. Sum(p) = Placement[<<s, p>>]
      <4>1. ~(i <= p)
        BY <1>1, <3>1, <3>5
      <4>2. p \notin wrong
        BY <2>1, <4>1
      <4> QED
        BY <3>5, <4>2
    <3> QED
      BY <1>7, <2>1, <3>4, <3>5, <3>6, <3>9, <3>10, <3>11
  <2> QED
    BY <2>5, <2>6
<1>10. CASE table[r].index = WholeSegment
  BY <1>2, <1>10, PlacementAssumption DEF ExtentBase, LaidOut
<1>11. CASE table[r].index # WholeSegment
  <2>1. table[r] \in SharedRows(table)
    BY <1>2, <1>11 DEF SharedRows
  <2>2. table[r].index \in I
    BY <1>5, <2>1
  <2>3. ExtentBase(s, table[r].index) = Sum(table[r].index)
    BY <1>11 DEF ExtentBase
  <2>4. Sum(table[r].index) \in Int
    <3>1. \A j \in Below(table[r].index) : f[j] \in Int
      BY <1>7
    <3> HIDE DEF f, Below
    <3> QED
      BY <1>8, <3>1, SumType
  <2> QED
    BY <1>9, <2>2, <2>3, <2>4
<1> QED
  BY <1>10, <1>11

-----------------------------------------------------------------------------
(***************************************************************************)
(* The intervals as the image of the volume.                               *)
(***************************************************************************)

\* VolumeImage speaks of the same extents.
LEMMA SameExtents ==
  /\ \A t, r, b : Promise!Decides(t, r, b) <=> Decides(t, r, b)
  /\ \A t, b : Promise!Covered(t, b) <=> Covered(t, b)
BY DEF Promise!Decides, Promise!Covers, Promise!Covered, Promise!EndOf, Promise!MoreRecent,
       Promise!SameRecency, Decides, Covers, Covered, EndOf, MoreRecent, SameRecency

\* At most one row decides a byte.
LEMMA OneDecides ==
  ASSUME table \in Seq(ExtentRows), NEW b, NEW r \in 1 .. Len(table), NEW q \in 1 .. Len(table),
         Decides(table, r, b), Decides(table, q, b)
  PROVE  r = q
<1>1. /\ Covers(table, r, b) /\ Covers(table, q, b)
      /\ ~MoreRecent(table[q], table[r]) /\ (SameRecency(table[q], table[r]) => r <= q)
      /\ ~MoreRecent(table[r], table[q]) /\ (SameRecency(table[r], table[q]) => q <= r)
  BY DEF Decides
<1>2. /\ table[r].slice \in Nat /\ table[r].extent \in Nat /\ table[r].segment \in Nat
      /\ table[q].slice \in Nat /\ table[q].extent \in Nat /\ table[q].segment \in Nat
  BY TableFields
<1>3. SameRecency(table[q], table[r]) /\ SameRecency(table[r], table[q])
  BY <1>1, <1>2, SMTT(30) DEF MoreRecent, SameRecency
<1> QED
  BY <1>1, <1>3

\* The row of an interval is the source of each of its bytes.
LEMMA IntervalSource ==
  ASSUME IInv, NEW i \in 1 .. Len(intervals), NEW b \in Int, InInterval(i, b)
  PROVE  /\ intervals[i].row \in 1 .. Len(table)
         /\ Covered(table, b)
         /\ Promise!Source(b) = intervals[i].row
<1> DEFINE r == intervals[i].row
<1>1. r \in 1 .. Len(table) /\ table \in Seq(ExtentRows)
  BY DEF IInv, RowsInRange, TypeOK
<1>2. intervals[i] \in Interval
  BY DEF IInv, TypeOK
<1>3. b \in intervals[i].start .. intervals[i].stop - 1
  BY <1>2 DEF InInterval, Interval
<1>4. Decides(table, r, b)
  BY <1>3 DEF IInv, IntervalsDecide
<1>5. \A q \in 1 .. Len(table) : Decides(table, q, b) => q = r
  BY <1>1, <1>4, OneDecides
<1>6. Promise!Source(b) = r
  BY <1>1, <1>4, <1>5, SameExtents DEF Promise!Source
<1> QED
  BY <1>1, <1>4, <1>6 DEF Decides, Covered

\* Data lies in intervals only, and in those of rows that do not discard it.
LEMMA DataInIntervals ==
  ASSUME IInv, pc = "done", NEW b \in Int, Promise!HasData(b)
  PROVE  \E i \in 1 .. Len(intervals) :
           InInterval(i, b) /\ table[intervals[i].row].segment # 0
<1>1. Covered(table, b) /\ table[Promise!Source(b)].segment # 0
  BY SameExtents DEF Promise!HasData
<1>2. PICK r \in 1 .. Len(table) : Covers(table, r, b)
  BY <1>1 DEF Covered
<1>3. b \in table[r].offset .. EndOf(table[r]) - 1
  BY <1>2, TableFields DEF Covers, IInv, TypeOK
<1>4. PICK i \in 1 .. Len(intervals) : InInterval(i, b)
  BY <1>3 DEF IInv, NothingLost
<1> QED
  BY <1>1, <1>4, IntervalSource

\* What a byte of an interval is.
LEMMA IntervalByte ==
  ASSUME IInv, NEW i \in 1 .. Len(intervals), NEW b \in Int, InInterval(i, b)
  PROVE  LET x == table[intervals[i].row]
         IN  /\ Promise!HasData(b) <=> x.segment # 0
             /\ x.segment # 0 =>
                  Promise!ImageByte(b) =
                    Promise!SegmentByte(x.segment,
                                        Placement[<<x.segment, x.index>>] + (b - x.offset))
BY IntervalSource, SameExtents DEF Promise!HasData, Promise!ImageByte

-----------------------------------------------------------------------------
(***************************************************************************)
(* The inductive invariant of read().                                      *)
(***************************************************************************)

\* The image of the volume, where it holds data, and the data that cannot be read.
Content == [b \in Int |-> Promise!ImageByte(b)]
Data == {b \in Int : Promise!HasData(b)}
Lost == {b \in Data : table[Promise!Source(b)].segment \notin DOMAIN SegmentLength}
Bytes == {Content[b] : b \in Int}

\* Where read() is: parts is the image up to the cursor, no interval it has passed is read
\* again, and no data it still has to return lies in one, nor in a segment that is gone.
ReadingInv ==
  /\ request \in Requests
  /\ next \in Nat \ {0}
  /\ cursor \in request[1] .. EndOfRequest
  /\ parts \in Seq(Bytes) /\ Len(parts) = cursor - request[1]
  /\ \A i \in 1 .. Len(parts) : parts[i] = Content[request[1] + i - 1]
  /\ \A i \in next .. Len(intervals) :
       /\ request[1] < intervals[i].stop
       /\ cursor <= Larger(intervals[i].start, request[1])
  /\ \A b \in request[1] .. EndOfRequest - 1 :
       b \in Data /\ (cursor <= b \/ b \in Lost) =>
         \E i \in next .. Len(intervals) : InInterval(i, b)

RInv ==
  /\ IInv
  /\ request # NoRequest => pc = "done"
  /\ request = NoRequest => parts = <<>> /\ answer = NoAnswer
  /\ Reading => ReadingInv

-----------------------------------------------------------------------------

\* What reading relies on: intervals are in order, and none is empty.
LEMMA IntervalFacts ==
  ASSUME IInv
  PROVE  /\ Len(intervals) \in Nat
         /\ \A i \in 1 .. Len(intervals) :
              /\ intervals[i].start \in Nat /\ intervals[i].stop \in Nat
              /\ intervals[i].start < intervals[i].stop
              /\ intervals[i].row \in 1 .. Len(table)
         /\ \A i, j \in 1 .. Len(intervals) :
              i < j => intervals[i].stop <= intervals[j].start
<1>1. Len(intervals) \in Nat /\ \A i \in 1 .. Len(intervals) : intervals[i] \in Interval
  BY DEF IInv, TypeOK
<1> QED
  BY <1>1 DEF IInv, Interval, InOrder, RowsInRange

\* The bisection finds the first interval that ends after the offset.
LEMMA BisectionCorrect ==
  ASSUME IInv, NEW offset \in Nat
  PROVE  /\ FirstInterval(offset) \in Nat \ {0}
         /\ \A i \in 1 .. Len(intervals) :
              i >= FirstInterval(offset) <=> offset < intervals[i].stop
<1> DEFINE n == Len(intervals)
           S == {i \in 1 .. n : intervals[i].start <= offset}
           k == Cardinality(S)
<1>1. /\ n \in Nat
      /\ \A i \in 1 .. n : /\ intervals[i].start \in Nat /\ intervals[i].stop \in Nat
                           /\ intervals[i].start < intervals[i].stop
      /\ \A i, j \in 1 .. n : i < j => intervals[i].stop <= intervals[j].start
  BY IntervalFacts
<1>2. k \in Nat /\ S = 1 .. k
  <2>1. CASE S = {}
    <3>1. k = 0
      BY <2>1, FS_EmptySet
    <3>2. 1 .. 0 = {}
      OBVIOUS
    <3> HIDE DEF S, k
    <3> QED
      BY <2>1, <3>1, <3>2
  <2>2. CASE S # {}
    <3>1. S \subseteq Nat /\ \A x \in S : x <= n
      BY <1>1
    <3>2. PICK g \in S : \A i \in S : i <= g
      BY <1>1, <2>2, <3>1, GreatestNatural
    <3>3. ASSUME NEW i \in 1 .. g
          PROVE  i \in S
      <4>1. i \in 1 .. n /\ g \in 1 .. n /\ (i < g \/ i = g)
        BY <1>1, <3>2
      <4>2. i < g => intervals[i].start <= intervals[g].start
        BY <1>1, <4>1
      <4> QED
        BY <1>1, <3>2, <4>1, <4>2
    <3>4. S = 1 .. g
      BY <3>1, <3>2, <3>3
    <3>5. k = g
      <4>1. g \in Nat
        BY <3>1, <3>2
      <4>2. Cardinality(1 .. g) = g
        BY <4>1, FS_Interval
      <4> QED
        BY <3>4, <4>2
    <3> HIDE DEF S, k
    <3> QED
      BY <3>1, <3>2, <3>4, <3>5
  <2> QED
    BY <2>1, <2>2
<1>3. FirstInterval(offset) = IF k = 0 \/ intervals[k].stop <= offset THEN k + 1 ELSE k
  BY DEF FirstInterval
<1>4. \A i \in 1 .. n : i <= k <=> intervals[i].start <= offset
  BY <1>1, <1>2
<1>5. k <= n
  <2>1. k # 0 => k \in S
    <3> HIDE DEF S, k
    <3> QED
      BY <1>2
  <2> QED
    BY <1>1, <1>2, <2>1
<1> HIDE DEF k, n
<1>6. \A i \in 1 .. n : i < k => intervals[i].stop <= offset
  BY <1>1, <1>2, <1>4, <1>5
<1>7. \A i \in 1 .. n : i > k => offset < intervals[i].stop
  BY <1>1, <1>2, <1>4
<1>8. FirstInterval(offset) \in Nat \ {0}
  BY <1>2, <1>3
<1>9. \A i \in 1 .. n : i >= FirstInterval(offset) <=> offset < intervals[i].stop
  <2> TAKE i \in 1 .. n
  <2> QED
    BY <1>1, <1>2, <1>3, <1>5, <1>6, <1>7
<1> QED
  BY <1>8, <1>9 DEF n

\* The image changes only with the table.
LEMMA SameImage ==
  ASSUME UNCHANGED table
  PROVE  Content' = Content /\ Data' = Data /\ Lost' = Lost /\ Bytes' = Bytes
<1>1. \A b : Promise!Source(b)' = Promise!Source(b)
  BY DEF Promise!Source
<1>2. \A b : Promise!Covered(table, b)' <=> Promise!Covered(table, b)
  BY DEF Promise!Covered, Promise!Covers
<1>3. \A b : Promise!HasData(b)' <=> Promise!HasData(b)
  BY <1>1, <1>2 DEF Promise!HasData
<1>4. \A b : Promise!ImageByte(b)' = Promise!ImageByte(b)
  BY <1>1, <1>3 DEF Promise!ImageByte
<1>5. Content' = Content /\ Data' = Data
  BY <1>3, <1>4 DEF Content, Data
<1> QED
  BY <1>1, <1>5 DEF Lost, Bytes

\* A read starts in the first interval that ends behind its offset.
LEMMA CallStep ==
  ASSUME RInv, ReadCall
  PROVE  ReadingInv'
<1>1. IInv /\ pc = "done" /\ request = NoRequest /\ parts = <<>>
  BY DEF RInv, ReadCall, Idle
<1>2. PICK q \in Requests : request' = q /\ next' = FirstInterval(q[1]) /\ cursor' = q[1]
  BY DEF ReadCall
<1>3. UNCHANGED <<table, intervals, parts>>
  BY DEF ReadCall, vars
<1>4. q[1] \in Nat /\ q[2] \in Nat
  BY RequestsAssumption
<1>5. /\ next' \in Nat \ {0}
      /\ \A i \in 1 .. Len(intervals) : i >= next' <=> q[1] < intervals[i].stop
  BY <1>1, <1>2, <1>4, BisectionCorrect
<1>6. ASSUME NEW i \in next' .. Len(intervals)
      PROVE  q[1] < intervals[i].stop /\ q[1] <= Larger(intervals[i].start, q[1])
  BY <1>1, <1>4, <1>5, <1>6, IntervalFacts DEF Larger
<1>7. ASSUME NEW b \in q[1] .. q[1] + q[2] - 1, b \in Data
      PROVE  \E i \in next' .. Len(intervals) : InInterval(i, b)
  <2>1. b \in Int /\ q[1] <= b
    BY <1>4
  <2>2. PICK i \in 1 .. Len(intervals) : InInterval(i, b)
    BY <1>1, <1>7, <2>1, DataInIntervals DEF Data
  <2>3. q[1] < intervals[i].stop
    BY <1>1, <1>4, <2>1, <2>2, IntervalFacts DEF InInterval
  <2> QED
    BY <1>1, <1>5, <2>2, <2>3, IntervalFacts
<1> QED
  BY <1>1, <1>2, <1>3, <1>4, <1>5, <1>6, <1>7, SameImage, SMTT(30) DEF ReadingInv, EndOfRequest, InInterval

-----------------------------------------------------------------------------

\* Appending n more bytes of the image to what was gathered from offset on.
LEMMA GatherMore ==
  ASSUME NEW offset \in Nat, NEW p \in Seq(Bytes), NEW n \in Nat, NEW q \in [1 .. n -> Bytes],
         \A i \in 1 .. Len(p) : p[i] = Content[offset + i - 1],
         \A i \in 1 .. n : q[i] = Content[offset + Len(p) + i - 1]
  PROVE  /\ p \o q \in Seq(Bytes)
         /\ Len(p \o q) = Len(p) + n
         /\ \A i \in 1 .. Len(p \o q) : (p \o q)[i] = Content[offset + i - 1]
<1>2. q \in Seq(Bytes) /\ Len(q) = n
  OBVIOUS
<1>3. p \o q \in Seq(Bytes) /\ Len(p \o q) = Len(p) + n
  BY <1>2
<1>4. ASSUME NEW i \in 1 .. Len(p) + n
      PROVE  (p \o q)[i] = Content[offset + i - 1]
  <2>1. CASE i <= Len(p)
    <3>1. i \in 1 .. Len(p) /\ (p \o q)[i] = p[i]
      BY <1>2, <2>1
    <3> QED
      BY <3>1
  <2>2. CASE i > Len(p)
    <3>1. i - Len(p) \in 1 .. n /\ (p \o q)[i] = q[i - Len(p)]
      BY <1>2, <2>2
    <3>2. offset + Len(p) + (i - Len(p)) - 1 = offset + i - 1
      OBVIOUS
    <3> QED
      BY <3>1, <3>2
  <2> QED
    BY <2>1, <2>2
<1> QED
  BY <1>3, <1>4

\* Zeros are the image where there is no data.
LEMMA GatherZeros ==
  ASSUME NEW offset \in Nat, NEW p \in Seq(Bytes), NEW n \in Nat,
         \A i \in 1 .. Len(p) : p[i] = Content[offset + i - 1],
         \A i \in 1 .. n : offset + Len(p) + i - 1 \notin Data
  PROVE  /\ p \o Zeros(n) \in Seq(Bytes)
         /\ Len(p \o Zeros(n)) = Len(p) + n
         /\ \A i \in 1 .. Len(p \o Zeros(n)) :
              (p \o Zeros(n))[i] = Content[offset + i - 1]
<1>1. ASSUME NEW i \in 1 .. n
      PROVE  Zero = Content[offset + Len(p) + i - 1] /\ Zero \in Bytes
  <2>1. offset + Len(p) + i - 1 \in Int
    OBVIOUS
  <2> QED
    BY <2>1 DEF Bytes, Content, Data, Zero, Promise!ImageByte, Promise!Zero
<1>3. Zeros(n) \in [1 .. n -> Bytes]
  BY <1>1 DEF Zeros
<1>4. \A i \in 1 .. n : Zeros(n)[i] = Content[offset + Len(p) + i - 1]
  BY <1>1 DEF Zeros
<1> QED
  BY <1>3, <1>4, GatherMore, ZenonT(60)

\* What holds wherever read() looks at an interval.
LEMMA InRangeFacts ==
  ASSUME RInv, Reading, InRange
  PROVE  /\ IInv /\ ReadingInv /\ pc = "done"
         /\ request[1] \in Nat /\ request[2] \in Nat /\ EndOfRequest \in Nat
         /\ cursor \in Nat /\ next \in 1 .. Len(intervals)
         /\ intervals[next].row \in 1 .. Len(table)
         /\ intervals[next].start \in Nat /\ intervals[next].stop \in Nat
         /\ intervals[next].start < intervals[next].stop
         /\ intervals[next].start < EndOfRequest
         /\ request[1] < intervals[next].stop
         /\ request[1] < EndOfRequest
<1>1. IInv /\ ReadingInv /\ pc = "done"
  BY DEF RInv, Reading
<1>2. request[1] \in Nat /\ request[2] \in Nat
  BY <1>1, RequestsAssumption DEF ReadingInv
<1>3. EndOfRequest \in Nat /\ cursor \in Nat
  BY <1>1, <1>2 DEF ReadingInv, EndOfRequest
<1>4. next \in 1 .. Len(intervals)
  BY <1>1, IntervalFacts DEF ReadingInv, InRange
<1>5. request[1] < EndOfRequest
  BY <1>2 DEF InRange, EndOfRequest
<1>6. request[1] < intervals[next].stop
  BY <1>1, <1>4, IntervalFacts DEF ReadingInv
<1> QED
  BY <1>1, <1>2, <1>3, <1>4, <1>5, <1>6, IntervalFacts DEF InRange

\* A discarded interval holds no data that is still to be returned.
LEMMA SkipDiscardStep ==
  ASSUME RInv, SkipDiscard
  PROVE  ReadingInv'
<1>1. Reading /\ InRange /\ Row.segment = 0 /\ next' = next + 1
  BY DEF SkipDiscard
<1>2. UNCHANGED <<table, intervals, request, cursor, parts>>
  BY DEF SkipDiscard, vars
<1>3. /\ IInv /\ ReadingInv /\ Len(intervals) \in Nat
      /\ request[1] \in Nat /\ EndOfRequest \in Nat /\ next \in 1 .. Len(intervals)
  BY <1>1, InRangeFacts, IntervalFacts
<1>4. ASSUME NEW b \in request[1] .. EndOfRequest - 1, b \in Data, cursor <= b \/ b \in Lost
      PROVE  \E i \in next + 1 .. Len(intervals) : InInterval(i, b)
  <2>1. b \in Int
    BY <1>3
  <2>2. PICK i \in next .. Len(intervals) : InInterval(i, b)
    BY <1>3, <1>4 DEF ReadingInv
  <2>3. i # next
    BY <1>1, <1>3, <1>4, <2>1, <2>2, IntervalByte DEF Row, Data
  <2> QED
    BY <1>3, <2>2, <2>3
<1>5. /\ next + 1 \in Nat \ {0}
      /\ \A i \in next + 1 .. Len(intervals) : i \in next .. Len(intervals)
  BY <1>3
<1>6. EndOfRequest' = EndOfRequest
  BY <1>2 DEF EndOfRequest
<1>7. Content' = Content /\ Data' = Data /\ Lost' = Lost /\ Bytes' = Bytes
  BY <1>2, SameImage
<1> QED
  BY <1>1, <1>2, <1>3, <1>4, <1>5, <1>6, <1>7 DEF ReadingInv, InInterval

\* read() raises only for data of the request that it cannot read.
LEMMA MissingUnreadable ==
  ASSUME RInv, SegmentMissing
  PROVE  ~Promise!Readable(request)
<1> DEFINE b == Larger(intervals[next].start, request[1])
<1>1. /\ Reading /\ InRange /\ Row.segment # 0 /\ Row.segment \notin DOMAIN SegmentLength
  BY DEF SegmentMissing
<1>2. b \in Int /\ request[1] <= b /\ b < EndOfRequest /\ InInterval(next, b)
  BY <1>1, InRangeFacts DEF Larger, InInterval
<1>3. Promise!HasData(b) /\ Promise!Source(b) = intervals[next].row
  BY <1>1, <1>2, InRangeFacts, IntervalByte, IntervalSource DEF Row
<1>4. b \in Promise!RequestedBytes(request)
  BY <1>1, <1>2, InRangeFacts, SMTT(30) DEF Promise!RequestedBytes, EndOfRequest
<1> QED
  BY <1>1, <1>3, <1>4 DEF Promise!Readable, Row

\* An interval adds the zeros before it and its own bytes.
LEMMA ReadIntervalStep ==
  ASSUME RInv, ReadInterval
  PROVE  ReadingInv'
<1> DEFINE s      == Row.segment
           begin  == Larger(intervals[next].start, request[1])
           finish == Smaller(intervals[next].stop, EndOfRequest)
           base   == ExtentBase(Row.segment, Row.index)
           gap    == begin - cursor
           chunk  == Chunk(s, base + (begin - Row.offset), finish - begin)
           zeroed == parts \o Zeros(gap)
<1>1. /\ Reading /\ InRange /\ Row.segment # 0 /\ Row.segment \in DOMAIN SegmentLength
      /\ next' = next + 1 /\ cursor' = finish /\ parts' = zeroed \o chunk
  BY DEF ReadInterval
<1>2. UNCHANGED <<table, intervals, request>>
  BY DEF ReadInterval, vars
<1>3. /\ IInv /\ ReadingInv /\ Len(intervals) \in Nat
      /\ request[1] \in Nat /\ EndOfRequest \in Nat /\ next \in 1 .. Len(intervals)
      /\ cursor \in Nat
  BY <1>1, InRangeFacts, IntervalFacts
<1>4. /\ begin \in Nat /\ finish \in Nat /\ begin < finish /\ cursor <= begin
      /\ request[1] <= begin /\ finish <= EndOfRequest
      /\ intervals[next].start <= begin /\ finish <= intervals[next].stop
      /\ request[1] <= cursor
  <2>1. cursor <= begin /\ request[1] <= cursor
    BY <1>3 DEF ReadingInv
  <2>2. /\ intervals[next].start \in Nat /\ intervals[next].stop \in Nat
        /\ intervals[next].start < intervals[next].stop
        /\ intervals[next].start < EndOfRequest
        /\ request[1] < intervals[next].stop /\ request[1] < EndOfRequest
    BY <1>1, InRangeFacts
  <2> QED
    BY <1>3, <2>1, <2>2 DEF Larger, Smaller
<1> HIDE DEF begin, finish
<1>5. /\ parts \in Seq(Bytes) /\ Len(parts) = cursor - request[1]
      /\ \A i \in 1 .. Len(parts) : parts[i] = Content[request[1] + i - 1]
  BY <1>3 DEF ReadingInv
<1>6. \A b \in cursor .. begin - 1 : b \notin Data
  <2> SUFFICES ASSUME NEW b \in cursor .. begin - 1, b \in Data
               PROVE  FALSE
    OBVIOUS
  <2>1. b \in request[1] .. EndOfRequest - 1 /\ cursor <= b /\ b < begin
    BY <1>3, <1>4
  <2>2. PICK i \in next .. Len(intervals) : InInterval(i, b)
    BY <1>3, <2>1 DEF ReadingInv
  <2>3. intervals[i].start <= b
    BY <2>2 DEF InInterval
  <2>4. intervals[next].start <= intervals[i].start
    BY <1>3, <2>2, IntervalFacts
  <2>5. intervals[next].start \in Nat /\ intervals[i].start \in Nat /\ b \in Nat
    BY <1>3, <2>1, <2>2, IntervalFacts
  <2>6. begin = intervals[next].start \/ begin = request[1]
    BY DEF begin, Larger
  <2> QED
    BY <1>3, <2>1, <2>3, <2>4, <2>5, <2>6
<1>7. /\ zeroed \in Seq(Bytes) /\ Len(zeroed) = begin - request[1]
      /\ \A i \in 1 .. Len(zeroed) : zeroed[i] = Content[request[1] + i - 1]
  <2>1. gap \in Nat /\ \A i \in 1 .. gap : request[1] + Len(parts) + i - 1 \in cursor .. begin - 1
    BY <1>3, <1>4, <1>5, SMTT(30)
  <2>2. \A i \in 1 .. gap : request[1] + Len(parts) + i - 1 \notin Data
    BY <1>6, <2>1
  <2> HIDE DEF gap
  <2>3. /\ zeroed \in Seq(Bytes) /\ Len(zeroed) = Len(parts) + gap
        /\ \A i \in 1 .. Len(zeroed) : zeroed[i] = Content[request[1] + i - 1]
    <3>1. request[1] \in Nat /\ gap \in Nat /\ parts \in Seq(Bytes)
      BY <1>3, <1>5, <2>1
    <3>2. \A i \in 1 .. Len(parts) : parts[i] = Content[request[1] + i - 1]
      BY <1>5
    <3> QED
      BY <2>2, <3>1, <3>2, GatherZeros, ZenonT(60)
  <2>4. Len(parts) + gap = begin - request[1]
    BY <1>3, <1>4, <1>5 DEF gap
  <2> HIDE DEF zeroed
  <2> QED
    BY <2>3, <2>4
<1>8. ASSUME NEW b \in begin .. finish - 1
      PROVE  /\ Content[b] = Promise!SegmentByte(s, base + (b - Row.offset))
             /\ b \notin Lost
  <2>1. b \in Int /\ InInterval(next, b)
    <3>1. intervals[next].start \in Nat /\ intervals[next].stop \in Nat
      BY <1>1, InRangeFacts, SMTT(30)
    <3> QED
      BY <1>4, <3>1 DEF InInterval
  <2>2. base = Placement[<<s, Row.index>>]
    <3>1. table \in Tables /\ intervals[next].row \in 1 .. Len(table)
      BY <1>1, InRangeFacts, SMTT(30) DEF IInv
    <3> QED
      BY <1>1, <3>1, BaseIsPlacement DEF Row
  <2>3. Promise!ImageByte(b) = Promise!SegmentByte(s, Placement[<<s, Row.index>>] + (b - Row.offset))
    BY <1>1, <1>3, <2>1, IntervalByte DEF Row
  <2>4. Promise!Source(b) = intervals[next].row
    BY <1>3, <2>1, IntervalSource
  <2> QED
    BY <1>1, <2>1, <2>2, <2>3, <2>4 DEF Content, Lost, Row
<1>9. base \in Int /\ Row.offset \in Nat
  <2>1. table \in Tables /\ table \in Seq(ExtentRows) /\ intervals[next].row \in 1 .. Len(table)
    BY <1>1, InRangeFacts, SMTT(30) DEF IInv, TypeOK
  <2>2. base \in Int
    BY <1>1, <2>1, BaseIsPlacement DEF Row
  <2> HIDE DEF base
  <2> QED
    BY <2>1, <2>2, TableFields DEF Row
<1>10. ASSUME NEW i \in 1 .. finish - begin
       PROVE  chunk[i] = Content[begin + i - 1] /\ chunk[i] \in Bytes
  <2>1. begin + i - 1 \in begin .. finish - 1 /\ begin + i - 1 \in Int
    BY <1>4
  <2>2. base + (begin - Row.offset) + i - 1 = base + (begin + i - 1 - Row.offset)
    BY <1>4, <1>9
  <2> DEFINE p == base + (begin + i - 1 - Row.offset)
  <2>3. chunk[i] = IF p < SegmentLength[s] THEN <<s, p>> ELSE Zero
    <3> HIDE DEF base, p
    <3> QED
      BY <2>2, Zenon DEF Chunk, p
  <2>4. Content[begin + i - 1] = IF p < SegmentLength[s] THEN <<s, p>> ELSE Zero
    <3>1. Content[begin + i - 1] = Promise!SegmentByte(s, base + ((begin + i - 1) - Row.offset))
      BY <1>8, <2>1
    <3>2. p = base + ((begin + i - 1) - Row.offset)
      BY <1>4, <1>9
    <3> HIDE DEF base, p
    <3> QED
      BY <3>1, <3>2 DEF Promise!SegmentByte, Zero, Promise!Zero
  <2> QED
    BY <2>1, <2>3, <2>4 DEF Bytes
<1>11. chunk \in [1 .. finish - begin -> Bytes]
  <2>1. chunk = [i \in 1 .. finish - begin |-> chunk[i]]
    BY DEF Chunk
  <2> HIDE DEF chunk
  <2> QED
    BY <1>10, <2>1
<1> HIDE DEF zeroed, chunk
<1>12. /\ parts' \in Seq(Bytes) /\ Len(parts') = finish - request[1]
       /\ \A i \in 1 .. Len(parts') : parts'[i] = Content[request[1] + i - 1]
  <2>1. \A i \in 1 .. finish - begin : request[1] + Len(zeroed) + i - 1 = begin + i - 1
    BY <1>3, <1>4, <1>7
  <2>2. \A i \in 1 .. finish - begin : chunk[i] = Content[request[1] + Len(zeroed) + i - 1]
    BY <1>10, <2>1
  <2> DEFINE n == finish - begin
  <2>3. n \in Nat /\ Len(zeroed) + n = finish - request[1]
    <3>1. Len(zeroed) = begin - request[1] /\ request[1] \in Nat
      BY <1>3, <1>7
    <3>2. begin \in Nat /\ finish \in Nat /\ begin < finish
      BY <1>4
    <3> QED
      BY <3>1, <3>2
  <2> HIDE DEF n
  <2>4. /\ zeroed \o chunk \in Seq(Bytes) /\ Len(zeroed \o chunk) = Len(zeroed) + n
        /\ \A i \in 1 .. Len(zeroed \o chunk) : (zeroed \o chunk)[i] = Content[request[1] + i - 1]
    <3>1. chunk \in [1 .. n -> Bytes] /\ \A i \in 1 .. n : chunk[i] = Content[request[1] + Len(zeroed) + i - 1]
      BY <1>11, <2>2 DEF n
    <3> QED
      <4>1. request[1] \in Nat /\ n \in Nat
        BY <1>3, <2>3
      <4>2. zeroed \in Seq(Bytes) /\ \A i \in 1 .. Len(zeroed) : zeroed[i] = Content[request[1] + i - 1]
        BY <1>7
      <4> QED
        BY <3>1, <4>1, <4>2, GatherMore, ZenonT(60)
  <2> QED
    BY <1>1, <2>3, <2>4
<1>13. ASSUME NEW i \in next + 1 .. Len(intervals)
       PROVE  request[1] < intervals[i].stop /\ finish <= Larger(intervals[i].start, request[1])
  <2>1. i \in next .. Len(intervals) /\ next < i /\ i \in 1 .. Len(intervals)
    BY <1>3
  <2>2. intervals[next].stop <= intervals[i].start
    BY <1>3, <2>1, IntervalFacts
  <2>3. intervals[next].stop \in Nat /\ intervals[i].start \in Nat
    BY <1>3, <2>1, IntervalFacts
  <2>4. request[1] < intervals[i].stop
    BY <1>3, <2>1 DEF ReadingInv
  <2> QED
    BY <1>3, <1>4, <2>2, <2>3, <2>4 DEF Larger
<1>14. ASSUME NEW b \in request[1] .. EndOfRequest - 1, b \in Data, finish <= b \/ b \in Lost
       PROVE  \E i \in next + 1 .. Len(intervals) : InInterval(i, b)
  <2>1. b \in Nat /\ request[1] <= b /\ b < EndOfRequest
    BY <1>3
  <2>2. PICK i \in next .. Len(intervals) : InInterval(i, b)
    BY <1>3, <1>4, <1>14, <2>1 DEF ReadingInv
  <2>3. i # next
    <3> SUFFICES ASSUME i = next PROVE FALSE
      OBVIOUS
    <3>1. intervals[next].start <= b /\ b < intervals[next].stop
      BY <2>2 DEF InInterval
    <3>2. begin <= b /\ b < finish
      BY <1>1, <2>1, <3>1, InRangeFacts DEF begin, finish, Larger, Smaller
    <3> QED
      BY <1>4, <1>8, <1>14, <2>1, <3>2
  <2> QED
    BY <1>3, <2>2, <2>3
<1>15. Content' = Content /\ Data' = Data /\ Lost' = Lost /\ Bytes' = Bytes
  BY <1>2, SameImage
<1>16. EndOfRequest' = EndOfRequest
  BY <1>2 DEF EndOfRequest
<1>17. next + 1 \in Nat \ {0} /\ finish \in request[1] .. EndOfRequest
  BY <1>3, <1>4
<1> QED
  BY <1>1, <1>2, <1>3, <1>12, <1>13, <1>14, <1>15, <1>16, <1>17 DEF ReadingInv, InInterval

\* With no interval of the request left, what was gathered is the image.
LEMMA ReturnsImage ==
  ASSUME RInv, ReadReturn
  PROVE  Promise!Readable(request) /\ answer' = Promise!Image(request)
<1>1. /\ Reading /\ ~InRange /\ answer' = parts \o Zeros(EndOfRequest - cursor)
  BY DEF ReadReturn
<1>2. /\ IInv /\ ReadingInv /\ request[1] \in Nat /\ request[2] \in Nat
      /\ EndOfRequest \in Nat /\ cursor \in Nat /\ request[1] <= cursor /\ cursor <= EndOfRequest
  BY <1>1, RequestsAssumption DEF RInv, ReadingInv, EndOfRequest
<1>3. ASSUME NEW b \in request[1] .. EndOfRequest - 1, b \in Data
      PROVE  b < cursor /\ b \notin Lost
  <2> SUFFICES ASSUME cursor <= b \/ b \in Lost PROVE FALSE
    BY <1>2
  <2>1. b \in Nat /\ b < EndOfRequest
    BY <1>2
  <2>2. PICK i \in next .. Len(intervals) : InInterval(i, b)
    BY <1>2, <1>3 DEF ReadingInv
  <2>3. next \in 1 .. Len(intervals) /\ i \in 1 .. Len(intervals) /\ next <= i
    BY <1>2, <2>2, IntervalFacts DEF ReadingInv
  <2>4. /\ intervals[next].start \in Nat /\ intervals[i].start \in Nat
        /\ intervals[next].start <= intervals[i].start
    BY <1>2, <2>3, IntervalFacts
  <2>5. request[2] > 0 /\ next <= Len(intervals)
    BY <1>2, <2>3, IntervalFacts DEF EndOfRequest
  <2>6. ~(intervals[next].start < EndOfRequest)
    BY <1>1, <2>5 DEF InRange
  <2> QED
    BY <1>2, <2>1, <2>2, <2>4, <2>6 DEF InInterval
<1>4. Promise!Readable(request)
  <2> SUFFICES ASSUME NEW b \in Promise!RequestedBytes(request), Promise!HasData(b)
               PROVE  table[Promise!Source(b)].segment \in DOMAIN SegmentLength
    BY DEF Promise!Readable
  <2>1. b \in request[1] .. EndOfRequest - 1 /\ b \in Data
    BY <1>2 DEF Promise!RequestedBytes, EndOfRequest, Data
  <2> QED
    BY <1>3, <2>1 DEF Lost
<1> DEFINE tail == EndOfRequest - cursor
           all == parts \o Zeros(tail)
<1>5. /\ parts \in Seq(Bytes) /\ Len(parts) = cursor - request[1]
      /\ \A i \in 1 .. Len(parts) : parts[i] = Content[request[1] + i - 1]
  BY <1>2 DEF ReadingInv
<1>6. /\ all \in Seq(Bytes) /\ Len(all) = request[2]
      /\ \A i \in 1 .. Len(all) : all[i] = Content[request[1] + i - 1]
  <2>1. /\ tail \in Nat
        /\ \A i \in 1 .. tail : /\ request[1] + Len(parts) + i - 1 \in request[1] .. EndOfRequest - 1
                                 /\ ~(request[1] + Len(parts) + i - 1 < cursor)
    BY <1>2, <1>5
  <2>2. \A i \in 1 .. tail : request[1] + Len(parts) + i - 1 \notin Data
    BY <1>3, <2>1
  <2> HIDE DEF tail
  <2>3. /\ all \in Seq(Bytes) /\ Len(all) = Len(parts) + tail
        /\ \A i \in 1 .. Len(all) : all[i] = Content[request[1] + i - 1]
    <3>1. request[1] \in Nat /\ tail \in Nat /\ parts \in Seq(Bytes)
      BY <1>2, <1>5, <2>1
    <3>2. \A i \in 1 .. Len(parts) : parts[i] = Content[request[1] + i - 1]
      BY <1>5
    <3> QED
      BY <2>2, <3>1, <3>2, GatherZeros, ZenonT(60)
  <2>4. Len(parts) + tail = request[2]
    BY <1>2, <1>5 DEF tail, EndOfRequest
  <2> HIDE DEF all
  <2> QED
    BY <2>3, <2>4
<1> HIDE DEF all
<1>7. all = [i \in 1 .. request[2] |-> all[i]]
  BY <1>2, <1>6
<1>8. \A i \in 1 .. request[2] : all[i] = Promise!ImageByte(request[1] + i - 1)
  <2> TAKE i \in 1 .. request[2]
  <2>1. request[1] + i - 1 \in Int /\ i \in 1 .. Len(all)
    BY <1>2, <1>6
  <2> QED
    BY <1>6, <2>1 DEF Content
<1>9. all = Promise!Image(request)
  BY <1>7, <1>8 DEF Promise!Image
<1> QED
  BY <1>1, <1>4, <1>9 DEF all

-----------------------------------------------------------------------------
(***************************************************************************)
(* The invariant, and the promise.                                         *)
(***************************************************************************)

\* Resolving has returned when no step of it is left.
LEMMA StepRunning ==
  ASSUME Step
  PROVE  pc # "done" /\ UNCHANGED table
BY DEF Step, KeepRow, ReturnDisjoint, BeginSweep, Iterate, IterateTo, ReturnSwept, Admit, Retire,
       NoneCovers, Emit

\* Before the first read there is nothing to be right about.
LEMMA ReadingInit ==
  ASSUME ReadInit
  PROVE  RInv
BY SweepInit DEF ReadInit, RInv, Reading

\* Every step, of resolving or of reading, keeps the invariant.
LEMMA ReadingStep ==
  ASSUME RInv, [ReadNext]_allVars
  PROVE  RInv'
<1>1. CASE Step /\ UNCHANGED readVars
  <2>1. IInv'
    BY <1>1, SweepStep DEF RInv, Next
  <2>2. request = NoRequest
    BY <1>1, StepRunning DEF RInv
  <2> QED
    BY <1>1, <2>1, <2>2 DEF RInv, Reading, readVars
<1>2. CASE UNCHANGED vars /\ (ReadCall \/ ReadStep \/ UNCHANGED readVars)
  <2>1. IInv'
    BY <1>2, SweepStep DEF RInv
  <2>2. UNCHANGED <<table, intervals, pc>>
    BY <1>2 DEF vars
  <2>3. ASSUME UNCHANGED <<request, next, cursor, parts>>, Reading
        PROVE  ReadingInv'
    <3>1. Content' = Content /\ Data' = Data /\ Lost' = Lost /\ Bytes' = Bytes
      BY <2>2, SameImage
    <3>2. ReadingInv /\ EndOfRequest' = EndOfRequest
      BY <2>3 DEF RInv, EndOfRequest
    <3> QED
      BY <2>2, <2>3, <3>1, <3>2 DEF ReadingInv, InInterval
  <2>4. CASE ReadCall
    <3>1. ReadingInv'
      BY <2>4, CallStep
    <3> QED
      BY <2>1, <2>2, <2>4, <3>1 DEF RInv, ReadCall, Idle
  <2>5. CASE SkipDiscard
    <3>1. ReadingInv' /\ Reading
      BY <2>5, SkipDiscardStep DEF SkipDiscard
    <3> QED
      BY <2>1, <2>2, <2>5, <3>1 DEF RInv, SkipDiscard, Reading
  <2>6. CASE ReadInterval
    <3>1. ReadingInv' /\ Reading
      BY <2>6, ReadIntervalStep DEF ReadInterval
    <3> QED
      BY <2>1, <2>2, <2>6, <3>1 DEF RInv, ReadInterval, Reading
  <2>7. CASE SegmentMissing \/ ReadReturn
    <3>1. UNCHANGED <<request, next, cursor, parts>> /\ Reading
      BY <2>7 DEF SegmentMissing, ReadReturn
    <3>2. ReadingInv'
      BY <2>3, <3>1
    <3> QED
      BY <2>1, <2>2, <3>1, <3>2 DEF RInv, Reading
  <2>8. CASE UNCHANGED readVars
    <3>1. UNCHANGED <<request, next, cursor, parts, answer>>
      BY <2>8 DEF readVars
    <3>2. Reading' => ReadingInv'
      BY <2>3, <3>1 DEF Reading
    <3> QED
      BY <2>1, <2>2, <3>1, <3>2 DEF RInv
  <2> QED
    BY <1>2, <2>4, <2>5, <2>6, <2>7, <2>8 DEF ReadStep
<1> QED
  BY <1>1, <1>2 DEF ReadNext, ReadCall, ReadStep, SkipDiscard, SegmentMissing, ReadInterval,
                    ReadReturn, Answered, allVars

\* Every step is one of the promise, or none that it sees.
LEMMA StepKeepsPromise ==
  ASSUME RInv, [ReadNext]_allVars
  PROVE  [Promise!Next]_(Promise!imageVars)
<1>1. CASE Step /\ UNCHANGED readVars
  BY <1>1, StepRunning DEF readVars, Promise!imageVars
<1>2. CASE ReadCall
  BY <1>2 DEF ReadCall, Idle, vars, Promise!Next, Promise!Call
<1>3. CASE SkipDiscard \/ ReadInterval
  BY <1>3 DEF SkipDiscard, ReadInterval, vars, Promise!imageVars
<1>4. CASE SegmentMissing
  <2>1. ~Promise!Readable(request)
    BY <1>4, MissingUnreadable
  <2> QED
    BY <1>4, <2>1 DEF SegmentMissing, Reading, vars, Promise!Next, Promise!Answer
<1>5. CASE ReadReturn
  <2>1. Promise!Readable(request) /\ answer' = Promise!Image(request)
    BY <1>5, ReturnsImage
  <2> QED
    BY <1>5, <2>1 DEF ReadReturn, Reading, vars, Promise!Next, Promise!Answer
<1>6. CASE UNCHANGED allVars
  BY <1>6 DEF allVars, vars, readVars, Promise!imageVars
<1> QED
  BY <1>1, <1>2, <1>3, <1>4, <1>5, <1>6 DEF ReadNext, ReadStep, Answered

\* read() is where ReadingInv says, whatever the table, the request and the archive.
THEOREM ReadingInvariant == ReadSpec => []RInv
BY ReadingInit, ReadingStep, PTL DEF ReadSpec

\* Whatever is asked for, read() answers with the image of the volume, byte for byte, and
\* raises only if the image needs a segment that is gone.
THEOREM VolumeKeepsPromise == ReadSpec => KeepsPromise
<1>1. ReadInit => Promise!Init
  BY DEF ReadInit, Init, Promise!Init
<1>2. RInv /\ [ReadNext]_allVars => [Promise!Next]_(Promise!imageVars)
  BY StepKeepsPromise
<1> QED
  BY <1>1, <1>2, ReadingInvariant, PTL DEF ReadSpec, KeepsPromise
=============================================================================
