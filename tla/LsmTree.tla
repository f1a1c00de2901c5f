------------------------------ MODULE LsmTree ------------------------------
(***************************************************************************)
(* The LSM trees of a TIBX archive and the three ways the code reads them: *)
(*                                                                         *)
(*   SegmentIndex of tibx/map.py looks a key up in one run after the other *)
(*   load_extents of tibx/map.py puts the records of all runs in order     *)
(*   recovery_points and _item_streams of tibx/tibx.py keep the first cell *)
(*     of each key that iter_tree_cells yields                             *)
(*                                                                         *)
(* A run is a function from the keys it has a cell for to their values, or *)
(* to Tombstone.  The writer is not part of the repository: it puts cells  *)
(* into the mem-tree, flushes that to a ctree of its own and merges ctrees *)
(* that follow each other.                                                 *)
(***************************************************************************)
EXTENDS Integers, FiniteSets, SequencesExt

CONSTANTS
  KeyCount,  (* a key is its rank in the order of the keys                 *)
  Position,  (* key :> (volume_id, source_offset), as one number           *)
  Values,
  Tombstone,
  Missing,
  MaxMemtree, (* bounds the cells of the mem-tree                          *)
  MaxCtrees   (* bounds the ctrees: an L-SB has a fixed number of slots    *)

Keys == 1 .. KeyCount

ASSUME KeysAssumption == KeyCount \in Nat /\ Position \in [Keys -> Nat]

\* The fields a data_map key starts with are its volume and its offset.
ASSUME PositionAssumption ==
  \A k, j \in Keys : k <= j => Position[k] <= Position[j]

ASSUME ValuesAssumption ==
  Tombstone \notin Values /\ Missing \notin Values /\ Tombstone # Missing

ASSUME MaxCtreesAssumption == MaxCtrees \in Nat

VARIABLES
  memtree, \* the newest run, kept in the L-SB itself
  ctrees,  \* the others, newest first
  meant    \* the map the writer means the tree to be

vars == <<memtree, ctrees, meant>>

\* The cells a run can have.
RunOn(K) == [K -> Values \cup {Tombstone}]

IsRun(r) == DOMAIN r \subseteq Keys /\ r \in RunOn(DOMAIN r)

NoCells == [k \in {} |-> Tombstone]

Init ==
  /\ memtree = NoCells
  /\ ctrees = <<>>
  /\ meant = [k \in Keys |-> Missing]

-----------------------------------------------------------------------------
\* The reader.

\* The runs, newest first.  (A run without cells decides nothing; SegmentIndex leaves it
\* out.)
Runs == <<memtree>> \o ctrees

Alive(r) == {k \in DOMAIN r : r[k] # Tombstone}
Deleted(r) == {k \in DOMAIN r : r[k] = Tombstone}

\* Mutation of Find: a tombstone does not decide.
FindRecord(k) ==
  LET having == {i \in 1 .. Len(Runs) : k \in Alive(Runs[i])}
      first == CHOOSE i \in having : \A j \in having : i <= j
  IN  IF having # {} THEN Runs[first][k] ELSE Missing

\* SegmentIndex._find: the first run with a cell for the key decides.
Find(k) ==
  LET runs == Runs
      having == {i \in 1 .. Len(runs) : k \in DOMAIN runs[i]}
      first == CHOOSE i \in having : \A j \in having : i <= j
  IN  IF having # {} /\ k \in Alive(runs[first]) THEN runs[first][k] ELSE Missing

\* Mutation of LiveIds: a tombstone does not decide.
AliveIds == UNION {Alive(Runs[i]) : i \in 1 .. Len(Runs)}

\* SegmentIndex._live_ids: the ids alive in a run that no newer run decided.
LiveIds ==
  LET runs == Runs
      decided(i) == UNION {DOMAIN runs[j] : j \in 1 .. i - 1}
  IN  UNION {Alive(runs[i]) \ decided(i) : i \in 1 .. Len(runs)}

\* iter_tree_cells: every cell of every run, yielded one run after the other, each in key
\* order.
Cells ==
  LET runs == Runs
      cells(i) == {[run |-> i, key |-> k, value |-> runs[i][k]] : k \in DOMAIN runs[i]}
  IN  UNION {cells(i) : i \in 1 .. Len(runs)}

Yielded(x, y) == x.run < y.run \/ (x.run = y.run /\ x.key < y.key)

\* recovery_points, _item_streams: a key counts when it is first seen, alive or not.
FirstCells ==
  LET cells == Cells
  IN  {x \in cells : /\ x.value # Tombstone
                     /\ ~ \E y \in cells : y.key = x.key /\ Yielded(y, x)}

\* The records of the runs, in the order of the cells.
Columns == {x \in Cells : x.value # Tombstone}

\* Mutation of KeepFirst: only what was deleted is remembered.
KeepUndeleted(rows) ==
  LET runs == Runs
  IN  {x \in rows : \A i \in 1 .. x.run - 1 : x.key \notin Deleted(runs[i])}

\* _keep_first: less the records whose key a newer run has a record or tombstone for.
KeepFirst(rows) ==
  LET runs == Runs
  IN  {x \in rows : \A i \in 1 .. x.run - 1 : x.key \notin DOMAIN runs[i]}

\* The runs that have a bound in the columns.
Bounds == LET runs == Runs IN {i \in 1 .. Len(runs) : DOMAIN runs[i] # {}}

\* Mutation of AnyDeleted: tombstones are not looked for.
NoneDeleted == FALSE

\* The tombstones of the oldest run mask nothing.
AnyDeleted == \E i, j \in Bounds : i < j /\ Deleted(Runs[i]) # {}

\* Rows at one position stay in the order they are in.
Before(x, y) ==
  \/ Position[x.key] < Position[y.key]
  \/ (Position[x.key] = Position[y.key] /\ Yielded(x, y))

\* _offset_order, _gather: each row has its place behind those before it.
InOffsetOrder(rows) ==
  LET place == [x \in rows |-> 1 + Cardinality({y \in rows : Before(y, x)})]
  IN  [i \in 1 .. Cardinality(rows) |-> CHOOSE x \in rows : place[x] = i]

\* _shares_a_key, of rows in offset order: among rows at one position.
SharesAKey(rows) ==
  \E i, j \in 1 .. Len(rows) :
    /\ i < j
    /\ \A k \in i .. j : Position[rows[k].key] = Position[rows[i].key]
    /\ rows[i].key = rows[j].key

\* The rows before they are put in order: merged if a tombstone may mask one.
Unordered == IF AnyDeleted THEN KeepFirst(Columns) ELSE Columns

\* load_extents: merging is left out when no record can shadow another.
LoadExtents ==
  LET columns == Unordered
      ordered == InOffsetOrder(columns)
  IN  IF Cardinality(Bounds) > 1 /\ SharesAKey(ordered)
      THEN InOffsetOrder(KeepFirst(columns))
      ELSE ordered

-----------------------------------------------------------------------------
\* The writer.

\* Run r over the older run s.
Over(r, s) == [k \in DOMAIN r \cup DOMAIN s |-> IF k \in DOMAIN r THEN r[k] ELSE s[k]]

Cell(k, v) == [j \in {k} |-> v]

\* A cell for key k, in place of one it may have in the mem-tree.
Write(k, v) ==
  /\ memtree' = Over(Cell(k, v), memtree)
  /\ Cardinality(DOMAIN memtree') <= MaxMemtree
  /\ UNCHANGED ctrees

Put ==
  \E k \in Keys, v \in Values :
    Write(k, v) /\ meant' = [meant EXCEPT ![k] = v]

Delete ==
  \E k \in Keys :
    Write(k, Tombstone) /\ meant' = [meant EXCEPT ![k] = Missing]

Flush ==
  /\ DOMAIN memtree # {}
  /\ Len(ctrees) < MaxCtrees
  /\ ctrees' = <<memtree>> \o ctrees
  /\ memtree' = NoCells
  /\ UNCHANGED meant

\* A tombstone that has nothing left to mask is dropped.
Compacted(i) ==
  LET merged == Over(ctrees[i], ctrees[i + 1])
  IN  IF i + 1 = Len(ctrees)
      THEN [k \in Alive(merged) |-> merged[k]]
      ELSE merged

Compact ==
  /\ \E i \in 1 .. Len(ctrees) - 1 :
       ctrees' = [j \in 1 .. Len(ctrees) - 1 |->
                    IF j < i THEN ctrees[j]
                    ELSE IF j = i THEN Compacted(i)
                    ELSE ctrees[j + 1]]
  /\ UNCHANGED <<memtree, meant>>

Next ==
  \/ Put
  \/ Delete
  \/ Flush
  \/ Compact

Spec == Init /\ [][Next]_vars

-----------------------------------------------------------------------------

\* Every variable has its type: every run is a partial map of the keys.
TypeOK ==
  /\ IsRun(memtree)
  /\ ctrees \in Seq(UNION {RunOn(K) : K \in SUBSET Keys})
  /\ Len(ctrees) <= MaxCtrees
  /\ meant \in [Keys -> Values \cup {Missing}]

\* However the cells of a key are spread over the runs, looking it up finds what the
\* writer meant: the newest value, and nothing once it is deleted, although older runs
\* may still hold a record.  Flushing and merging runs changes nothing.
LookupFindsNewest == \A k \in Keys : Find(k) = meant[k]

Present == {<<k, meant[k]>> : k \in {j \in Keys : meant[j] # Missing}}

\* The runs are merged at most once: the bounds of the runs, by which they are told apart,
\* are those of the rows before.
MergesOnce == AnyDeleted => ~SharesAKey(InOffsetOrder(Unordered))

\* load_extents returns each record the writer meant once and no other, in offset order,
\* whichever of the merges it leaves out; and it never needs both.
ExtentsAreNewest ==
  /\ LET extents == LoadExtents
     IN  /\ {<<extents[i].key, extents[i].value>> : i \in 1 .. Len(extents)} = Present
         /\ Len(extents) = Cardinality(Present)
         /\ \A i \in 1 .. Len(extents) - 1 :
              Position[extents[i].key] <= Position[extents[i + 1].key]
  /\ MergesOnce

\* Iterating the segment ids, and keeping the first cell seen of each key, give the keys
\* and records that looking them up gives.
ReadersAgree ==
  /\ LiveIds = {k \in Keys : Find(k) # Missing}
  /\ {<<x.key, x.value>> : x \in FirstCells} = {<<k, Find(k)>> : k \in LiveIds}
=============================================================================
