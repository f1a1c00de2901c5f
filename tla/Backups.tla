------------------------------ MODULE Backups ------------------------------
(***************************************************************************)
(* A chain of backups, and the recovery points a reader finds in it.  Each *)
(* backup is a slice: it records in the data_map, an LSM tree, an extent   *)
(* for what it stores or discards of the volumes.  Cleanups take recovery  *)
(* points out of the list of slices, and rows that no point shows any more *)
(* out of the data_map; the rows of a slice may outlive its point.         *)
(*                                                                         *)
(* The writer is not part of the repository.  What a byte holds is the     *)
(* slice that stored it, and a segment has that slice's number.            *)
(***************************************************************************)
EXTENDS LsmTree

CONSTANTS
  ExtentKeys, (* the keys of the data_map, in their order: Position says   *)
              (* which of them have a volume and an offset in common       *)
  MaxSlices   (* bounds the backups                                        *)

\* Keys are numbers, and their order begins with the volume and the offset.
ASSUME ExtentKeysAssumption ==
  /\ \A k \in Keys : /\ ExtentKeys[k].volume \in Nat /\ ExtentKeys[k].offset \in Nat
                     /\ ExtentKeys[k].length \in Nat /\ ExtentKeys[k].slice \in Nat
                     /\ ExtentKeys[k].extent \in Nat
  /\ \A k, j \in Keys :
       Position[k] <= Position[j] <=>
         \/ ExtentKeys[k].volume < ExtentKeys[j].volume
         \/ /\ ExtentKeys[k].volume = ExtentKeys[j].volume
            /\ ExtentKeys[k].offset <= ExtentKeys[j].offset

ASSUME SlicesAssumption == Values \subseteq Nat /\ MaxSlices \in Nat

X == INSTANCE Extents WITH ExtentRows <- {}, Tables <- {}

VARIABLES
  points,  (* the slices that are recorded, oldest first                   *)
  slice,   (* the backup that is being taken                               *)
  volumes, (* what the volumes hold as far as it has got: place :> content *)
  backups  (* slice :> what the volumes held when it was finished          *)

chainVars == <<memtree, ctrees, meant, points, slice, volumes, backups>>

Zero == 0

Places(key) == {key.volume} \X (key.offset .. key.offset + key.length - 1)

AllPlaces == UNION {Places(ExtentKeys[k]) : k \in Keys}

ChainInit ==
  /\ Init
  /\ points = <<>>
  /\ slice = 1
  /\ volumes = [p \in AllPlaces |-> Zero]
  /\ backups = <<>>

-----------------------------------------------------------------------------
\* The reader.

Row(key, segment) ==
  [volume |-> key.volume, offset |-> key.offset, length |-> key.length,
   slice |-> key.slice, extent |-> key.extent, segment |-> segment]

Unfiltered ==
  LET x == LoadExtents IN [i \in 1 .. Len(x) |-> Row(ExtentKeys[x[i].key], x[i].value)]

\* ExtentTable.select, of the slices up to a limit: each row behind those that are kept
\* before it.
Select(rows, limit) ==
  LET kept  == {i \in 1 .. Len(rows) : rows[i].slice <= limit}
      place == [i \in kept |-> 1 + Cardinality({j \in kept : j < i})]
  IN  [n \in 1 .. Cardinality(kept) |-> rows[CHOOSE i \in kept : place[i] = n]]

\* Mutation of Limit: recovery point i is taken for slice i.
LimitByIndex(i) == i

\* use_recovery_point: the slice of the i-th recovery point.
Limit(i) == points[i]

\* extents, with a slice selected or none.
RowsAt(i) == Select(Unfiltered, Limit(i))

Latest == Unfiltered

\* volume_ranges: each volume with its first row and its last.
VolumeRanges(rows) ==
  LET starts  == {i \in 1 .. Len(rows) : i = 1 \/ rows[i - 1].volume # rows[i].volume}
      stop(i) == Cardinality({j \in 1 .. Len(rows) : rows[j].volume <= rows[i].volume})
  IN  {[volume |-> rows[i].volume, start |-> i, stop |-> stop(i)] : i \in starts}

\* What a stream made of the rows of a volume reads there.
Shown(rows, place) ==
  LET ranges == {x \in VolumeRanges(rows) : x.volume = place[1]}
      range  == CHOOSE x \in ranges : TRUE
      table  == SubSeq(rows, range.start, range.stop)
      first  == {r \in 1 .. Len(table) : X!Decides(table, r, place[2])}
  IN  IF ranges = {} \/ first = {} THEN Zero
      ELSE table[CHOOSE r \in first : TRUE].segment

-----------------------------------------------------------------------------
\* The writer.

\* The next extent of the backup, behind those it has recorded: new data, a range it
\* discards, or what is there already.
Record ==
  /\ slice <= MaxSlices
  /\ \E k \in Keys, v \in Values :
       LET key == ExtentKeys[k]
       IN  /\ key.slice = slice
           /\ \A j \in Keys :
                ExtentKeys[j].slice = slice /\ meant[j] # Missing =>
                  j < k /\ Places(ExtentKeys[j]) \cap Places(key) = {}
           /\ v \in {Zero, slice} \/ \A p \in Places(key) : volumes[p] = v
           /\ Write(k, v)
           /\ meant' = [meant EXCEPT ![k] = v]
           /\ volumes' = [p \in AllPlaces |-> IF p \in Places(key) THEN v ELSE volumes[p]]
  /\ UNCHANGED <<points, slice, backups>>

Finish ==
  /\ slice <= MaxSlices
  /\ points' = Append(points, slice)
  /\ backups' = Append(backups, volumes)
  /\ slice' = slice + 1
  /\ UNCHANGED <<memtree, ctrees, meant, volumes>>

\* A recovery point other than the last is given up.
CleanUp ==
  /\ \E i \in 1 .. Len(points) - 1 : points' = RemoveAt(points, i)
  /\ UNCHANGED <<memtree, ctrees, meant, slice, volumes, backups>>

\* Row k decides what a backup that is kept, or the one that is being taken, shows.
Needed(k) ==
  \E limit \in ToSet(points) \cup {slice}, p \in Places(ExtentKeys[k]) :
    LET covering == {j \in Keys : /\ meant[j] # Missing /\ ExtentKeys[j].slice <= limit
                                  /\ p \in Places(ExtentKeys[j])}
    IN  /\ k \in covering
        /\ \A j \in covering : ExtentKeys[j].slice <= ExtentKeys[k].slice

Prune ==
  /\ \E k \in Keys :
       /\ meant[k] # Missing
       /\ ~Needed(k)
       /\ Write(k, Tombstone)
       /\ meant' = [meant EXCEPT ![k] = Missing]
  /\ UNCHANGED <<points, slice, volumes, backups>>

ChainNext ==
  \/ Record
  \/ Finish
  \/ CleanUp
  \/ Prune
  \/ (Flush \/ Compact) /\ UNCHANGED <<points, slice, volumes, backups>>

ChainSpec == ChainInit /\ [][ChainNext]_chainVars

-----------------------------------------------------------------------------

\* Every variable has its type, and the points are in order.
ChainTypeOK ==
  /\ IsRun(memtree) /\ \A i \in 1 .. Len(ctrees) : IsRun(ctrees[i])
  /\ meant \in [Keys -> Values \cup {Missing}]
  /\ slice \in 1 .. MaxSlices + 1
  /\ Len(backups) = slice - 1
  /\ points \in Seq(1 .. slice - 1)
  /\ \A i \in 1 .. Len(points) - 1 : points[i] < points[i + 1]
  /\ volumes \in [AllPlaces -> 0 .. MaxSlices]

\* Each recovery point that is left shows every volume as it was when that backup was
\* finished, whatever was backed up, cleaned up, flushed and merged since, and also while a
\* newer backup is only partly recorded.  The latest, for which no slice is selected, shows
\* all that is recorded.
PointsAsBackedUp ==
  /\ \A i \in 1 .. Len(points) :
       LET rows == RowsAt(i)
       IN  \A p \in AllPlaces : Shown(rows, p) = backups[points[i]][p]
  /\ LET rows == Latest IN \A p \in AllPlaces : Shown(rows, p) = volumes[p]
=============================================================================
