------------------------------ MODULE VmaFile ------------------------------
(***************************************************************************)
(* A VMA file: extents, each a header that lists clusters of the devices,  *)
(* followed by the blocks of those clusters that are stored.               *)
(*                                                                         *)
(* An entry of an extent is a device (0 for none), the number of a cluster *)
(* and its mask, the set of its blocks that are stored.  A stored block is *)
(* known by its extent, its entry and its number; any other block reads as *)
(* Zero.                                                                   *)
(***************************************************************************)
EXTENDS Integers, SequencesExt

CONSTANTS
  Files,         (* the files looked at: sequences of extents              *)
  ClusterBlocks  (* VMA_CLUSTER_SIZE / VMA_BLOCK_SIZE                      *)

VARIABLE file

Zero == <<0, 0, 0>>

FullMask == 0 .. ClusterBlocks - 1

Entries == UNION {{e} \X DOMAIN file[e] : e \in DOMAIN file}

Entry(x) == file[x[1]][x[2]]

-----------------------------------------------------------------------------
\* The writer, and what it means the devices to be.

\* The blocks of entry n of extent e that are stored.
Stored(e, n) ==
  FlattenSeq([i \in 1 .. ClusterBlocks |->
                IF i - 1 \in file[e][n].mask THEN << <<e, n, i - 1>> >> ELSE <<>>])

\* The blocks after the header of extent e.
Body(e) == FlattenSeq([n \in 1 .. Len(file[e]) |-> Stored(e, n)])

Holder(dev, cluster) ==
  CHOOSE x \in Entries : Entry(x).dev = dev /\ Entry(x).cluster = cluster

\* The blocks of a device from one of its clusters on.
DeviceBlocks(dev, cluster, count) ==
  [i \in 1 .. count |->
     LET x == Holder(dev, cluster + (i - 1) \div ClusterBlocks)
         b == (i - 1) % ClusterBlocks
     IN  IF b \in Entry(x).mask THEN <<x[1], x[2], b>> ELSE Zero]

-----------------------------------------------------------------------------
\* vma.py

\* Where the blocks of an entry start in its extent: after those of the entries before.
BlockOffset(x) ==
  LET held == [n \in DOMAIN file[x[1]] |->
                 IF Entry(<<x[1], n>>).dev = 0 THEN 0 ELSE Cardinality(Entry(<<x[1], n>>).mask)]
  IN  SumFunctionOnSet(held, 1 .. x[2] - 1)

\* Blocks read from extent e, counted from 0, as far as it reaches.
Read(e, at, count) ==
  SubSeq(Body(e), at + 1, IF at + count < Len(Body(e)) THEN at + count ELSE Len(Body(e)))

\* _iter_mask, and what its callers read by it: runs of stored blocks come off the
\* extent one after the other, with zeros between them.
ReadMasked(e, at, mask, count) ==
  [i \in 1 .. count |->
     IF i - 1 \in mask
     THEN Read(e, at + Cardinality({b \in mask : b < i - 1}), 1)[1]
     ELSE Zero]
=============================================================================
