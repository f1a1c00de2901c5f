---------------------------- MODULE MCVolumeRead ----------------------------
(***************************************************************************)
(* Two families of volumes in a small archive.                             *)
(*                                                                         *)
(* Shared: segment 1 holds two extents (and is one byte short), segment 2  *)
(* is a whole extent, segment 3 is gone from the segment map, and segment  *)
(* 0 marks discarded ranges.                                               *)
(*                                                                         *)
(* Overlapping: every order of recency and every way that extents of up to *)
(* four bytes overlap, some of them empty, with no segment shared.         *)
(***************************************************************************)
EXTENDS VolumeRead, TLC

CONSTANTS
  Offsets,     \* of the shared family
  Slices,      \* of the shared family
  MaxRows      \* the longest table of either

Contents ==
  {[segment |-> 1, index |-> 0, length |-> 3],
   [segment |-> 1, index |-> 1, length |-> 2],
   [segment |-> 2, index |-> 9, length |-> 4],
   [segment |-> 3, index |-> 9, length |-> 1],
   [segment |-> 0, index |-> 0, length |-> 3]}

MCSegmentLength == 1 :> 5 @@ 2 :> 4 @@ 4 :> 4

MCPlacement ==
  <<1, 0>> :> 0 @@ <<1, 1>> :> 4 @@ <<2, 9>> :> 0 @@ <<3, 9>> :> 0 @@ <<4, 9>> :> 0

At(c, o, s) ==
  [offset |-> o, slice |-> s, extent |-> 1,
   segment |-> c.segment, index |-> c.index, length |-> c.length]

SharedRow == {At(c, o, s) : c \in Contents, o \in Offsets, s \in Slices}

\* <<slice, extent, segment>>: each above the one before in one part and below it in the
\* parts after that, two of them discards.
Recencies == {<<1, 1, 4>>, <<1, 2, 0>>, <<2, 1, 0>>}

OverlappingRow ==
  {[offset |-> o, length |-> l, slice |-> c[1], extent |-> c[2], segment |-> c[3],
    index |-> WholeSegment] : o \in {0, 1, 3}, l \in {0, 1, 4}, c \in Recencies}

MCExtentRows == SharedRow \cup OverlappingRow

TablesOf(extents) ==
  {t \in UNION {[1 .. n -> extents] : n \in 0 .. MaxRows} :
     \A r \in 1 .. Len(t) - 1 : t[r].offset <= t[r + 1].offset}

MCTables == TablesOf(SharedRow) \cup TablesOf(OverlappingRow)

\* The other volume of the archive shares segment 1 with this one.
MCElsewhere == {At(c, 0, 1) : c \in {d \in Contents : d.segment = 1}}

\* From before every extent to after it, within one, from one to beyond all, and nothing.
MCRequests == {<<0, 7>>, <<2, 3>>, <<4, 7>>, <<2, 0>>}
=============================================================================
