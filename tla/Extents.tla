------------------------------ MODULE Extents ------------------------------
(***************************************************************************)
(* The rows of a TIBX archive's data_map: the extents of one volume, in    *)
(* offset order, and which of two extents is the more recent.              *)
(*                                                                         *)
(* A table is a sequence of rows, so a row is known by its index in the    *)
(* table (counted from 1, the code counts from 0).                         *)
(***************************************************************************)
EXTENDS Integers, Sequences

CONSTANTS
  ExtentRows, (* The extents a data_map can record.          *)
  Tables      (* The extent tables a volume can be made from. *)

\* The columns of ExtentTable that resolving and reading look at.
ASSUME ExtentRowsAssumption ==
  \A x \in ExtentRows :
    /\ x.offset  \in Nat \* source_offset
    /\ x.length  \in Nat \* extent_length
    /\ x.slice   \in Nat \* slice_id
    /\ x.extent  \in Nat \* extent_id
    /\ x.segment \in Nat \* segment_id, 0 for a discarded range
    /\ x.index   \in Nat \* extent_index

\* load_extents() hands out the rows of a volume in offset order.
ASSUME TablesAssumption ==
  \A t \in Tables :
    /\ t \in Seq(ExtentRows)
    /\ \A r, q \in 1 .. Len(t) : r <= q => t[r].offset <= t[q].offset

EndOf(x) == x.offset + x.length

\* Row x is more recent than row y: the order resolve_extents keeps its heap in.
MoreRecent(x, y) ==
  \/ x.slice > y.slice
  \/ x.slice = y.slice /\ x.extent > y.extent
  \/ x.slice = y.slice /\ x.extent = y.extent /\ x.segment > y.segment

SameRecency(x, y) ==
  x.slice = y.slice /\ x.extent = y.extent /\ x.segment = y.segment

\* Row r of table t holds byte b of the volume.
Covers(t, r, b) == t[r].offset <= b /\ b < EndOf(t[r])

Covered(t, b) == \E r \in 1 .. Len(t) : Covers(t, r, b)

\* Row r is the one byte b must be read from: it covers b, and no other row that
\* does is more recent (of equally recent rows the first one counts).
Decides(t, r, b) ==
  /\ Covers(t, r, b)
  /\ \A q \in 1 .. Len(t) :
       Covers(t, q, b) => /\ ~MoreRecent(t[q], t[r])
                          /\ SameRecency(t[q], t[r]) => r <= q
=============================================================================
