--------------------------- MODULE ExtentResolve ---------------------------
(***************************************************************************)
(* resolve_extents() of tibx/tibx.py: flattening the possibly overlapping  *)
(* extents of one volume into intervals, each read from one row.           *)
(*                                                                         *)
(* The heap "covering" is the set of the positions it holds, with its top  *)
(* the most recent of them; the three interval arrays are one sequence of  *)
(* records.  pc tells the loops of the function apart:                     *)
(*   "keep"   leaving out the empty extents, row by row                    *)
(*   "sweep"  the head of the outer loop                                   *)
(*   "cover"  the two inner loops and the interval at the end of an        *)
(*            iteration                                                    *)
(*   "done"   returned                                                     *)
(***************************************************************************)
EXTENDS Extents

VARIABLES
  table,     (* the rows of one volume                                    *)
  rows,      (* the rows that are not empty, in order                     *)
  pc,
  index,     (* the next row to look at ("keep"), the next entry of rows  *)
  position,  (* the volume offset the sweep has reached                   *)
  covering,  (* the heap: entries of rows started at or before position   *)
  previous,  (* the entry the last interval came from, 0 for none         *)
  intervals  (* what is returned                                          *)

vars == <<table, rows, pc, index, position, covering, previous, intervals>>

count == Len(rows)

Offset(k) == table[rows[k]].offset
Ends(k) == EndOf(table[rows[k]])

\* The order of the heap's entries (-slice_id, -extent_id, -segment_id, index).
Precedes(k, j) ==
  \/ MoreRecent(table[rows[k]], table[rows[j]])
  \/ SameRecency(table[rows[k]], table[rows[j]]) /\ k < j

IsTop(k) == k \in covering /\ \A j \in covering \ {k} : Precedes(k, j)

Init ==
  /\ table \in Tables
  /\ rows = <<>>
  /\ pc = "keep"
  /\ index = 1
  /\ position = 0
  /\ covering = {}
  /\ previous = 0
  /\ intervals = <<>>

-----------------------------------------------------------------------------

KeepRow ==
  /\ pc = "keep"
  /\ index <= Len(table)
  /\ rows' = IF table[index].length = 0 THEN rows ELSE Append(rows, index)
  /\ index' = index + 1
  /\ UNCHANGED <<table, pc, position, covering, previous, intervals>>

\* Mutation of NoOverlap: the last pair is not compared.
NoOverlapButLast == \A k \in 1 .. count - 2 : Ends(k) <= Offset(k + 1)

NoOverlap == \A k \in 1 .. count - 1 : Ends(k) <= Offset(k + 1)

\* Extents that do not overlap are each an interval of their own.
ReturnDisjoint ==
  /\ pc = "keep"
  /\ index > Len(table)
  /\ NoOverlap
  /\ intervals' = [k \in 1 .. count |->
                     [start |-> Offset(k), stop |-> Ends(k), row |-> rows[k]]]
  /\ pc' = "done"
  /\ UNCHANGED <<table, rows, index, position, covering, previous>>

BeginSweep ==
  /\ pc = "keep"
  /\ index > Len(table)
  /\ ~NoOverlap
  /\ pc' = "sweep"
  /\ index' = 1
  /\ UNCHANGED <<table, rows, position, covering, previous, intervals>>

IterateTo(offset) ==
  /\ pc = "sweep"
  /\ index <= count \/ covering # {}
  /\ pc' = "cover"
  /\ position' = offset
  /\ UNCHANGED <<table, rows, index, covering, previous, intervals>>

\* Mutation of Iterate: always on to the next extent.
IterateFromNext == IterateTo(IF index <= count THEN Offset(index) ELSE position)

\* With nothing left that covers the position, skip to the next extent.
Iterate == IterateTo(IF covering = {} THEN Offset(index) ELSE position)

ReturnSwept ==
  /\ pc = "sweep"
  /\ index > count
  /\ covering = {}
  /\ pc' = "done"
  /\ UNCHANGED <<table, rows, index, position, covering, previous, intervals>>

MayAdmit == index <= count /\ Offset(index) <= position

Admit ==
  /\ pc = "cover"
  /\ MayAdmit
  /\ covering' = covering \cup {index}
  /\ index' = index + 1
  /\ UNCHANGED <<table, rows, pc, position, previous, intervals>>

\* Only the top of the heap is ever taken off: an extent that has ended may stay
\* under a more recent one.
Retire ==
  /\ pc = "cover"
  /\ ~MayAdmit
  /\ \E top \in covering :
       /\ IsTop(top)
       /\ Ends(top) <= position
       /\ covering' = covering \ {top}
  /\ UNCHANGED <<table, rows, pc, index, position, previous, intervals>>

\* Every extent in the heap had ended: back to the head of the loop.
NoneCovers ==
  /\ pc = "cover"
  /\ ~MayAdmit
  /\ covering = {}
  /\ pc' = "sweep"
  /\ UNCHANGED <<table, rows, index, position, covering, previous, intervals>>

\* How far entry k is read: to its end, or to where the next extent starts.
Until(k) ==
  IF index <= count /\ Offset(index) < Ends(k) THEN Offset(index) ELSE Ends(k)

\* Mutation of Extends: every step of the sweep is an interval of its own.
ExtendsNone(k) == FALSE

\* The interval goes on when only a less recent extent started underneath it.
Extends(k) == previous = k /\ intervals[Len(intervals)].stop = position

Emit ==
  /\ pc = "cover"
  /\ ~MayAdmit
  /\ \E top \in covering :
       /\ IsTop(top)
       /\ Ends(top) > position
       /\ intervals' =
            IF Extends(top)
            THEN [intervals EXCEPT ![Len(intervals)].stop = Until(top)]
            ELSE Append(intervals, [start |-> position,
                                    stop  |-> Until(top),
                                    row   |-> rows[top]])
       /\ position' = Until(top)
       /\ previous' = top
  /\ pc' = "sweep"
  /\ UNCHANGED <<table, rows, index, covering>>

Step ==
  \/ KeepRow
  \/ ReturnDisjoint
  \/ BeginSweep
  \/ Iterate
  \/ ReturnSwept
  \/ Admit
  \/ Retire
  \/ NoneCovers
  \/ Emit

Returned == pc = "done" /\ UNCHANGED vars

Next == Step \/ Returned

\* The function is called and runs to its end: nothing it does can block.
Spec == Init /\ [][Next]_vars /\ WF_vars(Step)

-----------------------------------------------------------------------------

Interval == [start : Nat, stop : Nat, row : Nat]

\* Every variable has its type, and the sweep stays within the arrays it indexes.
TypeOK ==
  /\ table \in Seq(ExtentRows)
  /\ rows \in Seq(1 .. Len(table))
  /\ pc \in {"keep", "sweep", "cover", "done"}
  /\ index \in Nat \ {0}
  /\ pc = "keep" => index <= Len(table) + 1
  /\ pc \in {"sweep", "cover"} => index <= count + 1
  /\ position \in Nat
  /\ covering \subseteq 1 .. count
  /\ previous \in 0 .. count
  /\ intervals \in Seq(Interval)

InInterval(i, b) == intervals[i].start <= b /\ b < intervals[i].stop

\* Every byte of every interval is read from the extent that decides it: the most
\* recent of all the volume's extents there, also where a newer, shorter extent
\* covers the head of an older, longer one.
IntervalsDecide ==
  \A i \in 1 .. Len(intervals) :
    \A b \in intervals[i].start .. intervals[i].stop - 1 :
      Decides(table, intervals[i].row, b)

\* The intervals are in offset order, none is empty and no two overlap: what the
\* bisection in TibxVolume.read relies on.
InOrder ==
  /\ \A i \in 1 .. Len(intervals) : intervals[i].start < intervals[i].stop
  /\ \A i, j \in 1 .. Len(intervals) :
       i < j => intervals[i].stop <= intervals[j].start

\* No byte an extent covers is lost: below the position the sweep has reached, and
\* everywhere once it has returned, it lies in an interval.
NothingLost ==
  \A r \in 1 .. Len(table) :
    \A b \in table[r].offset .. EndOf(table[r]) - 1 :
      (pc = "done" \/ b < position) =>
        \E i \in 1 .. Len(intervals) : InInterval(i, b)

\* No interval is split where only a less recent extent starts underneath it: two
\* intervals that touch are read from different rows.
Coalesced ==
  \A i \in 1 .. Len(intervals) - 1 :
    intervals[i].stop = intervals[i + 1].start => intervals[i].row # intervals[i + 1].row
=============================================================================
