------------------------------ MODULE TreeWalk ------------------------------
(***************************************************************************)
(* walk_leaf_streams of tibx/lsm.py: the leaves of one on-disk tree, depth *)
(* first and in key order, reading pages that follow each other in the     *)
(* archive together.                                                       *)
(*                                                                         *)
(* The archive is any pages at all, a sound tree or not: an LDIR page has  *)
(* a sequence of children, any other has none.  The top of the stack is    *)
(* its last entry.                                                         *)
(***************************************************************************)
EXTENDS Integers, FiniteSets, SequencesExt

CONSTANTS
  Archives,              (* the archives looked at: page :> page, where a  *)
                         (* page is a record of its type and children      *)
  root_page,
  WALK_READ_AHEAD_PAGES  (* at least one                                   *)

VARIABLES
  pages,   (* the archive                                                  *)
  stack,
  visited,
  ahead,   (* the pages read along with an earlier one and not visited yet *)
  current, (* the page in hand, or None                                    *)
  leaves,  (* what is yielded                                              *)
  outcome, (* "walking", "done", "corrupt"                                 *)
  reads    (* page :> how often it was read                                *)

vars == <<pages, stack, visited, ahead, current, leaves, outcome, reads>>

None == -1

PageNumbers == DOMAIN pages

page_count == Cardinality(PageNumbers)

Top == stack[Len(stack)]

Init ==
  /\ pages \in Archives
  /\ stack = <<root_page>>
  /\ visited = {}
  /\ ahead = {}
  /\ current = None
  /\ leaves = <<>>
  /\ outcome = "walking"
  /\ reads = [p \in PageNumbers |-> 0]

Walking == outcome = "walking" /\ current = None /\ stack # <<>>

\* Mutation of OutOfBounds: the offset is looked at and not taken off.
OutOfBoundsKept ==
  /\ Walking
  /\ Top \notin PageNumbers
  /\ UNCHANGED <<pages, stack, visited, ahead, current, leaves, outcome, reads>>

OutOfBounds ==
  /\ Walking
  /\ Top \notin PageNumbers
  /\ stack' = Front(stack)
  /\ UNCHANGED <<pages, visited, ahead, current, leaves, outcome, reads>>

\* Mutation of Revisit: a page met again is passed over.
RevisitSkips ==
  /\ Walking
  /\ Top \in visited
  /\ stack' = Front(stack)
  /\ UNCHANGED <<pages, visited, ahead, current, leaves, outcome, reads>>

Revisit ==
  /\ Walking
  /\ Top \in visited
  /\ outcome' = "corrupt"
  /\ stack' = Front(stack)
  /\ UNCHANGED <<pages, visited, ahead, current, leaves, reads>>

\* Visiting the top of the stack, which takes it off.
Visit ==
  /\ Walking
  /\ Top \in PageNumbers \ visited
  /\ stack' = Front(stack)
  /\ visited' = visited \cup {Top}
  /\ current' = Top

\* Mutation of TakeAhead: the page is kept.
TakeAheadKept ==
  /\ Visit
  /\ Top \in ahead
  /\ UNCHANGED <<pages, ahead, leaves, outcome, reads>>

TakeAhead ==
  /\ Visit
  /\ Top \in ahead
  /\ ahead' = ahead \ {Top}
  /\ UNCHANGED <<pages, leaves, outcome, reads>>

\* Page + i is the i-th from the top of what is left of the stack.
FollowsOn(rest, page, i) == i <= Len(rest) /\ rest[Len(rest) - i + 1] = page + i

\* How many pages from this one on are read together.
RunLength(rest, page) ==
  CHOOSE n \in 1 .. WALK_READ_AHEAD_PAGES :
    LET more(m) == /\ m < WALK_READ_AHEAD_PAGES
                   /\ page + m \in PageNumbers
                   /\ FollowsOn(rest, page, m)
    IN  ~more(n) /\ \A m \in 1 .. n - 1 : more(m)

ReadRun ==
  /\ Visit
  /\ Top \notin ahead
  /\ LET run == Top .. Top + RunLength(Front(stack), Top) - 1
     IN  /\ ahead' = ahead \cup (run \ {Top})
         /\ reads' = [p \in PageNumbers |-> IF p \in run THEN reads[p] + 1 ELSE reads[p]]
  /\ UNCHANGED <<pages, leaves, outcome>>

\* Mutation of Descend: the first child goes on the stack first.
DescendFirstDeepest ==
  /\ current # None
  /\ pages[current].type = "ldir"
  /\ stack' = stack \o pages[current].children
  /\ current' = None
  /\ UNCHANGED <<pages, visited, ahead, leaves, outcome, reads>>

Descend ==
  /\ current # None
  /\ pages[current].type = "ldir"
  /\ stack' = stack \o Reverse(pages[current].children)
  /\ current' = None
  /\ UNCHANGED <<pages, visited, ahead, leaves, outcome, reads>>

YieldLeaf ==
  /\ current # None
  /\ pages[current].type = "leaf"
  /\ leaves' = Append(leaves, current)
  /\ current' = None
  /\ UNCHANGED <<pages, stack, visited, ahead, outcome, reads>>

Skip ==
  /\ current # None
  /\ pages[current].type = "other"
  /\ current' = None
  /\ UNCHANGED <<pages, stack, visited, ahead, leaves, outcome, reads>>

Finish ==
  /\ outcome = "walking"
  /\ current = None
  /\ stack = <<>>
  /\ outcome' = "done"
  /\ UNCHANGED <<pages, stack, visited, ahead, current, leaves, reads>>

Step ==
  \/ OutOfBounds
  \/ Revisit
  \/ TakeAhead
  \/ ReadRun
  \/ Descend
  \/ YieldLeaf
  \/ Skip
  \/ Finish

Ended == outcome # "walking" /\ UNCHANGED vars

Next == Step \/ Ended

\* The walk runs as long as its caller takes leaves from it.
Spec == Init /\ [][Next]_vars /\ WF_vars(Step)

-----------------------------------------------------------------------------

\* Every variable has its type.
TypeOK ==
  /\ stack \in Seq(Int)
  /\ visited \subseteq PageNumbers
  /\ ahead \subseteq PageNumbers
  /\ current \in visited \cup {None}
  /\ leaves \in Seq(visited)
  /\ outcome \in {"walking", "done", "corrupt"}
  /\ reads \in [PageNumbers -> Nat]

Children(p) ==
  IF p \in PageNumbers /\ pages[p].type = "ldir" THEN pages[p].children ELSE <<>>

\* The leaves under page p in key order, of a tree of at most n levels.
LeavesUnder[n \in Nat] ==
  [p \in Int |->
    IF p \notin PageNumbers \/ n = 0 THEN <<>>
    ELSE IF pages[p].type = "leaf" THEN <<p>>
    ELSE FlattenSeq([i \in 1 .. Len(Children(p)) |-> LeavesUnder[n - 1][Children(p)[i]]])]

\* A walk that ends yields every leaf of the tree, in key order: reading ahead changes
\* nothing, and no page limit cuts the tree short.
YieldsInKeyOrder ==
  outcome = "done" => leaves = LeavesUnder[page_count][root_page]

\* The pages in S point to no other ones.
Closed(S) ==
  \A p \in S : \A i \in DOMAIN Children(p) : Children(p)[i] \in PageNumbers => Children(p)[i] \in S

\* The pages of the tree: the root and what it leads to.
Reachable ==
  LET whole == {S \in SUBSET PageNumbers : {root_page} \cap PageNumbers \subseteq S /\ Closed(S)}
  IN  {p \in PageNumbers : \A S \in whole : p \in S}

\* Where pages of the tree point to pages.
Edges ==
  {e \in UNION {{q} \X DOMAIN Children(q) : q \in Reachable} :
     Children(e[1])[e[2]] \in PageNumbers}

\* The root is pointed to from nowhere, and every other page once.
IsTree ==
  \A e \in Edges :
    /\ Children(e[1])[e[2]] # root_page
    /\ \A f \in Edges : Children(f[1])[f[2]] = Children(e[1])[e[2]] => f = e

\* In a tree no page is read twice, however runs and levels of the tree interleave, and
\* nothing is read ahead that the walk does not come to.  (A page that is pointed to twice
\* can be read a second time, along with another, just before the walk refuses it.)
ReadOnce ==
  IsTree =>
    /\ \A p \in PageNumbers : reads[p] = IF p \in visited \cup ahead THEN 1 ELSE 0
    /\ ahead \subseteq ToSet(stack) \ visited

\* The walk refuses exactly what is not a tree: a page pointed to twice, or a cycle.
RefusesOnlyNonTrees ==
  /\ outcome = "done" => IsTree
  /\ outcome = "corrupt" => ~IsTree
=============================================================================
