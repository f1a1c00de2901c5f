---------------------------- MODULE MCPageWalks -----------------------------
(***************************************************************************)
(* Scans of archives of up to MaxPages pages.                              *)
(*                                                                         *)
(* Walks of archives of five pages, 0 the root.  The children of the root  *)
(* come in any order; page 1 is a leaf or points to pages after it, to the *)
(* root or past the end; page 2 is a leaf or points back, ahead, to itself *)
(* or past the end; page 3 is a leaf, a page of another type, or points to *)
(* 4.                                                                      *)
(*                                                                         *)
(* Lists of up to three cells, of fixed lengths or of various ones, of     *)
(* which keys and values recur, so that blocks refer back.                 *)
(*                                                                         *)
(* Headers of every version, with trees in the first two slots, in one     *)
(* that old versions do not have and in one that is no tree's, and with    *)
(* mem-trees of various lengths.                                           *)
(***************************************************************************)
EXTENDS PageWalks, SequencesExt

CONSTANT MaxPages

MCPageCounts == 0 .. MaxPages

Leaf == [type |-> "leaf", children |-> <<>>]
Other == [type |-> "other", children |-> <<>>]
Ldir(c) == [type |-> "ldir", children |-> c]

Pages0 == {Ldir(c) : c \in UNION {[1 .. k -> 1 .. 3] : k \in 1 .. 2}
                             \cup {<<1, 2, 3>>, <<2, 3, 1>>, <<3, 2, 1>>, <<2, 3, 4>>}}
Pages1 == {Leaf} \cup {Ldir(c) : c \in [1 .. 2 -> 2 .. 4] \cup {<<>>, <<0>>, <<3>>, <<5>>}}
Pages2 == {Leaf} \cup {Ldir(c) : c \in {<<1>>, <<1, 2>>, <<3, 4>>, <<4>>, <<4, 5>>}}
Pages3 == {Leaf, Other, Ldir(<<4>>)}

MCArchives ==
  {[p \in 0 .. 4 |-> CASE p = 0 -> a [] p = 1 -> b [] p = 2 -> c [] p = 3 -> d [] p = 4 -> Leaf] :
     a \in Pages0, b \in Pages1, c \in Pages2, d \in Pages3}

-----------------------------------------------------------------------------

Put(key, value) == [key |-> key, value |-> value, alive |-> TRUE]
Tombstone(key) == [key |-> key, value |-> <<>>, alive |-> FALSE]

FixedCells == {Put(<<1>>, <<5, 6>>), Put(<<2>>, <<1, 1>>), Tombstone(<<1>>)}
VariousCells == {Put(<<1, 2>>, <<5>>), Put(<<1>>, <<>>), Tombstone(<<1, 2, 1>>)}

MCCellLists == BoundedSeq(FixedCells, 3) \cup BoundedSeq(VariousCells, 3)

-----------------------------------------------------------------------------

Ref(offset, nr) == [offset |-> offset, nr |-> nr]

Tree(ctrees, used, nodes, blob) ==
  [kind |-> "tree", ctrees |-> ctrees, used |-> used, nodes |-> nodes, blob |-> blob]

WordsOf(words) == [kind |-> "words", words |-> words]

Trees ==
  {Tree(<<Ref(5, 1), Ref(-3, 0)>>, 1, 0, <<>>), Tree(<<Ref(0, 0), Ref(9, 2)>>, 2, 2, <<1, 2, 3>>),
   Tree(<<Ref(-3, 0), Ref(6, 3)>>, 3, 1, <<4>>), [kind |-> "none"]}

MCHeaderList ==
  {[version |-> v,
    slots |-> [i \in 1 .. 19 |->
      CASE i = 1 -> a [] i = 2 -> b
        [] i = 9 -> Tree(<<Ref(7, 1), Ref(8, 1)>>, 2, 0, <<>>)
        [] i = 14 -> WordsOf(<<1, 2, 3>>)
        [] i = 19 -> WordsOf(<<-2>>)
        [] OTHER -> [kind |-> "none"]]] :
     v \in {6, 7, 8}, a \in Trees, b \in Trees}
=============================================================================
