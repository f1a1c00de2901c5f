------------------------------- MODULE MCVbk --------------------------------
(***************************************************************************)
(* VBK files of which the block store takes six table pages: blocks at     *)
(* every place that is the first or last of a page or of a table page, in  *)
(* files of up to three tables, some of them left out.                     *)
(*                                                                         *)
(* A VBK file with directories of no item, of one, and of seven, which are *)
(* on four pages; paths to all of them and to none.  Dictionaries that end *)
(* on the first page, on its last word, and on a later one.                *)
(***************************************************************************)
EXTENDS Integers, SequencesExt

BlockOfId(id) == [type |-> "normal", id |-> id]
SparseBlock == [type |-> "sparse", id |-> 0]
ArchivedBlock == [type |-> "archived", id |-> 0]

StoredBlocks == 27

\* One stored block is compressed in a way that is not supported.
MCStore ==
  [i \in 1 .. StoredBlocks |->
     [data |-> i, compression |-> IF i = StoredBlocks THEN "zlh" ELSE IF i % 2 = 0 THEN "lz4"
                                                                  ELSE "plain"]]

VbkFiles ==
  {[i \in 1 .. StoredBlocks - 1 |-> BlockOfId(i - 1)],
   <<BlockOfId(26)>>,
   <<BlockOfId(27)>>,
   <<SparseBlock, ArchivedBlock>>,
   <<SparseBlock, SparseBlock, SparseBlock, BlockOfId(7), SparseBlock, BlockOfId(8),
     BlockOfId(24)>>,
   <<BlockOfId(5), BlockOfId(0), SparseBlock, SparseBlock, SparseBlock, SparseBlock,
     SparseBlock, BlockOfId(25)>>}

NewerVbks == [version2 : {FALSE}, old : {FALSE}, blocks : VbkFiles, store : {MCStore}]

OldVbks == [version2 : {FALSE}, old : {TRUE}, blocks : VbkFiles, store : {MCStore}]

MCVbks ==
  NewerVbks \cup OldVbks
    \cup [version2 : {TRUE}, old : {FALSE}, blocks : VbkFiles, store : {MCStore}]

-----------------------------------------------------------------------------

ItemOf(name, kind, folder) == [name |-> name, kind |-> kind, folder |-> folder]

FileOf(name) == ItemOf(name, "internal", 0)

MCDirectories ==
  << <<ItemOf("a", "folder", 2), FileOf("f")>>,
     <<FileOf("f"), FileOf("g"), FileOf("h"), FileOf("f"), ItemOf("i", "external", 0),
       ItemOf("a", "folder", 3), ItemOf("b", "folder", 4)>>,
     <<>>,
     <<ItemOf("b", "folder", 2)>> >>

MCVbkTrees == [version2 : BOOLEAN, directories : {MCDirectories}]

PathParts == {"", "a", "b", "f", "i", "x"}

MCVbkPaths ==
  UNION {[1 .. n -> PathParts] : n \in 1 .. 3}
    \cup {<<"a", "b", "b", p, q>> : p \in PathParts, q \in PathParts}

PropertyOf(type, name, value) == [type |-> type, name |-> name, value |-> value]

Properties ==
  {PropertyOf(1, <<3>>, <<0>>), PropertyOf(2, <<4, 4>>, <<7, 0>>), PropertyOf(3, <<5>>, <<>>),
   PropertyOf(4, <<6>>, <<1, 2>>), PropertyOf(5, <<>>, <<-1, 0, 2>>), PropertyOf(6, <<8>>, <<1>>),
   PropertyOf(7, <<9>>, <<1>>)}

MCDictionaries == UNION {[1 .. n -> Properties] : n \in 0 .. 3}
=============================================================================
