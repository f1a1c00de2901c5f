----------------------------- MODULE CellStream -----------------------------
(***************************************************************************)
(* The records of an LSM page or mem-tree: from the stored stream, which   *)
(* may be encrypted and is raw or a chain of LZ4 blocks, to cells          *)
(* (decode_page_cells and iter_memtree_cells of tibx/lsm.py,               *)
(* decompress_linked_lz4 of tibx/codec.py).                                *)
(*                                                                         *)
(* A stream is a sequence of words, naturals.  What is stored in a block   *)
(* of a chain is words and references back, -d for the word d before.      *)
(***************************************************************************)
EXTENDS Integers, SequencesExt

CONSTANTS
  CellLists,           (* what pages and mem-trees hold: sequences of      *)
                       (* cells [key, value, alive], of sequences          *)
  KeyLength,           (* of trees with cells of fixed lengths             *)
  ValueLength,
  LSM_CELL_GROUP_MAX,
  BlockWords,          (* how many words the writer puts in a block        *)
  LZ4_MAX_DISTANCE

VARIABLES
  source, (* the page or mem-tree as it is stored                          *)
  out,    (* the words that are decoded                                    *)
  block,  (* the block of the chain that is next                           *)
  pos,    (* how many words of out are used up                             *)
  group,  (* the group being read: its cells and how many were read        *)
  cells,
  state   (* "stream", "cells", "done" or the error                        *)

vars == <<source, out, block, pos, group, cells, state>>

Slice(s, at, n) == SubSeq(s, at + 1, IF at + n < Len(s) THEN at + n ELSE Len(s))

-----------------------------------------------------------------------------
\* The writer.

Parts(s, n) == [i \in 1 .. (Len(s) + n - 1) \div n |-> Slice(s, (i - 1) * n, n)]

FitsFixed(c) == Len(c.key) = KeyLength /\ (c.alive => Len(c.value) = ValueLength)

CellWords(c, fixed) ==
  IF c.alive
  THEN (IF fixed THEN <<>> ELSE <<Len(c.key), Len(c.value)>>) \o c.key \o c.value
  ELSE (IF fixed THEN <<>> ELSE <<Len(c.key)>>) \o c.key

AllWords(cs, fixed) == FlattenSeq([i \in DOMAIN cs |-> CellWords(cs[i], fixed)])

GroupHeader(cs) ==
  <<Len(cs),
    FoldLeft(+, 0, [i \in DOMAIN cs |-> IF cs[i].alive THEN 2 ^ (i - 1) ELSE 0])>>

Grouped(cs, fixed) ==
  LET groups == Parts(cs, LSM_CELL_GROUP_MAX)
  IN  FlattenSeq([i \in DOMAIN groups |-> GroupHeader(groups[i]) \o AllWords(groups[i], fixed)])

\* A word that occurred shortly before is stored as a reference to the farthest such place.
Packed(words) ==
  [i \in DOMAIN words |->
     LET near == {d \in 1 .. LZ4_MAX_DISTANCE : d < i /\ words[i - d] = words[i]}
     IN  IF near = {} THEN words[i] ELSE -(CHOOSE d \in near : \A e \in near : d >= e)]

Chain(words, n) ==
  LET parts == Parts(Packed(words), n)
  IN  [i \in DOMAIN parts |-> [uncompressed |-> Len(parts[i]), compressed |-> Len(parts[i]),
                               items |-> parts[i]]]

\* A block that does not decode; a last block that claims more words than there are, or is cut
\* short; the end is missing; the last word is another; the header counts a cell too many.
\* Nothing at all is left of the blob of a superblock that was cut off there.
Damages == {"none", "block", "claim", "cut", "end", "altered", "count", "gone"}

\* Not encrypted; encrypted, without the key; encrypted, with a tag only in GCM mode.
Seals == {"none", "no key", "cbc", "gcm"}

Altered == LZ4_MAX_DISTANCE + 5

SetLast(s, x) == Append(Front(s), x)

\* What is stored.  A mem-tree is one block, a page as many as it takes.  lost is how many
\* words the end has that is missing.
Stored(cs, form, fixed, linked, seal, damage, lost) ==
  LET words == IF form = "directory" THEN AllWords(cs, fixed) ELSE Grouped(cs, fixed)
      n     == IF form = "mem-tree" /\ words # <<>> THEN Len(words) ELSE BlockWords
      chain == Chain(words, n)
      last  == Len(chain)
  IN  [cells |-> cs, form |-> form, fixed |-> fixed, linked |-> linked, seal |-> seal,
       damage |-> damage,
       count |-> IF damage = "count" THEN Len(cs) + 1 ELSE Len(cs),
       size |-> Len(words),
       words |-> CASE damage = "end" -> SubSeq(words, 1, Len(words) - lost)
                   [] damage = "altered" -> SetLast(words, Altered)
                   [] OTHER -> words,
       chain |-> CASE damage = "block" -> [chain EXCEPT ![last].items = <<-LZ4_MAX_DISTANCE - 1>>,
                                                        ![last].compressed = 1]
                   [] damage = "claim" -> [chain EXCEPT ![last].uncompressed = @ + 1]
                   [] damage = "cut"   -> [chain EXCEPT ![last].items = Front(@)]
                   [] damage = "altered" -> [chain EXCEPT ![last].items = SetLast(@, Altered)]
                   [] damage = "end"   -> Front(chain)
                   [] OTHER            -> chain]

Init ==
  /\ \E cs \in CellLists, form \in {"leaf", "directory", "mem-tree"},
        fixed, linked \in BOOLEAN, seal \in Seals, damage \in Damages :
       /\ fixed => \A i \in DOMAIN cs : FitsFixed(cs[i])
       /\ form = "directory" => \A i \in DOMAIN cs : cs[i].alive
       /\ damage # "none" => cs # <<>>
       /\ damage \in {"block", "claim", "cut"} => linked
       /\ damage = "gone" => form = "mem-tree"
       /\ \E lost \in IF damage = "end" /\ ~linked THEN 1 .. Len(Grouped(cs, fixed)) ELSE {1} :
            source = Stored(cs, form, fixed, linked, seal, damage, lost)
  /\ out = <<>>
  /\ block = 1
  /\ pos = 0
  /\ group = <<>>
  /\ cells = <<>>
  /\ state = "stream"

-----------------------------------------------------------------------------
\* tibx/codec.py and the callers of decompress_linked_lz4

\* The library: what the items of a block stand for, after the words of the dictionary.
Decodes(items, dictionary) ==
  \A i \in DOMAIN items : -items[i] < Len(dictionary) + i

Decoded(items, dictionary) ==
  LET word[i \in DOMAIN items] ==
        LET from == i + items[i]
        IN  CASE items[i] >= 0 -> items[i]
              [] from > 0      -> word[from]
              [] OTHER         -> dictionary[Len(dictionary) + from]
  IN  [i \in DOMAIN items |-> word[i]]

Dictionary == Slice(out, IF Len(out) > LZ4_MAX_DISTANCE THEN Len(out) - LZ4_MAX_DISTANCE ELSE 0,
                    LZ4_MAX_DISTANCE)

Fail(error) ==
  /\ state' = error
  /\ UNCHANGED <<source, out, block, pos, group, cells>>

\* A mem-tree without nodes is not looked at, nor one without a blob.
Empty == source.form = "mem-tree" /\ (source.count = 0 \/ source.damage = "gone")

Encrypted == source.seal \in {"cbc", "gcm"}

\* Of an encrypted stream too little is left to decrypt, or its tag says it was damaged.
Undecryptable ==
  \/ Encrypted /\ (IF source.linked THEN source.chain = <<>> ELSE source.words = <<>>)
       /\ source.cells # <<>>
  \/ source.seal = "gcm" /\ source.damage \notin {"none", "count"}

\* Of the block of a mem-tree not even the header is left.
NoBlock == source.form = "mem-tree" /\ source.linked /\ source.chain = <<>>

NoCells ==
  /\ state = "stream"
  /\ Empty
  /\ state' = "done"
  /\ UNCHANGED <<source, out, block, pos, group, cells>>

NoKey ==
  /\ state = "stream"
  /\ ~Empty
  /\ source.seal = "no key"
  /\ Fail("invalid password")

NotDecrypted ==
  /\ state = "stream"
  /\ ~Empty
  /\ Undecryptable
  /\ Fail("corrupt archive")

Readable ==
  /\ state = "stream"
  /\ ~Empty
  /\ source.seal # "no key"
  /\ ~Undecryptable

\* The raw stream of a page must be as long as its header says; of a mem-tree, which says
\* nothing of it, what is there is taken.
LongEnough == source.form = "mem-tree" \/ Len(source.words) >= source.size

ReadRaw ==
  /\ Readable
  /\ ~source.linked
  /\ LongEnough
  /\ out' = source.words
  /\ state' = "cells"
  /\ UNCHANGED <<source, block, pos, group, cells>>

RawTooShort ==
  /\ Readable
  /\ ~source.linked
  /\ ~LongEnough
  /\ Fail("corrupt archive")

\* A mem-tree without a block is taken for one without cells.
NoBlockNoCells ==
  /\ Readable
  /\ NoBlock
  /\ state' = "done"
  /\ UNCHANGED <<source, out, block, pos, group, cells>>

\* How many words out is to become: a mem-tree's first block says it.
Target == IF source.form = "mem-tree" THEN source.chain[1].uncompressed ELSE source.size

\* The chain ends where the stream does, also in a block (only the last one is ever cut).
MoreBlocks ==
  /\ Readable
  /\ source.linked
  /\ ~NoBlock
  /\ block <= Len(source.chain)
  /\ source.chain[block].compressed <= Len(source.chain[block].items)
  /\ Len(out) < Target

Block == source.chain[block]

ReadBlock ==
  /\ MoreBlocks
  /\ Block.uncompressed <= Target - Len(out)
  /\ Decodes(Block.items, Dictionary)
  /\ out' = out \o Decoded(Block.items, Dictionary)
  /\ block' = block + 1
  /\ UNCHANGED <<source, pos, group, cells, state>>

BadBlock ==
  /\ MoreBlocks
  /\ \/ Block.uncompressed > Target - Len(out)
     \/ ~Decodes(Block.items, Dictionary)
  /\ Fail("corrupt archive")

EndOfChain ==
  /\ Readable
  /\ source.linked
  /\ ~NoBlock
  /\ ~MoreBlocks
  /\ state' = IF Len(out) = Target THEN "cells" ELSE "corrupt archive"
  /\ UNCHANGED <<source, out, block, pos, group, cells>>

-----------------------------------------------------------------------------
\* decode_cells_variable and decode_cells_compact

MoreCells == state = "cells" /\ Len(cells) < source.count

InGroup == group # <<>> /\ group.read < group.count


\* A group's alive bitmap has a bit for each of its cells.
Alive(index) == (group.alive \div 2 ^ index) % 2 = 1

NextGroup ==
  /\ MoreCells
  /\ source.form # "directory"
  /\ ~InGroup
  /\ pos + 2 <= Len(out)
  /\ group' = [count |-> out[pos + 1], alive |-> out[pos + 2], read |-> 0]
  /\ pos' = pos + 2
  /\ state' = IF out[pos + 1] \in 1 .. LSM_CELL_GROUP_MAX THEN state ELSE "corrupt archive"
  /\ UNCHANGED <<source, out, block, cells>>

ShortGroupHeader ==
  /\ MoreCells
  /\ source.form # "directory"
  /\ ~InGroup
  /\ pos + 2 > Len(out)
  /\ Fail("corrupt archive")

Lengths(alive) == IF source.fixed THEN 0 ELSE IF alive THEN 2 ELSE 1

\* The cell at pos, of which the lengths must be there; key and value are cut short where the
\* stream is.
TakeCell(alive) ==
  LET at      == pos + Lengths(alive)
      keyLen  == IF source.fixed THEN KeyLength ELSE out[pos + 1]
      valLen  == IF ~alive THEN 0 ELSE IF source.fixed THEN ValueLength ELSE out[pos + 2]
  IN  /\ at <= Len(out) \/ source.fixed
      /\ cells' = Append(cells, [key |-> Slice(out, at, keyLen),
                                 value |-> Slice(out, at + keyLen, valLen), alive |-> alive])
      /\ pos' = at + keyLen + valLen
      /\ UNCHANGED <<source, out, block, state>>

NextCompact ==
  /\ MoreCells
  /\ InGroup
  /\ TakeCell(Alive(group.read))
  /\ group' = [group EXCEPT !.read = @ + 1]

NextVariable ==
  /\ MoreCells
  /\ source.form = "directory"
  /\ TakeCell(TRUE)
  /\ UNCHANGED group

OutOfBuffer ==
  /\ MoreCells
  /\ source.form = "directory" \/ InGroup
  /\ ~source.fixed
  /\ pos + Lengths(source.form = "directory" \/ Alive(group.read)) > Len(out)
  /\ Fail("corrupt archive")

Return ==
  /\ state = "cells"
  /\ Len(cells) = source.count
  /\ state' = "done"
  /\ UNCHANGED <<source, out, block, pos, group, cells>>

Ended == state \notin {"stream", "cells"} /\ UNCHANGED vars

Next ==
  \/ NoCells \/ NoKey \/ NotDecrypted \/ NoBlockNoCells
  \/ ReadRaw \/ RawTooShort
  \/ ReadBlock \/ BadBlock \/ EndOfChain
  \/ NextGroup \/ ShortGroupHeader \/ NextCompact
  \/ NextVariable \/ OutOfBuffer
  \/ Return
  \/ Ended

\* A call runs until it returns or fails.
Spec == Init /\ [][Next]_vars /\ WF_vars(Next)

-----------------------------------------------------------------------------

\* A directory of fixed cells that is said to have one more than there is gets one without
\* key and value, unnoticed.
Overcounted == source.damage = "count" /\ source.form = "directory" /\ source.fixed

\* What is left of a mem-tree that was cut off is not told from one that was written so, if it
\* was raw or nothing of its block is left.
CutUnnoticed ==
  /\ source.form = "mem-tree"
  /\ \/ source.damage = "gone"
     \/ source.damage = "end" /\ (source.seal = "none" \/ (source.seal = "cbc" /\ ~source.linked))

\* No checksum is looked at here: another word is taken as it is, where no tag tells.
AlteredUnnoticed == source.damage = "altered" /\ source.seal # "gcm"

Unnoticed == Overcounted \/ CutUnnoticed \/ AlteredUnnoticed

\* The words of the i-th cell are as they were stored.
Intact(i) ==
  /\ i <= Len(source.cells)
  /\ source.damage = "altered" => i < Len(source.cells)
  /\ source.damage = "end" /\ source.form = "mem-tree" =>
       Len(Grouped(SubSeq(source.cells, 1, i), source.fixed)) <= Len(source.words)

\* Every variable has its type, and what is used up is there.
TypeOK ==
  /\ block \in 1 .. Len(source.chain) + 1
  /\ pos \in Nat
  /\ pos <= Len(out) \/ Overcounted \/ CutUnnoticed
  /\ group # <<>> => group.read \in 0 .. group.count
  /\ Len(cells) <= source.count
  /\ state \in {"stream", "cells", "done", "invalid password", "corrupt archive"}

=============================================================================
