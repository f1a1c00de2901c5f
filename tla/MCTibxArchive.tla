--------------------------- MODULE MCTibxArchive ----------------------------
(***************************************************************************)
(* Trees of three keys, the first two at one volume offset.                *)
(*                                                                         *)
(* An archive of two backups: the second resizes partition 10, backs up a  *)
(* new partition 11, finds data in partition 12 that the first had stored  *)
(* none of, and no longer has partition 13, which stores no data.  Its     *)
(* partition 14 was not completed.                                         *)
(*                                                                         *)
(* Archives of four segments, of which some are small, and one is larger   *)
(* than the budget; their plaintexts end the way padding does.             *)
(*                                                                         *)
(* Keymaps with one key or two, of a password or to a certificate, behind  *)
(* what is no key, some of which looks like the start of one; stored as    *)
(* they are or as one or two blocks.                                       *)
(***************************************************************************)
EXTENDS TibxArchive

MCPosition == <<0, 0, 1>>

-----------------------------------------------------------------------------

MCSlices == {2, 4}

MCExtentSlices == 10 :> {2, 4} @@ 11 :> {4} @@ 12 :> {4}

Item(slice, name, size, deleted) ==
  [slice |-> slice, name |-> name, id |-> name, size |-> size,
   complete |-> name # 14, deleted |-> deleted]

MCItems ==
  {Item(2, 10, 5, FALSE), Item(4, 10, 7, FALSE), Item(4, 11, 3, FALSE),
   Item(2, 12, 3, FALSE), Item(4, 12, 3, FALSE),
   Item(2, 13, 5, FALSE), Item(4, 13, 5, TRUE),
   Item(4, 14, 3, FALSE)}

-----------------------------------------------------------------------------

Writer == INSTANCE SegmentRead

Plains == << <<1>>, <<0, 1>>, <<2, 2, 2>>, <<0, 2, 1, 0, 1>> >>

\* What stands in the way of a segment: nothing, a page of another type where its last page
\* was, a header that tells of more or of less, or the end of the archive; another byte in its
\* last page, the last page of the segment before in place of its own, or the first one.
Damages == {"none", "page", "more", "less", "cut", "altered", "foreign", "swapped"}

SegmentsWith(codec, encrypted, damage, at) ==
  [x \in 1 .. 4 |-> [plain |-> Plains[x], codec |-> codec, encrypted |-> encrypted,
                     damage |-> IF x = at THEN damage ELSE "none"]]

Hurt(pages, before, damage) ==
  CASE damage = "page" -> [pages EXCEPT ![Len(pages)].type = "other"]
    [] damage = "more" -> [pages EXCEPT ![1].header.zlength = @ + 1]
    [] damage = "less" -> [pages EXCEPT ![1].header.zlength = @ - 1]
    [] damage = "cut" -> SubSeq(pages, 1, Len(pages) - 1)
    [] damage = "altered" -> [pages EXCEPT ![Len(pages)].body[1] = @ + 1]
    [] damage = "foreign" /\ Len(pages) > 1 -> [pages EXCEPT ![Len(pages)] = before[Len(before)]]
    [] damage = "swapped" -> [pages EXCEPT ![1] = before[1]]
    [] OTHER -> pages

ArchiveOf(codec, encrypted, gcm, damage, at, count) ==
  LET segments == SegmentsWith(codec, encrypted, damage, at)
      whole(x) == Writer!PagesOf(segments[x], gcm)
      last == IF damage = "cut" THEN at ELSE 4
      pages == [x \in 1 .. last |->
                  IF x = at THEN Hurt(whole(x), whole(x - 1), damage) ELSE whole(x)]
      before(x) == FlattenSeq(SubSeq(pages, 1, x - 1))
  IN  [segments |-> SubSeq(segments, 1, last),
       pages |-> FlattenSeq(pages),
       gcm |-> gcm,
       segment_map |-> [x \in 1 .. last |->
         [page |-> Len(before(x)),
          pages |-> CASE count = "right" -> Len(whole(x))
                      [] count = "one" -> 1
                      [] count = "none" -> 0
                      [] OTHER -> Len(whole(x)) + 1]]]

MCArchives ==
  {ArchiveOf(c, e[1], e[2], d, at, n) :
     c \in {"none", "lz4", "zstd"},
     e \in {<<FALSE, FALSE>>, <<TRUE, FALSE>>, <<TRUE, TRUE>>},
     d \in Damages, at \in {2, 4}, n \in {"right", "one", "none", "more"}}

-----------------------------------------------------------------------------

WrappedKey(format, alg, word, length) ==
  [format |-> format, alg |-> alg, iter_log2 |-> 1, password |-> word, length |-> length]

\* The last one has a length that is not that of its cipher.
MCWrappedKeys ==
  <<WrappedKey(1, 1, "p", 2), WrappedKey(1, 2, "q", 3), WrappedKey(2, 1, "certificate", 2),
    WrappedKey(1, 2, "p", 2)>>

MCKeyLength == <<2, 3>>

Fronts == {<<>>, <<0, 0>>, <<7>>, <<1, 1, 1>>, <<2, 2, 2, 0>>, <<1, 1, 3>>}

\* With a word behind the keys none of them is at the end.
KeysOf == {<<k>> : k \in 1 .. 4} \cup {<<k, l>> : k \in {1, 2, 3}, l \in {2, 3}}

MCKeymaps ==
  {[present |-> p[1], records |-> p[2], front |-> f, keys |-> k[1], back |-> k[2],
    linked |-> c[1], cut |-> c[2]] :
     p \in {<<TRUE, TRUE>>, <<TRUE, FALSE>>, <<FALSE, FALSE>>},
     f \in Fronts,
     k \in (KeysOf \X {<<>>, <<0>>}) \cup {<< <<>>, <<3, 3, 3>> >>},
     c \in {<<FALSE, 0>>, <<TRUE, 0>>, <<TRUE, -2>>, <<TRUE, 2>>}}
=============================================================================
