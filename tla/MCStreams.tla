----------------------------- MODULE MCStreams ------------------------------
(***************************************************************************)
(* Streams on small archives of every format.                              *)
(*                                                                         *)
(* VMA files: four clusters of device 1 and one of device 2, in any order  *)
(* and in one or two extents, the last of which has an unused entry.       *)
(*                                                                         *)
(* XVA files: a disk of four numbers, and one block of another disk before *)
(* or after it, whose ref begins with the same digit or does not.          *)
(*                                                                         *)
(* WIM resources: chunks of six bytes, read in units of two.  WIM images   *)
(* of four directories, with every kind of entry at a place that is not    *)
(* aligned: names and streams of different lengths, and links down, up, to *)
(* each other, to themselves, to nothing, and without a target.            *)
(***************************************************************************)
EXTENDS Streams, MCVbk, FiniteSets

MCClusterBlocks == 3

\* A cluster that is stored whole, one that is not, and parts of clusters.
MaskSets == {<<{0, 1, 2}, {0, 2}, {}, {1}>>, <<{}, {1, 2}, {0}, {0, 1, 2}>>}

NoEntry == [dev |-> 0, cluster |-> 0, mask |-> {}]

EntryOf(masks, other, k) ==
  IF k <= 4
  THEN [dev |-> 1, cluster |-> k - 1, mask |-> masks[k]]
  ELSE [dev |-> other, cluster |-> 0, mask |-> {1}]

FilesWith(other) ==
  {LET entries == [i \in 1 .. 5 |-> EntryOf(x[2], other, x[1][i])]
   IN  <<SubSeq(entries, 1, x[3]), SubSeq(entries, x[3] + 1, 5) \o <<NoEntry>>>> :
     x \in Permutations(1 .. 5) \X MaskSets \X {0, 2, 3}}

\* Device 3 is in no header.
MCFiles == FilesWith(2) \cup FilesWith(3)

MCRequests == [dev : {1}, cluster : 0 .. 3, blocks : {2, 6, 7}]

-----------------------------------------------------------------------------

Numbers == [1 .. 4 -> {"data", "empty", "absent"}]

BlockMember(ref, number, size) ==
  [ref |-> ref, number |-> number, kind |-> "block", size |-> size, right |-> FALSE]
ChecksumMember(ref, number, kind) ==
  [ref |-> ref, number |-> number, kind |-> kind, size |-> 0, right |-> number # 3]

\* The block with number 2 has no checksum.
MembersOf(numbers, kind) ==
  FlattenSeq([n \in 1 .. 4 |->
    CASE numbers[n] = "absent" -> <<>>
      [] numbers[n] = "empty" -> <<BlockMember(<<1>>, n - 1, 0)>>
      [] n = 3 -> <<BlockMember(<<1>>, 2, 1)>>
      [] OTHER -> <<BlockMember(<<1>>, n - 1, 1), ChecksumMember(<<1>>, n - 1, kind)>>])

MCDisks ==
  {[numbers |-> n, ref |-> <<1>>, size |-> Cardinality({i \in 1 .. 4 : n[i] # "empty"}),
    members |-> LET own == MembersOf(n, x[1])
                    other == <<BlockMember(x[2], 0, 1), ChecksumMember(x[2], 0, x[1])>>
                IN  IF x[3] THEN other \o own ELSE own \o other] :
     n \in {n \in Numbers : \E i \in 1 .. 4 : n[i] = "data"},
     x \in {<<"checksum", <<2, 1>>, TRUE>>, <<"xxhash", <<1, 2>>, FALSE>>}}

-----------------------------------------------------------------------------

MCChunkSize == 6
MCAlign == 2

\* Of one to three chunks, the last of which is whole or not.
MCResources ==
  {[size |-> 3, stored |-> <<2>>], [size |-> 6, stored |-> <<6>>],
   [size |-> 7, stored |-> <<1, 1>>], [size |-> 10, stored |-> <<1, 3>>],
   [size |-> 13, stored |-> <<3, 1, 1>>], [size |-> 18, stored |-> <<2, 1, 3>>]}

-----------------------------------------------------------------------------

WimEntry(name, kind, subdir, target, body, extra, hash, streams) ==
  [name |-> name, kind |-> kind, subdir |-> subdir, target |-> target, body |-> body,
   extra |-> extra, hash |-> hash, streams |-> streams]

WimFile(name, body, streams) == WimEntry(name, "file", 0, <<>>, body, 0, 2, streams)
WimDir(name, d, extra) == WimEntry(name, "dir", d, <<>>, 3, extra, 0, <<>>)
WimLink(name, target, hash) == WimEntry(name, "symlink", 0, target, 4, 0, hash, <<>>)
WimJunction(name) == WimEntry(name, "junction", 0, <<>>, 4, 0, 1, <<>>)

StreamOf(name, hash, n) == [name |-> name, hash |-> hash, length |-> n]

\* A tree with the links l and m in its root; the data of l have the given hash.
WimTreeWith(l, hash, m) ==
  << <<WimDir("a", 2, 4), WimFile("f", 5, <<StreamOf("", 2, 4), StreamOf("s", 3, 7)>>),
       WimLink("L", l, hash), WimLink("M", m, 1), WimJunction("J")>>,
     <<WimDir("b", 3, 0), WimFile("f", 4, <<>>), WimLink("M", <<"b">>, 1)>>,
     <<WimFile("c", 1, <<>>)>>,
     <<>> >>

WimTargets ==
  {<<"a">>, <<"a", "b">>, <<"L">>, <<"L", "f">>, <<"M">>, <<"..", "b">>, <<"x">>, <<"a", "M">>}

MCTrees ==
  {WimTreeWith(l, 1, <<"L">>) : l \in WimTargets}
    \cup {WimTreeWith(<<"a">>, 1, m) : m \in {<<"L", "b">>, <<"a", "..", "f">>}}
    \cup {WimTreeWith(<<"M", ".", "b">>, 1, <<"a">>)}
    \cup {WimTreeWith(<<"a">>, hash, <<"L">>) : hash \in {0, 3, 9}}

WimNames == {"a", "b", "c", "f", "L", "M", "J", "..", "."}

MCWimPaths == UNION {[1 .. n -> WimNames] : n \in 0 .. 3}

ResourceHeader(hash, spanned, what) ==
  [hash |-> hash, spanned |-> spanned, supported |-> TRUE, data |-> what]

MCTable ==
  <<ResourceHeader(1, FALSE, "another"), ResourceHeader(2, FALSE, "data"),
    ResourceHeader(3, TRUE, "data"), ResourceHeader(1, FALSE, "link")>>
=============================================================================
