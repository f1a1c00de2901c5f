------------------------------ MODULE SplitSet ------------------------------
(***************************************************************************)
(* find_split_parts, _volume_offsets and _stitch of tibx/tibx.py: the      *)
(* files of an archive that is more than one, put together to the page     *)
(* store that its offsets count in.                                        *)
(*                                                                         *)
(* The writer is not part of the repository; what it does is what _stitch  *)
(* says of it.  A "split" set is one page store cut up.  A "version" set   *)
(* gets another file with each backup, which lists where every file of     *)
(* the set starts; a cleanup cuts a file short that keeps its addresses.   *)
(* Sizes and addresses are in pages.                                       *)
(***************************************************************************)
EXTENDS Integers, SequencesExt

CONSTANTS
  Sizes,    (* the numbers of pages a file can have                        *)
  MaxFiles, (* bounds the files                                            *)
  Stems,    (* the names of the archives in the directory, without what    *)
            (* tells their files apart                                     *)
  NoTable

VARIABLES
  kind,     (* "split" or "version"                                        *)
  files,    (* in the order they were written: the size of each, its span  *)
            (* of addresses, and its table of starts or NoTable            *)
  listing   (* the names in the directory, in the order it lists them      *)

vars == <<kind, files, listing>>

Name(stem, num) == [stem |-> stem, num |-> num]
Main == 0

-----------------------------------------------------------------------------
\* The writer.

\* The address of the first page of file i.
StartOf(i) == FoldLeft(LAMBDA n, f : n + f.span, 0, SubSeq(files, 1, i - 1))

\* The directory lists a new name anywhere.
Listed(name) ==
  \E i \in 0 .. Len(listing) :
    listing' = SubSeq(listing, 1, i) \o <<name>> \o SubSeq(listing, i + 1, Len(listing))

\* What the last of n files shows for a table: in a version set the one the writer put
\* there, in a split set, where it is any part of the archive, anything but.
TablesFor(n) ==
  IF kind = "version"
  THEN {[i \in 1 .. n |-> StartOf(i)]}
  ELSE {NoTable, <<0>>, [i \in 1 .. n |-> 1], [i \in 1 .. n |-> i - 1]}

File(size, table) == [size |-> size, span |-> size, table |-> table]

\* The archive is of the first stem; another one has a file and a part of its own.
Init ==
  /\ kind \in {"split", "version"}
  /\ \E n \in Sizes : files = <<File(n, <<0>>)>>
  /\ listing = <<Name(Stems[2], 1), Name(Stems[1], Main), Name(Stems[2], Main)>>

AddFile ==
  /\ Len(files) < MaxFiles
  /\ \E n \in Sizes : \E t \in TablesFor(Len(files) + 1) : files' = Append(files, File(n, t))
  /\ Listed(Name(Stems[1], Len(files)))
  /\ UNCHANGED kind

\* A cleanup cuts a file short, though not the last one.
Compact ==
  /\ kind = "version"
  /\ \E i \in 1 .. Len(files) - 1 :
       \E n \in 1 .. files[i].size - 1 : files' = [files EXCEPT ![i].size = n]
  /\ UNCHANGED <<kind, listing>>

\* The roots of the last file are damaged.
LoseTable ==
  /\ kind = "version"
  /\ files' = [files EXCEPT ![Len(files)].table = NoTable]
  /\ UNCHANGED <<kind, listing>>

Next == AddFile \/ Compact \/ LoseTable

Spec == Init /\ [][Next]_vars

-----------------------------------------------------------------------------
\* find_split_parts

\* Mutation of Ordered: as the directory lists them.
AsListed(names) == names

Ordered(names) == SortSeq(names, LAMBDA a, b : a.num < b.num)

\* Of a path, the files it belongs with.
FindSplitParts(path) ==
  LET main  == SelectSeq(listing, LAMBDA c : c = Name(path.stem, Main))
      parts == SelectSeq(listing, LAMBDA c : c.stem = path.stem /\ c.num # Main)
  IN  IF parts # <<>> /\ main # <<>> THEN main \o Ordered(parts) ELSE <<path>>

-----------------------------------------------------------------------------
\* _volume_offsets and _stitch, of one or more files of these sizes

Plausible(table, expected) ==
  /\ table # NoTable
  /\ Len(table) = expected
  /\ table[1] = 0
  /\ \A i \in 1 .. expected - 1 : table[i] < table[i + 1]

\* No file starts before the one before it ends.
Disjoint(table) ==
  \A i \in 1 .. Len(files) - 1 : table[i] + files[i].size <= table[i + 1]

Concatenated ==
  [i \in DOMAIN files |-> FoldLeft(LAMBDA n, f : n + f.size, 0, SubSeq(files, 1, i - 1))]

\* Mutation of Offsets: without a look at where files end.
OffsetsByTable ==
  LET table == files[Len(files)].table
  IN  IF Len(files) > 1 /\ Plausible(table, Len(files)) THEN table ELSE Concatenated

Offsets ==
  LET table == files[Len(files)].table
  IN  IF Len(files) > 1 /\ Plausible(table, Len(files)) /\ Disjoint(table)
      THEN table
      ELSE Concatenated

Piece(at, size, file) == [at |-> at, size |-> size, file |-> file]
Zeros == 0

\* The pieces of the page store: each file, and zeros before it up to where the one before
\* ends.
Stitch ==
  FlattenSeq([i \in DOMAIN files |->
    LET position == IF i = 1 THEN 0 ELSE Offsets[i - 1] + files[i - 1].size
    IN  (IF Offsets[i] > position
         THEN <<Piece(position, Offsets[i] - position, Zeros)>>
         ELSE <<>>)
        \o <<Piece(Offsets[i], files[i].size, i)>>])

-----------------------------------------------------------------------------

\* Every variable has its type, and the pieces follow one another with no gap between them.
TypeOK ==
  /\ kind \in {"split", "version"}
  /\ \A i \in DOMAIN files : files[i].size \in 1 .. files[i].span
  /\ Len(files) \in 1 .. MaxFiles
  /\ LET pieces == Stitch
     IN  \A i \in DOMAIN pieces :
           pieces[i].at = IF i = 1 THEN 0 ELSE pieces[i - 1].at + pieces[i - 1].size

\* Any file of an archive leads to all of them, in the order they were written, whatever
\* order the directory lists them in and whatever else is in it.
FindsSet ==
  \A i \in 0 .. Len(files) - 1 :
    FindSplitParts(Name(Stems[1], i)) = [k \in 1 .. Len(files) |-> Name(Stems[1], k - 1)]

Whole(i) == files[i].size = files[i].span

\* Every page is found at its address, and every address leads to the page that is there or
\* to zeros: also after cleanups, unless the table of the set is lost as well.
PagesInPlace ==
  \/ kind = "version" /\ files[Len(files)].table # NoTable
  \/ \A i \in DOMAIN files : Whole(i)
  => LET pieces == Stitch
     IN  \A i \in DOMAIN files :
           Piece(StartOf(i), files[i].size, i) \in ToSet(pieces)
=============================================================================
