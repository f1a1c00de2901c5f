----------------------------- MODULE MCCommits -----------------------------
(***************************************************************************)
(* Small archives of each kind: page stores that commit atomically, and    *)
(* others that decay; a set of files in a directory with the files of      *)
(* another; a chain of up to three backups of two volumes, whose extents   *)
(* overlap.                                                                *)
(***************************************************************************)
EXTENDS Commits

Kind(rewrite, reuse, tornCi0, decays) ==
  [rewrite |-> rewrite, reuse |-> reuse, tornCi0 |-> tornCi0, decays |-> decays]

\* Page 2 rewritten, and either freed pages written again or page 2 torn by a crash.
\* With both at once an older commit may be taken for the newest, as _last_ci says.
AtomicArchives ==
  {Kind(FALSE, FALSE, FALSE, FALSE), Kind(TRUE, TRUE, FALSE, FALSE),
   Kind(TRUE, FALSE, TRUE, FALSE)}

GrowingArchives == {Kind(FALSE, FALSE, FALSE, TRUE), Kind(TRUE, FALSE, FALSE, TRUE)}

MCArchives == AtomicArchives \cup GrowingArchives

MCStems == <<"Backup", "Other">>

Extent(v, o, l, s) == [volume |-> v, offset |-> o, length |-> l, slice |-> s, extent |-> 1]

MCExtentKeys ==
  <<Extent(1, 0, 1, 2), Extent(1, 0, 1, 3), Extent(1, 0, 2, 1), Extent(1, 0, 2, 2),
    Extent(1, 0, 2, 3), Extent(1, 1, 1, 2), Extent(2, 0, 1, 1), Extent(2, 0, 1, 3)>>

MCKeyCount == Len(MCExtentKeys)

\* A number for each volume and offset, that has their order.
MCPosition ==
  [k \in 1 .. MCKeyCount |->
     Cardinality({<<MCExtentKeys[j].volume, MCExtentKeys[j].offset>> : j \in 1 .. k})]

MCValues == 0 .. MaxSlices
=============================================================================
