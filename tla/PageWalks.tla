----------------------------- MODULE PageWalks -----------------------------
(***************************************************************************)
(* The functions that go over the pages of an archive: one call of the     *)
(* backward scan (BackwardScan), one header put together (HeaderBody), one *)
(* walk of a tree (TreeWalk), or one page of records or mem-tree decoded   *)
(* (CellStream).  None of them keeps state beyond its call.                *)
(***************************************************************************)
EXTENDS BackwardScan, FiniteSets, Sequences

CONSTANTS Archives, root_page, WALK_READ_AHEAD_PAGES, CellLists, KeyLength, ValueLength,
          LSM_CELL_GROUP_MAX, BlockWords, LZ4_MAX_DISTANCE, Headers, BodyWords, FixedWords,
          CTREE_SLOTS

ASSUME ReadAheadAssumption == WALK_READ_AHEAD_PAGES \in Nat \ {0}

ASSUME ArchivesAssumption ==
  \A a \in Archives :
    /\ DOMAIN a \subseteq Nat /\ IsFiniteSet(DOMAIN a)
    /\ \A p \in DOMAIN a : a[p].type \in {"ldir", "leaf", "other"} /\ a[p].children \in Seq(Int)

ASSUME RootAssumption == root_page \in Int

VARIABLES
  call, (* "scan", "header", "walk" or "cells" *)
  pages, stack, visited, ahead, current, leaves, outcome, reads,
  source, out, block, pos, group, cells, state,
  header, next_index, body, slots, slot_pos, parsed

walkVars == <<pages, stack, visited, ahead, current, leaves, outcome, reads>>
cellVars == <<source, out, block, pos, group, cells, state>>
headerVars == <<header, next_index, body, slots, slot_pos, parsed>>
callVars == <<call, vars, walkVars, cellVars, headerVars>>

Walk == INSTANCE TreeWalk
Cells == INSTANCE CellStream
Header == INSTANCE HeaderBody

\* A variable of a function that is not called; those of the scan are as after one of no
\* pages.
NotCalled == "not called"

NoScan ==
  /\ page_count = 0 /\ wanted = {} /\ pc = "done" /\ end = 0
  /\ count = SCAN_CHUNK_MIN_PAGES /\ start = 0 /\ index = 0 /\ found = None
NoWalk ==
  /\ pages = NotCalled /\ stack = NotCalled /\ visited = NotCalled /\ ahead = NotCalled
  /\ current = NotCalled /\ leaves = NotCalled /\ outcome = NotCalled /\ reads = NotCalled
NoCells ==
  /\ source = NotCalled /\ out = NotCalled /\ block = NotCalled /\ pos = NotCalled
  /\ group = NotCalled /\ cells = NotCalled /\ state = NotCalled
NoHeader ==
  /\ header = NotCalled /\ next_index = NotCalled /\ body = NotCalled
  /\ slots = NotCalled /\ slot_pos = NotCalled /\ parsed = NotCalled

CallInit ==
  \/ call = "scan" /\ Init /\ NoWalk /\ NoCells /\ NoHeader
  \/ call = "walk" /\ Walk!Init /\ NoScan /\ NoCells /\ NoHeader
  \/ call = "cells" /\ Cells!Init /\ NoScan /\ NoWalk /\ NoHeader
  \/ call = "header" /\ Header!Init /\ NoScan /\ NoWalk /\ NoCells

CallNext ==
  \/ call = "scan" /\ Next /\ UNCHANGED <<call, walkVars, cellVars, headerVars>>
  \/ call = "walk" /\ Walk!Next /\ UNCHANGED <<call, vars, cellVars, headerVars>>
  \/ call = "cells" /\ Cells!Next /\ UNCHANGED <<call, vars, walkVars, headerVars>>
  \/ call = "header" /\ Header!Next /\ UNCHANGED <<call, vars, walkVars, cellVars>>

CallSpec == CallInit /\ [][CallNext]_callVars /\ WF_callVars(CallNext)

-----------------------------------------------------------------------------

\* Every variable of the scan, the walk, the decoding or the header has its type; no run of
\* the scan leaves the archive.
CallTypeOK ==
  /\ TypeOK
  /\ call = "walk" => Walk!TypeOK
  /\ call = "cells" => Cells!TypeOK
  /\ call = "header" => Header!TypeOK

\* In a tree no page is read twice, and nothing is read ahead in vain.
ReadOnce == call = "walk" => Walk!ReadOnce

\* A walk that ends yields every leaf of the tree, in key order.
YieldsInKeyOrder == call = "walk" => Walk!YieldsInKeyOrder

\* The walk refuses exactly what is not a tree.
RefusesOnlyNonTrees == call = "walk" => Walk!RefusesOnlyNonTrees


\* A header that is on several pages is read as it was written; one of which a page is lost
\* is read as far as it goes.
HeaderAsWritten == call = "header" => Header!HeaderAsWritten

\* Every call ends: the scan also where there is no such page, the walk on any pages
\* whatever, cycles included, the decoding on any stream, the header on any pages.
CallsTerminate ==
  <>(/\ pc = "done" /\ outcome # "walking" /\ state \notin {"stream", "cells"}
     /\ parsed \notin {"pages", "slots"})
=============================================================================
