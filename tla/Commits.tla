------------------------------ MODULE Commits ------------------------------
(***************************************************************************)
(* What is left by writers that still add to their archives, that crashed, *)
(* or that clean up after themselves: the page store of a TIBX archive     *)
(* (LiveRoot), its chain of backups (Backups), the files of one that is    *)
(* more than one file (SplitSet), and the snapshot slots of a VBK file     *)
(* (VbkSlots).  They have no state in common; one of them is looked at,    *)
(* and the others stay as they are at the start.                           *)
(***************************************************************************)
EXTENDS LiveRoot, Backups

CONSTANTS Sizes, MaxFiles, Stems, NoTable

VARIABLES
  opened, (* "page store", "chain", "set" or "slots" *)
  slots, writing,
  kind, files, listing

Set == INSTANCE SplitSet
Vbk == INSTANCE VbkSlots

pageVars == <<archive, pages, page_count, writer, damaged>>
slotsVars == <<slots, writing>>
setVars == <<kind, files, listing>>
openedVars == <<opened, pageVars, crashes, slotsVars, setVars, chainVars>>

OpenedInit ==
  /\ opened \in {"page store", "chain", "set", "slots"}
  /\ StoreInit
  /\ opened = "page store" \/ archive = CHOOSE a \in Archives : TRUE
  /\ Vbk!Init
  /\ Set!Init
  /\ opened = "set" \/ (kind = "split" /\ files[1].size = CHOOSE n \in Sizes : TRUE)
  /\ ChainInit

OpenedNext ==
  \/ opened = "page store" /\ StoreNext /\ UNCHANGED <<opened, slotsVars, setVars, chainVars>>
  \/ opened = "set" /\ Set!Next
       /\ UNCHANGED <<opened, pageVars, crashes, slotsVars, chainVars>>
  \/ opened = "slots" /\ Vbk!Next /\ UNCHANGED <<opened, pageVars, setVars, chainVars>>
  \/ opened = "chain" /\ ChainNext
       /\ UNCHANGED <<opened, pageVars, crashes, slotsVars, setVars>>

OpenedSpec == OpenedInit /\ [][OpenedNext]_openedVars

-----------------------------------------------------------------------------

\* Every variable has its type; a VBK file that had a snapshot can be opened, the pieces of a
\* set follow one another with no gap, and recovery points are in order.
OpenedTypeOK ==
  CASE opened = "page store" -> StoreTypeOK
    [] opened = "chain" -> ChainTypeOK
    [] opened = "set" -> Set!TypeOK
    [] opened = "slots" -> Vbk!TypeOK

\* Commits are atomic to whoever opens a page store, wherever the writer is in one and
\* wherever it crashes: the live root moves from one commit to the next, never back, and is
\* never one of a commit that was torn.  (One that decays may go back: of that
\* BadPageCostsOneCommit tells.)
Found == IF opened = "page store" /\ ~archive.decays THEN CommitFound ELSE 1
Log == INSTANCE CommitLog WITH live <- Found
CommitsAtomic == Log!Spec

\* A snapshot is taken whole or not at all: whoever opens a VBK file finds the last one that
\* was completed, wherever the writer is and wherever it crashed.
SnapshotsAtomic == Vbk!SnapshotsAtomic

\* Any file of a TIBX set leads to all of them, in the order they were written, and every page
\* of the set is found at its address, also after cleanups.
SetInPlace == opened = "set" => Set!FindsSet /\ Set!PagesInPlace
=============================================================================
