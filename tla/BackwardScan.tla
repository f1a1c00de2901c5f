---------------------------- MODULE BackwardScan ----------------------------
(***************************************************************************)
(* PageStore._pages_backward of tibx/page.py, with the loop of _last_ci or *)
(* _last_arch that takes pages from it: the last page of the archive that  *)
(* is looked for, found by reading runs of pages from its end, small ones  *)
(* first, each twice as long as the one before.                            *)
(***************************************************************************)
EXTENDS Integers

CONSTANTS
  PageCounts,            (* the sizes of archive looked at                 *)
  SCAN_CHUNK_MIN_PAGES,
  SCAN_CHUNK_MAX_PAGES

ASSUME PageCountsAssumption == PageCounts \subseteq Nat

ASSUME ChunkAssumption ==
  /\ SCAN_CHUNK_MIN_PAGES \in Nat \ {0}
  /\ SCAN_CHUNK_MAX_PAGES \in Nat
  /\ SCAN_CHUNK_MIN_PAGES <= SCAN_CHUNK_MAX_PAGES

VARIABLES
  page_count, (* whole pages in the archive when it was opened             *)
  wanted,     (* the pages the caller would take                           *)
  pc,         (* "head" of the outer loop, "page" in the run, "done"       *)
  end,        (* the pages from here on have been yielded                  *)
  count,      (* how long the next run is                                  *)
  start,      (* the first page of the run read last                       *)
  index,      (* the page to yield next                                    *)
  found       (* what the caller takes                                     *)

vars == <<page_count, wanted, pc, end, count, start, index, found>>

None == -1

Init ==
  /\ page_count \in PageCounts
  /\ wanted \in SUBSET (0 .. page_count - 1)
  /\ pc = "head"
  /\ end = page_count
  /\ count = SCAN_CHUNK_MIN_PAGES
  /\ start = page_count
  /\ index = page_count
  /\ found = None

\* Mutation of RunStart: a run may start before the archive.
RunStartUnbounded == end - count

RunStart == IF end - count > 0 THEN end - count ELSE 0

ReadRun ==
  /\ pc = "head"
  /\ end > 0
  /\ start' = RunStart
  /\ index' = end - 1
  /\ pc' = "page"
  /\ UNCHANGED <<page_count, wanted, end, count, found>>

Yield ==
  /\ pc = "page"
  /\ index >= start
  /\ index \notin wanted
  /\ index' = index - 1
  /\ UNCHANGED <<page_count, wanted, pc, end, count, start, found>>

\* The caller returns from inside its loop and drops the generator.
Take ==
  /\ pc = "page"
  /\ index >= start
  /\ index \in wanted
  /\ found' = index
  /\ pc' = "done"
  /\ UNCHANGED <<page_count, wanted, end, count, start, index>>

\* Mutation of Doubled: eight times.
Octupled(n) ==
  IF 8 * n < SCAN_CHUNK_MAX_PAGES THEN 8 * n ELSE SCAN_CHUNK_MAX_PAGES

Doubled(n) ==
  IF 2 * n < SCAN_CHUNK_MAX_PAGES THEN 2 * n ELSE SCAN_CHUNK_MAX_PAGES

EndRunAt(e) ==
  /\ pc = "page"
  /\ index < start
  /\ end' = e
  /\ count' = Doubled(count)
  /\ pc' = "head"
  /\ UNCHANGED <<page_count, wanted, start, index, found>>

\* Mutation of EndRun: the page before the run is left out.
EndRunBefore == EndRunAt(IF start > 0 THEN start - 1 ELSE 0)

EndRun == EndRunAt(start)

Exhausted ==
  /\ pc = "head"
  /\ end <= 0
  /\ pc' = "done"
  /\ UNCHANGED <<page_count, wanted, end, count, start, index, found>>

Step == ReadRun \/ Yield \/ Take \/ EndRun \/ Exhausted

Done == pc = "done" /\ UNCHANGED vars

Next == Step \/ Done

\* A sequential function, called and run to its end.
Spec == Init /\ [][Next]_vars /\ WF_vars(Step)

-----------------------------------------------------------------------------

\* Every run lies in the archive, or read_run would raise CorruptArchiveError on a sound
\* archive; every page yielded lies in the run.
TypeOK ==
  /\ page_count \in Nat
  /\ wanted \in SUBSET (0 .. page_count - 1)
  /\ pc \in {"head", "page", "done"}
  /\ end \in 0 .. page_count
  /\ count \in SCAN_CHUNK_MIN_PAGES .. SCAN_CHUNK_MAX_PAGES
  /\ start \in 0 .. end
  /\ pc = "page" => start < end /\ index \in start - 1 .. end - 1
  /\ index \in -1 .. page_count
  /\ found \in -1 .. page_count - 1

\* The scan returns the last page that is wanted, and None only when there is none: no
\* page between two runs is left out, and no run hides a later page.
FindsLast ==
  pc = "done" =>
    \/ found = None /\ wanted = {}
    \/ found \in wanted /\ \A i \in wanted : i <= found

\* Doubling costs little: the scan reads less than twice the pages that had to be read,
\* and one smallest run.
ReadsLittle ==
  pc = "done" /\ found # None =>
    page_count - start < 2 * (page_count - found) + SCAN_CHUNK_MIN_PAGES
=============================================================================
