------------------------------ MODULE LiveRoot ------------------------------
(***************************************************************************)
(* The page store of tibx/page.py: finding the live commit root of an      *)
(* archive its writer was still appending to, crashed on, or that was      *)
(* damaged since.                                                          *)
(*                                                                         *)
(* The reader is PageStore.live_root and what it calls: operators of the   *)
(* pages.  The writer is not part of the repository; its commit protocol   *)
(* is what page.py and its tests say of it: an ARCH header, then the       *)
(* commit info (ARCI) page after it, and in "rewrite" mode then page 2     *)
(* (CI0), rewritten to name the new commit.  An offset is a page number.   *)
(***************************************************************************)
EXTENDS Integers, FiniteSets

CONSTANTS
  Archives,   (* the kinds of archive: records of four flags,              *)
              (*   rewrite:  page 2 is rewritten after each commit         *)
              (*   reuse:    freed pages are written again                 *)
              (*   tornCi0:  a crash can leave page 2 torn                 *)
              (*   decays:   pages go bad after they were written          *)
  MaxPages,   (* bounds the archive                                        *)
  MaxCommits, (* bounds the writer                                         *)
  MaxCrashes, (* bounds the crashes                                        *)
  MaxDamage   (* bounds the pages damaged afterwards                       *)

VARIABLES
  archive,    (* the kind of this archive                                  *)
  pages,      (* page number :> page                                       *)
  page_count,
  writer,     (* what the writer does next                                 *)
  crashes,
  damaged

storeVars == <<archive, pages, page_count, writer, crashes, damaged>>

PageNumber == 0 .. MaxPages - 1

FIRST_CI == 2

ASSUME BoundsAssumption ==
  /\ MaxPages \in Nat /\ MaxPages > FIRST_CI
  /\ MaxCommits \in Nat \ {0}
  /\ MaxCrashes \in Nat /\ MaxDamage \in Nat

ASSUME ArchivesAssumption ==
  Archives \subseteq [rewrite : BOOLEAN, reuse : BOOLEAN, tornCi0 : BOOLEAN, decays : BOOLEAN]

Data == [type |-> "data"]
Bad == [type |-> "bad"]      \* its checksum does not hold
Wiped == [type |-> "wiped"]  \* nor is its magic there

\* commit is the number of the commit the page was written for.
Arch(ci, commit) == [type |-> "arch", ci |-> ci, commit |-> commit]

Arci(ci0, arch, prev, commit) ==
  [type |-> "arci", ci0 |-> ci0, arch |-> arch, prev |-> prev, commit |-> commit]

\* What a page holds that is neither a header nor commit info.
Free == {Data, Bad, Wiped}

Pages ==
  Free
    \cup {Arch(c, n) : c \in PageNumber, n \in 1 .. MaxCommits}
    \cup {Arci(f, a, p, n) : f \in BOOLEAN, a \in PageNumber,
                             p \in PageNumber, n \in 1 .. MaxCommits}

-----------------------------------------------------------------------------
\* The reader.

None == -1

Exists(i) == 0 <= i /\ i < page_count

ValidArci(i) == Exists(i) /\ pages[i].type = "arci"
ValidArch(i) == Exists(i) /\ pages[i].type = "arch"

\* The root the commit info at page c describes, if it names that commit info.
RootOf(c) ==
  LET a == pages[c].arch
  IN  IF ValidArch(a) /\ pages[a].ci = c THEN a ELSE None

\* A scan backward from the end of the file finds the highest page.
LastOf(S) == IF S = {} THEN None ELSE CHOOSE i \in S : \A j \in S : j <= i

LastCi == LastOf({i \in PageNumber : ValidArci(i)})
LastArch == LastOf({i \in PageNumber : ValidArch(i)})

HasCi0 == ValidArci(FIRST_CI) /\ pages[FIRST_CI].ci0

\* The root of the commit CI0 names: the commit info it points to must be there and
\* describe the same root.
RootOfCi0 ==
  LET ci0 == pages[FIRST_CI]
  IN  IF HasCi0 /\ ValidArci(ci0.prev) /\ pages[ci0.prev].arch = ci0.arch
      THEN RootOf(ci0.prev)
      ELSE None

RootOfLastCi == IF LastCi = None THEN None ELSE RootOf(LastCi)

\* Mutations of live_root: without the scan for commit info, and without the one for a header.
LiveRootWithoutCiScan == IF RootOfCi0 # None THEN RootOfCi0 ELSE LastArch

LiveRootWithoutArchScan == IF RootOfCi0 # None THEN RootOfCi0 ELSE RootOfLastCi

\* None stands for the CorruptArchiveError.
live_root ==
  IF RootOfCi0 # None THEN RootOfCi0
  ELSE IF RootOfLastCi # None THEN RootOfLastCi
  ELSE LastArch

LiveCommit == pages[live_root].commit

\* An archive whose first page does not start as a header does is refused before its root is
\* looked for (InvalidArchiveError).  Whether that page's checksum holds is not looked at.
Opens == pages[0] # Wiped

-----------------------------------------------------------------------------
\* The writer.

Idle == [step |-> "idle"]

StoreInit ==
  /\ archive \in Archives
  /\ pages = [i \in PageNumber |->
                CASE i = 0 -> Arch(FIRST_CI, 1)
                  [] i = FIRST_CI -> Arci(archive.rewrite, 0,
                                          IF archive.rewrite THEN FIRST_CI ELSE 0, 1)
                  [] OTHER -> Data]
  /\ page_count = FIRST_CI + 1
  /\ writer = Idle
  /\ crashes = 0
  /\ damaged = 0

\* Pages of what is backed up, and of the trees that index it.
WriteData ==
  /\ writer = Idle
  /\ page_count < MaxPages
  /\ page_count' = page_count + 1
  /\ UNCHANGED <<archive, pages, writer, crashes, damaged>>

\* Where a header and the commit info after it can go.
FreePlaces ==
  {a \in FIRST_CI + 1 .. MaxPages - 2 :
     \/ a = page_count
     \/ /\ archive.reuse
        /\ a + 1 < page_count
        /\ pages[a] \in Free /\ pages[a + 1] \in Free}

\* Mutation of Written: the archive grows with every page written.
WrittenAndGrown(i, p) ==
  /\ pages' = [pages EXCEPT ![i] = p]
  /\ page_count' = page_count + 1

Written(i, p) ==
  /\ pages' = [pages EXCEPT ![i] = p]
  /\ page_count' = IF i < page_count THEN page_count ELSE i + 1

\* The writer goes on from the root it finds, the way the reader does.
WriteArch ==
  /\ writer = Idle
  /\ damaged = 0
  /\ LiveCommit < MaxCommits
  /\ \E a \in FreePlaces :
       /\ Written(a, Arch(a + 1, LiveCommit + 1))
       /\ writer' = [step |-> "ci", arch |-> a, commit |-> LiveCommit + 1,
                     prev |-> pages[live_root].ci]
  /\ UNCHANGED <<archive, crashes, damaged>>

WriteCi ==
  /\ writer.step = "ci"
  /\ Written(writer.arch + 1, Arci(FALSE, writer.arch, writer.prev, writer.commit))
  /\ writer' = IF archive.rewrite THEN [writer EXCEPT !.step = "ci0"] ELSE Idle
  /\ UNCHANGED <<archive, crashes, damaged>>

RewriteCi0 ==
  /\ writer.step = "ci0"
  /\ Written(FIRST_CI, Arci(TRUE, writer.arch, writer.arch + 1, writer.commit))
  /\ writer' = Idle
  /\ UNCHANGED <<archive, crashes, damaged>>

\* A crash leaves the page being written as it was, or torn; what the writer knew is
\* gone.  (While it is idle there is nothing to lose.)
Crash ==
  /\ writer # Idle
  /\ crashes < MaxCrashes
  /\ crashes' = crashes + 1
  /\ writer' = Idle
  /\ \/ UNCHANGED <<pages, page_count>>
     \/ writer.step = "ci" /\ Written(writer.arch + 1, Bad)
     \/ writer.step = "ci0" /\ archive.tornCi0 /\ Written(FIRST_CI, Bad)
  /\ UNCHANGED <<archive, damaged>>

\* A crash while the header itself is written.
CrashOnArch ==
  /\ writer = Idle
  /\ damaged = 0
  /\ LiveCommit < MaxCommits
  /\ crashes < MaxCrashes
  /\ crashes' = crashes + 1
  /\ \E a \in FreePlaces : Written(a, Bad)
  /\ UNCHANGED <<archive, writer, damaged>>

\* A page that held a header or commit info goes bad; with the magic of the first page, or not.
Damage ==
  /\ archive.decays
  /\ damaged < MaxDamage
  /\ damaged' = damaged + 1
  /\ \E i \in PageNumber :
       /\ Exists(i)
       /\ pages[i] \notin Free
       /\ \E p \in IF i = 0 THEN {Bad, Wiped} ELSE {Bad} : Written(i, p)
  /\ UNCHANGED <<archive, writer, crashes>>

WriterStep ==
  \/ WriteData
  \/ WriteArch
  \/ WriteCi
  \/ RewriteCi0

StoreNext ==
  \/ WriterStep
  \/ Crash
  \/ CrashOnArch
  \/ Damage

StoreSpec == StoreInit /\ [][StoreNext]_storeVars

-----------------------------------------------------------------------------

\* Every variable has its type.
StoreTypeOK ==
  /\ archive \in Archives
  /\ pages \in [PageNumber -> Pages]
  /\ page_count \in FIRST_CI + 1 .. MaxPages
  /\ writer \in {Idle}
       \cup [step : {"ci", "ci0"}, arch : PageNumber, commit : 1 .. MaxCommits,
             prev : PageNumber]
  /\ crashes \in 0 .. MaxCrashes
  /\ damaged \in 0 .. MaxDamage

\* A usable commit: a commit info page that holds and names a root that names it back.
Usable(c) == ValidArci(c) /\ RootOf(c) # None

\* A commit torn before its commit info was written is skipped: while any commit is
\* usable, the live root of an archive that opens is one of a usable commit.
TornCommitSkipped ==
  Opens /\ (\E c \in PageNumber : Usable(c)) => live_root # None /\ Usable(pages[live_root].ci)

\* The commit whoever opens the archive finds; 0 if it is one that was torn, or none.
CommitFound ==
  LET root == live_root
  IN  IF Opens /\ root # None /\ Usable(pages[root].ci) THEN pages[root].commit ELSE 0

\* The first page that goes bad after a backup costs at most the newest commit, unless a commit
\* was torn: the live root is still there, of that commit or the one before.  It costs the whole
\* archive only where it is page 0 that lost its magic: then the archive does not open.
BadPageCostsOneCommit ==
  [][damaged = 0 /\ damaged' > 0 /\ crashes = 0 /\ writer = Idle /\ LiveCommit > 1 =>
       IF Opens'
       THEN live_root' # None /\ LiveCommit' \in {LiveCommit - 1, LiveCommit}
       ELSE Opens /\ pages' = [pages EXCEPT ![0] = Wiped]]_storeVars
=============================================================================
