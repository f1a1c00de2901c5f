--------------------------- MODULE CommitsProofs ---------------------------
(***************************************************************************)
(* That what the writers of Commits complete is found whole, wherever they *)
(* are in what they write next and wherever they crash, for any number of  *)
(* pages, commits, snapshots and crashes.                                  *)
(***************************************************************************)
EXTENDS Commits, TLAPS

(***************************************************************************)
(* The commits of a TIBX page store are atomic to whoever opens it         *)
(* (LiveRoot implements CommitLog), and one page that goes bad costs one   *)
(* commit.                                                                 *)
(*                                                                         *)
(* A commit is its header and the commit info that names it.  The last one *)
(* that was completed is named by page 2, or, where page 2 names none, by  *)
(* the last commit info of the file.                                       *)
(***************************************************************************)


\* Not both at once: freed pages written again, and a page 2 that does not say which commit
\* is the last one.
AtomicKinds == \A a \in Archives : a.reuse => a.rewrite /\ ~a.tornCi0

\* The pages that hold a header, and the ones that hold commit info.
Heads == {i \in PageNumber : ValidArch(i)}
Infos == {i \in PageNumber : ValidArci(i)}

LastCiIs(c) == \A i \in Infos : i <= c

\* The header at page r is the root of commit n.
IsCommit(r, n) ==
  /\ r \in Heads /\ pages[r].commit = n
  /\ pages[r].ci \in Infos /\ pages[pages[r].ci].arch = r

ByCi0(r, n) == archive.rewrite /\ pages[FIRST_CI] = Arci(TRUE, r, pages[r].ci, n)

\* Page 2 names a commit.
NamedByCi0 == FIRST_CI \in Infos /\ pages[FIRST_CI].ci0

ByLastCi(r) == ~archive.reuse /\ ~NamedByCi0 /\ LastCiIs(pages[r].ci)

Names(r, n) == IsCommit(r, n) /\ (ByCi0(r, n) \/ ByLastCi(r))

\* What the writer has written of the next commit, which no free page holds anything of.
WritesInfo(n) ==
  writer.step = "ci" =>
    /\ writer.arch > FIRST_CI
    /\ n < MaxCommits /\ writer.commit = n + 1
    /\ pages[writer.arch] = Arch(writer.arch + 1, n + 1)
    /\ pages[writer.arch + 1] \in Free
    /\ ~archive.reuse => writer.arch + 1 = page_count

\* With its commit info written the commit counts at once if page 2 names none.
WritesCi0(n) ==
  writer.step = "ci0" =>
    /\ archive.rewrite
    /\ writer.arch > FIRST_CI
    /\ writer.commit = n \/ (n < MaxCommits /\ writer.commit = n + 1)
    /\ IsCommit(writer.arch, writer.commit) /\ pages[writer.arch].ci = writer.arch + 1
    /\ ~archive.reuse => LastCiIs(writer.arch + 1)

Placed ==
  /\ \A i \in PageNumber : i >= page_count => pages[i] = Data
  /\ writer # Idle => writer.arch + 1 \in PageNumber /\ writer.arch + 1 <= page_count

At(r, n) == Names(r, n) /\ WritesInfo(n) /\ WritesCi0(n)

StoreInv ==
  /\ StoreTypeOK
  /\ Placed
  /\ ~archive.decays => damaged = 0
  /\ ~archive.reuse \/ (archive.rewrite /\ ~archive.tornCi0)
  /\ damaged = 0 => Opens /\ \E r \in PageNumber, n \in 1 .. MaxCommits : At(r, n)

-----------------------------------------------------------------------------

\* What the fields of a page are.
LEMMA PageFields ==
  ASSUME StoreTypeOK, NEW i \in PageNumber
  PROVE  /\ pages[i].type = "arch" => pages[i].ci \in PageNumber /\ pages[i].commit \in 1 .. MaxCommits
         /\ pages[i].type = "arci" =>
              /\ pages[i].ci0 \in BOOLEAN /\ pages[i].arch \in PageNumber
              /\ pages[i].prev \in PageNumber
         /\ pages[i] \in Free => i \notin Heads /\ i \notin Infos
         /\ i < page_count /\ i \notin Heads /\ i \notin Infos => pages[i] \in Free
<1>1. pages[i] \in Pages
  BY DEF StoreTypeOK
<1>2. CASE pages[i] \in Free
  BY <1>2 DEF Free, Data, Bad, Wiped, Heads, Infos, ValidArch, ValidArci
<1>3. CASE \E c \in PageNumber, n \in 1 .. MaxCommits : pages[i] = Arch(c, n)
  BY <1>3 DEF Arch, Free, Data, Bad, Wiped, Heads, ValidArch, Exists, PageNumber
<1>4. CASE \E f \in BOOLEAN, a \in PageNumber, p \in PageNumber, n \in 1 .. MaxCommits :
             pages[i] = Arci(f, a, p, n)
  BY <1>4 DEF Arci, Free, Data, Bad, Wiped, Infos, ValidArci, Exists, PageNumber
<1> QED
  BY <1>1, <1>2, <1>3, <1>4 DEF Pages

\* What writers write is a page.
LEMMA InfoPage ==
  ASSUME NEW a \in PageNumber, NEW p \in PageNumber, NEW n \in 1 .. MaxCommits
  PROVE  Arci(FALSE, a, p, n) \in Pages /\ Arci(TRUE, a, p, n) \in Pages
<1>1. \A f \in BOOLEAN : Arci(f, a, p, n) \in Pages
  BY DEF Pages
<1> QED
  BY <1>1

\* A header names its commit info.
LEMMA HeadFields ==
  ASSUME StoreTypeOK, NEW r \in Heads
  PROVE  r \in PageNumber /\ pages[r].ci \in PageNumber /\ pages[r].commit \in 1 .. MaxCommits
BY PageFields DEF Heads, ValidArch

\* The reader finds the last commit that was completed.
LEMMA FindsCommit ==
  ASSUME StoreTypeOK, NEW r \in PageNumber, NEW n \in 1 .. MaxCommits, Names(r, n)
  PROVE  live_root = r /\ LiveCommit = n /\ (Opens => CommitFound = n)
<1> DEFINE c == pages[r].ci
<1>1. /\ c \in PageNumber /\ c \in Infos /\ ValidArci(c) /\ pages[c].arch = r
      /\ ValidArch(r) /\ pages[r].commit = n
  BY HeadFields DEF Names, IsCommit, Heads, Infos
<1>2. RootOf(c) = r
  BY <1>1 DEF RootOf
<1>3. r # None
  BY DEF PageNumber, None
<1>4. HasCi0 <=> NamedByCi0
  BY BoundsAssumption DEF HasCi0, NamedByCi0, Infos, PageNumber, FIRST_CI
<1>5. live_root = r
  <2>1. CASE ByCi0(r, n)
    <3>1. pages[FIRST_CI] = Arci(TRUE, r, c, n)
      BY <2>1 DEF ByCi0
    <3>2. FIRST_CI < page_count
      BY DEF StoreTypeOK, FIRST_CI
    <3>3. HasCi0
      BY <3>1, <3>2 DEF HasCi0, ValidArci, Exists, Arci, FIRST_CI
    <3>4. RootOfCi0 = r
      BY <1>1, <1>2, <3>1, <3>3 DEF RootOfCi0, Arci
    <3> QED
      BY <1>3, <3>4 DEF live_root
  <2>2. CASE ByLastCi(r)
    <3>1. RootOfCi0 = None
      BY <1>4, <2>2 DEF ByLastCi, RootOfCi0
    <3>2. LastCi = c
      <4>1. \A j \in Infos : j <= c
        BY <2>2 DEF ByLastCi, LastCiIs
      <4>2. \A i \in Infos : (\A j \in Infos : j <= i) => i = c
        BY <1>1, <4>1 DEF PageNumber, Infos
      <4>3. (CHOOSE i \in Infos : \A j \in Infos : j <= i) = c
        BY <1>1, <4>1, <4>2
      <4>4. LastCi = LastOf(Infos)
        BY DEF LastCi, Infos
      <4> QED
        BY <1>1, <4>3, <4>4 DEF LastOf
    <3>3. RootOfLastCi = r
      BY <1>1, <1>2, <3>2 DEF RootOfLastCi, None, PageNumber
    <3> QED
      BY <1>3, <3>1, <3>3 DEF live_root
  <2> QED
    BY <2>1, <2>2 DEF Names
<1> QED
  BY <1>1, <1>2, <1>3, <1>5 DEF LiveCommit, CommitFound, Usable

\* What writing a page changes, and what it leaves.
LEMMA WrittenPage ==
  ASSUME StoreTypeOK, NEW i \in PageNumber, i <= page_count, NEW p \in Pages, Written(i, p)
  PROVE  /\ pages' \in [PageNumber -> Pages]
         /\ page_count' \in FIRST_CI + 1 .. MaxPages
         /\ page_count <= page_count'
         /\ i < page_count'
         /\ pages'[i] = p
         /\ \A j \in PageNumber : j # i => pages'[j] = pages[j] /\ (j < page_count' <=> j < page_count)
BY BoundsAssumption DEF StoreTypeOK, Written, PageNumber, FIRST_CI

\* A page that is written is what it was written as, the others are what they were.
LEMMA ValidAfter ==
  ASSUME StoreTypeOK, NEW i \in PageNumber, i <= page_count, NEW p \in Pages, Written(i, p)
  PROVE  /\ Heads' = IF p.type = "arch" THEN Heads \cup {i} ELSE Heads \ {i}
         /\ Infos' = IF p.type = "arci" THEN Infos \cup {i} ELSE Infos \ {i}
BY WrittenPage DEF Heads, Infos, ValidArch, ValidArci, Exists, PageNumber

\* A page that no commit uses can be written.
LEMMA CommitKept ==
  ASSUME StoreTypeOK, NEW r \in PageNumber, NEW n \in 1 .. MaxCommits, IsCommit(r, n),
         NEW i \in PageNumber, i <= page_count, NEW p \in Pages, Written(i, p),
         i # r, i # pages[r].ci
  PROVE  IsCommit(r, n)' /\ pages'[r] = pages[r]
<1>1. pages[r].ci \in PageNumber
  BY HeadFields DEF IsCommit
<1>2. pages'[r] = pages[r] /\ pages'[pages[r].ci] = pages[pages[r].ci]
  BY <1>1, WrittenPage
<1>3. r \in Heads' /\ pages[r].ci \in Infos'
  BY ValidAfter DEF IsCommit
<1> QED
  BY <1>1, <1>2, <1>3 DEF IsCommit

\* A commit stays the last one when a page no commit uses is written, but with commit info
\* only if page 2 names the commit.
LEMMA FreeWrite ==
  ASSUME StoreTypeOK, NEW r \in PageNumber, NEW n \in 1 .. MaxCommits, Names(r, n),
         NEW i \in PageNumber, i <= page_count, NEW p \in Pages, Written(i, p),
         i > FIRST_CI, i \notin Heads, i \notin Infos, archive' = archive,
         p.type # "arci" \/ ByCi0(r, n)
  PROVE  Names(r, n)' /\ pages'[r] = pages[r]
<1>1. IsCommit(r, n)' /\ pages'[r] = pages[r]
  BY CommitKept DEF Names, IsCommit
<1>2. FIRST_CI \in PageNumber /\ FIRST_CI # i
  BY BoundsAssumption DEF PageNumber, FIRST_CI
<1>3. pages'[FIRST_CI] = pages[FIRST_CI]
  BY <1>2, WrittenPage
<1>4. ByCi0(r, n) => ByCi0(r, n)'
  BY <1>1, <1>3 DEF ByCi0
<1>5. p.type # "arci" => Infos' = Infos
  BY ValidAfter
<1>6. ByLastCi(r) /\ p.type # "arci" => ByLastCi(r)'
  BY <1>1, <1>3, <1>5 DEF ByLastCi, LastCiIs, NamedByCi0
<1> QED
  BY <1>1, <1>4, <1>6 DEF Names

\* Where the writer puts a header no commit has a page.
LEMMA FreePlace ==
  ASSUME StoreTypeOK, Placed, NEW a \in FreePlaces
  PROVE  /\ a \in PageNumber /\ a + 1 \in PageNumber /\ a <= page_count /\ a > FIRST_CI
         /\ a \notin Heads /\ a \notin Infos
         /\ pages[a + 1] \in Free
         /\ a = page_count \/ a + 1 < page_count
         /\ ~archive.reuse => a = page_count
<1>1. a \in PageNumber /\ a + 1 \in PageNumber /\ a > FIRST_CI
  BY BoundsAssumption DEF FreePlaces, PageNumber, FIRST_CI
<1>2. page_count \in Nat
  BY BoundsAssumption DEF StoreTypeOK, FIRST_CI
<1>3. CASE a = page_count
  BY <1>1, <1>2, <1>3 DEF Free, Placed, Heads, Infos, ValidArch, ValidArci, Exists, PageNumber
<1>4. CASE archive.reuse /\ a + 1 < page_count /\ pages[a] \in Free /\ pages[a + 1] \in Free
  BY <1>1, <1>2, <1>4, PageFields DEF PageNumber
<1> QED
  BY <1>1, <1>3, <1>4 DEF FreePlaces

\* A header is written, or half of it: nothing names it yet.
LEMMA HeadStep ==
  ASSUME StoreTypeOK, Placed, NEW r \in PageNumber, NEW n \in 1 .. MaxCommits, At(r, n),
         WriteArch \/ CrashOnArch
  PROVE  StoreTypeOK' /\ Placed' /\ At(r, n)'
<1>0. LiveCommit = n /\ live_root = r
  BY FindsCommit DEF At
<1>1. PICK a \in FreePlaces :
        \/ /\ n < MaxCommits /\ Written(a, Arch(a + 1, n + 1)) /\ UNCHANGED crashes
           /\ writer' = [step |-> "ci", arch |-> a, commit |-> n + 1, prev |-> pages[r].ci]
        \/ Written(a, Bad) /\ writer' = Idle /\ crashes' \in 0 .. MaxCrashes
  BY <1>0, BoundsAssumption DEF WriteArch, CrashOnArch, StoreTypeOK
<1>2. writer = Idle /\ UNCHANGED <<archive, damaged>>
  BY DEF WriteArch, CrashOnArch
<1>3. /\ a \in PageNumber /\ a + 1 \in PageNumber /\ a <= page_count /\ a > FIRST_CI
      /\ a \notin Heads /\ a \notin Infos /\ pages[a + 1] \in Free
      /\ a = page_count \/ a + 1 < page_count
      /\ ~archive.reuse => a = page_count
  BY FreePlace
<1>4. PICK p \in Pages : Written(a, p) /\ p.type # "arci" /\ (writer' = Idle \/ p = Arch(a + 1, n + 1))
  <2>1. n < MaxCommits => Arch(a + 1, n + 1) \in Pages /\ Arch(a + 1, n + 1).type # "arci"
    <3>1. n < MaxCommits => n + 1 \in 1 .. MaxCommits
      BY BoundsAssumption
    <3> QED
      BY <1>3, <3>1 DEF Pages, Arch
  <2>2. Bad \in Pages /\ Bad.type # "arci"
    BY DEF Pages, Free, Bad
  <2> QED
    BY <1>1, <2>1, <2>2
<1>5. Names(r, n)'
  BY <1>2, <1>3, <1>4, FreeWrite DEF At
<1>6. /\ pages' \in [PageNumber -> Pages] /\ page_count' \in FIRST_CI + 1 .. MaxPages
      /\ pages'[a] = p /\ \A j \in PageNumber : j # a => pages'[j] = pages[j]
      /\ a < page_count' /\ page_count <= page_count'
      /\ \A j \in PageNumber : j # a => (j < page_count' <=> j < page_count)
  BY <1>3, <1>4, WrittenPage
<1>7. a = page_count => page_count' = a + 1
  BY <1>4, BoundsAssumption DEF Written, StoreTypeOK, FIRST_CI
<1>8. StoreTypeOK'
  <2>1. pages[r].ci \in PageNumber
    BY HeadFields DEF At, Names, IsCommit
  <2>2. writer' \in {Idle} \cup [step : {"ci", "ci0"}, arch : PageNumber, commit : 1 .. MaxCommits,
                                 prev : PageNumber]
    BY <1>1, <1>3, <2>1, BoundsAssumption
  <2> QED
    BY <1>1, <1>2, <1>6, <2>2 DEF StoreTypeOK
<1>9. Placed'
  <2>1. \A i \in PageNumber : i >= page_count' => pages'[i] = Data
    BY <1>3, <1>6, BoundsAssumption DEF Placed, PageNumber, StoreTypeOK, FIRST_CI
  <2>2. writer' # Idle => writer'.arch = a
    BY <1>1
  <2>3. a + 1 <= page_count'
    BY <1>3, <1>6, <1>7, BoundsAssumption DEF StoreTypeOK, FIRST_CI, PageNumber
  <2> QED
    BY <1>3, <2>1, <2>2, <2>3 DEF Placed
<1>10. WritesInfo(n)' /\ WritesCi0(n)'
  <2>1. CASE writer' = Idle
    BY <2>1 DEF Idle, WritesInfo, WritesCi0
  <2>2. CASE writer' # Idle
    <3>1. /\ writer'.step = "ci" /\ writer'.arch = a /\ writer'.commit = n + 1 /\ n < MaxCommits
          /\ p = Arch(a + 1, n + 1)
      BY <1>1, <1>4, <2>2
    <3>2. pages'[a + 1] = pages[a + 1]
      BY <1>3, <1>6 DEF PageNumber
    <3> QED
      BY <1>2, <1>3, <1>6, <1>7, <3>1, <3>2 DEF WritesInfo, WritesCi0
  <2> QED
    BY <2>1, <2>2
<1> QED
  BY <1>5, <1>8, <1>9, <1>10 DEF At

\* A page of data hides nothing.
LEMMA WriteDataStep ==
  ASSUME StoreTypeOK, Placed, WriteData
  PROVE  StoreTypeOK' /\ Placed' /\ Heads' = Heads /\ Infos' = Infos
<1>1. /\ writer = Idle /\ page_count < MaxPages /\ page_count' = page_count + 1
      /\ UNCHANGED <<archive, pages, writer, crashes, damaged>>
  BY DEF WriteData
<1>2. page_count \in Nat /\ page_count \in PageNumber /\ pages[page_count] = Data
  BY <1>1, BoundsAssumption DEF StoreTypeOK, FIRST_CI, Placed, PageNumber
<1>3. StoreTypeOK'
  BY <1>1, BoundsAssumption DEF StoreTypeOK, FIRST_CI
<1>4. Placed'
  BY <1>1, <1>2 DEF Placed, PageNumber
<1>5. pages[page_count].type \notin {"arch", "arci"}
  BY <1>2 DEF Data
<1>6. \A j \in PageNumber : j # page_count => (j < page_count' <=> j < page_count)
  BY <1>1, <1>2 DEF PageNumber
<1> QED
  BY <1>1, <1>3, <1>4, <1>5, <1>6 DEF Heads, Infos, ValidArch, ValidArci, Exists

\* What is found stays what it is while pages stay what they are.
LEMMA FoundKept ==
  ASSUME NEW r, NEW n, Names(r, n), UNCHANGED <<archive, pages>>, Heads' = Heads, Infos' = Infos
  PROVE  Names(r, n)'
BY DEF Names, IsCommit, ByCi0, ByLastCi, NamedByCi0, LastCiIs

\* With the commit info written, the commit is found, unless page 2 still names the one before.
LEMMA WriteCiStep ==
  ASSUME StoreTypeOK, Placed, NEW r \in PageNumber, NEW n \in 1 .. MaxCommits, At(r, n), WriteCi,
         NEW a \in PageNumber, a = writer.arch
  PROVE  \/ ByCi0(r, n) /\ At(r, n)'
         \/ ~ByCi0(r, n) /\ n < MaxCommits /\ At(a, n + 1)'
<1>1. PICK p : /\ writer.step = "ci" /\ Written(a + 1, p) /\ UNCHANGED <<archive, crashes, damaged>>
               /\ p = Arci(FALSE, a, writer.prev, writer.commit)
               /\ writer' = IF archive.rewrite THEN [writer EXCEPT !.step = "ci0"] ELSE Idle
  BY DEF WriteCi
<1>2. /\ writer # Idle /\ a + 1 \in PageNumber /\ a + 1 <= page_count
      /\ writer.prev \in PageNumber /\ writer.commit \in 1 .. MaxCommits
      /\ writer \in [step : {"ci", "ci0"}, arch : PageNumber, commit : 1 .. MaxCommits, prev : PageNumber]
  BY <1>1 DEF StoreTypeOK, Idle, Placed
<1>3. /\ a > FIRST_CI /\ n < MaxCommits /\ writer.commit = n + 1
      /\ pages[a] = Arch(a + 1, n + 1)
      /\ pages[a + 1] \in Free
      /\ ~archive.reuse => a + 1 = page_count
  BY <1>1 DEF At, WritesInfo
<1>4. p \in Pages /\ p.type = "arci" /\ ~p.ci0 /\ p.arch = a
  <2>1. writer.prev \in PageNumber /\ writer.commit \in 1 .. MaxCommits
    BY <1>2
  <2>2. p = Arci(FALSE, a, writer.prev, writer.commit)
    BY <1>1
  <2>3. p \in Pages
    BY <2>1, <2>2, InfoPage
  <2> QED
    BY <2>2, <2>3 DEF Arci
<1>5. /\ pages' \in [PageNumber -> Pages] /\ page_count' \in FIRST_CI + 1 .. MaxPages
      /\ pages'[a + 1] = p /\ \A j \in PageNumber : j # a + 1 => pages'[j] = pages[j]
  BY <1>1, <1>2, <1>4, WrittenPage, ZenonT(60)
<1>6. a + 1 \notin Heads /\ a + 1 \notin Infos /\ a + 1 > FIRST_CI /\ a # a + 1
  BY <1>2, <1>3, PageFields DEF PageNumber, FIRST_CI
<1>7. Infos' = Infos \cup {a + 1} /\ Heads' = Heads
  <2>1. p.type # "arch"
    BY <1>4
  <2>2. Infos' = Infos \cup {a + 1} /\ Heads' = Heads \ {a + 1}
    BY <1>1, <1>2, <1>4, <2>1, ValidAfter
  <2> QED
    BY <1>6, <2>2
<1>8. pages'[a] = Arch(a + 1, n + 1) /\ pages'[a].ci = a + 1
  BY <1>3, <1>5, <1>6 DEF Arch
<1>9. IsCommit(a, n + 1)'
  <2>1. a \in Heads
    BY <1>2, <1>3, BoundsAssumption
    DEF Heads, ValidArch, Exists, Arch, PageNumber, StoreTypeOK, FIRST_CI
  <2> QED
    BY <1>4, <1>5, <1>7, <1>8, <2>1 DEF IsCommit, Arch
<1>10. ~archive.reuse => LastCiIs(a + 1)'
  <2> SUFFICES ASSUME ~archive.reuse, NEW j \in Infos'
               PROVE  j <= a + 1
    BY <1>1 DEF LastCiIs
  <2>1. j = a + 1 \/ j < page_count
    BY <1>7 DEF Infos, ValidArci, Exists
  <2> QED
    BY <1>2, <1>3, <1>7, <2>1 DEF PageNumber, Infos
<1>11. FIRST_CI \in PageNumber /\ FIRST_CI # a + 1
  BY <1>6, BoundsAssumption DEF PageNumber, FIRST_CI
<1>12. ByLastCi(r) => Names(a, n + 1)'
  <2>1. pages'[FIRST_CI] = pages[FIRST_CI] /\ (FIRST_CI \in Infos' <=> FIRST_CI \in Infos)
    BY <1>5, <1>7, <1>11
  <2>2. ByLastCi(r) => ByLastCi(a)'
    BY <1>1, <1>8, <1>10, <2>1 DEF ByLastCi, NamedByCi0, LastCiIs
  <2> QED
    BY <1>9, <2>2 DEF Names
<1>13. CASE archive.rewrite
  <2>1. writer'.step = "ci0" /\ writer'.arch = a /\ writer'.commit = n + 1
    BY <1>1, <1>2, <1>3, <1>13
  <2>2. WritesInfo(n)' /\ WritesInfo(n + 1)'
    BY <2>1 DEF WritesInfo
  <2>3. WritesCi0(n)' /\ WritesCi0(n + 1)'
    BY <1>1, <1>3, <1>8, <1>9, <1>10, <1>13, <2>1 DEF WritesCi0, IsCommit, LastCiIs
  <2>4. CASE ByCi0(r, n)
    <3>1. Names(r, n)'
      BY <1>1, <1>2, <1>4, <1>6, <2>4, FreeWrite DEF At
    <3> QED
      BY <2>2, <2>3, <2>4, <3>1 DEF At
  <2>5. CASE ~ByCi0(r, n)
    BY <1>3, <1>12, <2>2, <2>3, <2>5 DEF At, Names
  <2> QED
    BY <2>4, <2>5
<1>14. CASE ~archive.rewrite
  <2>1. writer' = Idle
    BY <1>1, <1>14
  <2>2. WritesInfo(n + 1)' /\ WritesCi0(n + 1)'
    BY <2>1 DEF Idle, WritesInfo, WritesCi0
  <2>3. ByLastCi(r)
    BY <1>14 DEF At, Names, ByCi0
  <2>4. ~ByCi0(r, n)
    BY <1>14 DEF ByCi0
  <2> QED
    BY <1>3, <1>12, <2>2, <2>3, <2>4 DEF At
<1> QED
  BY <1>13, <1>14

\* Page 2 names the new commit, or goes bad where the new commit has the last commit info.
LEMMA RewriteCi0Step ==
  ASSUME StoreTypeOK, Placed, NEW r \in PageNumber, NEW n \in 1 .. MaxCommits, At(r, n),
         writer.step = "ci0", writer' = Idle, UNCHANGED <<archive, damaged>>,
         NEW a \in PageNumber, a = writer.arch, NEW m \in 1 .. MaxCommits, m = writer.commit,
         \/ Written(FIRST_CI, Arci(TRUE, a, a + 1, m))
         \/ ~archive.reuse /\ Written(FIRST_CI, Bad)
  PROVE  (m = n \/ (n < MaxCommits /\ m = n + 1)) /\ At(a, m)'
<1>1. writer # Idle /\ a + 1 \in PageNumber
  BY DEF StoreTypeOK, Idle, Placed
<1>2. /\ archive.rewrite /\ a > FIRST_CI
      /\ m = n \/ (n < MaxCommits /\ m = n + 1)
      /\ IsCommit(a, m) /\ pages[a].ci = a + 1
      /\ ~archive.reuse => LastCiIs(a + 1)
  BY DEF At, WritesCi0
<1>3. /\ FIRST_CI \in PageNumber /\ FIRST_CI <= page_count /\ FIRST_CI # a /\ FIRST_CI # a + 1
  BY <1>1, <1>2, BoundsAssumption DEF StoreTypeOK, PageNumber, FIRST_CI
<1>4. Arci(TRUE, a, a + 1, m) \in Pages /\ Bad \in Pages /\ Bad.type # "arci"
  <2>2. Arci(TRUE, a, a + 1, m) \in Pages
    BY <1>1, InfoPage
  <2>3. Bad \in Pages /\ Bad.type # "arci"
    BY DEF Pages, Free, Bad
  <2> QED
    BY <2>2, <2>3
<1>5. ASSUME NEW p \in Pages, Written(FIRST_CI, p)
      PROVE  IsCommit(a, m)' /\ pages'[a] = pages[a] /\ pages'[FIRST_CI] = p
  BY <1>1, <1>2, <1>3, <1>5, CommitKept, WrittenPage
<1>6. Names(a, m)'
  <2>1. CASE Written(FIRST_CI, Arci(TRUE, a, a + 1, m))
    BY <1>2, <1>4, <1>5, <2>1 DEF Names, ByCi0
  <2>2. CASE ~archive.reuse /\ Written(FIRST_CI, Bad)
    <3>1. Infos' = Infos \ {FIRST_CI}
      BY <1>3, <1>4, <2>2, ValidAfter
    <3>2. LastCiIs(a + 1)'
      BY <1>2, <2>2, <3>1 DEF LastCiIs
    <3> QED
      BY <1>2, <1>4, <1>5, <2>2, <3>1, <3>2 DEF Names, ByLastCi, NamedByCi0, LastCiIs
  <2> QED
    BY <2>1, <2>2
<1>7. WritesInfo(m)' /\ WritesCi0(m)'
  BY DEF Idle, WritesInfo, WritesCi0
<1> QED
  BY <1>2, <1>6, <1>7 DEF At

\* A crash with a commit half written: what was found before is still found.
LEMMA CrashOnCiStep ==
  ASSUME StoreTypeOK, Placed, NEW r \in PageNumber, NEW n \in 1 .. MaxCommits, At(r, n),
         writer # Idle, writer' = Idle, UNCHANGED <<archive, damaged>>,
         \/ UNCHANGED <<pages, page_count>>
         \/ writer.step = "ci" /\ Written(writer.arch + 1, Bad)
  PROVE  At(r, n)'
<1>1. WritesInfo(n)' /\ WritesCi0(n)'
  BY DEF Idle, WritesInfo, WritesCi0
<1>2. CASE UNCHANGED <<pages, page_count>>
  <2>1. Heads' = Heads /\ Infos' = Infos
    BY <1>2 DEF Heads, Infos, ValidArch, ValidArci, Exists
  <2>2. Names(r, n)'
    BY <1>2, <2>1, FoundKept DEF At
  <2> QED
    BY <1>1, <2>2 DEF At
<1>3. CASE writer.step = "ci" /\ Written(writer.arch + 1, Bad)
  <2>1. PICK i \in PageNumber : i = writer.arch + 1
    BY DEF Placed
  <2>2. i <= page_count /\ i > FIRST_CI /\ pages[i] \in Free
    BY <1>3, <2>1 DEF At, WritesInfo, Placed, StoreTypeOK, PageNumber, FIRST_CI
  <2>3. i \notin Heads /\ i \notin Infos
    BY <2>2, PageFields
  <2>4. Bad \in Pages /\ Bad.type # "arci"
    BY DEF Pages, Free, Bad
  <2>5. Names(r, n)'
    BY <1>3, <2>1, <2>2, <2>3, <2>4, FreeWrite DEF At
  <2> QED
    BY <1>1, <2>5 DEF At
<1> QED
  BY <1>2, <1>3

\* The reader finds the commit that is there to be found.
FindsLast ==
  StoreTypeOK =>
    \A r \in PageNumber, n \in 1 .. MaxCommits :
      Names(r, n) => live_root = r /\ LiveCommit = n /\ (Opens => CommitFound = n)

\* For any last commit there is.
LEMMA FindingCorrect == FindsLast
BY FindsCommit DEF FindsLast

\* Any other page that is written keeps the types.
LEMMA PageStep ==
  ASSUME StoreTypeOK, Placed, NEW i \in PageNumber, i <= page_count, NEW p \in Pages, Written(i, p),
         archive' = archive, crashes' \in 0 .. MaxCrashes, damaged' \in 0 .. MaxDamage,
         \/ writer' \in {writer, Idle}
         \/ writer # Idle /\ writer' = [writer EXCEPT !.step = "ci0"]
  PROVE  StoreTypeOK' /\ Placed'
<1>1. /\ pages' \in [PageNumber -> Pages] /\ page_count' \in FIRST_CI + 1 .. MaxPages
      /\ page_count <= page_count' /\ i < page_count'
      /\ \A j \in PageNumber : j # i => pages'[j] = pages[j] /\ (j < page_count' <=> j < page_count)
  BY WrittenPage
<1>2. /\ writer' \in {Idle} \cup [step : {"ci", "ci0"}, arch : PageNumber, commit : 1 .. MaxCommits,
                                 prev : PageNumber]
      /\ writer' # Idle => writer # Idle /\ writer'.arch = writer.arch
  BY DEF StoreTypeOK
<1>3. StoreTypeOK'
  BY <1>1, <1>2 DEF StoreTypeOK
<1>4. \A j \in PageNumber : j >= page_count' => pages'[j] = Data
  <2> SUFFICES ASSUME NEW j \in PageNumber, j >= page_count'
               PROVE  pages'[j] = Data
    OBVIOUS
  <2>1. j \in Int /\ i \in Int /\ page_count \in Int /\ page_count' \in Int
    BY <1>1, BoundsAssumption DEF PageNumber, StoreTypeOK, FIRST_CI
  <2>2. j # i /\ j >= page_count
    BY <1>1, <2>1
  <2> QED
    BY <1>1, <2>2 DEF Placed
<1>5. writer' # Idle => writer'.arch + 1 \in PageNumber /\ writer'.arch + 1 <= page_count'
  <2>1. page_count \in Nat /\ page_count' \in Nat /\ \A j \in PageNumber : j \in Nat
    BY <1>1, BoundsAssumption, SMTT(30) DEF PageNumber, StoreTypeOK, FIRST_CI
  <2> QED
    BY <1>1, <1>2, <2>1 DEF Placed
<1> QED
  BY <1>3, <1>4, <1>5 DEF Placed

\* Types, whatever was damaged.
LEMMA TypeStep ==
  ASSUME StoreInv, StoreNext
  PROVE  StoreTypeOK' /\ Placed'
<1>1. StoreTypeOK /\ Placed
  BY DEF StoreInv
<1>2. CASE WriteData
  BY <1>1, <1>2, WriteDataStep
<1>3. CASE WriteArch \/ CrashOnArch
  <2>1. damaged = 0
    BY <1>3 DEF WriteArch, CrashOnArch
  <2>2. PICK r \in PageNumber, n \in 1 .. MaxCommits : At(r, n)
    BY <2>1 DEF StoreInv
  <2> QED
    BY <1>1, <1>3, <2>2, HeadStep
<1>4. Bad \in Pages /\ Wiped \in Pages
  BY DEF Pages, Free
<1>5. writer # Idle =>
        /\ writer.arch \in PageNumber /\ writer.arch + 1 \in PageNumber /\ writer.arch + 1 <= page_count
        /\ writer.commit \in 1 .. MaxCommits /\ writer.prev \in PageNumber
  BY <1>1 DEF StoreTypeOK, Placed
<1>6. FIRST_CI \in PageNumber /\ FIRST_CI <= page_count
  BY <1>1, BoundsAssumption DEF StoreTypeOK, PageNumber, FIRST_CI
<1>7. CASE WriteCi
  <2>1. /\ writer # Idle /\ Written(writer.arch + 1, Arci(FALSE, writer.arch, writer.prev, writer.commit))
        /\ UNCHANGED <<archive, crashes, damaged>>
        /\ writer' = Idle \/ writer' = [writer EXCEPT !.step = "ci0"]
    <3>1. writer # Idle
      BY <1>7 DEF WriteCi, Idle
    <3> QED
      BY <1>7, <3>1, Zenon DEF WriteCi
  <2>2. Arci(FALSE, writer.arch, writer.prev, writer.commit) \in Pages
    BY <1>5, <2>1, InfoPage
  <2>3. crashes' \in 0 .. MaxCrashes /\ damaged' \in 0 .. MaxDamage
    BY <1>1, <2>1 DEF StoreTypeOK
  <2> QED
    BY <1>1, <1>5, <2>1, <2>2, <2>3, PageStep
<1>8. CASE RewriteCi0
  <2>1. /\ writer # Idle /\ Written(FIRST_CI, Arci(TRUE, writer.arch, writer.arch + 1, writer.commit))
        /\ UNCHANGED <<archive, crashes, damaged>> /\ writer' = Idle
    <3>1. writer # Idle
      BY <1>8 DEF RewriteCi0, Idle
    <3> QED
      BY <1>8, <3>1, Zenon DEF RewriteCi0
  <2>2. Arci(TRUE, writer.arch, writer.arch + 1, writer.commit) \in Pages
    BY <1>5, <2>1, InfoPage
  <2>3. crashes' \in 0 .. MaxCrashes /\ damaged' \in 0 .. MaxDamage
    BY <1>1, <2>1 DEF StoreTypeOK
  <2> QED
    BY <1>1, <1>6, <2>1, <2>2, <2>3, PageStep
<1>9. CASE Crash
  <2>1. /\ writer # Idle /\ writer' = Idle /\ UNCHANGED <<archive, damaged>>
        /\ \/ UNCHANGED <<pages, page_count>>
           \/ Written(writer.arch + 1, Bad)
           \/ Written(FIRST_CI, Bad)
    BY <1>9 DEF Crash
  <2>2. crashes' \in 0 .. MaxCrashes /\ damaged' \in 0 .. MaxDamage
    BY <1>1, <1>9, BoundsAssumption DEF StoreTypeOK, Crash
  <2>3. CASE UNCHANGED <<pages, page_count>>
    BY <1>1, <2>1, <2>2, <2>3 DEF StoreTypeOK, Placed
  <2>4. CASE Written(writer.arch + 1, Bad)
    BY <1>1, <1>4, <1>5, <2>1, <2>2, <2>4, PageStep
  <2>5. CASE Written(FIRST_CI, Bad)
    BY <1>1, <1>4, <1>6, <2>1, <2>2, <2>5, PageStep
  <2> QED
    BY <2>1, <2>3, <2>4, <2>5
<1>10. CASE Damage
  <2>1. PICK i \in PageNumber : Exists(i) /\ (Written(i, Bad) \/ Written(i, Wiped))
    BY <1>10 DEF Damage
  <2>2. i <= page_count
    BY <1>1, <2>1, BoundsAssumption DEF Exists, StoreTypeOK, PageNumber, FIRST_CI
  <2>3. crashes' \in 0 .. MaxCrashes /\ damaged' \in 0 .. MaxDamage /\ archive' = archive /\ writer' = writer
    BY <1>1, <1>10, BoundsAssumption DEF StoreTypeOK, Damage
  <2> QED
    BY <1>1, <1>4, <2>1, <2>2, <2>3, PageStep
<1> QED
  BY <1>2, <1>3, <1>7, <1>8, <1>9, <1>10 DEF StoreNext, WriterStep

\* A page of data leaves the last commit the last.
LEMMA DataKept ==
  ASSUME StoreTypeOK, Placed, WriteData, NEW r \in PageNumber, NEW n \in 1 .. MaxCommits, At(r, n)
  PROVE  At(r, n)'
<1>1. Names(r, n)'
  BY WriteDataStep, FoundKept DEF At, WriteData
<1>2. writer' = Idle
  BY DEF WriteData
<1>3. WritesInfo(n)' /\ WritesCi0(n)'
  BY <1>2 DEF Idle, WritesInfo, WritesCi0
<1> QED
  BY <1>1, <1>3 DEF At

\* No step leaves everything as it was.
LEMMA NothingKept ==
  ASSUME UNCHANGED storeVars, NEW r, NEW n, At(r, n)
  PROVE  At(r, n)' /\ Heads' = Heads /\ Infos' = Infos
<1>1. UNCHANGED <<archive, pages, page_count, writer>>
  BY DEF storeVars
<1>2. Heads' = Heads /\ Infos' = Infos
  BY <1>1 DEF Heads, Infos, ValidArch, ValidArci, Exists
<1>3. Names(r, n)'
  BY <1>1, <1>2, FoundKept DEF At
<1>4. WritesInfo(n)' /\ WritesCi0(n)'
  BY <1>1, <1>2 DEF At, WritesInfo, WritesCi0, IsCommit, LastCiIs
<1> QED
  BY <1>2, <1>3, <1>4 DEF At

\* A step leaves the last commit the last, or completes the next one.
LEMMA CommitStep ==
  ASSUME StoreTypeOK, Placed, archive.reuse => ~archive.tornCi0,
         NEW r \in PageNumber, NEW n \in 1 .. MaxCommits, At(r, n), StoreNext, ~Damage
  PROVE  \/ At(r, n)'
         \/ \E a \in PageNumber : At(a, n)'
         \/ n < MaxCommits /\ \E a \in PageNumber : At(a, n + 1)'
<1>1. CASE WriteData
  BY <1>1, DataKept
<1>2. CASE WriteArch \/ CrashOnArch
  BY <1>2, HeadStep
<1>3. writer # Idle => writer.arch \in PageNumber /\ writer.commit \in 1 .. MaxCommits
  BY DEF StoreTypeOK
<1>4. CASE WriteCi
  <2>1. writer # Idle
    BY <1>4 DEF WriteCi, Idle
  <2>2. PICK a \in PageNumber : a = writer.arch
    BY <1>3, <2>1
  <2> QED
    BY <1>4, <2>2, WriteCiStep
<1>5. ASSUME writer.step = "ci0", writer' = Idle, UNCHANGED <<archive, damaged>>,
             \/ Written(FIRST_CI, Arci(TRUE, writer.arch, writer.arch + 1, writer.commit))
             \/ ~archive.reuse /\ Written(FIRST_CI, Bad)
      PROVE  \/ \E a \in PageNumber : At(a, n)'
             \/ n < MaxCommits /\ \E a \in PageNumber : At(a, n + 1)'
  <2>1. writer # Idle
    BY <1>5 DEF Idle
  <2>2. PICK a \in PageNumber : a = writer.arch
    BY <1>3, <2>1
  <2>3. PICK m \in 1 .. MaxCommits : m = writer.commit
    BY <1>3, <2>1
  <2>4. (m = n \/ (n < MaxCommits /\ m = n + 1)) /\ At(a, m)'
    BY <1>5, <2>2, <2>3, RewriteCi0Step
  <2> QED
    BY <2>4
<1>6. CASE RewriteCi0
  BY <1>5, <1>6 DEF RewriteCi0
<1>7. CASE Crash
  <2>1. writer # Idle /\ writer' = Idle /\ UNCHANGED <<archive, damaged>>
    BY <1>7 DEF Crash
  <2>2. CASE writer.step = "ci0" /\ archive.tornCi0 /\ Written(FIRST_CI, Bad)
    BY <1>5, <2>1, <2>2
  <2>3. CASE UNCHANGED <<pages, page_count>> \/ (writer.step = "ci" /\ Written(writer.arch + 1, Bad))
    BY <2>1, <2>3, CrashOnCiStep
  <2> QED
    BY <1>7, <2>2, <2>3 DEF Crash
<1> QED
  BY <1>1, <1>2, <1>4, <1>6, <1>7 DEF StoreNext, WriterStep

(***************************************************************************)
(* A store of which no commit was torn, and that never writes a page twice.*)
(***************************************************************************)

\* Page p is the root of the commit before the last one, r, and what lies before.
CommitBefore(p, r) ==
  /\ p \in Heads /\ p < r /\ pages[p].commit = pages[r].commit - 1
  /\ \A i \in Heads : i = r \/ i <= p
  /\ pages[p].ci \in Infos /\ pages[p].ci < pages[r].ci
  /\ \A i \in Infos : i = pages[r].ci \/ i <= pages[p].ci
  /\ pages[pages[p].ci].arch = p \/ (archive.rewrite /\ pages[p].ci = FIRST_CI)

\* The commits follow one another up to the last, r, and the one that is being written.
Follow(r, n) ==
  /\ archive.rewrite => ByCi0(r, n)
  /\ FIRST_CI \in Infos /\ FIRST_CI <= pages[r].ci
  /\ \A i \in Heads : i <= r \/ (writer # Idle /\ i = writer.arch)
  /\ \A i \in Infos : i <= pages[r].ci \/ (writer.step = "ci0" /\ i = writer.arch + 1)
  /\ writer # Idle => r < writer.arch /\ pages[r].ci < writer.arch
  /\ writer.step = "ci0" => writer.commit = n + 1
  /\ writer = Idle /\ n > 1 => FIRST_CI < pages[r].ci /\ \E p \in PageNumber : CommitBefore(p, r)

FollowInv ==
  crashes = 0 /\ damaged = 0 /\ ~archive.reuse =>
    \E r \in PageNumber, n \in 1 .. MaxCommits : At(r, n) /\ Follow(r, n)

\* An archive starts with one commit, which is found.
LEMMA StoreInitInvariant ==
  ASSUME AtomicKinds, StoreInit
  PROVE  StoreInv /\ CommitFound = 1 /\ FollowInv
<1> DEFINE p(i) == CASE i = 0 -> Arch(FIRST_CI, 1)
                     [] i = FIRST_CI -> Arci(archive.rewrite, 0,
                                             IF archive.rewrite THEN FIRST_CI ELSE 0, 1)
                     [] OTHER -> Data
<1>1. /\ archive \in Archives /\ archive.rewrite \in BOOLEAN /\ pages = [i \in PageNumber |-> p(i)]
      /\ page_count = FIRST_CI + 1 /\ writer = Idle /\ crashes = 0 /\ damaged = 0
  BY ArchivesAssumption DEF StoreInit
<1>2. 0 \in PageNumber /\ FIRST_CI \in PageNumber /\ 1 \in 1 .. MaxCommits /\ FIRST_CI = 2
  BY BoundsAssumption DEF PageNumber, FIRST_CI
<1>3. /\ pages[0] = Arch(FIRST_CI, 1)
      /\ archive.rewrite => pages[FIRST_CI] = Arci(TRUE, 0, FIRST_CI, 1)
      /\ ~archive.rewrite => pages[FIRST_CI] = Arci(FALSE, 0, 0, 1)
      /\ \A i \in PageNumber : i # 0 /\ i # FIRST_CI => pages[i] = Data
  <2>1. /\ p(0) = Arch(FIRST_CI, 1)
        /\ p(FIRST_CI) = Arci(archive.rewrite, 0, IF archive.rewrite THEN FIRST_CI ELSE 0, 1)
        /\ \A i : i # 0 /\ i # FIRST_CI => p(i) = Data
    BY <1>2
  <2>2. archive.rewrite = TRUE \/ archive.rewrite = FALSE
    BY <1>1
  <2>3. archive.rewrite => p(FIRST_CI) = Arci(TRUE, 0, FIRST_CI, 1)
    BY <2>1, <2>2
  <2>4. ~archive.rewrite => p(FIRST_CI) = Arci(FALSE, 0, 0, 1)
    BY <2>1, <2>2
  <2> HIDE DEF p
  <2> QED
    BY <1>1, <1>2, <2>1, <2>3, <2>4
<1>4. \A i \in PageNumber : pages[i] \in Pages
  <2>1. pages[FIRST_CI] \in Pages
    <3>1. Arci(FALSE, 0, 0, 1) \in Pages /\ Arci(TRUE, 0, FIRST_CI, 1) \in Pages
      BY <1>2, InfoPage
    <3> QED
      BY <1>3, <3>1
  <2>2. pages[0] \in Pages
    BY <1>2, <1>3 DEF Pages
  <2>3. Data \in Pages
    BY DEF Pages, Free
  <2> QED
    BY <1>3, <2>1, <2>2, <2>3
<1>5. StoreTypeOK
  BY <1>1, <1>4, BoundsAssumption DEF StoreTypeOK, FIRST_CI
<1>6. Placed
  BY <1>1, <1>2, <1>3 DEF Placed, PageNumber
<1>7. Heads = {0} /\ Infos = {FIRST_CI}
  BY <1>1, <1>2, <1>3
  DEF Heads, Infos, ValidArch, ValidArci, Exists, Arch, Arci, Data, PageNumber
<1>8. pages[0].ci = FIRST_CI /\ pages[0].commit = 1 /\ pages[FIRST_CI].arch = 0
  BY <1>1, <1>3 DEF Arch, Arci
<1>9. Names(0, 1)
  <2>1. IsCommit(0, 1)
    BY <1>7, <1>8 DEF IsCommit
  <2>2. archive.rewrite => ByCi0(0, 1)
    BY <1>3, <1>8 DEF ByCi0
  <2>3. ~archive.rewrite => ByLastCi(0)
    <3>1. ~archive.rewrite => ~pages[FIRST_CI].ci0
      BY <1>3 DEF Arci
    <3>2. ~archive.rewrite => ~archive.reuse
      BY <1>1 DEF AtomicKinds
    <3> QED
      BY <1>2, <1>7, <1>8, <3>1, <3>2 DEF ByLastCi, NamedByCi0, LastCiIs
  <2> QED
    BY <2>1, <2>2, <2>3 DEF Names
<1>10. At(0, 1)
  BY <1>1, <1>9 DEF At, Idle, WritesInfo, WritesCi0
<1>11. archive.reuse => archive.rewrite /\ ~archive.tornCi0
  BY <1>1 DEF AtomicKinds
<1>12. Follow(0, 1)
  <2>1. archive.rewrite => ByCi0(0, 1)
    BY <1>3, <1>8 DEF ByCi0
  <2>2. \A i \in Heads : i <= 0
    BY <1>7
  <2>3. \A i \in Infos : i <= pages[0].ci
    BY <1>2, <1>7, <1>8
  <2>4. FIRST_CI \in Infos /\ FIRST_CI <= pages[0].ci
    BY <1>2, <1>7, <1>8
  <2> QED
    BY <1>1, <2>1, <2>2, <2>3, <2>4 DEF Follow, Idle
<1>13. Opens
  BY <1>3 DEF Opens, Arch, Wiped
<1> QED
  BY <1>1, <1>2, <1>5, <1>6, <1>9, <1>10, <1>11, <1>12, <1>13, FindsCommit DEF StoreInv, FollowInv

\* The first page keeps its magic until a page goes bad.
LEMMA OpensKept ==
  ASSUME Opens, StoreNext, ~Damage
  PROVE  Opens'
<1>1. /\ \A a, c : Arch(a, c) # Wiped
      /\ \A f, a, p, c : Arci(f, a, p, c) # Wiped
      /\ Bad # Wiped
  BY DEF Arch, Arci, Bad, Wiped
<1>2. \A i, p : p # Wiped /\ Written(i, p) => pages'[0] # Wiped
  BY DEF Opens, Written
<1>3. UNCHANGED pages \/ \E i, p : p # Wiped /\ Written(i, p)
  BY <1>1, Zenon DEF StoreNext, WriterStep, WriteData, WriteArch, WriteCi, RewriteCi0, Crash, CrashOnArch
<1> QED
  BY <1>2, <1>3 DEF Opens

\* Wherever the writer is, whoever opens the store finds the commit before or the next one.
LEMMA StoreStep ==
  ASSUME StoreInv, [StoreNext]_storeVars
  PROVE  /\ StoreInv' /\ archive' = archive
         /\ damaged' = 0 => \/ CommitFound' = CommitFound
                            \/ CommitFound < MaxCommits /\ CommitFound' = CommitFound + 1
<1>1. FindsLast'
  BY FindingCorrect, PTL
<1>2. StoreTypeOK /\ Placed
  BY DEF StoreInv
<1>3. StoreTypeOK' /\ Placed' /\ archive' = archive
  <2>1. CASE StoreNext
    BY <2>1, TypeStep DEF StoreNext, WriterStep, WriteData, WriteArch, WriteCi, RewriteCi0, Crash,
                          CrashOnArch, Damage
  <2>2. CASE UNCHANGED storeVars
    BY <1>2, <2>2 DEF storeVars, StoreTypeOK, Placed
  <2> QED
    BY <2>1, <2>2
<1>4. (damaged' = 0 => damaged = 0) /\ (~archive.decays => damaged' = damaged)
  <2>1. damaged \in Nat
    BY <1>2, BoundsAssumption DEF StoreTypeOK
  <2>2. damaged' = damaged \/ Damage
    BY Zenon DEF StoreNext, WriterStep, WriteData, WriteArch, WriteCi, RewriteCi0, Crash, CrashOnArch, storeVars
  <2> QED
    BY <2>1, <2>2 DEF Damage
<1>5. ASSUME damaged' = 0
      PROVE  \E r \in PageNumber, n \in 1 .. MaxCommits :
               /\ At(r, n)'
               /\ CommitFound = n \/ (CommitFound < MaxCommits /\ n = CommitFound + 1)
  <2>1. PICK r \in PageNumber, n \in 1 .. MaxCommits : At(r, n)
    BY <1>4, <1>5 DEF StoreInv
  <2>2. CommitFound = n
    BY <1>2, <1>4, <1>5, <2>1, FindsCommit DEF At, StoreInv
  <2>3. CASE StoreNext
    <3>1. ~Damage
      <4>1. damaged \in Nat
        BY <1>2, BoundsAssumption DEF StoreTypeOK
      <4> QED
        BY <1>5, <4>1 DEF Damage
    <3>2. \/ At(r, n)'
          \/ \E a \in PageNumber : At(a, n)'
          \/ n < MaxCommits /\ \E a \in PageNumber : At(a, n + 1)'
      BY <1>2, <2>1, <2>3, <3>1, CommitStep DEF StoreInv
    <3>3. n < MaxCommits => n + 1 \in 1 .. MaxCommits
      BY BoundsAssumption
    <3>4. CASE \E a \in PageNumber : At(a, n)'
      BY <2>2, <3>4
    <3>5. CASE n < MaxCommits /\ \E a \in PageNumber : At(a, n + 1)'
      <4>1. PICK m \in 1 .. MaxCommits : m = n + 1
        BY <3>3, <3>5
      <4>2. \E a \in PageNumber : At(a, m)'
        BY <3>5, <4>1
      <4> QED
        BY <2>2, <3>5, <4>1, <4>2
    <3> QED
      BY <2>2, <3>2, <3>4, <3>5
  <2>4. CASE UNCHANGED storeVars
    BY <2>1, <2>2, <2>4, NothingKept
  <2> QED
    BY <2>3, <2>4
<1>8. damaged' = 0 => Opens'
  <2> SUFFICES ASSUME damaged' = 0
               PROVE  Opens'
    OBVIOUS
  <2>1. Opens
    BY <1>4 DEF StoreInv
  <2>2. CASE StoreNext
    <3>1. ~Damage
      <4>1. damaged \in Nat
        BY <1>2, BoundsAssumption DEF StoreTypeOK
      <4> QED
        BY <4>1 DEF Damage
    <3> QED
      BY <2>1, <2>2, <3>1, OpensKept
  <2>3. CASE UNCHANGED storeVars
    BY <2>1, <2>3 DEF Opens, storeVars
  <2> QED
    BY <2>2, <2>3
<1>6. StoreInv'
  BY <1>3, <1>4, <1>5, <1>8 DEF StoreInv
<1>7. ASSUME damaged' = 0
      PROVE  \/ CommitFound' = CommitFound
             \/ CommitFound < MaxCommits /\ CommitFound' = CommitFound + 1
  <2>1. PICK r \in PageNumber, n \in 1 .. MaxCommits :
               /\ At(r, n)'
               /\ CommitFound = n \/ (CommitFound < MaxCommits /\ n = CommitFound + 1)
    BY <1>5, <1>7
  <2>2. CommitFound' = n
    BY <1>1, <1>3, <1>7, <1>8, <2>1 DEF FindsLast, At
  <2> QED
    BY <2>1, <2>2
<1> QED
  BY <1>3, <1>6, <1>7

\* Commits follow one another while none is torn: what is written is the page after all others.
LEMMA FollowStep ==
  ASSUME StoreTypeOK, Placed, ~archive.reuse, crashes' = 0, damaged' = 0, [StoreNext]_storeVars,
         NEW r \in PageNumber, NEW n \in 1 .. MaxCommits, At(r, n), Follow(r, n)
  PROVE  \E s \in PageNumber, m \in 1 .. MaxCommits : At(s, m)' /\ Follow(s, m)'
<1> DEFINE c == pages[r].ci
<1>0. /\ r \in Heads /\ pages[r].commit = n /\ c \in Infos /\ c \in PageNumber /\ pages[c].arch = r
      /\ r < page_count /\ c < page_count
  BY HeadFields DEF At, Names, IsCommit, Heads, Infos, ValidArch, ValidArci, Exists
<1>1. CASE WriteData
  <2>1. /\ Heads' = Heads /\ Infos' = Infos /\ At(r, n)'
    BY <1>1, WriteDataStep, DataKept
  <2>2. UNCHANGED <<archive, pages, writer>>
    BY <1>1 DEF WriteData
  <2>3. Follow(r, n)'
    BY <2>1, <2>2 DEF Follow, CommitBefore, ByCi0
  <2> QED
    BY <2>1, <2>3
<1>2. CASE UNCHANGED storeVars
  <2>1. /\ Heads' = Heads /\ Infos' = Infos /\ At(r, n)'
    BY <1>2, NothingKept
  <2>2. UNCHANGED <<archive, pages, writer>>
    BY <1>2 DEF storeVars
  <2>3. Follow(r, n)'
    BY <2>1, <2>2 DEF Follow, CommitBefore, ByCi0
  <2> QED
    BY <2>1, <2>3
<1>3. CASE WriteArch
  <2>1. At(r, n)'
    BY <1>3, HeadStep
  <2>2. PICK a \in FreePlaces :
          /\ writer = Idle /\ archive' = archive
          /\ Written(a, Arch(a + 1, LiveCommit + 1))
          /\ writer' = [step |-> "ci", arch |-> a, commit |-> LiveCommit + 1, prev |-> pages[live_root].ci]
    BY <1>3 DEF WriteArch
  <2>3. /\ a \in PageNumber /\ a + 1 \in PageNumber /\ a = page_count /\ a > FIRST_CI
        /\ a \notin Heads /\ a \notin Infos
    BY <2>2, FreePlace
  <2>4. LiveCommit = n /\ LiveCommit + 1 \in 1 .. MaxCommits
    BY <1>3, FindsCommit, BoundsAssumption DEF At, WriteArch
  <2>5. PICK p \in Pages : Written(a, p) /\ p.type = "arch" /\ p.type # "arci"
    <3>1. /\ Arch(a + 1, LiveCommit + 1) \in Pages
          /\ Arch(a + 1, LiveCommit + 1).type = "arch" /\ Arch(a + 1, LiveCommit + 1).type # "arci"
      BY <2>3, <2>4 DEF Pages, Arch
    <3> QED
      BY <2>2, <3>1
  <2>6. Heads' = Heads \cup {a} /\ Infos' = Infos
    <3>1. a <= page_count
      BY <2>3 DEF PageNumber
    <3>2. Heads' = Heads \cup {a} /\ Infos' = Infos \ {a}
      BY <2>3, <2>5, <3>1, ValidAfter
    <3> QED
      BY <2>3, <3>2
  <2>7. pages'[r] = pages[r] /\ pages'[FIRST_CI] = pages[FIRST_CI]
    <3>1. FIRST_CI \in PageNumber /\ FIRST_CI # a /\ r # a
      BY <1>0, <2>3, BoundsAssumption DEF PageNumber, FIRST_CI
    <3>2. a <= page_count
      BY <2>3 DEF PageNumber
    <3> QED
      BY <2>3, <2>5, <3>1, <3>2, WrittenPage
  <2>8. writer' # Idle /\ writer'.arch = a /\ writer'.step = "ci"
    BY <2>2 DEF Idle
  <2>9. Follow(r, n)'
    <3>1. archive'.rewrite => ByCi0(r, n)'
      BY <2>2, <2>7 DEF Follow, ByCi0
    <3>2. \A i \in Heads' : i <= r \/ i = a
      BY <2>2, <2>6 DEF Follow
    <3>3. \A i \in Infos' : i <= pages'[r].ci
      BY <2>2, <2>6, <2>7 DEF Follow, Idle
    <3> QED
      BY <1>0, <2>2, <2>3, <2>6, <2>7, <2>8, <3>1, <3>2, <3>3 DEF Follow
  <2> QED
    BY <2>1, <2>9
<1>4. ASSUME writer # Idle
      PROVE  /\ writer.arch \in PageNumber /\ writer.arch + 1 \in PageNumber
             /\ writer.arch + 1 <= page_count
             /\ writer.commit \in 1 .. MaxCommits /\ writer.prev \in PageNumber
  BY <1>4 DEF StoreTypeOK, Placed
<1>5. CASE WriteCi
  <2>1. writer # Idle
    BY <1>5 DEF WriteCi, Idle
  <2>2. PICK a \in PageNumber : a = writer.arch
    BY <1>4, <2>1
  <2>3. PICK p : /\ writer.step = "ci" /\ Written(a + 1, p) /\ UNCHANGED archive
                 /\ p = Arci(FALSE, a, writer.prev, writer.commit)
                 /\ writer' = IF archive.rewrite THEN [writer EXCEPT !.step = "ci0"] ELSE Idle
    BY <1>5, <2>2 DEF WriteCi
  <2>4. p \in Pages /\ p.type = "arci"
    <3>1. p \in Pages
      BY <1>4, <2>1, <2>2, <2>3, InfoPage
    <3> QED
      BY <2>3, <3>1 DEF Arci
  <2>5. /\ a > FIRST_CI /\ n < MaxCommits /\ writer.commit = n + 1
        /\ pages[a + 1] \in Free /\ pages[a] = Arch(a + 1, n + 1)
    BY <2>2, <2>3 DEF At, WritesInfo
  <2>6. a + 1 \notin Heads /\ a + 1 \notin Infos /\ a + 1 \in PageNumber /\ a + 1 <= page_count
    BY <1>4, <2>1, <2>2, <2>5, PageFields
  <2>7. Heads' = Heads /\ Infos' = Infos \cup {a + 1}
    <3>1. p \in Pages /\ p.type = "arci" /\ p.type # "arch" /\ Written(a + 1, p)
      BY <2>3, <2>4
    <3>2. Heads' = Heads \ {a + 1} /\ Infos' = Infos \cup {a + 1}
      BY <2>6, <3>1, ValidAfter
    <3> QED
      BY <2>6, <3>2
  <2>8. r < a /\ c < a
    BY <2>1, <2>2 DEF Follow
  <2>9. pages'[r] = pages[r] /\ pages'[c] = pages[c] /\ pages'[a] = pages[a] /\ pages'[FIRST_CI] = pages[FIRST_CI]
    <3>1. /\ FIRST_CI \in PageNumber /\ FIRST_CI # a + 1 /\ r # a + 1 /\ c # a + 1 /\ a # a + 1
      BY <1>0, <2>5, <2>8, BoundsAssumption DEF PageNumber, FIRST_CI
    <3> QED
      BY <1>0, <2>3, <2>4, <2>6, <3>1, WrittenPage, ZenonT(60)
  <2>10. CASE archive.rewrite
    <3>1. At(r, n)'
      BY <1>5, <2>2, <2>10, WriteCiStep DEF Follow
    <3>2. writer' # Idle /\ writer'.arch = a /\ writer'.step = "ci0" /\ writer'.commit = n + 1
      <4>1. writer \in [step : {"ci", "ci0"}, arch : PageNumber, commit : 1 .. MaxCommits, prev : PageNumber]
        BY <2>1 DEF StoreTypeOK
      <4> QED
        BY <2>2, <2>3, <2>5, <2>10, <4>1 DEF Idle
    <3>3. Follow(r, n)'
      <4>1. archive'.rewrite => ByCi0(r, n)'
        BY <2>3, <2>9 DEF Follow, ByCi0
      <4>2. \A i \in Heads' : i <= r \/ i = a
        BY <2>2, <2>7 DEF Follow
      <4>3. \A i \in Infos' : i <= pages'[r].ci \/ i = a + 1
        BY <2>3, <2>7, <2>9 DEF Follow
      <4> QED
        BY <2>7, <2>8, <2>9, <3>2, <4>1, <4>2, <4>3 DEF Follow
    <3> QED
      BY <3>1, <3>3
  <2>11. CASE ~archive.rewrite
    <3>1. PICK m \in 1 .. MaxCommits : m = n + 1
      BY <2>5, BoundsAssumption
    <3>2. At(a, m)'
      BY <1>5, <2>2, <2>11, <3>1, WriteCiStep DEF ByCi0
    <3>3. writer' = Idle /\ pages'[a].ci = a + 1 /\ pages'[a].commit = m
      BY <2>3, <2>5, <2>9, <2>11, <3>1 DEF Arch
    <3>4. \A i \in Heads' : i = a \/ i <= r
      BY <2>2, <2>7 DEF Follow
    <3>5. \A i \in Infos' : i = a + 1 \/ i <= c
      BY <2>3, <2>7 DEF Follow
    <3>6. CommitBefore(r, a)'
      BY <1>0, <2>7, <2>8, <2>9, <3>1, <3>3, <3>4, <3>5 DEF CommitBefore, PageNumber
    <3>7. \A i \in Infos' : i <= a + 1
      BY <1>0, <2>8, <3>5 DEF PageNumber, Infos
    <3>8. \A i \in Heads' : i <= a
      BY <1>0, <2>8, <3>4 DEF PageNumber, Heads
    <3>9. Follow(a, m)'
      <4>1. FIRST_CI \in Infos' /\ FIRST_CI < a + 1
        BY <2>5, <2>7 DEF Follow, PageNumber, FIRST_CI
      <4> QED
        BY <2>3, <2>11, <3>3, <3>6, <3>7, <3>8, <4>1 DEF Follow, Idle, FIRST_CI
    <3> QED
      BY <3>2, <3>9
  <2> QED
    BY <2>10, <2>11
<1>6. CASE RewriteCi0
  <2>1. writer # Idle
    BY <1>6 DEF RewriteCi0, Idle
  <2>2. PICK a \in PageNumber : a = writer.arch
    BY <1>4, <2>1
  <2>3. PICK m \in 1 .. MaxCommits : m = writer.commit
    BY <1>4, <2>1
  <2>4. PICK p : /\ writer.step = "ci0" /\ Written(FIRST_CI, p) /\ UNCHANGED archive
                 /\ p = Arci(TRUE, a, a + 1, m) /\ writer' = Idle /\ damaged' = damaged
    BY <1>6, <2>2, <2>3 DEF RewriteCi0
  <2>5. At(a, m)'
    <3>1. Written(FIRST_CI, Arci(TRUE, a, a + 1, m))
      BY <2>4
    <3> QED
      BY <2>2, <2>3, <2>4, <3>1, RewriteCi0Step
  <2>6. p \in Pages /\ p.type = "arci"
    <3>1. p \in Pages
      BY <1>4, <2>1, <2>2, <2>4, InfoPage
    <3> QED
      BY <2>4, <3>1 DEF Arci
  <2>7. /\ archive.rewrite /\ a > FIRST_CI /\ m = n + 1
        /\ a \in Heads /\ pages[a].commit = m /\ pages[a].ci = a + 1 /\ a + 1 \in Infos
    BY <2>2, <2>3, <2>4 DEF At, WritesCi0, IsCommit, Follow
  <2>8. r < a /\ c < a
    BY <2>1, <2>2 DEF Follow
  <2>9. FIRST_CI \in PageNumber /\ FIRST_CI <= page_count
    BY BoundsAssumption DEF StoreTypeOK, PageNumber, FIRST_CI
  <2>10. FIRST_CI \in Infos /\ \A i \in Heads : i # FIRST_CI
    BY DEF Follow, Infos, Heads, ValidArch, ValidArci
  <2>11. Heads' = Heads /\ Infos' = Infos
    <3>1. p \in Pages /\ p.type = "arci" /\ p.type # "arch" /\ Written(FIRST_CI, p)
      BY <2>4, <2>6
    <3>2. Heads' = Heads \ {FIRST_CI} /\ Infos' = Infos \cup {FIRST_CI}
      BY <2>9, <3>1, ValidAfter
    <3> QED
      BY <2>10, <3>2
  <2>12. /\ pages'[FIRST_CI] = p
         /\ \A j \in PageNumber : j # FIRST_CI => pages'[j] = pages[j]
    BY <2>4, <2>6, <2>9, WrittenPage
  <2>13. pages'[r] = pages[r] /\ pages'[a] = pages[a]
    BY <1>0, <2>7, <2>10, <2>12
  <2>14. \A i \in Heads' : i = a \/ i <= r
    BY <2>2, <2>11 DEF Follow
  <2>15. \A i \in Infos' : i = a + 1 \/ i <= c
    BY <2>2, <2>4, <2>11 DEF Follow
  <2>16. CommitBefore(r, a)'
    <3>1. pages'[c].arch = r \/ (archive'.rewrite /\ c = FIRST_CI)
      BY <1>0, <2>4, <2>7, <2>12
    <3>2. pages'[r].commit = pages'[a].commit - 1
      BY <1>0, <2>7, <2>13
    <3> QED
      BY <1>0, <2>7, <2>8, <2>11, <2>13, <2>14, <2>15, <3>1, <3>2 DEF CommitBefore, PageNumber
  <2>17. ByCi0(a, m)'
    BY <2>4, <2>7, <2>12, <2>13 DEF ByCi0
  <2>18. \A i \in Infos' : i <= a + 1
    BY <1>0, <2>8, <2>15 DEF PageNumber, Infos
  <2>19. \A i \in Heads' : i <= a
    BY <1>0, <2>8, <2>14 DEF PageNumber, Heads
  <2>20. Follow(a, m)'
    <3>1. FIRST_CI \in Infos' /\ FIRST_CI < a + 1
      BY <2>7, <2>10, <2>11 DEF PageNumber, FIRST_CI
    <3> QED
      BY <2>4, <2>7, <2>13, <2>16, <2>17, <2>18, <2>19, <3>1 DEF Follow, Idle, FIRST_CI
  <2> QED
    BY <2>5, <2>20
<1>7. ~Crash /\ ~CrashOnArch /\ ~Damage
  <2>1. crashes \in Nat /\ damaged \in Nat
    BY BoundsAssumption DEF StoreTypeOK
  <2> QED
    BY <2>1 DEF Crash, CrashOnArch, Damage
<1> QED
  BY <1>1, <1>2, <1>3, <1>5, <1>6, <1>7 DEF StoreNext, WriterStep

\* As long as no commit is torn and no page goes bad, commits follow one another.
LEMMA FollowKept ==
  ASSUME StoreInv, FollowInv, [StoreNext]_storeVars
  PROVE  FollowInv'
<1> SUFFICES ASSUME crashes' = 0, damaged' = 0, ~archive'.reuse
             PROVE  \E r \in PageNumber, n \in 1 .. MaxCommits : At(r, n)' /\ Follow(r, n)'
  BY DEF FollowInv
<1>1. StoreTypeOK /\ Placed /\ archive' = archive
  BY StoreStep DEF StoreInv
<1>2. crashes = 0 /\ damaged = 0
  <2>1. crashes \in Nat /\ damaged \in Nat
    BY <1>1, BoundsAssumption DEF StoreTypeOK
  <2>2. crashes' = crashes \/ crashes' = crashes + 1
    BY Zenon DEF StoreNext, WriterStep, WriteData, WriteArch, WriteCi, RewriteCi0, Crash, CrashOnArch,
                 Damage, storeVars
  <2>3. damaged' = damaged \/ damaged' = damaged + 1
    BY Zenon DEF StoreNext, WriterStep, WriteData, WriteArch, WriteCi, RewriteCi0, Crash, CrashOnArch,
                 Damage, storeVars
  <2> QED
    BY <2>1, <2>2, <2>3
<1>3. PICK r \in PageNumber, n \in 1 .. MaxCommits : At(r, n) /\ Follow(r, n)
  BY <1>1, <1>2 DEF FollowInv
<1> QED
  BY <1>1, <1>3, FollowStep

\* The highest page of a set is the one no other is behind.
LEMMA LastIs ==
  ASSUME NEW S \in SUBSET PageNumber, NEW m \in S, \A j \in S : j <= m
  PROVE  LastOf(S) = m
<1>1. \A i \in S : (\A j \in S : j <= i) => i = m
  BY DEF PageNumber
<1>2. (CHOOSE i \in S : \A j \in S : j <= i) = m
  BY <1>1
<1> QED
  BY <1>2 DEF LastOf

\* Of a store of which no commit was torn one page goes bad: the last commit is still found, or
\* the one before.
LEMMA DamageStep ==
  ASSUME StoreTypeOK, StoreTypeOK', FindsLast', ~archive.reuse, writer = Idle, Damage,
         NEW r \in PageNumber, NEW n \in 2 .. MaxCommits, At(r, n), Follow(r, n)
  PROVE  live_root' # None /\ LiveCommit' \in {n - 1, n}
<1>c. PICK c \in PageNumber : c = pages[r].ci
  BY HeadFields DEF At, Names, IsCommit
<1>0. /\ r \in Heads /\ pages[r].commit = n /\ c \in Infos /\ c \in PageNumber /\ pages[c].arch = r
      /\ n \in 1 .. MaxCommits /\ r # c
  BY <1>c DEF At, Names, IsCommit, Heads, Infos, ValidArch, ValidArci
<1>1. PICK i \in PageNumber, b \in {Bad, Wiped} : Exists(i) /\ pages[i] \notin Free /\ Written(i, b)
  BY DEF Damage
<1>2. archive' = archive
  BY DEF Damage
<1>3. i \in Heads \/ i \in Infos
  BY <1>1, PageFields DEF Exists
<1>4. i <= page_count /\ b \in Pages /\ b.type # "arch" /\ b.type # "arci"
  BY <1>1, BoundsAssumption DEF Exists, StoreTypeOK, PageNumber, FIRST_CI, Pages, Free, Bad, Wiped
<1>5. Heads' = Heads \ {i} /\ Infos' = Infos \ {i}
  BY <1>1, <1>4, ValidAfter
<1>6. \A j \in PageNumber : j # i => pages'[j] = pages[j]
  BY <1>1, <1>4, WrittenPage
<1>7. PICK p \in PageNumber : CommitBefore(p, r) /\ FIRST_CI < c
  BY <1>c DEF Follow
<1>d. PICK d \in PageNumber : d = pages[p].ci
  BY <1>7 DEF CommitBefore, Infos
<1>8. /\ p \in Heads /\ p < r /\ pages[p].commit = n - 1 /\ \A j \in Heads : j = r \/ j <= p
      /\ d \in Infos /\ d \in PageNumber /\ d < c /\ \A j \in Infos : j = c \/ j <= d
      /\ pages[d].arch = p \/ (archive.rewrite /\ d = FIRST_CI)
  BY <1>0, <1>7, <1>c, <1>d DEF CommitBefore, Infos
<1>9. FIRST_CI \in Infos /\ \A j \in Infos : j <= c
  BY <1>c DEF Follow, Idle
<1>10. \A j \in Heads : j <= r /\ j \notin Infos
  BY DEF Follow, Heads, Infos, ValidArch, ValidArci
<1>11. LastCi' = LastOf(Infos') /\ LastArch' = LastOf(Heads')
  BY DEF LastCi, LastArch, Infos, Heads
<1>12. Heads' \subseteq PageNumber /\ Infos' \subseteq PageNumber /\ r # None /\ p # None /\ FIRST_CI # None
  BY DEF Heads, Infos, PageNumber, None, FIRST_CI
<1>13. /\ \A j \in PageNumber : ValidArch(j)' <=> j \in Heads'
       /\ \A j \in PageNumber : ValidArci(j)' <=> j \in Infos'
  BY DEF Heads, Infos
\* Page 2 names the last commit, or none.
<1>14. HasCi0' => /\ pages[FIRST_CI].prev = c /\ pages'[FIRST_CI] = pages[FIRST_CI]
                  /\ archive.rewrite /\ pages[FIRST_CI].arch = r
  <2> SUFFICES ASSUME HasCi0'
               PROVE  /\ pages[FIRST_CI].prev = c /\ pages'[FIRST_CI] = pages[FIRST_CI]
                      /\ archive.rewrite /\ pages[FIRST_CI].arch = r
    OBVIOUS
  <2>1. FIRST_CI \in PageNumber /\ FIRST_CI \in Infos' /\ pages'[FIRST_CI].ci0
    BY <1>9, <1>13 DEF HasCi0, Infos
  <2>2. pages'[FIRST_CI] = pages[FIRST_CI]
    BY <1>5, <1>6, <2>1
  <2>3. ByCi0(r, n)
    BY <1>9, <2>1, <2>2 DEF At, Names, ByLastCi, NamedByCi0
  <2> QED
    BY <1>c, <2>2, <2>3 DEF ByCi0, Arci
<1>15. CASE i = r
  <2>1. \A j \in Heads' : j <= p
    BY <1>5, <1>8, <1>15
  <2>2. LastArch' = p
    BY <1>5, <1>8, <1>11, <1>12, <1>15, <2>1, LastIs DEF PageNumber
  <2>3. Infos' = Infos /\ c \in Infos' /\ \A j \in Infos' : j <= c
    BY <1>0, <1>5, <1>9, <1>10, <1>15
  <2>4. LastCi' = c
    BY <1>11, <1>12, <2>3, LastIs
  <2>5. pages'[c] = pages[c] /\ r \notin Heads' /\ pages'[p] = pages[p]
    BY <1>0, <1>5, <1>6, <1>8, <1>15 DEF PageNumber
  <2>6. pages'[c].arch = r /\ ~ValidArch(r)'
    BY <1>0, <1>13, <2>5
  <2>7. RootOfCi0' = None
    BY <1>14, <2>6 DEF RootOfCi0, RootOf
  <2>8. RootOfLastCi' = None
    BY <2>4, <2>6 DEF RootOfLastCi, RootOf
  <2>9. live_root' = p
    BY <2>2, <2>7, <2>8 DEF live_root
  <2> QED
    BY <1>8, <1>12, <2>5, <2>9 DEF LiveCommit
<1>16. CASE i = c
  <2>1. d \in Infos' /\ \A j \in Infos' : j <= d
    BY <1>5, <1>8, <1>16 DEF PageNumber
  <2>2. LastCi' = d
    BY <1>11, <1>12, <2>1, LastIs
  <2>3. RootOfCi0' = None
    <3>1. ~ValidArci(c)'
      BY <1>0, <1>5, <1>13, <1>16
    <3> QED
      BY <1>14, <3>1 DEF RootOfCi0, ValidArci, Exists
  <2>4. Heads' = Heads
    BY <1>0, <1>5, <1>10, <1>16
  <2>5. pages'[d] = pages[d] /\ pages'[p] = pages[p] /\ pages'[r] = pages[r]
    BY <1>0, <1>6, <1>8, <1>10, <1>16 DEF PageNumber
  <2>6. d # None
    BY <1>8 DEF PageNumber, None
  <2>7. CASE pages[d].arch = p
    <3>1. RootOfLastCi' = p
      BY <1>8, <1>13, <1>d, <2>2, <2>4, <2>5, <2>6, <2>7 DEF RootOfLastCi, RootOf
    <3>2. live_root' = p
      BY <1>12, <2>3, <3>1 DEF live_root
    <3> QED
      BY <1>8, <1>12, <2>5, <3>2 DEF LiveCommit
  <2>8. CASE pages[d].arch # p
    <3>1. archive.rewrite /\ d = FIRST_CI
      BY <1>8, <2>8
    <3>2. ByCi0(r, n)
      BY <3>1 DEF Follow
    <3>3. pages[d].arch = r
      BY <1>c, <3>1, <3>2 DEF ByCi0, Arci
    <3>4. RootOfLastCi' = None
      <4>1. pages'[d].arch = r /\ pages'[r].ci = c /\ c # d
        BY <1>8, <1>c, <2>5, <3>3 DEF PageNumber
      <4> QED
        BY <2>2, <4>1 DEF RootOfLastCi, RootOf
    <3>5. LastArch' = r
      BY <1>0, <1>10, <1>11, <1>12, <2>4, LastIs
    <3>6. live_root' = r
      BY <2>3, <3>4, <3>5 DEF live_root
    <3> QED
      BY <1>0, <1>12, <2>5, <3>6 DEF LiveCommit
  <2> QED
    BY <2>7, <2>8
<1>17. CASE i # r /\ i # c
  <2>1. pages'[r] = pages[r] /\ pages'[c] = pages[c] /\ r \in Heads' /\ c \in Infos'
    BY <1>0, <1>5, <1>6, <1>17
  <2>2. IsCommit(r, n)'
    BY <1>0, <1>c, <2>1 DEF IsCommit
  <2>3. LastCiIs(pages[r].ci)'
    BY <1>5, <1>9, <1>c, <2>1 DEF LastCiIs
  <2>4. CASE i = FIRST_CI
    <3>1. ~NamedByCi0'
      BY <1>5, <2>4 DEF NamedByCi0
    <3> QED
      BY <1>0, <1>2, <1>12, <2>1, <2>2, <2>3, <3>1 DEF Names, ByLastCi, FindsLast
  <2>5. CASE i # FIRST_CI
    <3>1. pages'[FIRST_CI] = pages[FIRST_CI] /\ FIRST_CI \in Infos'
      BY <1>5, <1>6, <1>9, <2>5 DEF Infos
    <3>2. ByCi0(r, n) \/ ByLastCi(r)
      BY DEF At, Names
    <3>3. ByCi0(r, n)' \/ ByLastCi(r)'
      BY <1>2, <1>9, <2>1, <2>3, <3>1, <3>2 DEF ByCi0, ByLastCi, NamedByCi0
    <3> QED
      BY <1>0, <1>12, <2>2, <3>3 DEF Names, FindsLast
  <2> QED
    BY <2>4, <2>5
<1> QED
  BY <1>15, <1>16, <1>17

\* An archive that no longer opens lost the magic of its first page, and nothing else.
LEMMA WipedFirst ==
  ASSUME Opens, Damage
  PROVE  Opens' \/ pages' = [pages EXCEPT ![0] = Wiped]
<1>1. PICK i \in PageNumber : \E p \in IF i = 0 THEN {Bad, Wiped} ELSE {Bad} : Written(i, p)
  BY DEF Damage
<1>2. CASE Written(i, Bad)
  BY <1>2 DEF Written, Opens, Bad, Wiped
<1>3. CASE i = 0 /\ Written(i, Wiped)
  BY <1>3 DEF Written
<1> QED
  BY <1>1, <1>2, <1>3

OpenedInv == opened = "page store" => StoreInv

\* Commits are atomic to whoever opens a page store, however many pages it has and however
\* often its writer crashes: unless freed pages are written again and page 2 does not say
\* which commit is the last one.
THEOREM CommitsAreAtomic ==
  ASSUME AtomicKinds
  PROVE  OpenedSpec => CommitsAtomic
<1>1. OpenedInit => OpenedInv /\ Log!Init
  BY StoreInitInvariant DEF OpenedInit, OpenedInv, Log!Init, Found
<1>2. OpenedInv /\ [OpenedNext]_openedVars => OpenedInv' /\ [Log!Commit]_Found
  <2> SUFFICES ASSUME OpenedInv, [OpenedNext]_openedVars
               PROVE  OpenedInv' /\ [Log!Commit]_Found
    OBVIOUS
  <2>1. opened' = opened
    BY DEF OpenedNext, openedVars
  <2>2. CASE opened = "page store"
    <3>1. [StoreNext]_storeVars
      BY <2>2 DEF OpenedNext, openedVars, pageVars, storeVars
    <3>2. StoreInv
      BY <2>2 DEF OpenedInv
    <3>3. /\ StoreInv' /\ archive' = archive
          /\ damaged' = 0 => \/ CommitFound' = CommitFound
                             \/ CommitFound < MaxCommits /\ CommitFound' = CommitFound + 1
      BY <3>1, <3>2, StoreStep
    <3>4. ~archive.decays => damaged' = 0
      BY <3>3 DEF StoreInv
    <3> QED
      BY <2>1, <2>2, <3>3, <3>4 DEF OpenedInv, Log!Commit, Found
  <2>3. CASE opened # "page store"
    BY <2>1, <2>3 DEF OpenedInv, Found
  <2> QED
    BY <2>2, <2>3
<1> QED
  BY <1>1, <1>2, PTL DEF OpenedSpec, CommitsAtomic, Log!Spec

\* Pages that go bad are never written again.
DecayKinds == \A a \in Archives : a.decays => ~a.reuse

\* The first page that goes bad after a backup costs at most the newest commit, however many
\* commits there are and whichever page it is: the reader still finds it or the one before,
\* unless a commit was torn.  Page 0 alone can cost the archive, if it loses its magic.
THEOREM OneBadPageCostsOneCommit ==
  ASSUME AtomicKinds, DecayKinds
  PROVE  OpenedSpec => BadPageCostsOneCommit
<1> DEFINE BothInv == /\ archive \in Archives
                      /\ opened = "page store" => StoreInv /\ FollowInv
<1>1. OpenedInit => BothInv
  BY StoreInitInvariant DEF OpenedInit, StoreInit
<1>2. BothInv /\ [OpenedNext]_openedVars => BothInv'
  <2> SUFFICES ASSUME BothInv, [OpenedNext]_openedVars
               PROVE  BothInv'
    OBVIOUS
  <2>1. opened' = opened
    BY DEF OpenedNext, openedVars
  <2>2. CASE opened = "page store"
    <3>1. [StoreNext]_storeVars
      BY <2>2 DEF OpenedNext, openedVars, pageVars, storeVars
    <3> QED
      BY <2>1, <2>2, <3>1, StoreStep, FollowKept
  <2>3. CASE opened # "page store"
    BY <2>1, <2>3 DEF OpenedNext, openedVars, pageVars
  <2> QED
    BY <2>2, <2>3
<1>3. BothInv /\ BothInv' /\ FindsLast /\ FindsLast' /\ [OpenedNext]_openedVars =>
        [damaged = 0 /\ damaged' > 0 /\ crashes = 0 /\ writer = Idle /\ LiveCommit > 1 =>
           IF Opens'
           THEN live_root' # None /\ LiveCommit' \in {LiveCommit - 1, LiveCommit}
           ELSE Opens /\ pages' = [pages EXCEPT ![0] = Wiped]]_storeVars
  <2> SUFFICES ASSUME BothInv, BothInv', FindsLast, FindsLast', [OpenedNext]_openedVars,
                      damaged = 0, damaged' > 0, crashes = 0, writer = Idle, LiveCommit > 1
               PROVE  IF Opens'
                      THEN live_root' # None /\ LiveCommit' \in {LiveCommit - 1, LiveCommit}
                      ELSE Opens /\ pages' = [pages EXCEPT ![0] = Wiped]
    OBVIOUS
  <2> HIDE DEF BothInv
  <2>1. damaged' # damaged
    OBVIOUS
  <2>2. opened = "page store" /\ opened' = opened
    BY <2>1 DEF OpenedNext, openedVars, pageVars
  <2>3. Damage
    <3>1. [StoreNext]_storeVars
      BY <2>2 DEF OpenedNext, openedVars, pageVars, storeVars
    <3> QED
      BY <2>1, <3>1 DEF StoreNext, WriterStep, WriteData, WriteArch, WriteCi, RewriteCi0, Crash,
                        CrashOnArch, storeVars
  <2>4. StoreInv /\ StoreInv' /\ FollowInv /\ ~archive.reuse
    BY <2>2, <2>3 DEF BothInv, Damage, DecayKinds
  <2>5. PICK r \in PageNumber, n \in 1 .. MaxCommits : At(r, n) /\ Follow(r, n)
    BY <2>4 DEF FollowInv
  <2>6. LiveCommit = n
    BY <2>4, <2>5 DEF FindsLast, StoreInv, At
  <2>7. n \in 2 .. MaxCommits
    BY <2>6
  <2>8. StoreTypeOK /\ StoreTypeOK'
    BY <2>4 DEF StoreInv
  <2>9. live_root' # None /\ LiveCommit' \in {LiveCommit - 1, LiveCommit}
    BY <2>3, <2>4, <2>5, <2>6, <2>7, <2>8, DamageStep
  <2>10. Opens' \/ (Opens /\ pages' = [pages EXCEPT ![0] = Wiped])
    BY <2>3, <2>4, WipedFirst DEF StoreInv
  <2> QED
    BY <2>9, <2>10
<1>4. FindsLast
  BY FindingCorrect
<1> QED
  BY <1>1, <1>2, <1>3, <1>4, PTL DEF OpenedSpec, BadPageCostsOneCommit

-----------------------------------------------------------------------------
(***************************************************************************)
(* The snapshots of a VBK file are taken whole or not at all: VbkSlots     *)
(* implements CommitLog.                                                   *)
(*                                                                         *)
(* The slot the writer does not write keeps the last snapshot whole; the   *)
(* other one is torn, empty, or holds the snapshot before it.  The first   *)
(* slot always contains a snapshot, torn or not, without which the second  *)
(* one would not be found.                                                 *)
(***************************************************************************)

Slot == [contains : BOOLEAN, version : 0 .. MaxCommits, whole : BOOLEAN]

\* Slot s holds the last snapshot, n, and the other one none that is whole and newer.
Holds(s, n) ==
  /\ slots[s] = Vbk!Whole(n)
  /\ Vbk!Verifies(Vbk!Other(s)) => slots[Vbk!Other(s)].version < n

SlotsTypeOK ==
  /\ slots \in [1 .. 2 -> Slot]
  /\ writing \in {Vbk!None, 1, 2}

SlotsInv ==
  /\ SlotsTypeOK
  /\ slots[1].contains
  /\ \E s \in {1, 2}, n \in 1 .. MaxCommits :
       /\ Holds(s, n)
       /\ writing # Vbk!None =>
            writing = Vbk!Other(s) /\ ~Vbk!Verifies(Vbk!Other(s)) /\ n < MaxCommits

-----------------------------------------------------------------------------

\* The reader opens the slot that holds the last snapshot, whatever the other one shows.
OpensTheLast ==
  SlotsTypeOK /\ slots[1].contains =>
    \A s \in {1, 2}, n \in 1 .. MaxCommits :
      Holds(s, n) => Vbk!active_slot = s /\ Vbk!ActiveVersion = n /\ Vbk!Opened = n

LEMMA OpeningCorrect ==
  ASSUME MaxCommits \in Nat
  PROVE  OpensTheLast
<1> SUFFICES ASSUME SlotsTypeOK, slots[1].contains,
                    NEW s \in {1, 2}, NEW n \in 1 .. MaxCommits, Holds(s, n)
             PROVE  Vbk!active_slot = s /\ Vbk!ActiveVersion = n /\ Vbk!Opened = n
  BY DEF OpensTheLast
<1> DEFINE verified == {x \in Vbk!Populated : Vbk!Verifies(x)}
<1>1. Vbk!Populated = {x \in {1, 2} : slots[x].contains}
  BY DEF Vbk!Populated, Vbk!Found
<1>2. s \in verified /\ verified \subseteq {s, Vbk!Other(s)}
  BY <1>1 DEF Holds, Vbk!Verifies, Vbk!Whole, Vbk!Other
<1>3. slots[s].version = n /\ \A x \in verified : x # s => slots[x].version < n
  BY <1>2 DEF Holds, Vbk!Whole, Vbk!Verifies
<1>4. \A x \in verified : slots[x].version \in Nat
  BY <1>1 DEF SlotsTypeOK, Slot
<1>5. \A o \in verified : slots[o].version <= slots[s].version
  BY <1>3, <1>4
<1>6. \A x \in verified :
        (\A o \in verified : slots[o].version <= slots[x].version) => x = s
  BY <1>2, <1>3, <1>4
<1>7. Vbk!active_slot = s
  BY <1>2, <1>5, <1>6 DEF Vbk!active_slot, Vbk!Newest
<1> QED
  BY <1>3, <1>7 DEF Vbk!ActiveVersion, Vbk!Opened, Holds, Vbk!Whole

LEMMA SlotsInitInvariant ==
  ASSUME MaxCommits \in Nat \ {0}, Vbk!Init
  PROVE  SlotsInv /\ Vbk!Opened = 1
<1>1. SlotsTypeOK
  <2>1. Vbk!Whole(1) \in Slot /\ Vbk!Empty \in Slot
    BY DEF Slot, Vbk!Whole, Vbk!Empty
  <2>2. slots = [i \in 1 .. 2 |-> IF i = 1 THEN Vbk!Whole(1) ELSE Vbk!Empty]
    BY DEF Vbk!Init
  <2> QED
    BY <2>1, <2>2 DEF Vbk!Init, SlotsTypeOK
<1>2. slots[1].contains /\ Holds(1, 1) /\ writing = Vbk!None
  BY DEF Vbk!Init, Holds, Vbk!Whole, Vbk!Empty, Vbk!Other, Vbk!Verifies
<1> QED
  BY <1>1, <1>2, OpeningCorrect DEF OpensTheLast, SlotsInv

\* A step keeps the invariant, and moves the file on by one snapshot or not at all.
LEMMA SlotsStepInvariant ==
  ASSUME MaxCommits \in Nat, SlotsInv, Vbk!Next \/ UNCHANGED slotsVars
  PROVE  SlotsInv' /\ [Vbk!Log!Commit]_(Vbk!Opened)
<1>o. OpensTheLast /\ OpensTheLast'
  BY OpeningCorrect, PTL
<1>0. PICK s \in {1, 2}, n \in 1 .. MaxCommits :
        /\ Holds(s, n)
        /\ writing # Vbk!None =>
             writing = Vbk!Other(s) /\ ~Vbk!Verifies(Vbk!Other(s)) /\ n < MaxCommits
  BY DEF SlotsInv
<1>1. Vbk!active_slot = s /\ Vbk!ActiveVersion = n /\ Vbk!Opened = n
  BY <1>0, <1>o DEF OpensTheLast, SlotsInv
<1>2. Vbk!Other(s) \in {1, 2} /\ Vbk!Other(s) # s /\ Vbk!Other(Vbk!Other(s)) = s
  BY DEF Vbk!Other
<1>3. CASE Vbk!Begin
  <2>1. writing = Vbk!None /\ n < MaxCommits /\ writing' = Vbk!Other(s)
    BY <1>1, <1>3 DEF Vbk!Begin
  <2>2. PICK torn \in Vbk!Torn(Vbk!Other(s), n + 1) : slots' = [slots EXCEPT ![Vbk!Other(s)] = torn]
    BY <1>1, <1>3 DEF Vbk!Begin
  <2>3. torn \in Slot /\ ~torn.whole /\ (slots[Vbk!Other(s)].contains => torn.contains)
    <3>1. slots[Vbk!Other(s)].contains \in BOOLEAN /\ slots[Vbk!Other(s)].version \in 0 .. MaxCommits
      BY <1>2 DEF SlotsInv, SlotsTypeOK, Slot
    <3>2. n + 1 \in 0 .. MaxCommits
      BY <2>1
    <3>3. /\ torn \in [contains : BOOLEAN, version : 0 .. MaxCommits, whole : {FALSE}]
          /\ torn.contains \in {slots[Vbk!Other(s)].contains, TRUE}
      BY <2>2, <3>1, <3>2 DEF Vbk!Torn
    <3> QED
      BY <3>1, <3>3 DEF Slot
  <2>4. SlotsTypeOK'
    BY <1>2, <2>1, <2>2, <2>3 DEF SlotsInv, SlotsTypeOK
  <2>5. slots'[s] = slots[s] /\ slots'[Vbk!Other(s)] = torn
    BY <1>2, <2>2 DEF SlotsInv, SlotsTypeOK
  <2>6. slots'[1].contains
    BY <1>2, <2>3, <2>5 DEF SlotsInv
  <2>7. Holds(s, n)' /\ ~Vbk!Verifies(Vbk!Other(s))'
    BY <1>0, <2>3, <2>5 DEF Holds, Vbk!Verifies, Vbk!Whole
  <2>8. SlotsInv'
    BY <2>1, <2>4, <2>6, <2>7 DEF SlotsInv
  <2>9. Vbk!Opened' = n
    BY <1>o, <2>4, <2>6, <2>7 DEF OpensTheLast
  <2> QED
    BY <1>1, <2>8, <2>9
<1>4. CASE Vbk!Finish
  <2>1. writing = Vbk!Other(s) /\ n < MaxCommits /\ writing' = Vbk!None
    BY <1>0, <1>4 DEF Vbk!Finish
  <2>2. slots' = [slots EXCEPT ![Vbk!Other(s)] = Vbk!Whole(n + 1)]
    <3>1. slots[s].version = n
      BY <1>0 DEF Holds, Vbk!Whole
    <3> QED
      BY <1>2, <1>4, <2>1, <3>1 DEF Vbk!Finish
  <2>3. Vbk!Whole(n + 1) \in Slot /\ n + 1 \in 1 .. MaxCommits
    BY <2>1 DEF Vbk!Whole, Slot
  <2>4. SlotsTypeOK'
    BY <1>2, <2>1, <2>2, <2>3 DEF SlotsInv, SlotsTypeOK
  <2>5. slots'[s] = slots[s] /\ slots'[Vbk!Other(s)] = Vbk!Whole(n + 1)
    BY <1>2, <2>2 DEF SlotsInv, SlotsTypeOK
  <2>6. slots'[1].contains
    BY <1>2, <2>5 DEF SlotsInv, Vbk!Whole
  <2>7. Holds(Vbk!Other(s), n + 1)'
    BY <1>0, <1>2, <2>5 DEF Holds, Vbk!Verifies, Vbk!Whole
  <2>8. SlotsInv'
    BY <1>2, <2>1, <2>3, <2>4, <2>6, <2>7 DEF SlotsInv
  <2>9. Vbk!Opened' = n + 1
    BY <1>2, <1>o, <2>3, <2>4, <2>6, <2>7 DEF OpensTheLast
  <2> QED
    BY <1>1, <2>1, <2>8, <2>9 DEF Vbk!Log!Commit
<1>5. CASE Vbk!Crash \/ UNCHANGED slotsVars
  <2>1. UNCHANGED slots /\ writing' \in {writing, Vbk!None}
    BY <1>5 DEF Vbk!Crash, slotsVars
  <2>2. SlotsInv'
    BY <1>0, <2>1 DEF SlotsInv, SlotsTypeOK, Holds, Vbk!Verifies, Vbk!None
  <2>3. Vbk!Opened' = Vbk!Opened
    BY <2>1 DEF Vbk!Opened, Vbk!ActiveVersion, Vbk!active_slot, Vbk!Newest, Vbk!Populated, Vbk!Found, Vbk!Verifies
  <2> QED
    BY <2>2, <2>3
<1> QED
  BY <1>3, <1>4, <1>5 DEF Vbk!Next

\* Whoever opens the file finds the last snapshot that was completed, wherever the writer is
\* and however often it crashed, and is never led back.
THEOREM SnapshotsTakenWhole ==
  ASSUME MaxCommits \in Nat \ {0}
  PROVE  OpenedSpec => SnapshotsAtomic
<1>1. OpenedInit => SlotsInv /\ Vbk!Log!Init
  BY SlotsInitInvariant DEF OpenedInit, Vbk!Log!Init
<1>2. SlotsInv /\ [OpenedNext]_openedVars => SlotsInv' /\ [Vbk!Log!Commit]_(Vbk!Opened)
  <2>1. [OpenedNext]_openedVars => Vbk!Next \/ UNCHANGED slotsVars
    BY DEF OpenedNext, openedVars
  <2> QED
    BY <2>1, SlotsStepInvariant
<1> QED
  BY <1>1, <1>2, PTL DEF OpenedSpec, SnapshotsAtomic, Vbk!SnapshotsAtomic, Vbk!Log!Spec
=============================================================================
