-------------------------- MODULE PageWalksProofs --------------------------
(***************************************************************************)
(* Theorems about the backward scan and the walk of a tree, for archives   *)
(* of any length and of any pages: first what one step of each keeps, then *)
(* what follows for every call.                                            *)
(***************************************************************************)
EXTENDS PageWalks, SumLemmas

(***************************************************************************)
(* The backward scan.                                                      *)
(***************************************************************************)

\* What has been passed over is not wanted: nothing at or after end, and in a run
\* nothing after the page that is yielded next.
Passed ==
  /\ pc = "head" => start = end /\ \A i \in wanted : i < end
  /\ pc = "page" => \A i \in wanted : i <= index
  /\ pc # "done" => found = None

\* The next run is no longer than all the runs before it and one smallest run, until
\* the scan reaches the start of the archive.
RunsGrow ==
  /\ pc = "head" /\ end > 0 => count <= page_count - end + SCAN_CHUNK_MIN_PAGES
  /\ pc = "page" => /\ count <= page_count - end + SCAN_CHUNK_MIN_PAGES
                    /\ start = RunStart
  /\ pc = "done" /\ found # None =>
       /\ found < end
       /\ start = RunStart
       /\ count <= page_count - end + SCAN_CHUNK_MIN_PAGES

ScanInv == TypeOK /\ Passed /\ FindsLast /\ RunsGrow

\* The scan begins at the end of the archive.
LEMMA ScanInit ==
  Init => ScanInv
BY PageCountsAssumption, ChunkAssumption
DEF Init, ScanInv, TypeOK, Passed, FindsLast, RunsGrow, None

\* Every step of the scan keeps what it relies on.
LEMMA ScanStep ==
  ASSUME ScanInv, [Next]_vars
  PROVE  ScanInv'
<1>1. /\ page_count \in Nat
      /\ SCAN_CHUNK_MIN_PAGES \in Nat \ {0}
      /\ SCAN_CHUNK_MAX_PAGES \in Nat
      /\ SCAN_CHUNK_MIN_PAGES <= SCAN_CHUNK_MAX_PAGES
      /\ count \in Nat \ {0}
  BY PageCountsAssumption, ChunkAssumption DEF ScanInv, TypeOK
<1>2. CASE ReadRun
  <2>1. RunStart \in 0 .. end - 1
    BY <1>1, <1>2 DEF ReadRun, RunStart, ScanInv, TypeOK
  <2>2. TypeOK'
    BY <1>1, <1>2, <2>1 DEF ReadRun, ScanInv, TypeOK
  <2>3. Passed' /\ FindsLast'
    BY <1>1, <1>2 DEF ReadRun, ScanInv, TypeOK, Passed, FindsLast
  <2>4. RunsGrow'
    BY <1>1, <1>2 DEF ReadRun, ScanInv, TypeOK, RunsGrow, RunStart
  <2> QED
    BY <2>2, <2>3, <2>4 DEF ScanInv
<1>3. CASE Yield
  <2>1. TypeOK'
    BY <1>1, <1>3 DEF Yield, ScanInv, TypeOK
  <2>2. Passed'
    BY <1>1, <1>3 DEF Yield, ScanInv, TypeOK, Passed
  <2>3. FindsLast' /\ RunsGrow'
    BY <1>3 DEF Yield, ScanInv, FindsLast, RunsGrow, RunStart
  <2> QED
    BY <2>1, <2>2, <2>3 DEF ScanInv
<1>4. CASE Take
  <2>1. TypeOK'
    BY <1>1, <1>4 DEF Take, ScanInv, TypeOK
  <2>2. Passed' /\ FindsLast'
    BY <1>1, <1>4 DEF Take, ScanInv, TypeOK, Passed, FindsLast
  <2>3. RunsGrow'
    BY <1>1, <1>4 DEF Take, ScanInv, TypeOK, RunsGrow, RunStart
  <2> QED
    BY <2>1, <2>2, <2>3 DEF ScanInv
<1>5. CASE EndRun
  <2>1. Doubled(count) \in SCAN_CHUNK_MIN_PAGES .. SCAN_CHUNK_MAX_PAGES
    BY <1>1 DEF Doubled, ScanInv, TypeOK
  <2>2. Doubled(count) <= 2 * count
    BY <1>1 DEF Doubled, ScanInv, TypeOK
  <2>3. TypeOK'
    BY <1>1, <1>5, <2>1 DEF EndRun, EndRunAt, ScanInv, TypeOK
  <2>4. Passed' /\ FindsLast'
    BY <1>1, <1>5 DEF EndRun, EndRunAt, ScanInv, TypeOK, Passed, FindsLast
  <2>5. start > 0 => Doubled(count) <= page_count - start + SCAN_CHUNK_MIN_PAGES
    BY <1>1, <1>5, <2>1, <2>2 DEF EndRun, EndRunAt, ScanInv, TypeOK, RunsGrow, RunStart
  <2>6. RunsGrow'
    BY <1>5, <2>5 DEF EndRun, EndRunAt, RunsGrow
  <2> QED
    BY <2>3, <2>4, <2>6 DEF ScanInv
<1>6. CASE Exhausted
  <2>1. TypeOK' /\ Passed'
    BY <1>6 DEF Exhausted, ScanInv, TypeOK, Passed
  <2>2. found = None /\ wanted = {}
    BY <1>1, <1>6 DEF Exhausted, ScanInv, TypeOK, Passed
  <2>3. FindsLast' /\ RunsGrow'
    BY <1>6, <2>2 DEF Exhausted, FindsLast, RunsGrow
  <2> QED
    BY <2>1, <2>3 DEF ScanInv
<1>7. CASE UNCHANGED vars
  BY <1>7 DEF vars, ScanInv, TypeOK, Passed, FindsLast, RunsGrow, RunStart
<1> QED
  BY <1>2, <1>3, <1>4, <1>5, <1>6, <1>7 DEF Next, Step, Done

\* A scan that has ended has read little.
LEMMA ScanHasReadLittle ==
  ScanInv => ReadsLittle
<1> SUFFICES ASSUME ScanInv, pc = "done", found # None
             PROVE  page_count - start < 2 * (page_count - found) + SCAN_CHUNK_MIN_PAGES
  BY DEF ReadsLittle
<1>1. page_count \in Nat /\ SCAN_CHUNK_MIN_PAGES \in Nat /\ SCAN_CHUNK_MAX_PAGES \in Nat
  BY PageCountsAssumption, ChunkAssumption DEF ScanInv, TypeOK
<1>2. /\ end \in Int /\ found \in Int /\ count \in Int /\ found < end
      /\ start >= end - count
      /\ count <= page_count - end + SCAN_CHUNK_MIN_PAGES
  BY <1>1 DEF ScanInv, TypeOK, RunsGrow, RunStart
<1>3. start \in Int
  BY <1>1 DEF ScanInv, TypeOK
<1> QED
  BY <1>1, <1>2, <1>3

-----------------------------------------------------------------------------
(***************************************************************************)
(* The walk of a tree.                                                     *)
(***************************************************************************)

PageNumbers == DOMAIN pages

\* The pages whose children went on the stack.
Expanded == visited \ {current}

Root == <<None, 0>>

\* What the walk followed: the way to the root, and to each child of those pages.
Links == {Root} \cup UNION {{q} \X DOMAIN Walk!Children(q) : q \in Expanded}

Target == [e \in (Int \X Nat) |-> IF e = Root THEN root_page ELSE Walk!Children(e[1])[e[2]]]

Occurs(s, p) == \E k \in DOMAIN s : s[k] = p

Twice(s, p) == \E j, k \in DOMAIN s : j # k /\ s[j] = p /\ s[k] = p

\* The walk was or will be where it is led to, and a second time if it is led there twice.
Followed ==
  /\ \A e \in Links :
       Target[e] \in PageNumbers => Target[e] \in visited \/ Occurs(stack, Target[e])
  /\ \A e, f \in Links :
       e # f /\ Target[e] = Target[f] /\ Target[e] \in PageNumbers =>
         (Target[e] \in visited /\ Occurs(stack, Target[e])) \/ Twice(stack, Target[e])

\* The walk is nowhere it was not led to, and does not leave the tree.
Linked ==
  /\ \A k \in DOMAIN stack : \E e \in Links : Target[e] = stack[k]
  /\ \A p \in visited : \E e \in Links : Target[e] = p
  /\ visited \subseteq Walk!Reachable
  /\ \A k \in DOMAIN stack : stack[k] \in PageNumbers => stack[k] \in Walk!Reachable

\* No page is met twice.
MetOnce ==
  \A k \in DOMAIN stack :
    stack[k] \in PageNumbers =>
      stack[k] \notin visited /\ \A j \in DOMAIN stack : stack[j] = stack[k] => j = k

\* A page that was read ahead follows on one that was read with it.
InRuns ==
  /\ \A p \in PageNumbers : reads[p] = IF p \in visited \cup ahead THEN 1 ELSE 0
  /\ \A p \in ahead : p \notin visited /\ Occurs(stack, p) /\ p - 1 \in visited \cup ahead

WalkInv ==
  /\ pages \in Archives
  /\ Walk!TypeOK
  /\ outcome # "corrupt" => Followed
  /\ outcome = "done" => stack = <<>>
  /\ outcome # "walking" => current = None
  /\ Linked
  /\ Walk!IsTree => MetOnce /\ InRuns /\ outcome # "corrupt"

\* What the archive's pages point to.
LEMMA ChildrenType ==
  ASSUME pages \in Archives
  PROVE  /\ PageNumbers \subseteq Nat /\ None \notin PageNumbers
         /\ \A p : Walk!Children(p) \in Seq(Int)
         /\ \A p : p \notin PageNumbers => Walk!Children(p) = <<>>
BY ArchivesAssumption DEF PageNumbers, None, Walk!Children, Walk!PageNumbers

\* The pages of the tree are the root, their children, and no others.
LEMMA TreePages ==
  /\ Walk!Reachable \subseteq PageNumbers
  /\ root_page \in PageNumbers => root_page \in Walk!Reachable
  /\ \A p \in Walk!Reachable : \A i \in DOMAIN Walk!Children(p) :
       Walk!Children(p)[i] \in PageNumbers => Walk!Children(p)[i] \in Walk!Reachable
  /\ \A S \in SUBSET PageNumbers :
       (root_page \in PageNumbers => root_page \in S) /\ Walk!Closed(S) => Walk!Reachable \subseteq S
BY DEF Walk!Reachable, Walk!Closed, Walk!PageNumbers, PageNumbers

\* What is a tree is one as long as the archive is what it is.
LEMMA SameTree ==
  ASSUME UNCHANGED pages
  PROVE  /\ Walk!IsTree' <=> Walk!IsTree
         /\ Walk!Reachable' = Walk!Reachable
         /\ PageNumbers' = PageNumbers
         /\ Target' = Target
         /\ \A p : Walk!Children(p)' = Walk!Children(p)
BY DEF Walk!IsTree, Walk!Reachable, Walk!Edges, Walk!Closed, Walk!Children, Walk!PageNumbers, PageNumbers, Target

\* Links are pairs of a page and the number of a child, but for the one to the root.
LEMMA LinkPairs ==
  ASSUME pages \in Archives, Walk!TypeOK
  PROVE  /\ Links \subseteq Int \X Nat
         /\ Root \in Links /\ Target[Root] = root_page
         /\ \A q \in Expanded : \A i \in DOMAIN Walk!Children(q) :
              /\ <<q, i>> \in Links /\ <<q, i>> # Root
              /\ Target[<<q, i>>] = Walk!Children(q)[i]
         /\ \A e \in Links : e # Root =>
              \E q \in Expanded : \E i \in DOMAIN Walk!Children(q) : e = <<q, i>>
         /\ \A e \in Links : Target[e] \in Int
<1>1. Expanded \subseteq Nat
  BY ChildrenType DEF Expanded, Walk!TypeOK, PageNumbers, Walk!PageNumbers
<1>2. \A q : /\ DOMAIN Walk!Children(q) = 1 .. Len(Walk!Children(q)) /\ Len(Walk!Children(q)) \in Nat
             /\ \A i \in DOMAIN Walk!Children(q) : Walk!Children(q)[i] \in Int
  BY ChildrenType
<1>3. \A q \in Expanded : \A i \in DOMAIN Walk!Children(q) :
        <<q, i>> \in Int \X Nat /\ <<q, i>> # Root /\ <<q, i>> \in Links
  BY <1>1, <1>2 DEF Root, Links
<1>4. Root \in Int \X Nat /\ Root \in Links
  BY DEF Root, None, Links
<1>5. \A e \in Links : e # Root =>
        \E q \in Expanded : \E i \in DOMAIN Walk!Children(q) : e = <<q, i>>
  BY DEF Links
<1>6. \A q \in Expanded : \A i \in DOMAIN Walk!Children(q) : Target[<<q, i>>] = Walk!Children(q)[i]
  BY <1>3 DEF Target
<1>7. Target[Root] = root_page
  BY <1>4 DEF Target
<1>8. \A e \in Links : e \in Int \X Nat /\ Target[e] \in Int
  BY <1>2, <1>3, <1>4, <1>5, <1>6, <1>7, RootAssumption
<1> QED
  BY <1>3, <1>4, <1>5, <1>6, <1>7, <1>8

\* In a tree nothing else leads where one page does.
LEMMA LedOnce ==
  ASSUME Walk!IsTree, NEW q \in Walk!Reachable, NEW i \in DOMAIN Walk!Children(q),
         Walk!Children(q)[i] \in PageNumbers
  PROVE  /\ Walk!Children(q)[i] # root_page
         /\ \A r \in Walk!Reachable : \A j \in DOMAIN Walk!Children(r) :
              Walk!Children(r)[j] = Walk!Children(q)[i] => r = q /\ j = i
<1>1. \A r \in Walk!Reachable : \A j \in DOMAIN Walk!Children(r) :
        Walk!Children(r)[j] \in PageNumbers => <<r, j>> \in Walk!Edges
  BY DEF Walk!Edges, PageNumbers, Walk!PageNumbers
<1>2. <<q, i>> \in Walk!Edges
  BY <1>1
<1> QED
  BY <1>1, <1>2 DEF Walk!IsTree

\* Taking the last entry off the stack.
LEMMA PopStack ==
  ASSUME stack \in Seq(Int), stack # <<>>, stack' = Walk!Front(stack)
  PROVE  /\ stack' \in Seq(Int)
         /\ \E n \in DOMAIN stack, top \in Int :
              /\ top = stack[n] /\ top = Walk!Top
              /\ \A k : k \in DOMAIN stack' <=> k \in DOMAIN stack /\ k # n
              /\ \A k \in DOMAIN stack' : stack'[k] = stack[k]
              /\ \A i \in Nat \ {0} :
                   (i <= Len(stack') => Len(stack') - i + 1 \in DOMAIN stack')
<1>0. Len(stack) \in Nat \ {0}
  BY EmptySeq, LenProperties
<1>1. Len(stack) \in Nat \ {0} /\ DOMAIN stack = 1 .. Len(stack)
  BY <1>0, LenProperties
<1>2. stack' = SubSeq(stack, 1, Len(stack) - 1)
  BY DEF Walk!Front
<1>3. stack' \in Seq(Int) /\ Len(stack') = Len(stack) - 1 /\ DOMAIN stack' = 1 .. Len(stack) - 1
  <2>1. PICK n \in Nat : n = Len(stack) - 1
    BY <1>0
  <2>2. \A i \in 1 .. n : stack[i] \in Int
    BY <2>1
  <2>3. /\ SubSeq(stack, 1, n) \in Seq(Int)
        /\ Len(SubSeq(stack, 1, n)) = IF 1 <= n THEN n - 1 + 1 ELSE 0
    BY <2>2, SubSeqProperties
  <2>4. Len(SubSeq(stack, 1, n)) = n
    BY <2>3
  <2> QED
    BY <1>2, <2>1, <2>3, <2>4, LenProperties
<1>4. \A k \in DOMAIN stack' : stack'[k] = stack[k]
  BY <1>1, <1>2, <1>3, SubSeqProperties
<1>5. Len(stack) \in DOMAIN stack /\ Walk!Top = stack[Len(stack)] /\ Walk!Top \in Int
  BY <1>1 DEF Walk!Top
<1>6. \A k : k \in DOMAIN stack' <=> k \in DOMAIN stack /\ k # Len(stack)
  BY <1>1, <1>3
<1>7. \A i \in Nat \ {0} : i <= Len(stack') => Len(stack') - i + 1 \in DOMAIN stack'
  BY <1>1, <1>3
<1> QED
  BY <1>3, <1>4, <1>5, <1>6, <1>7

\* What is put on the stack, the last one first.
LEMMA PushStack ==
  ASSUME stack \in Seq(Int), NEW c \in Seq(Int), stack' = stack \o Walk!Reverse(c)
  PROVE  /\ stack' \in Seq(Int)
         /\ \E Pos :
              /\ \A k \in DOMAIN stack : k \in DOMAIN stack' /\ stack'[k] = stack[k]
              /\ \A i \in DOMAIN c :
                   Pos[i] \in DOMAIN stack' \ DOMAIN stack /\ stack'[Pos[i]] = c[i]
              /\ \A k \in DOMAIN stack' : k \in DOMAIN stack \/ \E i \in DOMAIN c : k = Pos[i]
              /\ \A i, j \in DOMAIN c : Pos[i] = Pos[j] => i = j
<1>1. PICK m \in Nat, l \in Nat :
        m = Len(stack) /\ l = Len(c) /\ DOMAIN stack = 1 .. m /\ DOMAIN c = 1 .. l
  BY LenProperties
\* Where the i-th child goes.
<1>2. PICK Pos : Pos \in [1 .. l -> Int] /\ \A i \in 1 .. l : Pos[i] = m + (l - i + 1)
  <2> DEFINE P == [i \in 1 .. l |-> m + (l - i + 1)]
  <2>1. P \in [1 .. l -> Int] /\ \A i \in 1 .. l : P[i] = m + (l - i + 1)
    BY <1>1
  <2> QED
    BY <2>1
<1>3. PICK d : d \in Seq(Int) /\ Walk!Reverse(c) = d /\ Len(d) = l /\ \A i \in 1 .. l : d[i] = c[l - i + 1]
  <2> DEFINE d == [i \in 1 .. l |-> c[l - i + 1]]
  <2>1. \A i \in 1 .. l : c[l - i + 1] \in Int
    BY <1>1
  <2>2. d \in Seq(Int)
    BY <2>1, IsASeq
  <2>3. DOMAIN d = 1 .. l
    OBVIOUS
  <2>4. Len(d) = l
    BY <2>2, <2>3, LenProperties
  <2>5. Walk!Reverse(c) = d
    BY <1>1 DEF Walk!Reverse
  <2> QED
    BY <2>2, <2>4, <2>5
<1>4. PICK t \in Seq(Int) : t = stack \o Walk!Reverse(c) /\ t = stack \o d
  <2>1. stack \o d \in Seq(Int)
    BY <1>3, ConcatProperties
  <2> QED
    BY <1>3, <2>1
<1>5. /\ t = stack' /\ DOMAIN t = 1 .. m + l
      /\ \A k \in 1 .. m + l : t[k] = IF k <= m THEN stack[k] ELSE d[k - m]
  <2>1. /\ Len(t) = Len(stack) + Len(d)
        /\ \A k \in 1 .. Len(stack) + Len(d) : t[k] = IF k <= Len(stack) THEN stack[k] ELSE d[k - Len(stack)]
    <3>1. /\ Len(stack \o d) = Len(stack) + Len(d)
          /\ \A k \in 1 .. Len(stack) + Len(d) :
               (stack \o d)[k] = IF k <= Len(stack) THEN stack[k] ELSE d[k - Len(stack)]
      BY <1>3, ConcatProperties, ZenonT(60)
    <3> QED
      BY <1>4, <3>1, Zenon
  <2>2. DOMAIN t = 1 .. Len(t)
    BY LenProperties
  <2> QED
    BY <1>1, <1>3, <1>4, <2>1, <2>2
<1>6. \A k \in 1 .. m : k \in 1 .. m + l /\ t[k] = stack[k]
  BY <1>1, <1>5
<1>7. ASSUME NEW i \in 1 .. l
      PROVE  Pos[i] \in 1 .. m + l /\ Pos[i] \notin 1 .. m /\ t[Pos[i]] = c[i]
  <2>1. /\ Pos[i] \in 1 .. m + l /\ ~(Pos[i] <= m) /\ Pos[i] - m = l - i + 1 /\ l - i + 1 \in 1 .. l
        /\ l - (l - i + 1) + 1 = i
    BY <1>1, <1>2, SMTT(30)
  <2>2. t[Pos[i]] = d[Pos[i] - m]
    BY <1>5, <2>1
  <2>3. d[l - i + 1] = c[l - (l - i + 1) + 1]
    BY <1>3, <2>1
  <2>4. t[Pos[i]] = c[i]
    BY <2>1, <2>2, <2>3
  <2> QED
    BY <1>1, <2>1, <2>4, SMTT(30)
<1>8. ASSUME NEW k \in 1 .. m + l, k \notin 1 .. m
      PROVE  \E i \in 1 .. l : k = Pos[i]
  <2>1. l - (k - m) + 1 \in 1 .. l /\ k = Pos[l - (k - m) + 1]
    BY <1>1, <1>2, <1>8
  <2> QED
    BY <2>1
<1>9. \A i, j \in 1 .. l : Pos[i] = Pos[j] => i = j
  BY <1>1, <1>2
<1>10. /\ \A k \in DOMAIN stack : k \in DOMAIN t /\ t[k] = stack[k]
       /\ \A i \in DOMAIN c : Pos[i] \in DOMAIN t \ DOMAIN stack /\ t[Pos[i]] = c[i]
       /\ \A k \in DOMAIN t : k \in DOMAIN stack \/ \E i \in DOMAIN c : k = Pos[i]
       /\ \A i, j \in DOMAIN c : Pos[i] = Pos[j] => i = j
  <2>1. DOMAIN stack = 1 .. m /\ DOMAIN c = 1 .. l /\ DOMAIN t = 1 .. m + l
    BY <1>1, <1>5
  <2> QED
    BY <1>6, <1>7, <1>8, <1>9, <2>1, Zenon
<1>11. /\ \A k \in DOMAIN stack : k \in DOMAIN stack' /\ stack'[k] = stack[k]
       /\ \A i \in DOMAIN c : Pos[i] \in DOMAIN stack' \ DOMAIN stack /\ stack'[Pos[i]] = c[i]
       /\ \A k \in DOMAIN stack' : k \in DOMAIN stack \/ \E i \in DOMAIN c : k = Pos[i]
       /\ \A i, j \in DOMAIN c : Pos[i] = Pos[j] => i = j
  BY <1>5, <1>10, Zenon
<1>12. stack' \in Seq(Int)
  BY <1>5
<1> QED
  BY <1>11, <1>12, Zenon

\* A sequence over a set is one over any larger set.
LEMMA SeqOfMore ==
  ASSUME NEW S, NEW T, S \subseteq T, NEW s \in Seq(S)
  PROVE  s \in Seq(T)
<1>1. /\ Len(s) \in Nat /\ s \in [1 .. Len(s) -> S]
  BY LenProperties
<1>2. s = [i \in 1 .. Len(s) |-> s[i]] /\ \A i \in 1 .. Len(s) : s[i] \in T
  BY <1>1
<1> QED
  BY <1>1, <1>2, IsASeq

\* Before a page is visited, nothing of it is on the stack.
LEMMA NoneInHand ==
  ASSUME WalkInv, current = None
  PROVE  Expanded = visited
BY ChildrenType DEF WalkInv, Expanded, Walk!TypeOK, PageNumbers, Walk!PageNumbers

\* The page in hand is the one the walk came to, and what it points to comes later.
LEMMA VisitStep ==
  ASSUME WalkInv, Walk!Visit, UNCHANGED <<pages, outcome>>
  PROVE  /\ Followed' /\ Linked' /\ (Walk!IsTree => MetOnce')
         /\ stack' \in Seq(Int)
<1>1. /\ outcome = "walking" /\ current = None /\ stack # <<>>
      /\ Walk!Top \in PageNumbers /\ Walk!Top \notin visited
      /\ stack' = Walk!Front(stack) /\ visited' = visited \cup {Walk!Top} /\ current' = Walk!Top
  BY DEF Walk!Visit, Walk!Walking, Walk!None, None, PageNumbers, Walk!PageNumbers
<1>2. stack \in Seq(Int) /\ pages \in Archives /\ Walk!TypeOK
  BY DEF WalkInv, Walk!TypeOK
<1>3. PICK n \in DOMAIN stack, top \in Int :
        /\ top = stack[n] /\ top = Walk!Top
        /\ \A k : k \in DOMAIN stack' <=> k \in DOMAIN stack /\ k # n
        /\ \A k \in DOMAIN stack' : stack'[k] = stack[k]
  BY <1>1, <1>2, PopStack
<1>4. stack' \in Seq(Int)
  BY <1>1, <1>2, PopStack
<1>4a. Expanded = visited /\ Expanded' = visited
  BY <1>1, NoneInHand DEF Expanded
<1>5. /\ PageNumbers' = PageNumbers /\ Target' = Target /\ Walk!Reachable' = Walk!Reachable
      /\ \A p : Walk!Children(p)' = Walk!Children(p)
  BY SameTree
<1>6. Links' = Links
  BY <1>4a, <1>5 DEF Links
<1>7. \A p : Occurs(stack, p) => p = top \/ Occurs(stack', p)
  BY <1>3 DEF Occurs
<1>8. \A p : Twice(stack, p) => Occurs(stack', p)
  BY <1>3 DEF Twice, Occurs
<1>9. \A p : Twice(stack, p) /\ p # top => Twice(stack', p)
  BY <1>3 DEF Twice
<1>10. Followed'
  <2>1. Followed
    BY <1>1 DEF WalkInv
  <2> QED
    BY <1>1, <1>3, <1>5, <1>6, <1>7, <1>8, <1>9, <2>1 DEF Followed
<1>11. Linked'
  <2>1. Linked
    BY DEF WalkInv
  <2>2. \A k \in DOMAIN stack' : k \in DOMAIN stack /\ stack'[k] = stack[k]
    BY <1>3
  <2>3. \E e \in Links : Target[e] = top
    BY <1>3, <2>1 DEF Linked
  <2>4. top \in Walk!Reachable
    <3>1. stack[n] \in PageNumbers
      BY <1>1, <1>3
    <3> QED
      BY <1>3, <2>1, <3>1 DEF Linked
  <2> QED
    BY <1>1, <1>3, <1>5, <1>6, <2>1, <2>2, <2>3, <2>4 DEF Linked
<1>12. Walk!IsTree => MetOnce'
  <2>1. Walk!IsTree => MetOnce
    BY DEF WalkInv
  <2> SUFFICES ASSUME Walk!IsTree, NEW k \in DOMAIN stack', stack[k] \in PageNumbers
               PROVE  /\ stack[k] \notin visited /\ stack[k] # top
                      /\ \A j \in DOMAIN stack' : stack[j] = stack[k] => j = k
    BY <1>1, <1>3, <1>5 DEF MetOnce
  <2>2. k \in DOMAIN stack /\ k # n
    BY <1>3
  <2> QED
    BY <1>3, <2>1, <2>2 DEF MetOnce
<1> QED
  BY <1>3, <1>4, <1>10, <1>11, <1>12

\* The walk comes to no page it came to before, in a tree, and to no place that is no page.
LEMMA PassStep ==
  ASSUME WalkInv, Walk!Walking, Walk!Top \notin PageNumbers \ visited,
         stack' = Walk!Front(stack), UNCHANGED <<pages, visited, ahead, current, reads>>
  PROVE  /\ Linked' /\ stack' \in Seq(Int)
         /\ Walk!Top \notin PageNumbers => Followed'
         /\ Walk!IsTree => Walk!Top \notin PageNumbers /\ MetOnce' /\ InRuns'
<1>1. /\ outcome = "walking" /\ current = None /\ stack # <<>>
  BY DEF Walk!Walking, Walk!None, None
<1>2. stack \in Seq(Int) /\ pages \in Archives /\ Walk!TypeOK
  BY DEF WalkInv, Walk!TypeOK
<1>3. PICK n \in DOMAIN stack, top \in Int :
        /\ top = stack[n] /\ top = Walk!Top
        /\ \A k : k \in DOMAIN stack' <=> k \in DOMAIN stack /\ k # n
        /\ \A k \in DOMAIN stack' : stack'[k] = stack[k]
  BY <1>1, <1>2, PopStack
<1>4. stack' \in Seq(Int)
  BY <1>1, <1>2, PopStack
<1>5. /\ PageNumbers' = PageNumbers /\ Target' = Target /\ Walk!Reachable' = Walk!Reachable
      /\ \A p : Walk!Children(p)' = Walk!Children(p)
  BY SameTree
<1>6. Links' = Links
  BY <1>5 DEF Links, Expanded
<1>7. \A p : Occurs(stack, p) => p = top \/ Occurs(stack', p)
  BY <1>3 DEF Occurs
<1>9. \A p : Twice(stack, p) /\ p # top => Twice(stack', p)
  <2> SUFFICES ASSUME NEW p, NEW j \in DOMAIN stack, NEW k \in DOMAIN stack, j # k,
                      stack[j] = p, stack[k] = p, p # top
               PROVE  Twice(stack', p)
    BY DEF Twice
  <2>1. j \in DOMAIN stack' /\ k \in DOMAIN stack' /\ stack'[j] = p /\ stack'[k] = p
    BY <1>3
  <2> QED
    BY <2>1 DEF Twice
<1>10. top \notin PageNumbers => Followed'
  <2>1. Followed
    BY <1>1 DEF WalkInv
  <2> QED
    BY <1>5, <1>6, <1>7, <1>9, <2>1 DEF Followed
<1>11. Linked'
  <2>1. Linked
    BY DEF WalkInv
  <2> QED
    BY <1>3, <1>5, <1>6, <2>1 DEF Linked
<1>12. ASSUME Walk!IsTree
       PROVE  top \notin PageNumbers /\ MetOnce' /\ InRuns'
  <2>1. MetOnce /\ InRuns
    BY <1>12 DEF WalkInv
  <2>2. top \notin PageNumbers
    BY <1>3, <2>1 DEF MetOnce
  <2>3. MetOnce'
    BY <1>3, <1>5, <2>1 DEF MetOnce
  <2>4. ahead \subseteq PageNumbers
    BY <1>2 DEF Walk!TypeOK, PageNumbers, Walk!PageNumbers
  <2>5. InRuns'
    BY <1>5, <1>7, <2>1, <2>2, <2>4 DEF InRuns
  <2> QED
    BY <2>2, <2>3, <2>5
<1> QED
  BY <1>3, <1>4, <1>10, <1>11, <1>12

\* What a page points to goes on the stack, and is there for the first time, in a tree.
LEMMA PushStep ==
  ASSUME WalkInv, current # None, UNCHANGED <<pages, visited, ahead, reads>>, current' = None,
         NEW Pos,
         \A k \in DOMAIN stack : k \in DOMAIN stack' /\ stack'[k] = stack[k],
         \A i \in DOMAIN Walk!Children(current) :
           /\ Pos[i] \in DOMAIN stack' \ DOMAIN stack
           /\ stack'[Pos[i]] = Walk!Children(current)[i],
         \A k \in DOMAIN stack' :
           k \in DOMAIN stack \/ \E i \in DOMAIN Walk!Children(current) : k = Pos[i],
         \A i, j \in DOMAIN Walk!Children(current) : Pos[i] = Pos[j] => i = j
  PROVE  Followed' /\ Linked' /\ (Walk!IsTree => MetOnce' /\ InRuns')
<1>1. /\ pages \in Archives /\ Walk!TypeOK /\ stack \in Seq(Int) /\ outcome = "walking"
      /\ Followed /\ Linked /\ (Walk!IsTree => MetOnce /\ InRuns)
  BY DEF WalkInv, Walk!TypeOK
<1>2. PICK q : q = current /\ q \in visited /\ q \in PageNumbers
  BY <1>1 DEF Walk!TypeOK, Walk!None, None, Walk!PageNumbers, PageNumbers
<1>3. PICK c \in Seq(Int) : c = Walk!Children(q)
  BY <1>1, ChildrenType
<1>4. /\ \A i \in DOMAIN c : Pos[i] \in DOMAIN stack' \ DOMAIN stack /\ stack'[Pos[i]] = c[i]
      /\ \A k \in DOMAIN stack' : k \in DOMAIN stack \/ \E i \in DOMAIN c : k = Pos[i]
      /\ \A i, j \in DOMAIN c : Pos[i] = Pos[j] => i = j
  BY <1>2, <1>3
<1>5. /\ PageNumbers' = PageNumbers /\ Target' = Target /\ Walk!Reachable' = Walk!Reachable
      /\ \A p : Walk!Children(p)' = Walk!Children(p)
  BY SameTree
<1>6. /\ q \notin Expanded /\ Expanded \subseteq visited /\ Expanded' = visited
  <2>1. None \notin visited
    BY <1>1, ChildrenType DEF Walk!TypeOK, Walk!PageNumbers, PageNumbers
  <2> QED
    BY <1>2, <1>3, <2>1 DEF Expanded
<1>7. Links' = Links \cup ({q} \X (DOMAIN c))
  <2>1. visited = Expanded \cup {q}
    BY <1>2 DEF Expanded
  <2>2. Links' = {Root} \cup UNION {{p} \X DOMAIN Walk!Children(p) : p \in visited}
    BY <1>5, <1>6 DEF Links
  <2> QED
    BY <1>3, <1>6, <2>1, <2>2 DEF Links
<1>8. \A i \in DOMAIN c : Target[<<q, i>>] = c[i] /\ <<q, i>> \notin Links
  <2>1. q \in Int
    BY <1>1, <1>2, ChildrenType
  <2>2. \A i \in DOMAIN c : <<q, i>> \in Int \X Nat /\ <<q, i>> # Root
    BY <2>1 DEF Root
  <2>3. \A i \in DOMAIN c : <<q, i>> \notin Links
    BY <1>1, <1>6, <2>2, LinkPairs
  <2> QED
    BY <1>3, <2>2, <2>3 DEF Target
<1>9. \A k \in DOMAIN stack : k \in DOMAIN stack' /\ stack'[k] = stack[k]
  OBVIOUS
<1>10. \A i \in DOMAIN c : Pos[i] \in DOMAIN stack' \ DOMAIN stack /\ stack'[Pos[i]] = c[i]
  BY <1>4
<1>12. \A p : (Occurs(stack, p) => Occurs(stack', p)) /\ (Twice(stack, p) => Twice(stack', p))
  BY <1>3, <1>9 DEF Occurs, Twice
<1>13. \A i \in DOMAIN c : Occurs(stack', c[i]) /\ (Occurs(stack, c[i]) => Twice(stack', c[i]))
  BY <1>3, <1>9, <1>10 DEF Occurs, Twice
<1>14. Followed'
  <2>1. \A e \in Links' :
          Target[e] \in PageNumbers => Target[e] \in visited \/ Occurs(stack', Target[e])
    BY <1>1, <1>7, <1>8, <1>12, <1>13 DEF Followed
  <2>2. ASSUME NEW e \in Links', NEW f \in Links', e # f, Target[e] = Target[f], Target[e] \in PageNumbers
        PROVE  (Target[e] \in visited /\ Occurs(stack', Target[e])) \/ Twice(stack', Target[e])
    <3>1. CASE e \in Links /\ f \in Links
      BY <1>1, <1>12, <2>2, <3>1 DEF Followed
    <3>2. ASSUME NEW g \in Links, NEW i \in DOMAIN c, Target[g] = c[i], c[i] \in PageNumbers
          PROVE  (c[i] \in visited /\ Occurs(stack', c[i])) \/ Twice(stack', c[i])
      BY <1>1, <1>13, <3>2 DEF Followed
    <3>3. CASE e \in Links /\ f \notin Links
      BY <1>7, <1>8, <2>2, <3>2, <3>3
    <3>4. CASE e \notin Links /\ f \in Links
      BY <1>7, <1>8, <2>2, <3>2, <3>4
    <3>5. CASE e \notin Links /\ f \notin Links
      <4>1. PICK i \in DOMAIN c, j \in DOMAIN c : e = <<q, i>> /\ f = <<q, j>> /\ i # j
        BY <1>7, <2>2, <3>5, SMTT(30)
      <4>2. stack'[Pos[i]] = c[i] /\ stack'[Pos[j]] = c[i] /\ Pos[i] # Pos[j] /\ Target[e] = c[i]
        BY <1>4, <1>8, <2>2, <4>1
      <4> QED
        BY <1>10, <4>2 DEF Twice
    <3> QED
      BY <3>1, <3>3, <3>4, <3>5
  <2> QED
    BY <1>5, <2>1, <2>2 DEF Followed
<1>15. \A k \in DOMAIN stack' : k \in DOMAIN stack \/ \E i \in DOMAIN c : k = Pos[i]
  BY <1>4
<1>16. Linked'
  <2>1. \A k \in DOMAIN stack' : \E e \in Links' : Target[e] = stack'[k]
    <3>1. \A k \in DOMAIN stack : \E e \in Links' : Target[e] = stack'[k]
      BY <1>1, <1>7, <1>9 DEF Linked
    <3>2. \A i \in DOMAIN c : \E e \in Links' : Target[e] = stack'[Pos[i]]
      <4> SUFFICES ASSUME NEW i \in DOMAIN c
                   PROVE  <<q, i>> \in Links' /\ Target[<<q, i>>] = stack'[Pos[i]]
        OBVIOUS
      <4> QED
        BY <1>7, <1>8, <1>10
    <3> QED
      BY <1>15, <3>1, <3>2
  <2>2. \A i \in DOMAIN c : c[i] \in PageNumbers => c[i] \in Walk!Reachable
    BY <1>1, <1>2, <1>3, <1>6, TreePages DEF Linked
  <2>3. \A k \in DOMAIN stack' : stack'[k] \in PageNumbers => stack'[k] \in Walk!Reachable
    BY <1>1, <1>3, <1>9, <1>10, <1>15, <2>2, SMTT(30) DEF Linked
  <2> QED
    BY <1>1, <1>5, <1>7, <2>1, <2>3 DEF Linked
<1>17. ASSUME Walk!IsTree
       PROVE  MetOnce' /\ InRuns'
  <2>1. ASSUME NEW i \in DOMAIN c, c[i] \in PageNumbers, NEW e \in Links
        PROVE  Target[e] # c[i]
    <3>1. q \in Walk!Reachable /\ i \in DOMAIN Walk!Children(q) /\ c[i] = Walk!Children(q)[i]
      BY <1>1, <1>2, <1>3, <1>6 DEF Linked
    <3>2. CASE e = Root
      BY <1>1, <1>17, <2>1, <3>1, <3>2, LedOnce, LinkPairs
    <3>3. CASE e # Root
      <4>0. PICK r \in Expanded : \E j \in DOMAIN Walk!Children(r) : e = <<r, j>>
        BY <1>1, <3>3, LinkPairs
      <4>1. PICK j \in DOMAIN Walk!Children(r) : e = <<r, j>>
        BY <4>0
      <4>2. r \in Walk!Reachable /\ r # q /\ Target[e] = Walk!Children(r)[j]
        BY <1>1, <1>6, <4>1, LinkPairs, SMTT(30) DEF Linked
      <4> QED
        BY <1>17, <2>1, <3>1, <4>1, <4>2, LedOnce
    <3> QED
      BY <3>2, <3>3
  <2>2. \A i \in DOMAIN c : c[i] \in PageNumbers =>
          /\ c[i] \notin visited
          /\ \A k \in DOMAIN stack : stack'[k] # c[i]
          /\ \A j \in DOMAIN c : c[j] = c[i] => j = i
    <3> SUFFICES ASSUME NEW i \in DOMAIN c, c[i] \in PageNumbers
                 PROVE  /\ c[i] \notin visited
                        /\ \A k \in DOMAIN stack : stack'[k] # c[i]
                        /\ \A j \in DOMAIN c : c[j] = c[i] => j = i
      OBVIOUS
    <3>1. c[i] \notin visited
      BY <1>1, <2>1 DEF Linked
    <3>2. \A k \in DOMAIN stack : stack'[k] # c[i]
      BY <1>1, <1>3, <1>9, <2>1 DEF Linked
    <3>3. q \in Walk!Reachable
      BY <1>1, <1>2 DEF Linked
    <3>4. \A j \in DOMAIN c : c[j] = c[i] => j = i
      BY <1>3, <1>6, <1>17, <3>3, LedOnce
    <3> QED
      BY <3>1, <3>2, <3>4
  <2>3. MetOnce /\ InRuns
    BY <1>1, <1>17
  <2>4. ASSUME NEW k \in DOMAIN stack', stack'[k] \in PageNumbers
        PROVE  /\ stack'[k] \notin visited
               /\ \A j \in DOMAIN stack' : stack'[j] = stack'[k] => j = k
    <3>1. CASE k \in DOMAIN stack
      BY <1>3, <1>9, <1>10, <1>15, <2>2, <2>3, <2>4, <3>1 DEF MetOnce
    <3>2. CASE \E i \in DOMAIN c : k = Pos[i]
      BY <1>9, <1>10, <1>15, <2>2, <2>4, <3>2, SMTT(30)
    <3> QED
      BY <1>15, <3>1, <3>2
  <2>5. MetOnce'
    BY <1>5, <2>4 DEF MetOnce
  <2>6. InRuns'
    BY <1>5, <1>12, <2>3 DEF InRuns
  <2> QED
    BY <2>5, <2>6
<1> QED
  BY <1>14, <1>16, <1>17

\* How many pages are read together: those that follow on the one in hand and are on the
\* stack, in this order.
LEMMA RunPages ==
  ASSUME NEW rest \in Seq(Int), NEW page \in Int
  PROVE  /\ Walk!RunLength(rest, page) \in Nat \ {0}
         /\ \A i \in 1 .. Walk!RunLength(rest, page) - 1 :
              page + i \in PageNumbers /\ Occurs(rest, page + i)
<1> DEFINE More(i) == /\ i < WALK_READ_AHEAD_PAGES
                      /\ page + i \in PageNumbers
                      /\ Walk!FollowsOn(rest, page, i)
           Ends == {n \in Nat \ {0} : ~More(n)}
           n == Walk!RunLength(rest, page)
<1>1. WALK_READ_AHEAD_PAGES \in Ends
  BY ReadAheadAssumption
<1>2. PICK k \in Ends : \A j \in Ends : k <= j
  BY <1>1, LeastNatural
<1>3. k \in 1 .. WALK_READ_AHEAD_PAGES /\ ~More(k)
  BY <1>1, <1>2, ReadAheadAssumption
<1>4. ASSUME NEW i \in 1 .. k - 1
      PROVE  More(i)
  <2>1. i \in Nat \ {0} /\ i < k
    BY <1>2
  <2> QED
    BY <1>2, <2>1
<1>5. n \in 1 .. WALK_READ_AHEAD_PAGES /\ \A i \in 1 .. n - 1 : More(i)
  <2> HIDE DEF n
  <2>1. \E j \in 1 .. WALK_READ_AHEAD_PAGES : ~More(j) /\ \A i \in 1 .. j - 1 : More(i)
    BY <1>3, <1>4
  <2>2. n = CHOOSE j \in 1 .. WALK_READ_AHEAD_PAGES : ~More(j) /\ \A i \in 1 .. j - 1 : More(i)
    BY DEF n, Walk!RunLength, PageNumbers, Walk!PageNumbers
  <2> HIDE DEF More
  <2> QED
    BY <2>1, <2>2
<1>6. ASSUME NEW i \in 1 .. n - 1
      PROVE  page + i \in PageNumbers /\ Occurs(rest, page + i)
  <2>1. More(i) /\ i \in Nat \ {0}
    BY <1>5, ReadAheadAssumption
  <2>2. Len(rest) - i + 1 \in DOMAIN rest /\ rest[Len(rest) - i + 1] = page + i
    BY <2>1, LenProperties DEF Walk!FollowsOn
  <2> QED
    BY <2>1, <2>2 DEF Occurs
<1> QED
  BY <1>5, <1>6, ReadAheadAssumption

\* What visiting a page does to the stack.
LEMMA VisitStack ==
  ASSUME WalkInv, Walk!Visit, UNCHANGED <<pages, outcome>>
  PROVE  \E top \in PageNumbers :
           /\ top = Walk!Top /\ top \notin visited /\ visited' = visited \cup {top} /\ current' = top
           /\ Occurs(stack, top)
           /\ \A p : Occurs(stack', p) => Occurs(stack, p)
           /\ \A p : Occurs(stack, p) /\ p # top => Occurs(stack', p)
           /\ Walk!IsTree => ~Occurs(stack', top)
<1>1. /\ stack # <<>> /\ Walk!Top \in PageNumbers /\ Walk!Top \notin visited
      /\ stack' = Walk!Front(stack) /\ visited' = visited \cup {Walk!Top} /\ current' = Walk!Top
  BY DEF Walk!Visit, Walk!Walking, PageNumbers, Walk!PageNumbers
<1>2. stack \in Seq(Int)
  BY DEF WalkInv, Walk!TypeOK
<1>3. PICK n \in DOMAIN stack, top \in Int :
        /\ top = stack[n] /\ top = Walk!Top
        /\ \A k : k \in DOMAIN stack' <=> k \in DOMAIN stack /\ k # n
        /\ \A k \in DOMAIN stack' : stack'[k] = stack[k]
  BY <1>1, <1>2, PopStack
<1>4. \A p : Occurs(stack', p) => Occurs(stack, p)
  BY <1>3 DEF Occurs
<1>5. \A p : Occurs(stack, p) /\ p # top => Occurs(stack', p)
  BY <1>3 DEF Occurs
<1>6. Occurs(stack, top)
  BY <1>3 DEF Occurs
<1>7. Walk!IsTree => ~Occurs(stack', top)
  <2>1. ASSUME Walk!IsTree, NEW k \in DOMAIN stack', stack'[k] = top
        PROVE  FALSE
    <3>1. MetOnce
      BY <2>1 DEF WalkInv
    <3>2. k \in DOMAIN stack /\ k # n /\ stack[k] = top /\ stack[n] \in PageNumbers
      BY <1>1, <1>3, <2>1
    <3> QED
      BY <1>3, <3>1, <3>2 DEF MetOnce
  <2> QED
    BY <2>1 DEF Occurs
<1> QED
  BY <1>1, <1>3, <1>4, <1>5, <1>6, <1>7

\* A page that was read ahead is not read again.
LEMMA TakeAheadStep ==
  ASSUME WalkInv, Walk!TakeAhead
  PROVE  WalkInv'
<1>1. /\ Walk!Visit /\ UNCHANGED <<pages, outcome, leaves, reads>>
      /\ Walk!Top \in ahead /\ ahead' = ahead \ {Walk!Top}
  BY DEF Walk!TakeAhead
<1>2. Followed' /\ Linked' /\ (Walk!IsTree => MetOnce') /\ stack' \in Seq(Int)
  BY <1>1, VisitStep
<1>3. PICK top \in PageNumbers :
        /\ top = Walk!Top /\ top \notin visited /\ visited' = visited \cup {top} /\ current' = top
        /\ \A p : Occurs(stack, p) /\ p # top => Occurs(stack', p)
  BY <1>1, VisitStack
<1>4. PageNumbers' = PageNumbers /\ (Walk!IsTree' <=> Walk!IsTree)
  BY <1>1, SameTree
<1>5. outcome = "walking" /\ Walk!TypeOK /\ pages \in Archives
  BY <1>1 DEF Walk!Visit, Walk!Walking, WalkInv
<1>6. Walk!IsTree => InRuns'
  <2> SUFFICES ASSUME Walk!IsTree
               PROVE  InRuns'
    OBVIOUS
  <2>1. InRuns
    BY DEF WalkInv
  <2>2. visited' \cup ahead' = visited \cup ahead
    BY <1>1, <1>3
  <2>3. \A p \in ahead' : p \in ahead /\ p # top /\ p \notin visited'
    BY <1>1, <1>3, <2>1 DEF InRuns
  <2> QED
    BY <1>1, <1>3, <1>4, <2>1, <2>2, <2>3 DEF InRuns
<1>7. Walk!TypeOK'
  <2>1. leaves \in Seq(visited')
    BY <1>3, <1>5, SeqOfMore DEF Walk!TypeOK
  <2> QED
    BY <1>1, <1>2, <1>3, <1>4, <1>5, <2>1 DEF Walk!TypeOK, PageNumbers, Walk!PageNumbers
<1> QED
  BY <1>1, <1>2, <1>4, <1>5, <1>6, <1>7 DEF WalkInv

\* The pages that are read together were not read before, and are those the walk comes to
\* next.
LEMMA ReadRunStep ==
  ASSUME WalkInv, Walk!ReadRun
  PROVE  WalkInv'
<1>1. /\ Walk!Visit /\ UNCHANGED <<pages, outcome, leaves>> /\ Walk!Top \notin ahead
      /\ stack' = Walk!Front(stack)
  BY DEF Walk!ReadRun, Walk!Visit
<1>2. Followed' /\ Linked' /\ (Walk!IsTree => MetOnce') /\ stack' \in Seq(Int)
  BY <1>1, VisitStep
<1>3. PICK top \in PageNumbers :
        /\ top = Walk!Top /\ top \notin visited /\ visited' = visited \cup {top} /\ current' = top
        /\ \A p : Occurs(stack', p) => Occurs(stack, p)
        /\ \A p : Occurs(stack, p) /\ p # top => Occurs(stack', p)
        /\ Walk!IsTree => ~Occurs(stack', top)
  BY <1>1, VisitStack
<1>4. PageNumbers' = PageNumbers /\ (Walk!IsTree' <=> Walk!IsTree)
  BY <1>1, SameTree
<1>5. outcome = "walking" /\ Walk!TypeOK /\ pages \in Archives
  BY <1>1 DEF Walk!Visit, Walk!Walking, WalkInv
<1>6. top \in Nat
  BY <1>3, <1>5, ChildrenType
<1>7. PICK n \in Nat \ {0} :
        /\ n = Walk!RunLength(Walk!Front(stack), top)
        /\ \A i \in 1 .. n - 1 : top + i \in PageNumbers /\ Occurs(stack', top + i)
  <2>1. PICK rest \in Seq(Int) : rest = stack' /\ rest = Walk!Front(stack)
    BY <1>1, <1>2
  <2>2. /\ Walk!RunLength(rest, top) \in Nat \ {0}
        /\ \A i \in 1 .. Walk!RunLength(rest, top) - 1 :
             top + i \in PageNumbers /\ Occurs(rest, top + i)
    BY <1>6, RunPages
  <2> QED
    BY <2>1, <2>2
<1>8. PICK run : run = top .. top + n - 1
  OBVIOUS
<1>9. /\ ahead' = ahead \cup (run \ {top})
      /\ reads' = [p \in PageNumbers |-> IF p \in run THEN reads[p] + 1 ELSE reads[p]]
  BY <1>3, <1>7, <1>8 DEF Walk!ReadRun, PageNumbers, Walk!PageNumbers
<1>10. /\ top \in run /\ run \subseteq PageNumbers
       /\ \A p \in run : p # top => Occurs(stack', p) /\ p - 1 \in run
  <2>1. \A p \in run : p # top => p - top \in 1 .. n - 1 /\ top + (p - top) = p /\ p - 1 \in run
    BY <1>6, <1>8
  <2>2. top \in run
    BY <1>6, <1>8
  <2> QED
    BY <1>7, <2>1, <2>2
<1>11. ahead \subseteq PageNumbers
  BY <1>5 DEF Walk!TypeOK, PageNumbers, Walk!PageNumbers
<1>12. ASSUME Walk!IsTree
       PROVE  InRuns'
  <2>1. MetOnce /\ InRuns
    BY <1>12 DEF WalkInv
  <2>2. \A p \in run : p \notin visited
    <3>1. \A p \in PageNumbers : Occurs(stack, p) => p \notin visited
      BY <2>1 DEF MetOnce, Occurs
    <3> QED
      BY <1>3, <1>10, <3>1
  <2>3. \A p \in run : p \notin ahead
    <3> DEFINE T == run \cap ahead
    <3>1. SUFFICES ASSUME T # {}
                   PROVE  FALSE
      OBVIOUS
    <3>2. T \in SUBSET Nat
      BY <1>5, <1>10, ChildrenType
    <3>3. PICK p \in T : \A q \in T : p <= q
      BY <3>1, <3>2, LeastNatural
    <3>4. p # top /\ p - 1 \in run
      BY <1>1, <1>3, <1>10
    <3>5. p - 1 \in ahead
      BY <2>1, <2>2, <3>4 DEF InRuns
    <3> QED
      BY <3>2, <3>3, <3>4, <3>5
  <2>4. \A p \in PageNumbers : reads'[p] = IF p \in visited' \cup ahead' THEN 1 ELSE 0
    <3> SUFFICES ASSUME NEW p \in PageNumbers
                 PROVE  reads'[p] = IF p \in visited' \cup ahead' THEN 1 ELSE 0
      OBVIOUS
    <3>1. reads[p] = IF p \in visited \cup ahead THEN 1 ELSE 0
      BY <2>1 DEF InRuns
    <3>2. p \in visited' \cup ahead' <=> p \in visited \cup ahead \/ p \in run
      BY <1>3, <1>9, <1>10
    <3>3. CASE p \in run
      BY <1>9, <2>2, <2>3, <3>1, <3>2, <3>3
    <3>4. CASE p \notin run
      BY <1>9, <3>1, <3>2, <3>4
    <3> QED
      BY <3>3, <3>4
  <2>5. ASSUME NEW p \in ahead'
        PROVE  p \notin visited' /\ Occurs(stack', p) /\ p - 1 \in visited' \cup ahead'
    <3>1. CASE p \in ahead
      <4>1. p # top /\ p \notin visited /\ Occurs(stack, p) /\ p - 1 \in visited \cup ahead
        BY <1>1, <1>3, <2>1, <3>1 DEF InRuns
      <4> QED
        BY <1>3, <1>9, <4>1
    <3>2. CASE p \in run \ {top}
      BY <1>3, <1>9, <1>10, <2>2, <3>2
    <3> QED
      BY <1>9, <2>5, <3>1, <3>2
  <2> QED
    BY <1>4, <2>4, <2>5 DEF InRuns
<1>13. Walk!TypeOK'
  <2>1. leaves \in Seq(visited')
    BY <1>3, <1>5, SeqOfMore DEF Walk!TypeOK
  <2>2. reads' \in [PageNumbers -> Nat]
    BY <1>5, <1>9 DEF Walk!TypeOK, PageNumbers, Walk!PageNumbers
  <2> QED
    BY <1>1, <1>2, <1>3, <1>4, <1>5, <1>9, <1>10, <1>11, <2>1, <2>2 DEF Walk!TypeOK, PageNumbers, Walk!PageNumbers
<1> QED
  BY <1>1, <1>2, <1>4, <1>5, <1>12, <1>13 DEF WalkInv

\* A page that is visited is left again, with what it points to on the stack.
LEMMA LeaveStep ==
  ASSUME WalkInv, Walk!Descend \/ Walk!YieldLeaf \/ Walk!Skip
  PROVE  WalkInv'
<1>1. /\ current # None /\ current' = None /\ UNCHANGED <<pages, visited, ahead, outcome, reads>>
  BY DEF Walk!Descend, Walk!YieldLeaf, Walk!Skip, Walk!None, None
<1>2. Walk!TypeOK /\ pages \in Archives /\ stack \in Seq(Int) /\ outcome = "walking"
  BY <1>1 DEF WalkInv, Walk!TypeOK
<1>3. current \in visited /\ current \in PageNumbers
  BY <1>1, <1>2 DEF Walk!TypeOK, Walk!None, None, Walk!PageNumbers, PageNumbers
<1>4. PICK c \in Seq(Int) : c = Walk!Children(current)
  BY <1>2, ChildrenType
<1>5. /\ stack' \in Seq(Int)
      /\ \E Pos :
           /\ \A k \in DOMAIN stack : k \in DOMAIN stack' /\ stack'[k] = stack[k]
           /\ \A i \in DOMAIN c : Pos[i] \in DOMAIN stack' \ DOMAIN stack /\ stack'[Pos[i]] = c[i]
           /\ \A k \in DOMAIN stack' : k \in DOMAIN stack \/ \E i \in DOMAIN c : k = Pos[i]
           /\ \A i, j \in DOMAIN c : Pos[i] = Pos[j] => i = j
  <2>1. CASE Walk!Descend
    <3>1. c = pages[current].children /\ stack' = stack \o Walk!Reverse(pages[current].children)
      BY <1>3, <1>4, <2>1 DEF Walk!Descend, Walk!Children, Walk!PageNumbers, PageNumbers
    <3>2. stack' = stack \o Walk!Reverse(c)
      BY <3>1
    <3> QED
      BY <1>2, <3>2, PushStack, Zenon
  <2>2. CASE Walk!YieldLeaf \/ Walk!Skip
    <3>1. c = <<>> /\ stack' = stack
      BY <1>3, <1>4, <2>2 DEF Walk!YieldLeaf, Walk!Skip, Walk!Children, Walk!PageNumbers, PageNumbers
    <3>2. DOMAIN c = {}
      BY <3>1
    <3> QED
      BY <1>2, <3>1, <3>2
  <2> QED
    BY <2>1, <2>2
<1>6. Followed' /\ Linked' /\ (Walk!IsTree => MetOnce' /\ InRuns')
  <2>1. PICK Pos :
          /\ \A k \in DOMAIN stack : k \in DOMAIN stack' /\ stack'[k] = stack[k]
          /\ \A i \in DOMAIN Walk!Children(current) :
               /\ Pos[i] \in DOMAIN stack' \ DOMAIN stack
               /\ stack'[Pos[i]] = Walk!Children(current)[i]
          /\ \A k \in DOMAIN stack' :
               k \in DOMAIN stack \/ \E i \in DOMAIN Walk!Children(current) : k = Pos[i]
          /\ \A i, j \in DOMAIN Walk!Children(current) : Pos[i] = Pos[j] => i = j
    BY <1>4, <1>5
  <2> QED
    BY <1>1, <2>1, PushStep
<1>7. PageNumbers' = PageNumbers /\ (Walk!IsTree' <=> Walk!IsTree)
  BY <1>1, SameTree
<1>8. Walk!TypeOK'
  <2>1. leaves' \in Seq(visited)
    <3>1. leaves \in Seq(visited)
      BY <1>2 DEF Walk!TypeOK
    <3>2. CASE Walk!YieldLeaf
      BY <1>3, <3>1, <3>2, AppendProperties DEF Walk!YieldLeaf
    <3>3. CASE Walk!Descend \/ Walk!Skip
      BY <3>1, <3>3 DEF Walk!Descend, Walk!Skip
    <3> QED
      BY <3>2, <3>3
  <2> QED
    BY <1>1, <1>2, <1>5, <1>7, <2>1 DEF Walk!TypeOK, PageNumbers, Walk!PageNumbers, None, Walk!None
<1> QED
  BY <1>1, <1>2, <1>6, <1>7, <1>8 DEF WalkInv

\* A place that is no page is passed over, and a page the walk came to before ends it.
LEMMA PassedStep ==
  ASSUME WalkInv, Walk!OutOfBounds \/ Walk!Revisit
  PROVE  WalkInv'
<1>1. /\ Walk!Walking /\ Walk!Top \notin PageNumbers \ visited /\ stack' = Walk!Front(stack)
      /\ UNCHANGED <<pages, visited, ahead, current, leaves, reads>>
  BY DEF Walk!OutOfBounds, Walk!Revisit, PageNumbers, Walk!PageNumbers
<1>2. /\ Linked' /\ stack' \in Seq(Int)
      /\ Walk!Top \notin PageNumbers => Followed'
      /\ Walk!IsTree => Walk!Top \notin PageNumbers /\ MetOnce' /\ InRuns'
  BY <1>1, PassStep
<1>3. outcome = "walking" /\ current = None /\ Walk!TypeOK /\ pages \in Archives
  BY <1>1 DEF Walk!Walking, WalkInv, None, Walk!None
<1>4. PageNumbers' = PageNumbers /\ (Walk!IsTree' <=> Walk!IsTree)
  BY <1>1, SameTree
<1>5. \/ Walk!Top \notin PageNumbers /\ outcome' = "walking"
      \/ Walk!Top \in PageNumbers /\ outcome' = "corrupt"
  BY <1>3 DEF Walk!OutOfBounds, Walk!Revisit, PageNumbers, Walk!PageNumbers, Walk!TypeOK
<1>6. Walk!TypeOK'
  BY <1>1, <1>2, <1>3, <1>4, <1>5 DEF Walk!TypeOK, PageNumbers, Walk!PageNumbers
<1> QED
  BY <1>1, <1>2, <1>3, <1>4, <1>5, <1>6 DEF WalkInv

\* Nothing of the invariant changes where no variable but the outcome does.
LEMMA StayStep ==
  ASSUME WalkInv, UNCHANGED <<pages, stack, visited, ahead, current, leaves, reads>>,
         \/ UNCHANGED outcome
         \/ outcome = "walking" /\ current = None /\ stack = <<>> /\ outcome' = "done"
  PROVE  WalkInv'
<1>1. /\ PageNumbers' = PageNumbers /\ Target' = Target /\ Walk!Reachable' = Walk!Reachable
      /\ (Walk!IsTree' <=> Walk!IsTree)
      /\ \A p : Walk!Children(p)' = Walk!Children(p)
  BY SameTree
<1>2. Links' = Links
  BY <1>1 DEF Links, Expanded
<1>3. Followed' <=> Followed
  BY <1>1, <1>2 DEF Followed
<1>4. Linked' <=> Linked
  BY <1>1, <1>2 DEF Linked
<1>5. (MetOnce' <=> MetOnce) /\ (InRuns' <=> InRuns)
  BY <1>1 DEF MetOnce, InRuns
<1>6. Walk!TypeOK'
  BY <1>1 DEF WalkInv, Walk!TypeOK, PageNumbers, Walk!PageNumbers
<1> QED
  BY <1>1, <1>3, <1>4, <1>5, <1>6 DEF WalkInv

\* A walk that came to its end saw the whole tree, and was led to no page of it twice.
LEMMA DoneIsTree ==
  ASSUME WalkInv, outcome = "done"
  PROVE  Walk!IsTree
<1>1. /\ stack = <<>> /\ current = None /\ Followed /\ Linked /\ Walk!TypeOK /\ pages \in Archives
  BY DEF WalkInv
<1>2. Expanded = visited
  BY <1>1, NoneInHand
<1>3. \A p : ~Occurs(stack, p) /\ ~Twice(stack, p)
  BY <1>1 DEF Occurs, Twice
<1>4. \A e \in Links : Target[e] \in PageNumbers => Target[e] \in visited
  BY <1>1, <1>3 DEF Followed
<1>5. \A e, f \in Links : Target[e] = Target[f] /\ Target[e] \in PageNumbers => e = f
  BY <1>1, <1>3 DEF Followed
<1>6. /\ Root \in Links /\ Target[Root] = root_page
      /\ \A q \in visited : \A i \in DOMAIN Walk!Children(q) :
           <<q, i>> \in Links /\ <<q, i>> # Root /\ Target[<<q, i>>] = Walk!Children(q)[i]
  BY <1>1, <1>2, LinkPairs
<1>7. Walk!Reachable \subseteq visited
  <2>1. visited \in SUBSET PageNumbers
    BY <1>1 DEF Walk!TypeOK, PageNumbers, Walk!PageNumbers
  <2>2. root_page \in PageNumbers => root_page \in visited
    BY <1>4, <1>6
  <2>3. Walk!Closed(visited)
    BY <1>4, <1>6 DEF Walk!Closed, PageNumbers, Walk!PageNumbers
  <2> QED
    BY <2>1, <2>2, <2>3, TreePages
<1>8. ASSUME NEW e \in Walk!Edges
      PROVE  \E q \in visited : \E i \in DOMAIN Walk!Children(q) :
               /\ e = <<q, i>> /\ e[1] = q /\ e[2] = i /\ Walk!Children(q)[i] \in PageNumbers
  BY <1>7, <1>8 DEF Walk!Edges, PageNumbers, Walk!PageNumbers
<1>9. \A e \in Walk!Edges :
        /\ e \in Links /\ e # Root /\ Target[e] \in PageNumbers
        /\ Target[e] = Walk!Children(e[1])[e[2]]
  BY <1>6, <1>8
<1> QED
  BY <1>5, <1>6, <1>9 DEF Walk!IsTree

-----------------------------------------------------------------------------
(***************************************************************************)
(* The order of the leaves: the function of TreeWalk that says what they   *)
(* are, and what is still to come of them.                                 *)
(***************************************************************************)

\* What page p yields at a level, given what pages yield at the level below.
LeavesOf(h, n, p) ==
  IF p \notin PageNumbers \/ n = 0 THEN <<>>
  ELSE IF pages[p].type = "leaf" THEN <<p>>
  ELSE FlattenSeq([i \in 1 .. Len(Walk!Children(p)) |-> h[n - 1][Walk!Children(p)[i]]])

\* h is right at every level.
Levels(h) == h = [n \in Nat |-> [p \in Int |-> LeavesOf(h, n, p)]]

\* The recursive function is one that is right at every level.
LEMMA LeavesUnderIsLevels == Walk!LeavesUnder = CHOOSE h : Levels(h)
<1>1. \A ss : Walk!FlattenSeq(ss) = FlattenSeq(ss)
  BY DEF Walk!FlattenSeq, FlattenSeq
<1> QED
BY <1>1 DEF Walk!LeavesUnder, Levels, LeavesOf, PageNumbers, Walk!PageNumbers

\* h is right up to the level n.
LevelsTo(h, n) == \A m \in 0 .. n : \A p \in Int : h[m][p] = LeavesOf(h, m, p)

\* A level is put together from the sequences of the one below.
LEMMA LeavesOfType ==
  ASSUME pages \in Archives, NEW h \in [Nat -> [Int -> Seq(Int)]], NEW n \in Nat, NEW p \in Int
  PROVE  LeavesOf(h, n, p) \in Seq(Int)
<1>1. CASE p \notin PageNumbers \/ n = 0
  BY <1>1, EmptySeq DEF LeavesOf
<1>2. CASE p \in PageNumbers /\ n # 0 /\ pages[p].type = "leaf"
  BY <1>2 DEF LeavesOf
<1>3. CASE p \in PageNumbers /\ n # 0 /\ pages[p].type # "leaf"
  <2>1. PICK c \in Seq(Int) : c = Walk!Children(p)
    BY ChildrenType
  <2> DEFINE ss == [i \in 1 .. Len(c) |-> h[n - 1][c[i]]]
  <2>2. \A i \in 1 .. Len(c) : h[n - 1][c[i]] \in Seq(Int)
    <3> TAKE i \in 1 .. Len(c)
    <3>1. n - 1 \in Nat /\ c[i] \in Int
      BY <1>3, <2>1, ElementOfSeq
    <3> QED
      BY <3>1
  <2>3. ss \in Seq(Seq(Int))
    BY <2>1, <2>2, IsASeq, LenProperties
  <2>4. FlattenSeq(ss) \in Seq(Int)
    BY <2>3, FlattenType
  <2> QED
    BY <1>3, <2>1, <2>4 DEF LeavesOf
<1> QED
  BY <1>1, <1>2, <1>3

\* What a level is depends on the one below alone.
LEMMA LeavesOfSame ==
  ASSUME pages \in Archives, NEW g, NEW h, NEW n \in Nat,
         n # 0 => \A q \in Int : g[n - 1][q] = h[n - 1][q], NEW p \in Int
  PROVE  LeavesOf(g, n, p) = LeavesOf(h, n, p)
<1>1. CASE n = 0
  BY <1>1 DEF LeavesOf
<1>2. CASE n # 0
  <2>1. PICK c \in Seq(Int) : c = Walk!Children(p)
    BY ChildrenType
  <2>2. \A i \in 1 .. Len(c) : g[n - 1][c[i]] = h[n - 1][c[i]]
    BY <1>2, <2>1, ElementOfSeq
  <2>3. [i \in 1 .. Len(c) |-> g[n - 1][c[i]]] = [i \in 1 .. Len(c) |-> h[n - 1][c[i]]]
    BY <2>2
  <2> QED
    BY <2>1, <2>3 DEF LeavesOf
<1> QED
  BY <1>1, <1>2

\* Two that are right up to a level are the same there.
LEMMA LevelsAgree ==
  ASSUME pages \in Archives, NEW g, NEW h, NEW n \in Nat, LevelsTo(g, n), LevelsTo(h, n)
  PROVE  \A p \in Int : g[n][p] = h[n][p]
<1> DEFINE bad == {m \in Nat : m <= n /\ \E p \in Int : g[m][p] # h[m][p]}
<1>1. bad = {}
  <2> SUFFICES ASSUME bad # {} PROVE FALSE
    OBVIOUS
  <2>1. PICK m \in bad : \A k \in bad : m <= k
    BY LeastNatural
  <2>2. m # 0 => \A q \in Int : g[m - 1][q] = h[m - 1][q]
    <3>1. m # 0 => m - 1 \in Nat /\ m - 1 \notin bad /\ m - 1 <= n
      BY <2>1
    <3> QED
      BY <3>1
  <2>3. m \in Nat /\ m \in 0 .. n
    BY <2>1
  <2>4. PICK p \in Int : g[m][p] # h[m][p]
    BY <2>1
  <2>5. LeavesOf(g, m, p) = LeavesOf(h, m, p)
    BY <2>2, <2>3, LeavesOfSame
  <2> QED
    BY <2>3, <2>4, <2>5 DEF LevelsTo
<1> QED
  BY <1>1

\* There is one up to every level.
LEMMA LevelsExist ==
  ASSUME pages \in Archives, NEW n \in Nat
  PROVE  \E h \in [Nat -> [Int -> Seq(Int)]] : LevelsTo(h, n)
<1> DEFINE none == {m \in Nat : ~ \E h \in [Nat -> [Int -> Seq(Int)]] : LevelsTo(h, m)}
<1>1. none = {}
  <2> SUFFICES ASSUME none # {} PROVE FALSE
    OBVIOUS
  <2>1. PICK m \in none : \A k \in none : m <= k
    BY LeastNatural
  <2>1a. m \in Nat
    BY <2>1
  <2> DEFINE Right(h) == \A k \in 0 .. m - 1 : \A p \in Int : h[k][p] = LeavesOf(h, k, p)
  <2>2. PICK h \in [Nat -> [Int -> Seq(Int)]] : Right(h)
    <3>1. CASE m = 0
      <4> DEFINE h == [k \in Nat |-> [p \in Int |-> <<>>]]
      <4>1. h \in [Nat -> [Int -> Seq(Int)]] /\ Right(h)
        BY <3>1, EmptySeq
      <4> QED
        BY <4>1
    <3>2. CASE m # 0
      <4>1. m - 1 \in Nat /\ ~(m <= m - 1)
        BY <2>1a, <3>2
      <4>2. m - 1 \notin none
        <5> HIDE DEF none
        <5> QED
          BY <2>1, <4>1
      <4> QED
        BY <4>1, <4>2 DEF LevelsTo
    <3> QED
      BY <3>1, <3>2
  <2> DEFINE g == [k \in Nat |-> [p \in Int |-> IF k = m THEN LeavesOf(h, m, p) ELSE h[k][p]]]
  <2>3. g \in [Nat -> [Int -> Seq(Int)]]
    <3>1. \A p \in Int : LeavesOf(h, m, p) \in Seq(Int)
      BY LeavesOfType
    <3> QED
      BY <3>1
  <2>4. \A k \in Nat : \A p \in Int : g[k][p] = IF k = m THEN LeavesOf(h, m, p) ELSE h[k][p]
    OBVIOUS
  <2> HIDE DEF g
  <2>5. ASSUME NEW k \in 0 .. m, NEW p \in Int
        PROVE  g[k][p] = LeavesOf(g, k, p)
    <3>0. m \in Nat /\ k \in Nat /\ (k # m => k \in 0 .. m - 1)
      BY <2>1
    <3>1. k # 0 => \A q \in Int : g[k - 1][q] = h[k - 1][q]
      <4>1. k # 0 => k - 1 \in Nat /\ k - 1 # m
        BY <2>1
      <4> QED
        BY <2>4, <4>1
    <3>2. LeavesOf(g, k, p) = LeavesOf(h, k, p)
      BY <3>0, <3>1, LeavesOfSame
    <3>3. k # m => h[k][p] = LeavesOf(h, k, p)
      BY <2>2, <3>0
    <3> QED
      BY <2>4, <3>0, <3>2, <3>3
  <2> QED
    BY <2>1, <2>3, <2>5 DEF LevelsTo
<1> QED
  BY <1>1

\* The leaves under a page are those of its children at the level below, one after the
\* other.
LEMMA LeavesUnderSteps ==
  ASSUME pages \in Archives
  PROVE  /\ Walk!LeavesUnder \in [Nat -> [Int -> Seq(Int)]]
         /\ \A n \in Nat : \A p \in Int :
              Walk!LeavesUnder[n][p] = LeavesOf(Walk!LeavesUnder, n, p)
<1> DEFINE At(n) == CHOOSE h \in [Nat -> [Int -> Seq(Int)]] : LevelsTo(h, n)
           g == [n \in Nat |-> [p \in Int |-> At(n)[n][p]]]
<1>1. \A n \in Nat : At(n) \in [Nat -> [Int -> Seq(Int)]] /\ LevelsTo(At(n), n)
  BY LevelsExist
<1>2. \A n \in Nat : \A p \in Int : g[n][p] = At(n)[n][p]
  OBVIOUS
<1> HIDE DEF At
<1>3. ASSUME NEW n \in Nat, NEW p \in Int
      PROVE  g[n][p] = LeavesOf(g, n, p)
  <2>1. n # 0 => \A q \in Int : g[n - 1][q] = At(n)[n - 1][q]
    <3> SUFFICES ASSUME n # 0
                 PROVE  \A q \in Int : At(n - 1)[n - 1][q] = At(n)[n - 1][q]
      BY <1>2
    <3>0. n - 1 \in Nat /\ \A m \in 0 .. n - 1 : m \in 0 .. n
      OBVIOUS
    <3>1. LevelsTo(At(n - 1), n - 1) /\ LevelsTo(At(n), n - 1)
      BY <1>1, <3>0 DEF LevelsTo
    <3> QED
      BY <3>0, <3>1, LevelsAgree
  <2>2. LeavesOf(g, n, p) = LeavesOf(At(n), n, p)
    BY <2>1, LeavesOfSame
  <2>3. At(n)[n][p] = LeavesOf(At(n), n, p)
    <3>1. n \in 0 .. n
      OBVIOUS
    <3> QED
      BY <1>1, <3>1 DEF LevelsTo
  <2> QED
    BY <1>2, <2>2, <2>3
<1>4. Levels(g)
  <2>1. g = [n \in Nat |-> [p \in Int |-> g[n][p]]]
    BY <1>2
  <2> HIDE DEF g
  <2>2. [n \in Nat |-> [p \in Int |-> g[n][p]]] = [n \in Nat |-> [p \in Int |-> LeavesOf(g, n, p)]]
    BY <1>3
  <2> QED
    BY <2>1, <2>2 DEF Levels
<1>4a. /\ \A n \in Nat : LevelsTo(g, n)
       /\ \A n \in Nat : \A p \in Int : g[n][p] \in Seq(Int)
  <2>1. \A n \in Nat : \A m \in 0 .. n : m \in Nat
    OBVIOUS
  <2>2. \A n \in Nat : \A p \in Int : At(n)[n][p] \in Seq(Int)
    BY <1>1
  <2>3. \A n \in Nat : \A p \in Int : g[n][p] \in Seq(Int)
    BY <1>2, <2>2
  <2> HIDE DEF g
  <2>4. \A n \in Nat : LevelsTo(g, n)
    BY <1>3, <2>1 DEF LevelsTo
  <2> QED
    BY <2>3, <2>4
<1> HIDE DEF g
<1>5. Levels(Walk!LeavesUnder)
  BY <1>4, LeavesUnderIsLevels
<1> HIDE DEF Levels
<1> DEFINE f == Walk!LeavesUnder
<1>6. Levels(f)
  BY <1>5
<1> HIDE DEF f
<1>7. f = [n \in Nat |-> [p \in Int |-> LeavesOf(f, n, p)]]
  BY <1>6 DEF Levels
<1>8. \A n \in Nat : \A p \in Int : f[n][p] = LeavesOf(f, n, p)
  BY <1>7
<1>9. \A n \in Nat : LevelsTo(f, n)
  BY <1>8 DEF LevelsTo
<1>10. \A n \in Nat : \A p \in Int : f[n][p] \in Seq(Int)
  <2> TAKE n \in Nat
  <2>1. LevelsTo(f, n) /\ LevelsTo(g, n)
    BY <1>4a, <1>9
  <2>2. \A p \in Int : f[n][p] = g[n][p]
    BY <2>1, LevelsAgree
  <2> QED
    BY <1>4a, <2>2
<1>11. f \in [Nat -> [Int -> Seq(Int)]]
  <2>1. \A n \in Nat : f[n] = [p \in Int |-> LeavesOf(f, n, p)]
    BY <1>7
  <2>2. \A n \in Nat : f[n] \in [Int -> Seq(Int)]
    BY <1>8, <1>10, <2>1
  <2>3. f = [n \in Nat |-> f[n]]
    BY <1>7
  <2> QED
    BY <2>2, <2>3
<1> QED
  BY <1>8, <1>11 DEF f

\* As long as the archive is what it is, so are the leaves under its pages.
LEMMA SameLeaves ==
  ASSUME UNCHANGED pages
  PROVE  Walk!LeavesUnder' = Walk!LeavesUnder
BY DEF Walk!LeavesUnder, Walk!Children, Walk!PageNumbers
\* How many pages were expanded, and that the one in hand is another one.
LEMMA ExpandedCount ==
  ASSUME pages \in Archives, Walk!TypeOK
  PROVE  /\ Walk!page_count \in Nat
         /\ Cardinality(Expanded) \in Nat
         /\ current # None =>
              /\ current \in PageNumbers
              /\ Cardinality(visited) = Cardinality(Expanded) + 1
              /\ Cardinality(Expanded) < Walk!page_count
<1>1. Walk!page_count = Cardinality(PageNumbers)
  BY DEF Walk!page_count, Walk!Cardinality, Cardinality, PageNumbers, Walk!PageNumbers
<1>2. IsFiniteSet(PageNumbers)
  BY ArchivesAssumption DEF PageNumbers
<1>3. visited \subseteq PageNumbers /\ (current # None => current \in visited)
  BY DEF Walk!TypeOK, Walk!None, None, PageNumbers, Walk!PageNumbers
<1>4. /\ IsFiniteSet(visited) /\ Cardinality(visited) \in Nat
      /\ Cardinality(PageNumbers) \in Nat /\ Cardinality(visited) <= Cardinality(PageNumbers)
  BY <1>2, <1>3, FS_Subset, FS_CardinalityType
<1>5. IsFiniteSet(Expanded) /\ Cardinality(Expanded) \in Nat
  BY <1>4, FS_Subset, FS_CardinalityType DEF Expanded
<1>6. current # None => Cardinality(Expanded) = Cardinality(visited) - 1
  BY <1>3, <1>4, FS_RemoveElement DEF Expanded
<1> QED
  BY <1>1, <1>3, <1>4, <1>5, <1>6

\* What the entries of the stack are good for: each the leaves under it at its level, the
\* topmost first.  No level is so low that the tree could be cut short: it is at least as
\* many as there are pages left to expand.
Due(level, todo) ==
  /\ level \in [DOMAIN stack -> Nat]
  /\ \A k \in DOMAIN stack : level[k] + Cardinality(Expanded) >= Walk!page_count
  /\ todo \in [0 .. Len(stack) -> Seq(Int)]
  /\ todo[0] = <<>>
  /\ \A k \in DOMAIN stack : todo[k] = Walk!LeavesUnder[level[k]][stack[k]] \o todo[k - 1]

\* What the page in hand is good for.
InHand(n, now) ==
  /\ n \in Nat /\ now \in Seq(Int)
  /\ current = None => now = <<>>
  /\ current # None => /\ n + Cardinality(Expanded) >= Walk!page_count
                       /\ now = Walk!LeavesUnder[n][current]

Whole == Walk!LeavesUnder[Walk!page_count][root_page]

\* The leaves yielded and those still to come are those of the tree, in this order.
InOrder ==
  \E level, todo, n, now :
    Due(level, todo) /\ InHand(n, now) /\ leaves \o (now \o todo[Len(stack)]) = Whole

\* What does not change with the stack.
LEMMA SameWhole ==
  ASSUME UNCHANGED pages
  PROVE  /\ Walk!LeavesUnder' = Walk!LeavesUnder
         /\ Walk!page_count' = Walk!page_count
         /\ Whole' = Whole
<1>1. Walk!LeavesUnder' = Walk!LeavesUnder /\ Walk!page_count' = Walk!page_count
  BY SameLeaves DEF Walk!page_count, Walk!PageNumbers
<1> QED
  BY <1>1 DEF Whole

\* The entry on top comes next.
LEMMA TopIsDue ==
  ASSUME WalkInv, InOrder, current = None, stack # <<>>, stack' = Walk!Front(stack),
         UNCHANGED pages, Expanded' = Expanded
  PROVE  \E level, todo : \E n \in Nat :
           /\ Due(level, todo)'
           /\ n + Cardinality(Expanded) >= Walk!page_count
           /\ Walk!LeavesUnder[n][Walk!Top] \in Seq(Int)
           /\ leaves \o (Walk!LeavesUnder[n][Walk!Top] \o todo[Len(stack')]) = Whole
<1>1. Walk!TypeOK /\ pages \in Archives /\ stack \in Seq(Int)
  BY DEF WalkInv, Walk!TypeOK
<1>2. PICK level, todo, n0, now :
        Due(level, todo) /\ InHand(n0, now) /\ leaves \o (now \o todo[Len(stack)]) = Whole
  BY DEF InOrder
<1>3. now = <<>>
  BY <1>2 DEF InHand
<1>4. PICK m \in Nat : /\ m + 1 = Len(stack) /\ DOMAIN stack = 1 .. m + 1
                       /\ stack' \in Seq(Int) /\ Len(stack') = m /\ DOMAIN stack' = 1 .. m
                       /\ \A k \in 1 .. m : stack'[k] = stack[k]
                       /\ stack[m + 1] = Walk!Top /\ Walk!Top \in Int
  <2>1. Len(stack) \in Nat \ {0}
    BY <1>1, EmptySeq, LenProperties
  <2>2. PICK m \in Nat : m + 1 = Len(stack)
    <3>1. Len(stack) - 1 \in Nat /\ Len(stack) - 1 + 1 = Len(stack)
      BY <2>1
    <3> QED
      BY <3>1
  <2>3. m = Len(stack) - 1 /\ stack' = SubSeq(stack, 1, m)
    BY <2>1, <2>2 DEF Walk!Front
  <2>4. \A i \in 1 .. m : stack[i] \in Int
    BY <1>1, <2>2, ElementOfSeq
  <2>5. /\ stack' \in Seq(Int) /\ Len(stack') = IF 1 <= m THEN m - 1 + 1 ELSE 0
        /\ \A i \in 1 .. m - 1 + 1 : stack'[i] = stack[1 + i - 1]
    BY <2>3, <2>4, SubSeqProperties
  <2>6. Len(stack') = m /\ \A i \in 1 .. m : stack'[i] = stack[i]
    BY <2>5
  <2>7. DOMAIN stack = 1 .. m + 1 /\ DOMAIN stack' = 1 .. m
    BY <1>1, <2>2, <2>5, <2>6, LenProperties
  <2>8. stack[m + 1] = Walk!Top /\ Walk!Top \in Int
    BY <1>1, <2>1, <2>2, ElementOfSeq DEF Walk!Top
  <2> QED
    BY <2>2, <2>5, <2>6, <2>7, <2>8
<1> DEFINE lower == [k \in 1 .. m |-> level[k]]
           left == [k \in 0 .. m |-> todo[k]]
<1>5. /\ level \in [1 .. m + 1 -> Nat] /\ todo \in [0 .. m + 1 -> Seq(Int)] /\ todo[0] = <<>>
      /\ \A k \in 1 .. m + 1 : /\ level[k] + Cardinality(Expanded) >= Walk!page_count
                               /\ todo[k] = Walk!LeavesUnder[level[k]][stack[k]] \o todo[k - 1]
  BY <1>2, <1>4 DEF Due
<1>6. Due(lower, left)'
  <2>1. lower \in [1 .. m -> Nat] /\ left \in [0 .. m -> Seq(Int)] /\ left[0] = <<>>
    BY <1>5
  <2>2. \A k \in 1 .. m : /\ k \in 1 .. m + 1 /\ k \in 0 .. m /\ k - 1 \in 0 .. m
                          /\ lower[k] = level[k] /\ left[k] = todo[k] /\ left[k - 1] = todo[k - 1]
    OBVIOUS
  <2> HIDE DEF lower, left
  <2>3. \A k \in 1 .. m : /\ lower[k] + Cardinality(Expanded) >= Walk!page_count
                          /\ left[k] = Walk!LeavesUnder[lower[k]][stack'[k]] \o left[k - 1]
    BY <1>4, <1>5, <2>2
  <2> QED
    BY <1>4, <2>1, <2>3, SameWhole DEF Due
<1>7. m + 1 \in 1 .. m + 1 /\ m + 1 - 1 = m
  OBVIOUS
<1>8. level[m + 1] \in Nat
  BY <1>5, <1>7
<1>9. left[Len(stack')] = todo[m]
  BY <1>4
<1>10. Walk!LeavesUnder[level[m + 1]][Walk!Top] \in Seq(Int)
  BY <1>1, <1>4, <1>8, LeavesUnderSteps
<1> HIDE DEF lower, left
<1>11. <<>> \o todo[Len(stack)] = todo[m + 1] /\ todo[m + 1] = Walk!LeavesUnder[level[m + 1]][Walk!Top] \o todo[m]
  <2>1. todo[m + 1] \in Seq(Int)
    BY <1>5
  <2>2. <<>> \o todo[m + 1] = todo[m + 1]
    BY <2>1, ConcatEmptySeq
  <2>3. todo[m + 1] = Walk!LeavesUnder[level[m + 1]][stack[m + 1]] \o todo[m]
    <3>1. PICK j \in 1 .. m + 1 : j = m + 1 /\ j - 1 = m
      BY <1>7
    <3>2. todo[j] = Walk!LeavesUnder[level[j]][stack[j]] \o todo[j - 1]
      BY <1>5
    <3> QED
      BY <3>1, <3>2
  <2> QED
    BY <1>4, <1>7, <2>2, <2>3
<1>12. leaves \o (Walk!LeavesUnder[level[m + 1]][Walk!Top] \o left[Len(stack')]) = Whole
  BY <1>2, <1>3, <1>9, <1>11
<1>13. level[m + 1] + Cardinality(Expanded) >= Walk!page_count
  BY <1>5, <1>7
<1> QED
  BY <1>6, <1>8, <1>10, <1>12, <1>13

\* A page that is visited is what comes next.
LEMMA VisitOrder ==
  ASSUME WalkInv, InOrder, Walk!Visit, UNCHANGED <<pages, leaves>>
  PROVE  InOrder'
<1>1. /\ current = None /\ stack # <<>> /\ stack' = Walk!Front(stack)
      /\ Walk!Top \in PageNumbers /\ visited' = visited \cup {Walk!Top} /\ current' = Walk!Top
      /\ Walk!Top \notin visited
  BY DEF Walk!Visit, Walk!Walking, Walk!None, None, PageNumbers, Walk!PageNumbers
<1>2. Expanded' = Expanded /\ current' # None
  BY <1>1, NoneInHand, ChildrenType DEF Expanded, WalkInv
<1>3. PICK level, todo : \E n \in Nat :
        /\ Due(level, todo)'
        /\ n + Cardinality(Expanded) >= Walk!page_count
        /\ Walk!LeavesUnder[n][Walk!Top] \in Seq(Int)
        /\ leaves \o (Walk!LeavesUnder[n][Walk!Top] \o todo[Len(stack')]) = Whole
  BY <1>1, <1>2, TopIsDue
<1>4. PICK n \in Nat :
        /\ n + Cardinality(Expanded) >= Walk!page_count
        /\ Walk!LeavesUnder[n][Walk!Top] \in Seq(Int)
        /\ leaves \o (Walk!LeavesUnder[n][Walk!Top] \o todo[Len(stack')]) = Whole
  BY <1>3
<1>4a. PICK now : now = Walk!LeavesUnder[n][Walk!Top]
  OBVIOUS
<1>5. InHand(n, now)'
  BY <1>1, <1>2, <1>4, <1>4a, SameWhole DEF InHand
<1>6. (leaves \o (now \o todo[Len(stack)]) = Whole)'
  BY <1>1, <1>4, <1>4a, SameWhole
<1> QED
  BY <1>3, <1>5, <1>6 DEF InOrder

\* A place that is no page had nothing to come.
LEMMA PassOrder ==
  ASSUME WalkInv, InOrder, Walk!OutOfBounds
  PROVE  InOrder'
<1>1. /\ current = None /\ stack # <<>> /\ stack' = Walk!Front(stack) /\ Walk!Top \notin PageNumbers
      /\ UNCHANGED <<pages, visited, current, leaves>>
  BY DEF Walk!OutOfBounds, Walk!Walking, Walk!None, None, PageNumbers, Walk!PageNumbers
<1>2. Expanded' = Expanded
  BY <1>1 DEF Expanded
<1>3. PICK level, todo : \E n \in Nat :
        /\ Due(level, todo)'
        /\ leaves \o (Walk!LeavesUnder[n][Walk!Top] \o todo[Len(stack')]) = Whole
  BY <1>1, <1>2, TopIsDue
<1>4. PICK n \in Nat : leaves \o (Walk!LeavesUnder[n][Walk!Top] \o todo[Len(stack')]) = Whole
  BY <1>3
<1>5. Walk!LeavesUnder[n][Walk!Top] = <<>>
  <2>1. pages \in Archives /\ Walk!Top \in Int
    BY <1>1, PopStack DEF WalkInv, Walk!TypeOK
  <2>2. Walk!LeavesUnder[n][Walk!Top] = LeavesOf(Walk!LeavesUnder, n, Walk!Top)
    BY <2>1, LeavesUnderSteps
  <2> QED
    BY <1>1, <2>2 DEF LeavesOf
<1>6. InHand(0, <<>>)'
  BY <1>1, EmptySeq DEF InHand
<1>7. (leaves \o (<<>> \o todo[Len(stack)]) = Whole)'
  BY <1>1, <1>4, <1>5, SameWhole
<1> QED
  BY <1>3, <1>6, <1>7 DEF InOrder

\* A walk starts out with all of them to come.
LEMMA OrderInit ==
  ASSUME WalkInv, Walk!Init
  PROVE  InOrder
<1>1. /\ pages \in Archives /\ stack = <<root_page>> /\ visited = {} /\ current = None /\ leaves = <<>>
  BY DEF Walk!Init, Walk!None, None
<1>2. Expanded = {} /\ Cardinality(Expanded) = 0 /\ Walk!page_count \in Nat
  BY <1>1, FS_EmptySet, ExpandedCount DEF Expanded, WalkInv
<1>3. Whole \in Seq(Int)
  BY <1>1, <1>2, RootAssumption, LeavesUnderSteps DEF Whole
<1>4. DOMAIN stack = {1} /\ Len(stack) = 1 /\ stack[1] = root_page
  BY <1>1
<1> DEFINE level == [k \in {1} |-> Walk!page_count]
           todo == [k \in 0 .. 1 |-> IF k = 0 THEN <<>> ELSE Whole]
<1>5. Due(level, todo)
  <2>1. level \in [{1} -> Nat] /\ level[1] = Walk!page_count
    BY <1>2
  <2>2. todo \in [0 .. 1 -> Seq(Int)] /\ todo[0] = <<>> /\ todo[1] = Whole
    BY <1>3, EmptySeq
  <2> HIDE DEF level, todo
  <2>3. Whole \o <<>> = Whole
    BY <1>3, ConcatEmptySeq
  <2>4. level[1] + Cardinality(Expanded) >= Walk!page_count
    BY <1>2, <2>1
  <2>5. todo[1] = Walk!LeavesUnder[level[1]][stack[1]] \o todo[1 - 1]
    BY <1>4, <2>1, <2>2, <2>3 DEF Whole
  <2> QED
    BY <1>4, <2>1, <2>2, <2>4, <2>5 DEF Due
<1>6. InHand(0, <<>>)
  BY <1>1, EmptySeq DEF InHand
<1>7. leaves \o (<<>> \o todo[Len(stack)]) = Whole
  <2>1. todo[Len(stack)] = Whole
    BY <1>4
  <2> QED
    BY <1>1, <1>3, <2>1, ConcatEmptySeq
<1> HIDE DEF level, todo
<1> QED
  BY <1>5, <1>6, <1>7 DEF InOrder

\* Where a page's children are on the stack.
LEMMA PushedStack ==
  ASSUME stack \in Seq(Int), NEW c \in Seq(Int), stack' = stack \o Walk!Reverse(c),
         NEW m \in Nat, NEW l \in Nat, m = Len(stack), l = Len(c)
  PROVE  /\ stack' \in Seq(Int) /\ Len(stack') = m + l /\ DOMAIN stack' = 1 .. m + l
         /\ \A k \in 1 .. m : stack'[k] = stack[k]
         /\ \A i \in 1 .. l : stack'[m + i] = c[l - i + 1]
<1>1. PICK d : d \in Seq(Int) /\ Walk!Reverse(c) = d /\ Len(d) = l /\ \A i \in 1 .. l : d[i] = c[l - i + 1]
  <2> DEFINE d == [i \in 1 .. l |-> c[l - i + 1]]
  <2>1. \A i \in 1 .. l : l - i + 1 \in 1 .. Len(c) /\ c[l - i + 1] \in Int
    BY ElementOfSeq
  <2>2. d \in Seq(Int)
    BY <2>1, IsASeq
  <2>3. DOMAIN d = 1 .. l
    OBVIOUS
  <2>4. Len(d) = l
    BY <2>2, <2>3, LenProperties
  <2>5. Walk!Reverse(c) = d
    BY DEF Walk!Reverse
  <2> QED
    BY <2>2, <2>4, <2>5
<1>2. stack' = stack \o d
  BY <1>1
<1>3. /\ stack \o d \in Seq(Int) /\ Len(stack \o d) = Len(stack) + Len(d)
      /\ \A k \in 1 .. Len(stack) + Len(d) :
           (stack \o d)[k] = IF k <= Len(stack) THEN stack[k] ELSE d[k - Len(stack)]
  BY <1>1, ConcatProperties
<1>4. stack' \in Seq(Int) /\ Len(stack') = m + l
  BY <1>1, <1>2, <1>3
<1>5. \A k \in 1 .. m + l : stack'[k] = IF k <= m THEN stack[k] ELSE d[k - m]
  BY <1>1, <1>2, <1>3
<1>6. ASSUME NEW i \in 1 .. l
      PROVE  stack'[m + i] = c[l - i + 1]
  <2>1. m + i \in 1 .. m + l /\ ~(m + i <= m) /\ m + i - m = i
    OBVIOUS
  <2> QED
    BY <1>1, <1>5, <2>1
<1>7. \A k \in 1 .. m : k \in 1 .. m + l /\ k <= m
  OBVIOUS
<1> QED
  BY <1>4, <1>5, <1>6, <1>7, LenProperties

\* A page that is left has yielded what it is good for, or put it on the stack.
LEMMA LeaveOrder ==
  ASSUME WalkInv, InOrder, Walk!Descend \/ Walk!YieldLeaf \/ Walk!Skip
  PROVE  InOrder'
<1>1. /\ current # None /\ current' = None /\ UNCHANGED <<pages, visited, ahead, outcome, reads>>
  BY DEF Walk!Descend, Walk!YieldLeaf, Walk!Skip, Walk!None, None
<1>2. Walk!TypeOK /\ pages \in Archives /\ stack \in Seq(Int) /\ leaves \in Seq(Int)
  <2>1. Walk!TypeOK /\ pages \in Archives
    BY DEF WalkInv
  <2>2. visited \subseteq Int
    BY <2>1, ChildrenType DEF Walk!TypeOK, PageNumbers, Walk!PageNumbers
  <2> QED
    BY <2>1, <2>2, SeqOfMore DEF Walk!TypeOK
<1>3. /\ current \in PageNumbers /\ current \in Int
      /\ Walk!page_count \in Nat /\ Cardinality(Expanded) \in Nat
      /\ Cardinality(Expanded) < Walk!page_count
      /\ Cardinality(Expanded') = Cardinality(Expanded) + 1
  <2>1. None \notin visited
    BY <1>2, ChildrenType DEF Walk!TypeOK, PageNumbers, Walk!PageNumbers
  <2>2. Expanded' = visited
    BY <1>1, <2>1 DEF Expanded
  <2> QED
    BY <1>1, <1>2, <2>2, ExpandedCount, ChildrenType
<1>4. PICK level, todo, n, now :
        Due(level, todo) /\ InHand(n, now) /\ leaves \o (now \o todo[Len(stack)]) = Whole
  BY DEF InOrder
<1>5. /\ n \in Nat \ {0} /\ now \in Seq(Int) /\ n + Cardinality(Expanded) >= Walk!page_count
      /\ now = LeavesOf(Walk!LeavesUnder, n, current)
  <2>1. n \in Nat /\ now \in Seq(Int) /\ n + Cardinality(Expanded) >= Walk!page_count
    BY <1>1, <1>4 DEF InHand
  <2>2. now = LeavesOf(Walk!LeavesUnder, n, current)
    BY <1>1, <1>2, <1>3, <1>4, <2>1, LeavesUnderSteps DEF InHand
  <2> QED
    BY <1>3, <2>1, <2>2
<1>6. PICK m \in Nat : m = Len(stack) /\ DOMAIN stack = 1 .. m
  BY <1>2, LenProperties
<1>7. /\ level \in [1 .. m -> Nat] /\ todo \in [0 .. m -> Seq(Int)] /\ todo[0] = <<>>
      /\ \A k \in 1 .. m : /\ level[k] + Cardinality(Expanded) >= Walk!page_count
                           /\ todo[k] = Walk!LeavesUnder[level[k]][stack[k]] \o todo[k - 1]
  BY <1>4, <1>6 DEF Due
<1>8. \A k \in Nat : k + Cardinality(Expanded) >= Walk!page_count =>
                       k + Cardinality(Expanded') >= Walk!page_count
  BY <1>3
<1>9. InHand(0, <<>>)'
  BY <1>1, EmptySeq DEF InHand
<1>10. ASSUME UNCHANGED stack
       PROVE  Due(level, todo)'
  BY <1>1, <1>4, <1>6, <1>7, <1>8, <1>10, SameWhole DEF Due
<1>11. pages[current].type \in {"ldir", "leaf", "other"}
  BY <1>2, <1>3, ArchivesAssumption DEF PageNumbers
<1>12. CASE Walk!YieldLeaf
  <2>1. UNCHANGED stack /\ leaves' = Append(leaves, current) /\ pages[current].type = "leaf"
    BY <1>12 DEF Walk!YieldLeaf
  <2>2. now = <<current>>
    BY <1>3, <1>5, <2>1 DEF LeavesOf
  <2>3. leaves' = leaves \o now
    BY <1>2, <1>3, <2>1, <2>2, AppendIsConcat
  <2>4. leaves' \o (<<>> \o todo[m]) = leaves \o (now \o todo[m])
    <3> DEFINE t == todo[m]
    <3>1. t \in Seq(Int)
      BY <1>7
    <3> HIDE DEF t
    <3>2. <<>> \o t = t
      BY <3>1, ConcatEmptySeq
    <3>3. (leaves \o now) \o t = leaves \o (now \o t)
      <4>1. \A s1, s2, s3 \in Seq(Int) : (s1 \o s2) \o s3 = s1 \o (s2 \o s3)
        BY ConcatAssociative
      <4>2. leaves \in Seq(Int) /\ now \in Seq(Int) /\ t \in Seq(Int)
        BY <1>2, <1>5, <3>1
      <4> QED
        BY <4>1, <4>2, Zenon
    <3> QED
      BY <2>3, <3>2, <3>3 DEF t
  <2>5. (leaves \o (<<>> \o todo[Len(stack)]) = Whole)'
    BY <1>1, <1>4, <1>6, <2>1, <2>4, SameWhole
  <2> QED
    BY <1>9, <1>10, <2>1, <2>5 DEF InOrder
<1>13. CASE Walk!Skip
  <2>1. UNCHANGED <<stack, leaves>> /\ pages[current].type = "other"
    BY <1>13 DEF Walk!Skip
  <2>2. now = <<>>
    <3>1. Walk!Children(current) = <<>>
      BY <2>1 DEF Walk!Children
    <3>2. [i \in 1 .. Len(Walk!Children(current)) |->
             Walk!LeavesUnder[n - 1][Walk!Children(current)[i]]] = <<>>
      BY <3>1
    <3> QED
      BY <1>3, <1>5, <2>1, <3>2, FlattenNone DEF LeavesOf
  <2>3. (leaves \o (<<>> \o todo[Len(stack)]) = Whole)'
    BY <1>1, <1>4, <2>1, <2>2, SameWhole
  <2> QED
    BY <1>9, <1>10, <2>1, <2>3 DEF InOrder
<1>14. CASE Walk!Descend
  <2>1. /\ UNCHANGED leaves /\ pages[current].type = "ldir"
        /\ stack' = stack \o Walk!Reverse(pages[current].children)
    BY <1>14 DEF Walk!Descend
  <2>2. PICK c \in Seq(Int) : c = Walk!Children(current) /\ c = pages[current].children
    BY <1>2, <1>3, <2>1, ChildrenType DEF Walk!Children, PageNumbers, Walk!PageNumbers
  <2>2a. PICK ss : ss = [i \in 1 .. Len(c) |-> Walk!LeavesUnder[n - 1][c[i]]]
    OBVIOUS
  <2>3. PICK l \in Nat : l = Len(c)
    BY LenProperties
  <2>4. ss \in Seq(Seq(Int)) /\ Len(ss) = l /\ \A i \in 1 .. l : ss[i] = Walk!LeavesUnder[n - 1][c[i]]
    <3>1. n - 1 \in Nat /\ \A i \in 1 .. l : c[i] \in Int
      BY <1>5, <2>3, ElementOfSeq
    <3>2. \A i \in 1 .. l : Walk!LeavesUnder[n - 1][c[i]] \in Seq(Int)
      BY <1>2, <3>1, LeavesUnderSteps
    <3>3. ss \in Seq(Seq(Int))
      BY <2>2a, <2>3, <3>2, IsASeq
    <3>4. DOMAIN ss = 1 .. l
      BY <2>2a, <2>3
    <3> QED
      BY <2>2a, <2>3, <3>3, <3>4, LenProperties
  <2>5. now = FlattenSeq(ss)
    BY <1>3, <1>5, <2>1, <2>2, <2>2a DEF LeavesOf
  <2>6. /\ stack' \in Seq(Int) /\ Len(stack') = m + l /\ DOMAIN stack' = 1 .. m + l
        /\ \A k \in 1 .. m : stack'[k] = stack[k]
        /\ \A i \in 1 .. l : stack'[m + i] = c[l - i + 1]
    BY <1>2, <1>6, <2>1, <2>2, <2>3, PushedStack
  <2>7. /\ FlatFrom(ss, 0) = now /\ FlatFrom(ss, l) = <<>>
        /\ \A k \in 0 .. l : FlatFrom(ss, k) \in Seq(Int)
        /\ \A k \in 1 .. l : FlatFrom(ss, k - 1) = ss[k] \o FlatFrom(ss, k)
    BY <2>4, <2>5, FlatFromSteps
  <2>8. todo[m] \in Seq(Int)
    BY <1>7
  <2>9. PICK level2 : /\ level2 \in [1 .. m + l -> Nat]
                      /\ \A k \in 1 .. m : level2[k] = level[k]
                      /\ \A i \in 1 .. l : level2[m + i] = n - 1
    <3> DEFINE level2 == [k \in 1 .. m + l |-> IF k <= m THEN level[k] ELSE n - 1]
    <3>1. \A k \in 1 .. m + l : (IF k <= m THEN level[k] ELSE n - 1) \in Nat
      BY <1>5, <1>7
    <3>2. \A i \in 1 .. l : m + i \in 1 .. m + l /\ ~(m + i <= m)
      OBVIOUS
    <3>3. level2 \in [1 .. m + l -> Nat] /\ \A i \in 1 .. l : level2[m + i] = n - 1
      BY <3>1, <3>2
    <3>4. \A k \in 1 .. m : level2[k] = level[k]
      OBVIOUS
    <3> QED
      BY <3>3, <3>4
  <2>10. PICK todo2 : /\ todo2 \in [0 .. m + l -> Seq(Int)]
                      /\ \A k \in 0 .. m : todo2[k] = todo[k]
                      /\ \A k \in m + 1 .. m + l : todo2[k] = FlatFrom(ss, l - (k - m)) \o todo[m]
    <3> DEFINE todo2 == [k \in 0 .. m + l |->
                           IF k <= m THEN todo[k] ELSE FlatFrom(ss, l - (k - m)) \o todo[m]]
    <3>1. \A k \in 0 .. m + l : ~(k <= m) => l - (k - m) \in 0 .. l
      OBVIOUS
    <3>2. \A j \in 0 .. l : FlatFrom(ss, j) \o todo[m] \in Seq(Int)
      BY <2>7, <2>8, ConcatProperties
    <3>3. \A k \in 0 .. m + l :
            (IF k <= m THEN todo[k] ELSE FlatFrom(ss, l - (k - m)) \o todo[m]) \in Seq(Int)
      BY <1>7, <3>1, <3>2
    <3>4. todo2 \in [0 .. m + l -> Seq(Int)]
      BY <3>3
    <3>5. \A k \in m + 1 .. m + l : k \in 0 .. m + l /\ ~(k <= m)
      OBVIOUS
    <3>6. \A k \in m + 1 .. m + l : todo2[k] = FlatFrom(ss, l - (k - m)) \o todo[m]
      BY <3>5
    <3>7. \A k \in 0 .. m : todo2[k] = todo[k]
      OBVIOUS
    <3> QED
      BY <3>4, <3>6, <3>7
  <2>11. \A i \in 1 .. l : todo2[m + i] = FlatFrom(ss, l - i) \o todo[m]
    <3> TAKE i \in 1 .. l
    <3>1. PICK k \in m + 1 .. m + l : k = m + i /\ l - (k - m) = l - i
      OBVIOUS
    <3> QED
      BY <2>10, <3>1
  <2>12. \A i \in 1 .. l : todo2[m + i - 1] = FlatFrom(ss, l - i + 1) \o todo[m]
    <3> TAKE i \in 1 .. l
    <3>1. CASE i = 1
      <4>1. m + i - 1 = m /\ l - i + 1 = l
        BY <3>1
      <4>2. todo2[m] = todo[m] /\ <<>> \o todo[m] = todo[m]
        BY <2>8, <2>10, ConcatEmptySeq
      <4> QED
        BY <2>7, <4>1, <4>2
    <3>2. CASE i # 1
      <4>1. PICK k \in m + 1 .. m + l : k = m + i - 1 /\ l - (k - m) = l - i + 1
        BY <3>2
      <4> QED
        BY <2>10, <4>1
    <3> QED
      BY <3>1, <3>2
  <2>13. \A i \in 1 .. l :
          /\ level2[m + i] + Cardinality(Expanded') >= Walk!page_count
          /\ todo2[m + i] = Walk!LeavesUnder[level2[m + i]][stack'[m + i]] \o todo2[m + i - 1]
    <3> TAKE i \in 1 .. l
    <3>1. level2[m + i] + Cardinality(Expanded') >= Walk!page_count
      <4>1. level2[m + i] = n - 1
        BY <2>9
      <4> QED
        BY <1>3, <1>5, <4>1
    <3>2. PICK j \in 1 .. l : j = l - i + 1 /\ j - 1 = l - i
      <4>1. l - i + 1 \in 1 .. l /\ l - i + 1 - 1 = l - i
        OBVIOUS
      <4> QED
        BY <4>1
    <3>3. /\ FlatFrom(ss, j - 1) = ss[j] \o FlatFrom(ss, j)
          /\ ss[j] \in Seq(Int) /\ FlatFrom(ss, j) \in Seq(Int)
      <4>1. ss[j] \in Seq(Int)
        BY <2>4, ElementOfSeq
      <4>2. j \in 0 .. l
        OBVIOUS
      <4> QED
        BY <2>7, <4>1, <4>2
    <3>4. ss[j] = Walk!LeavesUnder[level2[m + i]][stack'[m + i]]
      BY <2>4, <2>6, <2>9, <3>2
    <3>5. (ss[j] \o FlatFrom(ss, j)) \o todo[m] = ss[j] \o (FlatFrom(ss, j) \o todo[m])
      <4>1. \A s1, s2, s3 \in Seq(Int) : (s1 \o s2) \o s3 = s1 \o (s2 \o s3)
        BY ConcatAssociative
      <4> QED
        BY <2>8, <3>3, <4>1, Zenon
    <3>6. todo2[m + i] = FlatFrom(ss, j - 1) \o todo[m] /\ todo2[m + i - 1] = FlatFrom(ss, j) \o todo[m]
      BY <2>11, <2>12, <3>2
    <3> QED
      BY <3>1, <3>3, <3>4, <3>5, <3>6
  <2>14. Due(level2, todo2)'
    <3>1. \A k \in 1 .. m + l : k \in 1 .. m \/ \E i \in 1 .. l : k = m + i
      <4> TAKE k \in 1 .. m + l
      <4>1. k \notin 1 .. m => k - m \in 1 .. l /\ k = m + (k - m)
        OBVIOUS
      <4> QED
        BY <4>1
    <3>2. \A k \in 1 .. m : /\ level2[k] + Cardinality(Expanded') >= Walk!page_count
                            /\ todo2[k] = Walk!LeavesUnder[level2[k]][stack'[k]] \o todo2[k - 1]
      <4> TAKE k \in 1 .. m
      <4>1. k \in 0 .. m /\ k - 1 \in 0 .. m /\ level[k] \in Nat
        BY <1>7
      <4> QED
        BY <1>7, <1>8, <2>6, <2>9, <2>10, <4>1
    <3>3. ASSUME NEW k \in 1 .. m + l
          PROVE  /\ level2[k] + Cardinality(Expanded') >= Walk!page_count
                 /\ todo2[k] = Walk!LeavesUnder[level2[k]][stack'[k]] \o todo2[k - 1]
      <4>1. CASE k \in 1 .. m
        BY <3>2, <4>1
      <4>2. ASSUME NEW i \in 1 .. l, k = m + i
            PROVE  /\ level2[k] + Cardinality(Expanded') >= Walk!page_count
                   /\ todo2[k] = Walk!LeavesUnder[level2[k]][stack'[k]] \o todo2[k - 1]
        <5>1. /\ level2[m + i] + Cardinality(Expanded') >= Walk!page_count
              /\ todo2[m + i] = Walk!LeavesUnder[level2[m + i]][stack'[m + i]] \o todo2[m + i - 1]
          BY <2>13, Zenon
        <5> QED
          BY <4>2, <5>1
      <4> QED
        BY <3>1, <4>1, <4>2, Zenon
    <3> QED
      <4>1. todo2[0] = <<>>
        BY <1>7, <2>10
      <4> QED
        BY <1>1, <2>6, <2>9, <2>10, <3>3, <4>1, SameWhole DEF Due
  <2>15. todo2[m + l] = now \o todo[m]
    <3>1. CASE l = 0
      <4>1. now = <<>> /\ m + l = m /\ <<>> \o todo[m] = todo[m] /\ todo2[m] = todo[m]
        BY <2>7, <2>8, <2>10, <3>1, ConcatEmptySeq
      <4> QED
        BY <4>1
    <3>2. CASE l # 0
      <4>1. l \in 1 .. l /\ l - l = 0
        BY <3>2
      <4> QED
        BY <2>7, <2>11, <4>1
    <3> QED
      BY <3>1, <3>2
  <2>16. (leaves \o (<<>> \o todo2[Len(stack)]) = Whole)'
    <3>1. todo2[m + l] \in Seq(Int)
      BY <2>10
    <3>2. <<>> \o todo2[m + l] = now \o todo[m]
      BY <2>15, <3>1, ConcatEmptySeq
    <3>3. leaves \o (now \o todo[m]) = Whole
      BY <1>4, <1>6
    <3>4. Whole' = Whole /\ leaves' = leaves /\ Len(stack') = m + l
      BY <1>1, <2>1, <2>6, SameWhole
    <3> QED
      BY <3>2, <3>3, <3>4
  <2> QED
    BY <1>9, <2>14, <2>16 DEF InOrder
<1> QED
  BY <1>12, <1>13, <1>14

\* Nothing of it changes where no variable but the outcome does.
LEMMA StayOrder ==
  ASSUME InOrder, UNCHANGED <<pages, stack, visited, current, leaves>>
  PROVE  InOrder'
<1>1. Expanded' = Expanded
  BY DEF Expanded
<1>2. PICK level, todo, n, now :
        Due(level, todo) /\ InHand(n, now) /\ leaves \o (now \o todo[Len(stack)]) = Whole
  BY DEF InOrder
<1>3. Due(level, todo)'
  BY <1>1, <1>2, SameWhole DEF Due
<1>4. InHand(n, now)'
  BY <1>1, <1>2, SameWhole DEF InHand
<1>5. (leaves \o (now \o todo[Len(stack)]) = Whole)'
  BY <1>2, SameWhole
<1> QED
  BY <1>3, <1>4, <1>5 DEF InOrder

\* Every step of the walk keeps the order.
LEMMA OrderStep ==
  ASSUME WalkInv, outcome # "corrupt" => InOrder, Walk!Next
  PROVE  outcome' # "corrupt" => InOrder'
<1>1. CASE Walk!OutOfBounds
  BY <1>1, PassOrder DEF Walk!OutOfBounds, Walk!Walking
<1>2. CASE Walk!Revisit
  BY <1>2 DEF Walk!Revisit
<1>3. CASE Walk!TakeAhead \/ Walk!ReadRun
  BY <1>3, VisitOrder DEF Walk!TakeAhead, Walk!ReadRun, Walk!Visit, Walk!Walking
<1>4. CASE Walk!Descend \/ Walk!YieldLeaf \/ Walk!Skip
  BY <1>4, LeaveOrder DEF Walk!Descend, Walk!YieldLeaf, Walk!Skip
<1>5. CASE Walk!Finish \/ Walk!Ended
  BY <1>5, StayOrder DEF Walk!Finish, Walk!Ended, Walk!vars
<1> QED
  BY <1>1, <1>2, <1>3, <1>4, <1>5 DEF Walk!Next, Walk!Step

\* When nothing is left to come, all of the tree was yielded.
LEMMA DoneInOrder ==
  ASSUME WalkInv, outcome = "done", InOrder
  PROVE  leaves = Whole
<1>1. Walk!TypeOK /\ pages \in Archives /\ stack = <<>> /\ current = None
  BY DEF WalkInv
<1>2. PICK level, todo, n, now :
        Due(level, todo) /\ InHand(n, now) /\ leaves \o (now \o todo[Len(stack)]) = Whole
  BY DEF InOrder
<1>3. now = <<>> /\ Len(stack) = 0 /\ todo[0] = <<>>
  BY <1>1, <1>2, EmptySeq DEF Due, InHand
<1>4. <<>> \o <<>> = <<>>
  BY EmptySeq, ConcatEmptySeq
<1>5. leaves \o <<>> = leaves
  BY <1>1, ConcatEmptySeq DEF Walk!TypeOK
<1> QED
  BY <1>2, <1>3, <1>4, <1>5

-----------------------------------------------------------------------------
(***************************************************************************)
(* The calls.                                                              *)
(***************************************************************************)

\* The walk starts out for the root.
LEMMA WalkInit ==
  Walk!Init => WalkInv
<1> SUFFICES ASSUME Walk!Init
             PROVE  WalkInv
  OBVIOUS
<1>1. /\ pages \in Archives /\ stack = <<root_page>> /\ visited = {} /\ ahead = {}
      /\ current = None /\ leaves = <<>> /\ outcome = "walking"
      /\ reads = [p \in PageNumbers |-> 0]
  BY DEF Walk!Init, Walk!None, None, PageNumbers, Walk!PageNumbers
<1>2. Walk!TypeOK
  BY <1>1, RootAssumption DEF Walk!TypeOK, Walk!None, None, PageNumbers, Walk!PageNumbers
<1>3. Links = {Root} /\ Target[Root] = root_page
  BY <1>1, <1>2, LinkPairs DEF Links, Expanded
<1>4. DOMAIN stack = {1} /\ stack[1] = root_page
  BY <1>1
<1>5. Followed
  BY <1>3, <1>4 DEF Followed, Occurs
<1>6. Linked
  BY <1>1, <1>3, <1>4, TreePages DEF Linked
<1>7. MetOnce /\ InRuns
  BY <1>1, <1>4 DEF MetOnce, InRuns
<1> QED
  BY <1>1, <1>2, <1>5, <1>6, <1>7 DEF WalkInv

\* Every step of the walk keeps what it relies on.
LEMMA WalkStep ==
  ASSUME WalkInv, Walk!Next
  PROVE  WalkInv'
<1>1. CASE Walk!OutOfBounds \/ Walk!Revisit
  BY <1>1, PassedStep
<1>2. CASE Walk!TakeAhead
  BY <1>2, TakeAheadStep
<1>3. CASE Walk!ReadRun
  BY <1>3, ReadRunStep
<1>4. CASE Walk!Descend \/ Walk!YieldLeaf \/ Walk!Skip
  BY <1>4, LeaveStep
<1>5. CASE Walk!Finish
  BY <1>5, StayStep DEF Walk!Finish, Walk!None, None
<1>6. CASE Walk!Ended
  BY <1>6, StayStep DEF Walk!Ended, Walk!vars
<1> QED
  BY <1>1, <1>2, <1>3, <1>4, <1>5, <1>6 DEF Walk!Next, Walk!Step

CallInv ==
  /\ ScanInv
  /\ call = "walk" => WalkInv /\ (outcome # "corrupt" => InOrder)

\* The inductive invariants hold in every state of a call.
THEOREM CallInvariant == CallSpec => []CallInv
<1>1. CallInit => CallInv
  <2> SUFFICES ASSUME CallInit
               PROVE  CallInv
    OBVIOUS
  <2>1. NoScan => ScanInv
    BY PageCountsAssumption, ChunkAssumption
    DEF NoScan, ScanInv, TypeOK, Passed, FindsLast, RunsGrow, None
  <2>2. CASE call = "walk"
    BY <2>1, <2>2, WalkInit, OrderInit DEF CallInit, CallInv
  <2>3. CASE call # "walk"
    BY <2>1, <2>3, ScanInit DEF CallInit, CallInv
  <2> QED
    BY <2>2, <2>3
<1>2. CallInv /\ [CallNext]_callVars => CallInv'
  <2> SUFFICES ASSUME CallInv, [CallNext]_callVars
               PROVE  CallInv'
    OBVIOUS
  <2>1. UNCHANGED call /\ ([Next]_vars)
    BY DEF CallNext, callVars
  <2>2. ScanInv'
    BY <2>1, ScanStep DEF CallInv
  <2>3. ASSUME call = "walk"
        PROVE  WalkInv' /\ (outcome' # "corrupt" => InOrder')
    <3>1. WalkInv /\ (outcome # "corrupt" => InOrder)
      BY <2>3 DEF CallInv
    <3>2. CASE Walk!Next
      BY <3>1, <3>2, WalkStep, OrderStep
    <3>3. CASE UNCHANGED walkVars
      BY <3>1, <3>3, StayStep, StayOrder DEF walkVars
    <3> QED
      BY <2>3, <3>2, <3>3 DEF CallNext, callVars
  <2> QED
    BY <2>1, <2>2, <2>3 DEF CallInv
<1> QED
  BY <1>1, <1>2, PTL DEF CallSpec

\* The inductive invariant of the scan holds in every state of a scan by itself.
THEOREM ScanInvariant == Spec => []ScanInv
BY ScanInit, ScanStep, PTL DEF Spec

\* Every run the scan reads lies within the archive.
THEOREM RunsInBounds == (Spec => []TypeOK) /\ (CallSpec => []TypeOK)
<1>1. ScanInv => TypeOK
  BY DEF ScanInv
<1>2. CallInv => TypeOK
  BY <1>1 DEF CallInv
<1> QED
  BY <1>1, <1>2, ScanInvariant, CallInvariant, PTL

\* A scan returns the last page that is wanted, and None only if there is none.
THEOREM ScanFindsLast == (Spec => []FindsLast) /\ (CallSpec => []FindsLast)
<1>1. ScanInv => FindsLast
  BY DEF ScanInv
<1>2. CallInv => FindsLast
  BY <1>1 DEF CallInv
<1> QED
  BY <1>1, <1>2, ScanInvariant, CallInvariant, PTL

\* A scan reads less than twice the pages it must, and one smallest run.
THEOREM ScanReadsLittle == (Spec => []ReadsLittle) /\ (CallSpec => []ReadsLittle)
<1>1. CallInv => ReadsLittle
  BY ScanHasReadLittle DEF CallInv
<1> QED
  BY <1>1, ScanHasReadLittle, ScanInvariant, CallInvariant, PTL

\* A walk of a tree of any shape reads none of its pages twice, however it reads ahead, and
\* reads none ahead that it does not come to.
THEOREM WalkReadsOnce == CallSpec => []ReadOnce
<1>1. CallInv => ReadOnce
  <2> SUFFICES ASSUME WalkInv, Walk!IsTree
               PROVE  /\ \A p \in PageNumbers : reads[p] = IF p \in visited \cup ahead THEN 1 ELSE 0
                      /\ ahead \subseteq Walk!ToSet(stack) \ visited
    BY DEF CallInv, ReadOnce, Walk!ReadOnce, PageNumbers, Walk!PageNumbers
  <2>1. InRuns
    BY DEF WalkInv
  <2> QED
    BY <2>1 DEF InRuns, Occurs, Walk!ToSet
<1> QED
  BY <1>1, CallInvariant, PTL

\* A walk that comes to its end has yielded every leaf under the root, in key order, however
\* deep the tree is and however its pages lie.
THEOREM WalkYieldsInKeyOrder == CallSpec => []YieldsInKeyOrder
<1>1. CallInv => YieldsInKeyOrder
  BY DoneInOrder DEF CallInv, YieldsInKeyOrder, Walk!YieldsInKeyOrder, Whole
<1> QED
  BY <1>1, CallInvariant, PTL

\* A walk of any pages, cycles and pages that are shared included, comes to its end only in
\* a tree, and refuses none.
THEOREM WalkRefusesOnlyNonTrees == CallSpec => []RefusesOnlyNonTrees
<1>1. CallInv => RefusesOnlyNonTrees
  BY DoneIsTree DEF CallInv, WalkInv, RefusesOnlyNonTrees, Walk!RefusesOnlyNonTrees
<1> QED
  BY <1>1, CallInvariant, PTL
=============================================================================
