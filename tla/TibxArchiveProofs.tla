------------------------- MODULE TibxArchiveProofs -------------------------
(***************************************************************************)
(* That no cache of a TIBX object (ArchiveView) is ever stale, for any     *)
(* recovery points, streams and imap; and that its segment cache           *)
(* (SegmentCache) holds the segments used last, for any archives, segments *)
(* and budget.                                                             *)
(*                                                                         *)
(* ListsAsNew is inductive: every cache it is about is dropped whenever    *)
(* what it depends on changes, and filled from caches for which it holds.  *)
(* HoldsLastUsed needs the order of the cache besides, and what the        *)
(* segments in it read as (SegmentsInv).                                   *)
(***************************************************************************)
EXTENDS TibxArchive, SumLemmas, SequenceTheorems, TLAPS

\* What the streams are filled with, if what is kept is up to date.
LEMMA FilledStreams ==
  ASSUME View!ListsAsNew, View!FillStreams
  PROVE  /\ extents' = slice_limit
         /\ streams' = View!StreamsAt(slice_limit)
  BY DEF View!ListsAsNew, View!FillStreams

\* What the imap is filled with: what it reads as now, or nothing while it cannot be read.
LEMMA FilledItems ==
  ASSUME Items # Unset, View!ListsAsNew, View!FillItems
  PROVE  IF item_streams' = Unset
         THEN View!ReadItems(data_key) = Locked
         ELSE item_streams' = View!ReadItems(data_key)
  BY DEF View!ListsAsNew, View!FillItems, View!ReadItems

\* A cache that is kept is what is computed anew.
LEMMA StepListsAsNew ==
  ASSUME Items # Unset, View!ListsAsNew, [View!Next]_(View!vars)
  PROVE  View!ListsAsNew'
<1>1. CASE View!UseRecoveryPoint
  BY <1>1 DEF View!UseRecoveryPoint, View!ResetViewCaches, View!ListsAsNew
<1>2. CASE View!Unlock
  BY <1>2 DEF View!Unlock, View!ResetImapCaches, View!ResetViewCaches, View!ListsAsNew
<1>3. CASE View!Close
  BY <1>3 DEF View!Close, View!ResetImapCaches, View!ResetViewCaches, View!ListsAsNew
<1>4. CASE View!ListStreams
  BY <1>4, FilledStreams DEF View!ListStreams, View!ListsAsNew
<1>5. CASE View!ListVolumes
  <2>1. /\ extents' = slice_limit
        /\ streams' = View!StreamsAt(slice_limit)
    BY <1>5, FilledStreams DEF View!ListVolumes
  <2>2. UNCHANGED <<slice_limit, data_key, stream_sizes>>
    BY <1>5 DEF View!ListVolumes
  <2>3. CASE volumes = Unset
    <3>1. IF item_streams' = Unset
          THEN View!ReadItems(data_key) = Locked
          ELSE item_streams' = View!ReadItems(data_key)
      BY <1>5, <2>3, FilledItems DEF View!ListVolumes
    <3>2. volumes' = View!StreamsAt(slice_limit)
                       \cup View!EmptyPartitions(View!ReadItems(data_key), slice_limit)
      BY <1>5, <2>1, <2>3, <3>1 DEF View!ListVolumes
    <3> QED
      BY <2>1, <2>2, <3>1, <3>2 DEF View!ListsAsNew
  <2>4. CASE volumes # Unset
    BY <1>5, <2>1, <2>2, <2>4 DEF View!ListVolumes, View!ListsAsNew
  <2> QED
    BY <2>3, <2>4
<1>6. CASE View!Hold
  BY <1>6 DEF View!Hold, View!caches, View!ListsAsNew
<1>7. CASE View!AskSize
  <2>1. UNCHANGED <<slice_limit, data_key, extents, streams, volumes>>
    BY <1>7 DEF View!AskSize
  <2>2. CASE stream_sizes = Unset
    <3>1. View!FillSizes /\ View!FillItems
      BY <1>7, <2>2 DEF View!AskSize, View!FillSizes
    <3>2. IF item_streams' = Unset
          THEN View!ReadItems(data_key) = Locked
          ELSE item_streams' = View!ReadItems(data_key)
      BY <3>1, FilledItems
    <3>3. stream_sizes' # Unset => stream_sizes' = View!SizesAt(View!ReadItems(data_key), slice_limit)
      BY <2>2, <3>1, <3>2 DEF View!FillSizes
    <3> QED
      BY <2>1, <3>2, <3>3 DEF View!ListsAsNew
  <2>3. CASE stream_sizes # Unset
    BY <1>7, <2>1, <2>3 DEF View!AskSize, View!FillSizes, View!ListsAsNew
  <2> QED
    BY <2>2, <2>3
<1>8. CASE UNCHANGED View!vars
  BY <1>8 DEF View!vars, View!caches, View!ListsAsNew
<1> QED
  BY <1>1, <1>2, <1>3, <1>4, <1>5, <1>6, <1>7, <1>8 DEF View!Next

\* Whatever was listed, selected and unlocked before, and in whichever order: what an archive
\* lists is what a newly opened one lists, of that recovery point and with that key.
THEOREM NeverStale ==
  ASSUME Items # Unset
  PROVE  ArchiveSpec => []ListsAsNew
<1>1. ArchiveInit => ListsAsNew
  BY DEF ArchiveInit, View!Init, View!ListsAsNew, ListsAsNew
<1>2. ListsAsNew /\ [ArchiveNext]_archiveVars => ListsAsNew'
  <2> SUFFICES ASSUME ListsAsNew, [ArchiveNext]_archiveVars, part' = "view"
               PROVE  View!ListsAsNew'
    BY DEF ListsAsNew
  <2>1. CASE part = "view" /\ View!Next
    BY <2>1, StepListsAsNew DEF ListsAsNew
  <2>2. CASE UNCHANGED archiveVars
    <3>1. UNCHANGED View!vars /\ part = "view"
      BY <2>2 DEF archiveVars, viewVars, View!vars, View!caches
    <3> QED
      BY <3>1, StepListsAsNew DEF ListsAsNew
  <2> QED
    BY <2>1, <2>2 DEF ArchiveNext
<1> QED
  BY <1>1, <1>2, PTL DEF ArchiveSpec

-----------------------------------------------------------------------------
(***************************************************************************)
(* The cache of segments.                                                  *)
(***************************************************************************)

Distinct(s) == \A i, j \in 1 .. Len(s) : s[i] = s[j] => i = j

\* x is at p in s, or p is past the end of s, and v is s with x moved to its end.
Moves(s, x, p, v) ==
  LET n == IF p <= Len(s) THEN Len(s) ELSE Len(s) + 1
  IN  /\ p \in 1 .. Len(s) + 1
      /\ p <= Len(s) => s[p] = x
      /\ p > Len(s) => \A i \in 1 .. Len(s) : s[i] # x
      /\ Len(v) = n
      /\ \A i \in 1 .. n : v[i] = IF i < p THEN s[i] ELSE IF i < n THEN s[i + 1] ELSE x

LEMMA MoveToEndMoves ==
  ASSUME NEW S, NEW s \in Seq(S), NEW x \in S
  PROVE  /\ Cache!MoveToEnd(s, x) \in Seq(S)
         /\ \E p : Moves(s, x, p, Cache!MoveToEnd(s, x))
<1> DEFINE at == {i \in 1 .. Len(s) : s[i] = x}
           v == Cache!MoveToEnd(s, x)
<1>0. Len(s) \in Nat /\ \A i \in 1 .. Len(s) : s[i] \in S
  OBVIOUS
<1>1. CASE at = {}
  <2>1. v = Append(s, x)
    BY <1>1 DEF Cache!MoveToEnd, Cache!RemoveFirst
  <2> HIDE DEF v
  <2>2. /\ v \in Seq(S) /\ Len(v) = Len(s) + 1
        /\ \A i \in 1 .. Len(s) : v[i] = s[i]
        /\ v[Len(s) + 1] = x
    BY <1>0, <2>1
  <2>3. Moves(s, x, Len(s) + 1, v)
    BY <1>0, <1>1, <2>2 DEF Moves
  <2> QED
    BY <2>2, <2>3 DEF v
<1>2. CASE at # {}
  <2> DEFINE p == Cache!SelectInSeq(s, LAMBDA y : y = x)
             r == Cache!RemoveAt(s, p)
             a == SubSeq(s, 1, p - 1)
             b == SubSeq(s, p + 1, Len(s))
  <2>1. p = Cache!Min(at)
    BY <1>2 DEF Cache!SelectInSeq
  <2>2. v = Append(r, x)
    BY <1>2 DEF Cache!MoveToEnd, Cache!RemoveFirst
  <2>3. p \in at
    <3>1. at \in SUBSET Nat
      OBVIOUS
    <3> HIDE DEF at
    <3>2. \E q \in at : \A i \in at : q <= i
      BY <1>2, <3>1, LeastNatural
    <3> QED
      BY <2>1, <3>2 DEF Cache!Min
  <2>4. r = a \o b
    BY DEF Cache!RemoveAt
  <2> HIDE DEF p, r, v
  <2>5. /\ a \in Seq(S) /\ Len(a) = p - 1
        /\ \A i \in 1 .. p - 1 : a[i] = s[i]
    BY <1>0, <2>3
  <2>6. /\ b \in Seq(S) /\ Len(b) = Len(s) - p
        /\ \A i \in 1 .. Len(s) - p : b[i] = s[p + i]
    BY <1>0, <2>3
  <2> HIDE DEF a, b
  <2>7. r \in Seq(S) /\ Len(r) = Len(s) - 1
    <3>1. r \in Seq(S) /\ Len(r) = Len(a) + Len(b)
      BY <2>4, <2>5, <2>6, ConcatProperties
    <3> QED
      BY <1>0, <2>3, <2>5, <2>6, <3>1
  <2>8. ASSUME NEW i \in 1 .. Len(s) - 1
        PROVE  r[i] = IF i < p THEN s[i] ELSE s[i + 1]
    <3>1. CASE i < p
      <4>1. i \in 1 .. Len(a)
        BY <1>0, <2>3, <2>5, <3>1
      <4>2. r[i] = a[i]
        BY <2>4, <2>5, <2>6, <4>1
      <4> QED
        BY <2>3, <2>5, <3>1, <4>2
    <3>2. CASE i >= p
      <4>1. i - Len(a) \in 1 .. Len(b) /\ i = Len(a) + (i - Len(a))
        BY <1>0, <2>3, <2>5, <2>6, <3>2
      <4>2. r[i] = b[i - Len(a)]
        BY <2>4, <2>5, <2>6, <4>1
      <4>3. b[i - Len(a)] = s[p + (i - Len(a))] /\ p + (i - Len(a)) = i + 1
        BY <1>0, <2>3, <2>5, <2>6, <4>1
      <4> QED
        BY <2>3, <3>2, <4>2, <4>3
    <3> QED
      BY <2>3, <3>1, <3>2
  <2>9. /\ v \in Seq(S) /\ Len(v) = Len(s)
        /\ \A i \in 1 .. Len(s) - 1 : v[i] = r[i]
        /\ v[Len(s)] = x
    BY <1>0, <2>2, <2>3, <2>7
  <2>10. \A i \in 1 .. Len(s) :
           v[i] = IF i < p THEN s[i] ELSE IF i < Len(s) THEN s[i + 1] ELSE x
    <3> TAKE i \in 1 .. Len(s)
    <3>1. CASE i < Len(s)
      BY <1>0, <2>3, <2>8, <2>9, <3>1
    <3>2. CASE i = Len(s)
      BY <1>0, <2>3, <2>9, <3>2
    <3> QED
      BY <1>0, <3>1, <3>2
  <2>11. Moves(s, x, p, v)
    BY <1>0, <2>3, <2>9, <2>10 DEF Moves
  <2> QED
    BY <2>9, <2>11 DEF v
<1> QED
  BY <1>1, <1>2

\* What comes last in s.
LastOnes(s, n) == {s[i] : i \in Len(s) - n + 1 .. Len(s)}

LEMMA LastSubset ==
  ASSUME NEW S, NEW s \in Seq(S), NEW n \in 0 .. Len(s)
  PROVE  /\ LastOnes(s, n) \in SUBSET S /\ IsFiniteSet(LastOnes(s, n))
         /\ \A m \in 0 .. n : LastOnes(s, m) \in SUBSET LastOnes(s, n)
<1>0. Len(s) \in Nat /\ \A i \in 1 .. Len(s) : s[i] \in S
  OBVIOUS
<1>1. LastOnes(s, n) \in SUBSET S /\ \A m \in 0 .. n : LastOnes(s, m) \in SUBSET LastOnes(s, n)
  BY <1>0 DEF LastOnes
<1> DEFINE I == Len(s) - n + 1 .. Len(s)
<1>2. IsFiniteSet(I)
  BY <1>0, FS_Interval
<1>3. [i \in I |-> s[i]] \in Surjection(I, LastOnes(s, n))
  BY DEF Surjection, LastOnes
<1>4. IsFiniteSet(LastOnes(s, n))
  BY <1>2, <1>3, FS_Surjection
<1> QED
  BY <1>1, <1>4

\* In v, the last of s are the last with x, in their order, if x was not among them.
LastMoved(s, x, v, k) ==
  IF x \in LastOnes(s, k)
  THEN Len(v) = Len(s) /\ LastOnes(v, k) = LastOnes(s, k)
  ELSE /\ k + 1 <= Len(v) /\ v[Len(v)] = x
       /\ \A i \in 1 .. k : v[Len(v) - k - 1 + i] = s[Len(s) - k + i]
       /\ LastOnes(v, k + 1) = LastOnes(s, k) \cup {x}

LEMMA MovedLast ==
  ASSUME NEW S, NEW s \in Seq(S), Distinct(s), NEW x, NEW v \in Seq(S), NEW p, Moves(s, x, p, v)
  PROVE  /\ Distinct(v)
         /\ \A k \in 0 .. Len(s) : LastMoved(s, x, v, k)
<1> SUFFICES ASSUME NEW k \in 0 .. Len(s)
             PROVE  Distinct(v) /\ LastMoved(s, x, v, k)
  <2>1. 0 \in 0 .. Len(s)
    OBVIOUS
  <2> QED
    BY <2>1, Zenon
<1>0. /\ Len(s) \in Nat /\ Len(v) \in Nat /\ p \in Nat /\ k \in Nat
  BY DEF Moves
<1>1. ASSUME NEW i \in 1 .. Len(v), NEW j \in 1 .. Len(v), v[i] = v[j]
      PROVE  i = j
  BY <1>0, <1>1, SMTT(30) DEF Moves, Distinct
<1>2. Distinct(v)
  BY <1>0, <1>1 DEF Distinct
<1>3. ASSUME x \in LastOnes(s, k)
      PROVE  Len(v) = Len(s) /\ LastOnes(v, k) = LastOnes(s, k)
  <2>1. PICK q \in Len(s) - k + 1 .. Len(s) : s[q] = x
    BY <1>3 DEF LastOnes
  <2>2. p = q /\ Len(v) = Len(s)
    <3>1. q \in 1 .. Len(s)
      BY <1>0, <2>1
    <3>2. p \in 1 .. Len(s) /\ s[p] = x /\ Len(v) = Len(s)
      BY <1>0, <2>1, <3>1 DEF Moves
    <3> QED
      BY <1>0, <2>1, <3>1, <3>2 DEF Distinct
  <2>3. ASSUME NEW i \in Len(s) - k + 1 .. Len(s)
        PROVE  v[i] \in LastOnes(s, k)
    <3>1. CASE i < p
      BY <1>0, <2>2, <2>3, <3>1 DEF Moves, LastOnes
    <3>2. CASE i >= p /\ i < Len(s)
      <4>1. v[i] = s[i + 1] /\ i + 1 \in Len(s) - k + 1 .. Len(s)
        BY <1>0, <2>2, <2>3, <3>2 DEF Moves
      <4> QED
        BY <4>1 DEF LastOnes
    <3>3. CASE i = Len(s)
      BY <1>0, <1>3, <2>1, <2>2, <2>3, <3>3 DEF Moves
    <3>4. i < p \/ (i >= p /\ i < Len(s)) \/ i = Len(s)
      BY <1>0, <2>3
    <3> QED
      BY <3>1, <3>2, <3>3, <3>4
  <2>4. ASSUME NEW i \in Len(s) - k + 1 .. Len(s)
        PROVE  s[i] \in LastOnes(v, k)
    <3>1. CASE i < p
      BY <1>0, <2>2, <2>4, <3>1 DEF Moves, LastOnes
    <3>2. CASE i = p
      <4>1. v[Len(v)] = s[i] /\ Len(v) \in Len(v) - k + 1 .. Len(v)
        BY <1>0, <2>1, <2>2, <2>4, <3>2 DEF Moves
      <4> QED
        BY <4>1 DEF LastOnes
    <3>3. CASE i > p
      <4>1. v[i - 1] = s[i] /\ i - 1 \in Len(v) - k + 1 .. Len(v)
        BY <1>0, <2>1, <2>2, <2>4, <3>3 DEF Moves
      <4> QED
        BY <4>1 DEF LastOnes
    <3> QED
      BY <1>0, <2>4, <3>1, <3>2, <3>3
  <2> QED
    BY <2>2, <2>3, <2>4 DEF LastOnes
<1>4. ASSUME x \notin LastOnes(s, k)
      PROVE  /\ k + 1 <= Len(v) /\ v[Len(v)] = x
             /\ \A i \in 1 .. k : v[Len(v) - k - 1 + i] = s[Len(s) - k + i]
             /\ LastOnes(v, k + 1) = LastOnes(s, k) \cup {x}
  <2>1. p <= Len(s) - k \/ p = Len(s) + 1
    BY <1>0, <1>4 DEF Moves, LastOnes
  <2>2. k + 1 <= Len(v) /\ v[Len(v)] = x
    BY <1>0, <2>1 DEF Moves
  <2>3. ASSUME NEW i \in 1 .. k
        PROVE  v[Len(v) - k - 1 + i] = s[Len(s) - k + i]
    <3>1. CASE p = Len(s) + 1
      <4>1. Len(v) - k - 1 + i = Len(s) - k + i /\ Len(s) - k + i \in 1 .. Len(s)
        BY <1>0, <3>1 DEF Moves
      <4> QED
        BY <1>0, <3>1, <4>1 DEF Moves
    <3>2. CASE p <= Len(s) - k
      <4>0. p >= 1 /\ Len(v) = Len(s)
        BY <1>0, <3>2 DEF Moves
      <4>1. Len(s) - k - 1 + i \in 1 .. Len(s) - 1 /\ p <= Len(s) - k - 1 + i
        BY <1>0, <3>2, <4>0
      <4>2. v[Len(s) - k - 1 + i] = s[Len(s) - k - 1 + i + 1]
        BY <1>0, <3>2, <4>0, <4>1 DEF Moves
      <4> QED
        BY <1>0, <4>0, <4>2
    <3> QED
      BY <2>1, <3>1, <3>2
  <2>4. LastOnes(v, k + 1) \subseteq LastOnes(s, k) \cup {x}
    <3> SUFFICES ASSUME NEW j \in Len(v) - (k + 1) + 1 .. Len(v)
                 PROVE  v[j] \in LastOnes(s, k) \cup {x}
      BY DEF LastOnes
    <3>1. CASE j < Len(v)
      <4> DEFINE i == j - (Len(v) - k - 1)
      <4>1. i \in 1 .. k /\ Len(v) - k - 1 + i = j
        BY <1>0, <3>1
      <4> HIDE DEF i
      <4>2. v[Len(v) - k - 1 + i] = s[Len(s) - k + i]
        BY <2>3, <4>1
      <4>3. Len(s) - k + i \in Len(s) - k + 1 .. Len(s)
        BY <1>0, <4>1
      <4>4. s[Len(s) - k + i] \in LastOnes(s, k)
        BY <4>3 DEF LastOnes
      <4> QED
        BY <4>1, <4>2, <4>4
    <3>2. CASE j = Len(v)
      BY <2>2, <3>2
    <3>3. j < Len(v) \/ j = Len(v)
      BY <1>0
    <3> QED
      BY <3>1, <3>2, <3>3
  <2>5. LastOnes(s, k) \subseteq LastOnes(v, k + 1)
    <3> SUFFICES ASSUME NEW j \in Len(s) - k + 1 .. Len(s)
                 PROVE  s[j] \in LastOnes(v, k + 1)
      BY DEF LastOnes
    <3> DEFINE i == j - (Len(s) - k)
    <3>1. i \in 1 .. k /\ Len(s) - k + i = j
      BY <1>0
    <3> HIDE DEF i
    <3>2. v[Len(v) - k - 1 + i] = s[j]
      BY <2>3, <3>1
    <3>3. Len(v) - k - 1 + i \in Len(v) - (k + 1) + 1 .. Len(v)
      BY <1>0, <3>1
    <3> QED
      BY <3>2, <3>3 DEF LastOnes
  <2>6. x \in LastOnes(v, k + 1)
    <3>1. Len(v) \in Len(v) - (k + 1) + 1 .. Len(v)
      BY <1>0, <2>2
    <3> QED
      BY <2>2, <3>1 DEF LastOnes
  <2> QED
    BY <2>2, <2>3, <2>4, <2>5, <2>6
<1> QED
  BY <1>2, <1>3, <1>4 DEF LastMoved

-----------------------------------------------------------------------------

\* The bytes of what was used last, w being the bytes of each segment.
Weighs(w, s, n) == SumFunctionOnSet(w, LastOnes(s, n))

\* Of the segments used, in the order of s, the cache can hold n and could not hold more.
Fits(w, s, n) ==
  /\ n \in 0 .. Len(s)
  /\ n = 0 => s = <<>>
  /\ n <= 1 \/ Weighs(w, s, n) <= SEGMENT_CACHE_BUDGET
  /\ n = Len(s) \/ Weighs(w, s, n + 1) > SEGMENT_CACHE_BUDGET

LEMMA WeighsNatural ==
  ASSUME NEW S, NEW w \in [S -> Nat], NEW s \in Seq(S), NEW n \in 0 .. Len(s)
  PROVE  Weighs(w, s, n) \in Nat
<1>1. LastOnes(s, n) \in SUBSET S /\ IsFiniteSet(LastOnes(s, n))
  BY LastSubset
<1>2. \A x \in LastOnes(s, n) : w[x] \in Nat
  BY <1>1
<1> QED
  BY <1>1, <1>2, SumNatural DEF Weighs

\* A segment that is in the cache and used again changes nothing about what it can hold.
LEMMA HitFits ==
  ASSUME NEW S, NEW w \in [S -> Nat], NEW s \in Seq(S), Distinct(s), NEW n, Fits(w, s, n),
         NEW x \in LastOnes(s, n), NEW v \in Seq(S), NEW p, Moves(s, x, p, v)
  PROVE  Fits(w, v, n)
<1>0. Len(s) \in Nat /\ n \in 0 .. Len(s)
  BY DEF Fits
<1>m. \A k \in 0 .. Len(s) : LastMoved(s, x, v, k)
  BY MovedLast, Zenon
<1>1. Len(v) = Len(s) /\ LastOnes(v, n) = LastOnes(s, n)
  BY <1>0, <1>m DEF LastMoved
<1>2. n # Len(s) => LastOnes(v, n + 1) = LastOnes(s, n + 1)
  <2>1. CASE n # Len(s)
    <3>1. n + 1 \in 0 .. Len(s) /\ n \in 0 .. n + 1
      BY <1>0, <2>1
    <3>2. x \in LastOnes(s, n + 1)
      BY <3>1, LastSubset
    <3> QED
      BY <1>m, <3>1, <3>2 DEF LastMoved
  <2> QED
    BY <2>1
<1>3. n # 0
  BY <1>0 DEF LastOnes
<1> QED
  BY <1>0, <1>1, <1>2, <1>3 DEF Fits, Weighs

\* A segment read anew, after which as few are evicted, oldest first, as the budget takes.
LEMMA MissFits ==
  ASSUME NEW S, NEW w \in [S -> Nat], NEW s \in Seq(S), Distinct(s), NEW n, Fits(w, s, n),
         NEW x \in S, x \notin LastOnes(s, n), NEW v \in Seq(S), NEW p, Moves(s, x, p, v),
         NEW m \in 1 .. n + 1,
         m = 1 \/ Weighs(w, v, m) <= SEGMENT_CACHE_BUDGET,
         m = n + 1 \/ Weighs(w, v, m + 1) > SEGMENT_CACHE_BUDGET
  PROVE  Fits(w, v, m)
<1>0. Len(s) \in Nat /\ n \in 0 .. Len(s) /\ SEGMENT_CACHE_BUDGET \in Nat
  BY SegmentsAssumption DEF Fits
<1>m. \A k \in 0 .. Len(s) : LastMoved(s, x, v, k)
  BY MovedLast, Zenon
<1>1. n + 1 <= Len(v) /\ LastOnes(v, n + 1) = LastOnes(s, n) \cup {x}
  BY <1>0, <1>m DEF LastMoved
<1>2. m \in 0 .. Len(v) /\ v # <<>>
  BY <1>0, <1>1
<1>3. CASE m # n + 1
  BY <1>2, <1>3 DEF Fits
<1>4. CASE m = n + 1 /\ n = Len(s)
  <2>1. Len(v) = n + 1
    BY <1>0, <1>1, <1>4 DEF Moves
  <2> QED
    BY <1>2, <1>4, <2>1 DEF Fits
<1>5. CASE m = n + 1 /\ n # Len(s)
  <2>1. n + 1 \in 0 .. Len(s) /\ n >= 1 /\ Weighs(w, s, n + 1) > SEGMENT_CACHE_BUDGET
    <3>1. n # 0
      BY <1>5 DEF Fits
    <3> QED
      BY <1>0, <1>5, <3>1 DEF Fits
  <2>2. x \notin LastOnes(s, n + 1)
    <3> SUFFICES ASSUME x \in LastOnes(s, n + 1) PROVE FALSE
      OBVIOUS
    <3>1. LastOnes(v, n + 1) = LastOnes(s, n + 1)
      BY <1>m, <2>1 DEF LastMoved
    <3>2. Weighs(w, v, n + 1) <= SEGMENT_CACHE_BUDGET
      BY <1>0, <1>5, <2>1
    <3>3. Weighs(w, s, n + 1) \in Nat
      BY <2>1, WeighsNatural
    <3> QED
      BY <1>0, <2>1, <3>1, <3>2, <3>3 DEF Weighs
  <2>3. /\ n + 2 <= Len(v)
        /\ LastOnes(v, n + 2) = LastOnes(s, n + 1) \cup {x}
    <3>1. (n + 1) + 1 <= Len(v) /\ LastOnes(v, (n + 1) + 1) = LastOnes(s, n + 1) \cup {x}
      BY <1>m, <2>1, <2>2 DEF LastMoved
    <3>2. (n + 1) + 1 = n + 2
      BY <1>0
    <3> QED
      BY <3>1, <3>2
  <2>4. Weighs(w, v, n + 2) >= Weighs(w, s, n + 1)
    <3> DEFINE T == LastOnes(s, n + 1)
    <3>1. T \in SUBSET S /\ IsFiniteSet(T)
      BY <2>1, LastSubset
    <3>2. IsFiniteSet(T \cup {x})
      BY <3>1, FS_AddElement
    <3>3. \A y \in T \cup {x} : w[y] \in Nat
      BY <3>1
    <3>4. SumFunctionOnSet(w, T \cup {x}) >= SumFunctionOnSet(w, T)
      <4>1. SumFunctionOnSet(w, T \cup {x}) \in Nat /\ SumFunctionOnSet(w, T) \in Nat
        BY <3>1, <3>2, <3>3, SumNatural
      <4>2. SumFunctionOnSet(w, T) <= SumFunctionOnSet(w, T \cup {x})
        BY <3>2, <3>3, SumSubset
      <4> QED
        BY <4>1, <4>2
    <3> QED
      BY <2>3, <3>4 DEF Weighs
  <2>5. Weighs(w, v, n + 2) > SEGMENT_CACHE_BUDGET
    <3>1. Weighs(w, v, n + 2) \in Nat /\ Weighs(w, s, n + 1) \in Nat
      <4>1. n + 2 \in 0 .. Len(v)
        BY <1>0, <2>3
      <4> QED
        BY <2>1, <4>1, WeighsNatural
    <3> QED
      BY <1>0, <2>1, <2>4, <3>1
  <2>6. m + 1 = n + 2
    BY <1>0, <1>5
  <2> QED
    BY <1>0, <1>2, <2>5, <2>6 DEF Fits
<1> QED
  BY <1>3, <1>4, <1>5

-----------------------------------------------------------------------------

\* What can be cached of segments whose plaintexts P are.
Cached(P) == {Cache!Item(x, P[x]) : x \in DOMAIN P}

Lengths(P) == [x \in DOMAIN P |-> Len(P[x])]

Measured(P) == Lengths(P) \in [DOMAIN P -> Nat]

KeysOf(c, i, j) == {c[k].segment : k \in i .. j}

KeysDistinct(c) == \A i, j \in 1 .. Len(c) : c[i].segment = c[j].segment => i = j

LEMMA SameSums ==
  ASSUME NEW f
  PROVE  Cache!SumFunction(f) = SumFunctionOnSet(f, DOMAIN f)
BY DEF Cache!SumFunction, Cache!SumFunctionOnSet, Cache!FoldFunctionOnSet, Cache!MapThenFoldSet,
       SumFunctionOnSet, FoldFunctionOnSet, MapThenFoldSet

LEMMA CachedItem ==
  ASSUME NEW P, NEW c \in Seq(Cached(P)), NEW i \in 1 .. Len(c)
  PROVE  /\ c[i].segment \in DOMAIN P
         /\ c[i].plain = P[c[i].segment]
         /\ c[i] = Cache!Item(c[i].segment, P[c[i].segment])
<1>1. c[i] \in Cached(P)
  OBVIOUS
<1> QED
  BY <1>1 DEF Cached, Cache!Item

\* The bytes counted are those of the segments that are kept.
LEMMA BytesOfKeys ==
  ASSUME NEW P, Measured(P), NEW c \in Seq(Cached(P)), KeysDistinct(c)
  PROVE  Cache!Bytes(c) = SumFunctionOnSet(Lengths(P), KeysOf(c, 1, Len(c)))
<1> DEFINE D == 1 .. Len(c)
           f == [i \in D |-> Len(c[i].plain)]
           g == [i \in D |-> c[i].segment]
<1>1. Cache!Bytes(c) = SumFunctionOnSet(f, D)
  <2>1. DOMAIN c = D
    OBVIOUS
  <2>2. Cache!Bytes(c) = Cache!SumFunction(f)
    BY <2>1 DEF Cache!Bytes
  <2>3. DOMAIN f = D
    OBVIOUS
  <2> QED
    BY <2>2, <2>3, SameSums
<1>2. \A i \in D : f[i] \in Int /\ Lengths(P)[g[i]] = f[i]
  BY CachedItem DEF Measured, Lengths
<1>3. \A i, j \in D : g[i] = g[j] => i = j
  BY DEF KeysDistinct
<1>4. IsFiniteSet(D)
  BY FS_Interval
<1>5. {g[i] : i \in D} = KeysOf(c, 1, Len(c))
  BY DEF KeysOf
<1> HIDE DEF f, g, D
<1> QED
  BY <1>1, <1>2, <1>3, <1>4, <1>5, SumRenamed

\* What is left of them when the first i of c are taken away.
LEMMA BytesLeft ==
  ASSUME NEW P, Measured(P), NEW c \in Seq(Cached(P)), KeysDistinct(c), NEW i \in 0 .. Len(c)
  PROVE  /\ Cache!Bytes(c) - Cache!Bytes(SubSeq(c, 1, i))
              = SumFunctionOnSet(Lengths(P), KeysOf(c, i + 1, Len(c)))
         /\ SumFunctionOnSet(Lengths(P), KeysOf(c, i + 1, Len(c))) \in Nat
<1> DEFINE w == Lengths(P)
           a == KeysOf(c, 1, i)
           b == KeysOf(c, i + 1, Len(c))
           d == SubSeq(c, 1, i)
<1>0. Len(c) \in Nat
  OBVIOUS
<1>1. d \in Seq(Cached(P)) /\ Len(d) = i /\ \A j \in 1 .. i : d[j] = c[j]
  BY <1>0
<1>2. KeysDistinct(d) /\ KeysOf(d, 1, Len(d)) = a
  <2>1. KeysDistinct(d)
    BY <1>0, <1>1 DEF KeysDistinct
  <2>2. KeysOf(d, 1, Len(d)) = a
    <3> HIDE DEF d
    <3> QED
      BY <1>1 DEF KeysOf
  <2> QED
    BY <2>1, <2>2
<1>3. Cache!Bytes(d) = SumFunctionOnSet(w, a)
  BY <1>1, <1>2, BytesOfKeys
<1>4. Cache!Bytes(c) = SumFunctionOnSet(w, KeysOf(c, 1, Len(c)))
  BY BytesOfKeys
<1>5. KeysOf(c, 1, Len(c)) = a \cup b /\ a \cap b = {}
  BY <1>0 DEF KeysOf, KeysDistinct
<1>6. IsFiniteSet(a) /\ IsFiniteSet(b)
  <2>1. [j \in 1 .. i |-> c[j].segment] \in Surjection(1 .. i, a)
    BY DEF Surjection, KeysOf
  <2>2. [j \in i + 1 .. Len(c) |-> c[j].segment] \in Surjection(i + 1 .. Len(c), b)
    BY DEF Surjection, KeysOf
  <2> QED
    BY <1>0, <2>1, <2>2, FS_Surjection, FS_Interval
<1>7. \A x \in a \cup b : w[x] \in Nat
  <2>1. \A j \in 1 .. Len(c) : c[j].segment \in DOMAIN P
    BY CachedItem
  <2>2. \A x \in a \cup b : x \in DOMAIN P
    BY <1>0, <2>1 DEF KeysOf
  <2> QED
    BY <2>2 DEF Measured
<1> HIDE DEF w, a, b, d
<1>8. SumFunctionOnSet(w, a \cup b) = SumFunctionOnSet(w, a) + SumFunctionOnSet(w, b)
  BY <1>5, <1>6, <1>7, SumUnion
<1>9. SumFunctionOnSet(w, a) \in Nat /\ SumFunctionOnSet(w, b) \in Nat
  BY <1>6, <1>7, SumNatural
<1>10. Cache!Bytes(c) - Cache!Bytes(d) = SumFunctionOnSet(w, b)
  <2>1. Cache!Bytes(c) = SumFunctionOnSet(w, a) + SumFunctionOnSet(w, b)
    BY <1>4, <1>5, <1>8
  <2> QED
    BY <1>3, <1>9, <2>1
<1> QED
  BY <1>9, <1>10, Zenon DEF w, b, d

-----------------------------------------------------------------------------

\* c holds the segments used last, in the order in which they were.
InOrderOfUse(c, u) ==
  /\ Len(c) <= Len(u)
  /\ \A i \in 1 .. Len(c) : c[i].segment = u[Len(u) - Len(c) + i]

\* The cache c, of that many bytes, after the uses u of segments whose plaintexts P are.
KeepsLast(P, c, bytes, u) ==
  /\ u \in Seq(DOMAIN P) /\ Distinct(u)
  /\ c \in Seq(Cached(P)) /\ InOrderOfUse(c, u)
  /\ bytes = Cache!Bytes(c)
  /\ Fits(Lengths(P), u, Len(c))

LEMMA KeysInOrder ==
  ASSUME NEW S, NEW c \in Seq(S), NEW R, NEW u \in Seq(R), Distinct(u), InOrderOfUse(c, u)
  PROVE  /\ KeysDistinct(c)
         /\ \A i \in 0 .. Len(c) : KeysOf(c, i + 1, Len(c)) = LastOnes(u, Len(c) - i)
<1>0. Len(c) \in Nat /\ Len(u) \in Nat /\ Len(c) <= Len(u)
  BY DEF InOrderOfUse
<1>1. KeysDistinct(c)
  <2> SUFFICES ASSUME NEW i \in 1 .. Len(c), NEW j \in 1 .. Len(c), c[i].segment = c[j].segment
               PROVE  i = j
    BY DEF KeysDistinct
  <2>1. u[Len(u) - Len(c) + i] = u[Len(u) - Len(c) + j]
    BY DEF InOrderOfUse
  <2>2. Len(u) - Len(c) + i \in 1 .. Len(u) /\ Len(u) - Len(c) + j \in 1 .. Len(u)
    BY <1>0
  <2>3. Len(u) - Len(c) + i = Len(u) - Len(c) + j
    BY <2>1, <2>2 DEF Distinct
  <2> QED
    BY <1>0, <2>3
<1>2. ASSUME NEW i \in 0 .. Len(c)
      PROVE  KeysOf(c, i + 1, Len(c)) = LastOnes(u, Len(c) - i)
  <2> DEFINE lag == Len(u) - Len(c)
  <2>1. lag \in Nat /\ Len(u) = lag + Len(c)
    BY <1>0
  <2>2. \A j \in 1 .. Len(c) : c[j].segment = u[lag + j]
    BY DEF InOrderOfUse
  <2> HIDE DEF lag
  <2>3. ASSUME NEW j \in i + 1 .. Len(c)
        PROVE  c[j].segment \in LastOnes(u, Len(c) - i)
    <3>1. c[j].segment = u[lag + j]
      BY <1>0, <2>2
    <3>2. lag + j \in Len(u) - (Len(c) - i) + 1 .. Len(u)
      BY <1>0, <2>1
    <3> QED
      BY <3>1, <3>2 DEF LastOnes
  <2>4. ASSUME NEW k \in Len(u) - (Len(c) - i) + 1 .. Len(u)
        PROVE  u[k] \in KeysOf(c, i + 1, Len(c))
    <3>1. k - lag \in i + 1 .. Len(c) /\ k - lag \in 1 .. Len(c) /\ lag + (k - lag) = k
      BY <1>0, <2>1
    <3>2. c[k - lag].segment = u[k]
      BY <2>2, <3>1
    <3> QED
      BY <3>1, <3>2 DEF KeysOf
  <2> QED
    BY <2>3, <2>4 DEF LastOnes, KeysOf
<1> QED
  BY <1>1, <1>2

\* A segment that is found in the cache.
LEMMA HitKeeps ==
  ASSUME NEW P, Measured(P), NEW c, NEW bytes, NEW u, KeepsLast(P, c, bytes, u),
         NEW q \in 1 .. Len(c)
  PROVE  KeepsLast(P, Cache!MoveToEnd(c, c[q]), bytes, Cache!MoveToEnd(u, c[q].segment))
<1> DEFINE x == c[q].segment
           n == Len(c)
           d == Cache!MoveToEnd(c, c[q])
           v == Cache!MoveToEnd(u, x)
           w == Lengths(P)
<1>0. /\ u \in Seq(DOMAIN P) /\ Distinct(u) /\ c \in Seq(Cached(P)) /\ InOrderOfUse(c, u)
      /\ bytes = Cache!Bytes(c) /\ Fits(w, u, n)
  BY DEF KeepsLast
<1>1. n \in Nat /\ Len(u) \in Nat /\ n <= Len(u)
  BY <1>0 DEF InOrderOfUse
<1>2. x \in DOMAIN P /\ c[q] \in Cached(P)
  BY <1>0, CachedItem
<1>3. /\ KeysDistinct(c)
      /\ \A i \in 0 .. n : KeysOf(c, i + 1, n) = LastOnes(u, n - i)
  BY <1>0, KeysInOrder
<1>4. d \in Seq(Cached(P)) /\ \E r : Moves(c, c[q], r, d)
  BY <1>0, <1>2, MoveToEndMoves
<1>5. v \in Seq(DOMAIN P) /\ \E p : Moves(u, x, p, v)
  BY <1>0, <1>2, MoveToEndMoves
<1>6. PICK r : Moves(c, c[q], r, d)
  BY <1>4
<1>7. PICK p : Moves(u, x, p, v)
  BY <1>5
<1> HIDE DEF d, v
<1>8. x = u[Len(u) - n + q] /\ Len(u) - n + q \in 1 .. Len(u)
  BY <1>0, <1>1 DEF InOrderOfUse
<1>9. r = q /\ Len(d) = n
  <2>1. r \in 1 .. n /\ c[r] = c[q] /\ Len(d) = n
    BY <1>1, <1>6 DEF Moves
  <2> QED
    BY <1>3, <2>1 DEF KeysDistinct
<1>10. p = Len(u) - n + q /\ Len(v) = Len(u)
  <2>1. p \in 1 .. Len(u) /\ u[p] = x /\ Len(v) = Len(u)
    BY <1>1, <1>7, <1>8 DEF Moves
  <2> QED
    BY <1>0, <1>8, <2>1 DEF Distinct
<1>11. InOrderOfUse(d, v)
  <2> SUFFICES ASSUME NEW i \in 1 .. n
               PROVE  d[i].segment = v[Len(u) - n + i]
    BY <1>1, <1>9, <1>10 DEF InOrderOfUse
  <2>0. Len(u) - n + i \in 1 .. Len(u)
    BY <1>1
  <2>1. CASE i < q
    <3>1. d[i] = c[i]
      BY <1>6, <1>9, <2>1 DEF Moves
    <3>2. v[Len(u) - n + i] = u[Len(u) - n + i]
      <4>1. Len(u) - n + i < p /\ p <= Len(u)
        BY <1>1, <1>8, <1>10, <2>1
      <4> QED
        BY <1>7, <2>0, <4>1 DEF Moves
    <3> QED
      BY <1>0, <3>1, <3>2 DEF InOrderOfUse
  <2>2. CASE i >= q /\ i < n
    <3>1. d[i] = c[i + 1] /\ i + 1 \in 1 .. n
      BY <1>1, <1>6, <1>9, <2>2 DEF Moves
    <3>2. v[Len(u) - n + i] = u[Len(u) - n + i + 1]
      BY <1>1, <1>7, <1>10, <2>0, <2>2, SMTT(30) DEF Moves
    <3>3. Len(u) - n + (i + 1) = Len(u) - n + i + 1
      BY <1>1
    <3> QED
      BY <1>0, <3>1, <3>2, <3>3 DEF InOrderOfUse
  <2>3. CASE i = n
    <3>1. d[i] = c[q]
      BY <1>1, <1>6, <1>9, <2>3 DEF Moves
    <3>2. Len(u) - n + i = Len(u)
      BY <1>1, <2>3
    <3>3. v[Len(u)] = x
      BY <1>1, <1>7, <1>8, <1>10 DEF Moves
    <3> QED
      BY <3>1, <3>2, <3>3
  <2> QED
    BY <1>1, <2>1, <2>2, <2>3
<1>12. x \in LastOnes(u, n)
  BY <1>1, <1>8 DEF LastOnes
<1>13. Distinct(v) /\ \A k \in 0 .. Len(u) : LastMoved(u, x, v, k)
  BY <1>0, <1>5, <1>7, MovedLast
<1>14. Fits(w, v, n)
  <2>1. w \in [DOMAIN P -> Nat]
    BY DEF Measured
  <2> HIDE DEF w, x
  <2> QED
    BY <1>0, <1>5, <1>7, <1>12, <2>1, HitFits
<1>15. Cache!Bytes(d) = Cache!Bytes(c)
  <2>1. LastOnes(v, n) = LastOnes(u, n)
    BY <1>1, <1>12, <1>13 DEF LastMoved
  <2>2. KeysDistinct(d) /\ \A i \in 0 .. Len(d) : KeysOf(d, i + 1, Len(d)) = LastOnes(v, Len(d) - i)
    BY <1>4, <1>5, <1>11, <1>13, KeysInOrder
  <2>3. KeysOf(d, 1, n) = LastOnes(v, n) /\ KeysOf(c, 1, n) = LastOnes(u, n)
    <3>1. 0 \in 0 .. n /\ 0 + 1 = 1 /\ n - 0 = n
      BY <1>1
    <3>2. KeysOf(d, 0 + 1, n) = LastOnes(v, n - 0) /\ KeysOf(c, 0 + 1, n) = LastOnes(u, n - 0)
      BY <1>3, <1>9, <2>2, <3>1
    <3> QED
      BY <3>1, <3>2
  <2>4. /\ Cache!Bytes(d) = SumFunctionOnSet(w, KeysOf(d, 1, n))
        /\ Cache!Bytes(c) = SumFunctionOnSet(w, KeysOf(c, 1, n))
    BY <1>0, <1>3, <1>4, <1>9, <2>2, BytesOfKeys
  <2> QED
    BY <2>1, <2>3, <2>4
<1> QED
  BY <1>0, <1>4, <1>5, <1>9, <1>11, <1>13, <1>14, <1>15 DEF KeepsLast, d, v

\* How many are evicted: no more than it takes, and never all.
LEMMA EvictedLeast ==
  ASSUME NEW S, NEW s \in Seq(S), s # <<>>, NEW bytes
  PROVE  /\ Cache!Evicted(s, bytes) \in 0 .. Len(s) - 1
         /\ Cache!Enough(s, bytes, Cache!Evicted(s, bytes))
         /\ \A j \in 0 .. Cache!Evicted(s, bytes) - 1 : ~Cache!Enough(s, bytes, j)
<1> DEFINE I == {i \in 0 .. Len(s) - 1 : Cache!Enough(s, bytes, i)}
<1>1. I \in SUBSET Nat /\ Len(s) - 1 \in I
  BY DEF Cache!Enough
<1>2. PICK i \in I : \A j \in I : i <= j
  BY <1>1, LeastNatural
<1>3. \A j \in 0 .. i - 1 : ~Cache!Enough(s, bytes, j)
  BY <1>2
<1> QED
  BY <1>2, <1>3 DEF Cache!Evicted

\* A segment that is read anew.
LEMMA MissKeeps ==
  ASSUME NEW P, Measured(P), NEW c, NEW bytes, NEW u, KeepsLast(P, c, bytes, u),
         NEW x \in DOMAIN P, \A i \in 1 .. Len(c) : c[i].segment # x
  PROVE  LET grown == Append(c, Cache!Item(x, P[x]))
             more == bytes + Len(P[x])
             gone == Cache!Evicted(grown, more)
         IN  KeepsLast(P, SubSeq(grown, gone + 1, Len(grown)),
                       more - Cache!Bytes(SubSeq(grown, 1, gone)), Cache!MoveToEnd(u, x))
<1> DEFINE n == Len(c)
           v == Cache!MoveToEnd(u, x)
           w == Lengths(P)
           grown == Append(c, Cache!Item(x, P[x]))
           more == bytes + Len(P[x])
           gone == Cache!Evicted(grown, more)
           rest == SubSeq(grown, gone + 1, Len(grown))
           m == n + 1 - gone
<1>0. /\ u \in Seq(DOMAIN P) /\ Distinct(u) /\ c \in Seq(Cached(P)) /\ InOrderOfUse(c, u)
      /\ bytes = Cache!Bytes(c) /\ Fits(w, u, n)
  BY DEF KeepsLast
<1>1. n \in Nat /\ Len(u) \in Nat /\ n \in 0 .. Len(u) /\ SEGMENT_CACHE_BUDGET \in Nat
  BY <1>0, SegmentsAssumption DEF InOrderOfUse
<1>2. Cache!Item(x, P[x]) \in Cached(P)
  BY DEF Cached
<1>3. /\ grown \in Seq(Cached(P)) /\ Len(grown) = n + 1 /\ grown # <<>>
      /\ \A i \in 1 .. n : grown[i] = c[i]
      /\ grown[n + 1] = Cache!Item(x, P[x])
  BY <1>0, <1>2
<1>4. x \notin LastOnes(u, n)
  <2>1. KeysOf(c, 0 + 1, n) = LastOnes(u, n - 0)
    <3>1. 0 \in 0 .. n
      BY <1>1
    <3> QED
      BY <1>0, <3>1, KeysInOrder
  <2>2. 0 + 1 = 1 /\ n - 0 = n
    BY <1>1
  <2>3. x \notin KeysOf(c, 1, n)
    BY DEF KeysOf
  <2> QED
    BY <2>1, <2>2, <2>3
<1>5. v \in Seq(DOMAIN P) /\ \E p : Moves(u, x, p, v)
  BY <1>0, MoveToEndMoves
<1>6. PICK p : Moves(u, x, p, v)
  BY <1>5
<1>7. Distinct(v) /\ \A k \in 0 .. Len(u) : LastMoved(u, x, v, k)
  BY <1>0, <1>5, <1>6, MovedLast
<1>8. /\ gone \in 0 .. n
      /\ Cache!Enough(grown, more, gone)
      /\ \A j \in 0 .. gone - 1 : ~Cache!Enough(grown, more, j)
  <2>1. Len(grown) - 1 = n
    BY <1>1, <1>3
  <2> HIDE DEF grown, more
  <2> QED
    BY <1>3, <2>1, EvictedLeast
<1> HIDE DEF v, w, grown, more, gone
<1>9. InOrderOfUse(grown, v)
  <2>1. /\ n + 1 <= Len(v) /\ v[Len(v)] = x
        /\ \A i \in 1 .. n : v[Len(v) - n - 1 + i] = u[Len(u) - n + i]
    BY <1>1, <1>4, <1>7 DEF LastMoved
  <2>2. Len(v) \in Nat
    BY <1>5
  <2>3. ASSUME NEW i \in 1 .. n
        PROVE  grown[i].segment = v[Len(v) - (n + 1) + i]
    <3>1. grown[i].segment = u[Len(u) - n + i]
      BY <1>0, <1>3 DEF InOrderOfUse
    <3>2. Len(v) - (n + 1) + i = Len(v) - n - 1 + i
      BY <1>1, <2>2
    <3> QED
      BY <2>1, <3>1, <3>2
  <2>4. grown[n + 1].segment = v[Len(v) - (n + 1) + (n + 1)]
    <3>1. Len(v) - (n + 1) + (n + 1) = Len(v)
      BY <1>1, <2>2
    <3> QED
      BY <1>3, <2>1, <3>1 DEF Cache!Item
  <2>5. \A i \in 1 .. n + 1 : i \in 1 .. n \/ i = n + 1
    BY <1>1
  <2> QED
    BY <1>3, <2>1, <2>3, <2>4, <2>5 DEF InOrderOfUse
<1>10. /\ KeysDistinct(grown)
       /\ \A i \in 0 .. n + 1 : KeysOf(grown, i + 1, n + 1) = LastOnes(v, n + 1 - i)
  BY <1>3, <1>5, <1>7, <1>9, KeysInOrder
<1>11. \A i \in 0 .. n + 1 :
         /\ Cache!Bytes(grown) - Cache!Bytes(SubSeq(grown, 1, i)) = Weighs(w, v, n + 1 - i)
         /\ Weighs(w, v, n + 1 - i) \in Nat
  BY <1>3, <1>10, BytesLeft DEF Weighs, w
<1>12. more = Cache!Bytes(grown)
  <2>1. SubSeq(grown, 1, n) = c
    <3>1. SubSeq(grown, 1, n) \in Seq(Cached(P)) /\ Len(SubSeq(grown, 1, n)) = n
      BY <1>1, <1>3
    <3>2. \A i \in 1 .. n : SubSeq(grown, 1, n)[i] = c[i]
      BY <1>1, <1>3
    <3> QED
      BY <1>0, <3>1, <3>2, SeqEqual
  <2>2. KeysOf(grown, n + 1, n + 1) = {x}
    BY <1>1, <1>3 DEF KeysOf, Cache!Item
  <2>3. Weighs(w, v, 1) = w[x]
    <3>1. n \in 0 .. n + 1 /\ n + 1 - n = 1
      BY <1>1
    <3>2. LastOnes(v, 1) = {x}
      BY <1>10, <2>2, <3>1
    <3>3. IsFiniteSet({x}) /\ {x} \ {x} = {} /\ w[x] \in Nat
      BY FS_Singleton DEF w, Measured
    <3>4. SumFunctionOnSet(w, {x}) = w[x] + SumFunctionOnSet(w, {x} \ {x})
      BY <3>3, SumWithout
    <3>5. SumFunctionOnSet(w, {x} \ {x}) = 0
      <4>1. SumFunctionOnSet(w, {}) = 0
        BY SumOverNone
      <4> QED
        BY <3>3, <4>1
    <3>6. SumFunctionOnSet(w, {x}) = w[x]
      BY <3>3, <3>4, <3>5
    <3> QED
      BY <3>2, <3>6 DEF Weighs
  <2>4. Cache!Bytes(grown) - Cache!Bytes(c) = Weighs(w, v, 1)
    <3>1. n \in 0 .. n + 1 /\ n + 1 - n = 1
      BY <1>1
    <3> QED
      BY <1>11, <2>1, <3>1
  <2>5. Cache!Bytes(c) \in Int /\ Cache!Bytes(grown) \in Int
    <3>1. \A d : d \in Seq(Cached(P)) /\ KeysDistinct(d) => Cache!Bytes(d) \in Int
      <4> SUFFICES ASSUME NEW d \in Seq(Cached(P)), KeysDistinct(d)
                   PROVE  Cache!Bytes(d) \in Int
        OBVIOUS
      <4>1. 0 \in 0 .. Len(d) /\ 0 + 1 = 1
        OBVIOUS
      <4>2. SumFunctionOnSet(Lengths(P), KeysOf(d, 0 + 1, Len(d))) \in Nat
        BY <4>1, BytesLeft
      <4> QED
        BY <4>1, <4>2, BytesOfKeys
    <3>2. KeysDistinct(c)
      BY <1>0, KeysInOrder
    <3> QED
      BY <1>0, <1>3, <1>10, <3>1, <3>2
  <2>6. w[x] = Len(P[x]) /\ w[x] \in Nat
    BY DEF w, Lengths, Measured
  <2> QED
    BY <1>0, <2>3, <2>4, <2>5, <2>6 DEF more
<1>13. m \in 1 .. n + 1 /\ m = n + 1 - gone
  BY <1>1, <1>8
<1>14. Fits(w, v, m)
  <2>1. m = 1 \/ Weighs(w, v, m) <= SEGMENT_CACHE_BUDGET
    <3>1. gone \in 0 .. n + 1
      BY <1>1, <1>8
    <3>2. gone = n \/ more - Cache!Bytes(SubSeq(grown, 1, gone)) <= SEGMENT_CACHE_BUDGET
      <4>1. Len(grown) - 1 = n
        BY <1>1, <1>3
      <4> QED
        BY <1>8, <4>1 DEF Cache!Enough
    <3>3. gone = n => m = 1
      BY <1>1, <1>8
    <3> QED
      BY <1>11, <1>12, <3>1, <3>2, <3>3
  <2>2. m = n + 1 \/ Weighs(w, v, m + 1) > SEGMENT_CACHE_BUDGET
    <3>1. CASE gone = 0
      BY <1>1, <3>1
    <3>2. CASE gone # 0
      <4> DEFINE j == gone - 1
      <4>1. j \in 0 .. gone - 1 /\ j \in 0 .. n + 1 /\ n + 1 - j = m + 1
        BY <1>1, <1>8, <3>2
      <4> HIDE DEF j
      <4>2. ~(more - Cache!Bytes(SubSeq(grown, 1, j)) <= SEGMENT_CACHE_BUDGET)
        BY <1>8, <4>1 DEF Cache!Enough
      <4>3. /\ more - Cache!Bytes(SubSeq(grown, 1, j)) = Weighs(w, v, m + 1)
            /\ Weighs(w, v, m + 1) \in Nat
        BY <1>11, <1>12, <4>1
      <4> QED
        BY <1>1, <4>2, <4>3
    <3> QED
      BY <3>1, <3>2
  <2>3. w \in [DOMAIN P -> Nat]
    BY DEF Measured, w
  <2> HIDE DEF m, n
  <2> QED
    BY <1>0, <1>4, <1>5, <1>6, <1>13, <2>1, <2>2, <2>3, MissFits
<1>15. /\ rest \in Seq(Cached(P)) /\ Len(rest) = m
       /\ \A i \in 1 .. m : rest[i] = grown[gone + i]
  BY <1>1, <1>3, <1>8
<1>16. InOrderOfUse(rest, v)
  <2>1. Len(grown) <= Len(v) /\ Len(v) \in Nat
    BY <1>5, <1>9 DEF InOrderOfUse
  <2>2. ASSUME NEW i \in 1 .. m
        PROVE  rest[i].segment = v[Len(v) - m + i]
    <3>1. gone + i \in 1 .. n + 1 /\ Len(v) - (n + 1) + (gone + i) = Len(v) - m + i
      BY <1>1, <1>8, <1>13, <2>1
    <3>2. grown[gone + i].segment = v[Len(v) - (n + 1) + (gone + i)]
      BY <1>3, <1>9, <3>1 DEF InOrderOfUse
    <3> QED
      BY <1>15, <3>1, <3>2
  <2>3. m <= Len(v)
    BY <1>1, <1>3, <1>13, <2>1
  <2> HIDE DEF rest, m
  <2> QED
    BY <1>15, <2>2, <2>3 DEF InOrderOfUse
<1>17. Cache!Bytes(rest) = more - Cache!Bytes(SubSeq(grown, 1, gone))
  <2>1. /\ KeysDistinct(rest)
        /\ \A i \in 0 .. Len(rest) : KeysOf(rest, i + 1, Len(rest)) = LastOnes(v, Len(rest) - i)
    <3> HIDE DEF rest
    <3> QED
      BY <1>5, <1>7, <1>15, <1>16, KeysInOrder
  <2>2. 0 \in 0 .. m /\ 0 + 1 = 1 /\ m - 0 = m /\ gone \in 0 .. n + 1
    BY <1>1, <1>8, <1>13
  <2> HIDE DEF rest, m
  <2>3. KeysOf(rest, 1, Len(rest)) = LastOnes(v, m)
    BY <1>15, <2>1, <2>2
  <2>4. Cache!Bytes(rest) = Weighs(w, v, m)
    BY <1>15, <2>1, <2>3, BytesOfKeys DEF Weighs, w
  <2> QED
    BY <1>11, <1>12, <1>13, <2>2, <2>4
<1> HIDE DEF rest, m
<1>18. KeepsLast(P, rest, more - Cache!Bytes(SubSeq(grown, 1, gone)), v)
  BY <1>5, <1>7, <1>14, <1>15, <1>16, <1>17 DEF KeepsLast, w
<1> QED
  BY <1>18 DEF rest, more, grown, gone, v

-----------------------------------------------------------------------------

\* What reading each of the archive's segments gives.
Content == [x \in Cache!Segments |-> Cache!Located(x).plain]

\* What reading gives is as long as the segment's header says, or nothing.
LEMMA ContentMeasured ==
  ASSUME archive \in Archives
  PROVE  Measured(Content)
<1> SUFFICES ASSUME NEW x \in Cache!Segments
             PROVE  Len(Cache!Located(x).plain) \in Nat
  BY DEF Measured, Lengths, Content
<1> DEFINE i == archive.segment_map[x].page
           count == archive.segment_map[x].pages
           header == Cache!Page(i).header
           Fine(out) == Len(out.plain) \in Nat
           Sure(out) == out.error # "" => out.plain = <<>>
<1>1. /\ i \in Nat /\ count \in Nat /\ MAX_PREFETCH_PAGES \in Nat
      /\ Len(archive.pages) \in Nat /\ DOMAIN archive.pages = 1 .. Len(archive.pages)
      /\ \A j \in DOMAIN archive.pages :
           archive.pages[j].type = "data" => archive.pages[j].header.length \in Nat
  BY SegmentsAssumption DEF Cache!Segments
<1>2. \A error : Fine(Cache!Failed(error)) /\ Sure(Cache!Failed(error))
  BY DEF Cache!Failed
<1>3. \A s : Sure(Cache!Plain(s))
  BY DEF Cache!Plain
<1>4. \A out : \A n \in Nat : Fine(Cache!OfLength(out, n))
  BY <1>2 DEF Cache!OfLength
<1>5. \A s : Sure(Cache!Decrypted(s))
  BY <1>2, <1>3 DEF Cache!Decrypted
<1>6. \A s, h : h.length \in Nat => Fine(Cache!Decompress(s, h))
  BY <1>4 DEF Cache!Decompress
<1>7. \A s, h : h.length \in Nat => Fine(Cache!DecompressEncrypted(s, h))
  BY <1>4, <1>6 DEF Cache!DecompressEncrypted
<1>8. \A s, h : h.length \in Nat => Fine(Cache!Decode(s, h))
  <2> SUFFICES ASSUME NEW s, NEW h, h.length \in Nat
               PROVE  Fine(Cache!Decode(s, h))
    OBVIOUS
  <2>1. CASE ~h.encrypted
    BY <1>6, <2>1 DEF Cache!Decode
  <2>2. CASE h.encrypted /\ Cache!Decrypted(s).error # ""
    <3>1. Cache!Decode(s, h) = Cache!Decrypted(s) /\ Cache!Decrypted(s).plain = <<>>
      BY <1>5, <2>2 DEF Cache!Decode
    <3> QED
      BY <3>1
  <2>3. CASE h.encrypted /\ Cache!Decrypted(s).error = ""
    BY <1>7, <2>3, ZenonT(60) DEF Cache!Decode
  <2> QED
    BY <2>1, <2>2, <2>3
<1>9. \A j, p : Sure(Cache!ReadCompressed(j, p))
  BY <1>2, <1>3 DEF Cache!ReadCompressed
<1>10. CASE ~Cache!InBounds(i, Cache!Prefetch(i, count)) \/ ~Cache!HasHeader(Cache!Page(i))
  BY <1>2, <1>10 DEF Cache!Located, Cache!ReadPlaintext
<1>11. CASE Cache!InBounds(i, Cache!Prefetch(i, count)) /\ Cache!HasHeader(Cache!Page(i))
  <2>1. Cache!Prefetch(i, count) \in Int /\ Cache!Prefetch(i, count) >= 1
    BY <1>1 DEF Cache!Prefetch, Cache!Larger, Cache!Smaller, Cache!page_count
  <2>2. i + 1 \in DOMAIN archive.pages
    BY <1>1, <1>11, <2>1 DEF Cache!InBounds, Cache!page_count
  <2>3. header.length \in Nat
    BY <1>1, <1>11, <2>2, SMTT(30) DEF Cache!HasHeader, Cache!Page
  <2> DEFINE stored == Cache!ReadCompressed(i, Cache!Run(i + 1, Cache!Prefetch(i, count) - 1))
  <2>4. \/ Cache!Located(x) = Cache!Failed("no key")
        \/ Cache!Located(x) = stored /\ stored.error # ""
        \/ Cache!Located(x) = Cache!Decode(stored.plain, header)
    BY <1>11 DEF Cache!Located, Cache!ReadPlaintext
  <2>5. Sure(stored)
    BY <1>9
  <2> HIDE DEF stored, header
  <2>6. CASE Cache!Located(x) = Cache!Failed("no key")
    BY <1>2, <2>6
  <2>7. CASE Cache!Located(x) = stored /\ stored.error # ""
    <3>1. Cache!Located(x).plain = <<>>
      BY <2>5, <2>7
    <3> QED
      BY <3>1
  <2>8. CASE Cache!Located(x) = Cache!Decode(stored.plain, header)
    BY <1>8, <2>3, <2>8
  <2> QED
    BY <2>4, <2>6, <2>7, <2>8
<1> QED
  BY <1>10, <1>11

\* The inductive invariant of the cache.
SegmentsInv ==
  /\ archive \in Archives
  /\ KeepsLast(Content, segment_cache, segment_cache_bytes, uses)

LEMMA ContentKept ==
  ASSUME UNCHANGED <<archive, data_key>>
  PROVE  Content' = Content
<1>1. archive' = archive /\ data_key' = data_key
  OBVIOUS
<1>2. Cache!Segments' = Cache!Segments
  BY <1>1 DEF Cache!Segments
<1>3. ASSUME NEW x
      PROVE  Cache!Located(x)' = Cache!Located(x)
  <2>1. \A i, n : Cache!InBounds(i, n)' = Cache!InBounds(i, n)
    BY <1>1 DEF Cache!InBounds, Cache!page_count
  <2>2. \A i, n : Cache!Prefetch(i, n)' = Cache!Prefetch(i, n)
    BY <1>1 DEF Cache!Prefetch, Cache!page_count
  <2>3. \A i : Cache!Page(i)' = Cache!Page(i)
    BY <1>1 DEF Cache!Page
  <2>4. \A i, n : Cache!Run(i, n)' = Cache!Run(i, n)
    BY <2>3 DEF Cache!Run
  <2>5. \A i, p : Cache!ReadCompressed(i, p)' = Cache!ReadCompressed(i, p)
    BY <1>1 DEF Cache!ReadCompressed, Cache!InBounds, Cache!page_count, Cache!Page, Cache!Run
  <2>6. \A s, h : Cache!Decode(s, h)' = Cache!Decode(s, h)
    BY <1>1 DEF Cache!Decode, Cache!Decrypted, Cache!DecompressEncrypted, Cache!DecryptedPayload
  <2>7. ASSUME NEW i, NEW n
        PROVE  Cache!ReadPlaintext(i, n)' = Cache!ReadPlaintext(i, n)
    <3> DEFINE stored == Cache!ReadCompressed(i, Cache!Run(i + 1, Cache!Prefetch(i, n) - 1))
    <3>1. Cache!InBounds(i, Cache!Prefetch(i, n))' = Cache!InBounds(i, Cache!Prefetch(i, n))
      BY <1>1 DEF Cache!InBounds, Cache!Prefetch, Cache!page_count
    <3>2. stored' = stored
      BY <1>1, <2>5 DEF Cache!Run, Cache!Page, Cache!Prefetch, Cache!page_count
    <3>3. Cache!Page(i)' = Cache!Page(i)
      BY <2>3
    <3>4. Cache!Decode(stored.plain, Cache!Page(i).header)' = Cache!Decode(stored.plain, Cache!Page(i).header)
      BY <2>6, <3>2, <3>3
    <3>5. Cache!HasHeader(Cache!Page(i))' = Cache!HasHeader(Cache!Page(i))
      BY <3>3 DEF Cache!HasHeader
    <3>6. \A error : Cache!Failed(error)' = Cache!Failed(error)
      BY DEF Cache!Failed
    <3> DEFINE bounds == Cache!InBounds(i, Cache!Prefetch(i, n))
               has == Cache!HasHeader(Cache!Page(i))
               decoded == Cache!Decode(stored.plain, Cache!Page(i).header)
               read == IF ~bounds \/ ~has THEN Cache!Failed("corrupt")
                       ELSE IF Cache!Page(i).header.encrypted /\ ~data_key THEN Cache!Failed("no key")
                       ELSE IF stored.error # "" THEN stored ELSE decoded
    <3>7. Cache!ReadPlaintext(i, n) = read
      BY DEF Cache!ReadPlaintext
    <3>8. Cache!ReadPlaintext(i, n)' = read'
      BY DEF Cache!ReadPlaintext
    <3>9. bounds' = bounds /\ has' = has /\ decoded' = decoded
      BY <3>1, <3>4, <3>5
    <3> HIDE DEF bounds, has, decoded, stored
    <3>10. read' = read
      BY <1>1, <3>2, <3>3, <3>6, <3>9
    <3> HIDE DEF read
    <3> QED
      BY <3>7, <3>8, <3>10
  <2> QED
    BY <1>1, <2>7 DEF Cache!Located
<1> QED
  BY <1>2, <1>3 DEF Content

LEMMA NothingCached ==
  ASSUME NEW P
  PROVE  KeepsLast(P, <<>>, 0, <<>>)
<1>1. Cache!Bytes(<<>>) = 0
  <2> DEFINE f == [i \in DOMAIN <<>> |-> Len(<<>>[i].plain)]
  <2>1. DOMAIN f = {}
    OBVIOUS
  <2>2. Cache!Bytes(<<>>) = Cache!SumFunction(f)
    BY DEF Cache!Bytes
  <2> HIDE DEF f
  <2> QED
    BY <2>1, <2>2, SameSums, SumOverNone
<1>2. Fits(Lengths(P), <<>>, 0)
  BY DEF Fits
<1>3. Distinct(<<>>) /\ InOrderOfUse(<<>>, <<>>)
  BY DEF Distinct, InOrderOfUse
<1> QED
  BY <1>1, <1>2, <1>3 DEF KeepsLast

LEMMA SegmentsStep ==
  ASSUME SegmentsInv, [Cache!Next]_(Cache!vars)
  PROVE  SegmentsInv'
<1>1. Measured(Content)
  BY ContentMeasured DEF SegmentsInv
<1>2. KeepsLast(Content, segment_cache, segment_cache_bytes, uses)
  BY DEF SegmentsInv
<1>3. segment_cache \in Seq(Cached(Content))
  BY <1>2 DEF KeepsLast
<1>4. CASE Cache!Hit
  <2>1. PICK item \in Cache!ToSet(segment_cache) :
          /\ segment_cache' = Cache!MoveToEnd(segment_cache, item)
          /\ uses' = Cache!MoveToEnd(uses, item.segment)
    BY <1>4 DEF Cache!Hit
  <2>2. PICK q \in 1 .. Len(segment_cache) : item = segment_cache[q]
    BY <1>3, <2>1 DEF Cache!ToSet
  <2>3. KeepsLast(Content, segment_cache', segment_cache_bytes, uses')
    BY <1>1, <1>2, <2>1, <2>2, HitKeeps
  <2>4. UNCHANGED <<archive, data_key, segment_cache_bytes>>
    BY <1>4 DEF Cache!Hit
  <2> QED
    BY <2>3, <2>4, ContentKept DEF SegmentsInv
<1>5. CASE Cache!Miss
  <2> DEFINE grown(x) == Append(segment_cache, Cache!Item(x, Cache!Located(x).plain))
             more(x) == segment_cache_bytes + Len(Cache!Located(x).plain)
             gone(x) == Cache!Evicted(grown(x), more(x))
  <2>1. PICK x \in Cache!Segments :
          /\ Cache!NotCached(x)
          /\ segment_cache' = SubSeq(grown(x), gone(x) + 1, Len(grown(x)))
          /\ segment_cache_bytes' = more(x) - Cache!Bytes(SubSeq(grown(x), 1, gone(x)))
          /\ uses' = Cache!MoveToEnd(uses, x)
    BY <1>5 DEF Cache!Miss, Cache!Item
  <2>2. x \in DOMAIN Content /\ Content[x] = Cache!Located(x).plain
    BY DEF Content
  <2>3. \A i \in 1 .. Len(segment_cache) : segment_cache[i].segment # x
    BY <1>3, <2>1 DEF Cache!NotCached, Cache!ToSet
  <2>4. KeepsLast(Content, segment_cache', segment_cache_bytes', uses')
    BY <1>1, <1>2, <2>1, <2>2, <2>3, MissKeeps
  <2>5. UNCHANGED <<archive, data_key>>
    BY <1>5 DEF Cache!Miss
  <2> QED
    BY <2>4, <2>5, ContentKept DEF SegmentsInv
<1>6. CASE Cache!Fail
  <2>1. UNCHANGED <<archive, data_key, segment_cache, segment_cache_bytes, uses>>
    BY <1>6 DEF Cache!Fail
  <2> QED
    BY <2>1, ContentKept DEF SegmentsInv
<1>7. CASE Cache!Unlock \/ Cache!Close
  <2>1. segment_cache' = <<>> /\ segment_cache_bytes' = 0 /\ uses' = <<>> /\ archive' = archive
    BY <1>7 DEF Cache!Unlock, Cache!Close, Cache!Clear
  <2>2. KeepsLast(Content', segment_cache', segment_cache_bytes', uses')
    BY <2>1, NothingCached
  <2> QED
    BY <2>1, <2>2 DEF SegmentsInv
<1>8. CASE UNCHANGED Cache!vars
  <2>1. UNCHANGED <<archive, data_key, segment_cache, segment_cache_bytes, uses>>
    BY <1>8 DEF Cache!vars
  <2> QED
    BY <2>1, ContentKept DEF SegmentsInv
<1> QED
  BY <1>4, <1>5, <1>6, <1>7, <1>8 DEF Cache!Next

\* The bytes of what was used last.
LEMMA SizeOfLast ==
  ASSUME SegmentsInv, NEW n \in 0 .. Len(uses)
  PROVE  Cache!Size(Cache!LastUsed(n)) = Weighs(Lengths(Content), uses, n)
<1> DEFINE s == Cache!LastUsed(n)
           D == 1 .. n
           f == [i \in D |-> Len(Cache!Located(s[i]).plain)]
           g == [i \in D |-> s[i]]
           w == Lengths(Content)
<1>0. uses \in Seq(Cache!Segments) /\ Distinct(uses) /\ Len(uses) \in Nat
  BY DEF SegmentsInv, KeepsLast, Content
<1>1. /\ s \in Seq(Cache!Segments) /\ Len(s) = n
      /\ \A i \in 1 .. n : s[i] = uses[Len(uses) - n + i]
  BY <1>0 DEF Cache!LastUsed
<1>2. Cache!Size(s) = SumFunctionOnSet(f, D)
  <2> HIDE DEF s
  <2>1. DOMAIN s = D
    BY <1>1
  <2>2. Cache!Size(s) = Cache!SumFunction(f)
    BY <2>1 DEF Cache!Size
  <2>3. DOMAIN f = D
    OBVIOUS
  <2> QED
    BY <2>2, <2>3, SameSums
<1>3. \A i \in D : f[i] \in Int /\ w[g[i]] = f[i]
  <2>1. \A i \in D : s[i] \in Cache!Segments
    BY <1>1
  <2>2. \A x \in Cache!Segments : w[x] = Len(Cache!Located(x).plain) /\ w[x] \in Nat
    BY ContentMeasured DEF SegmentsInv, Measured, Lengths, Content
  <2> HIDE DEF s, w
  <2> QED
    BY <2>1, <2>2
<1>4. \A i, j \in D : g[i] = g[j] => i = j
  <2> HIDE DEF s
  <2> SUFFICES ASSUME NEW i \in D, NEW j \in D, s[i] = s[j]
               PROVE  i = j
    OBVIOUS
  <2>1. Len(uses) - n + i \in 1 .. Len(uses) /\ Len(uses) - n + j \in 1 .. Len(uses)
    BY <1>0
  <2>2. Len(uses) - n + i = Len(uses) - n + j
    BY <1>0, <1>1, <2>1 DEF Distinct
  <2> QED
    BY <1>0, <2>2
<1>5. {g[i] : i \in D} = LastOnes(uses, n)
  <2> DEFINE lag == Len(uses) - n
  <2>0. lag \in Nat /\ Len(uses) = lag + n
    BY <1>0
  <2>1. \A i \in D : g[i] = uses[lag + i]
    BY <1>1
  <2> HIDE DEF g, lag
  <2>2. ASSUME NEW i \in D
        PROVE  g[i] \in LastOnes(uses, n)
    <3>1. lag + i \in Len(uses) - n + 1 .. Len(uses)
      BY <2>0
    <3> QED
      BY <2>1, <3>1 DEF LastOnes
  <2>3. ASSUME NEW k \in Len(uses) - n + 1 .. Len(uses)
        PROVE  uses[k] \in {g[i] : i \in D}
    <3>1. k - lag \in D /\ lag + (k - lag) = k
      BY <2>0
    <3> QED
      BY <2>1, <3>1
  <2> QED
    BY <2>2, <2>3 DEF LastOnes
<1>6. IsFiniteSet(D)
  BY FS_Interval
<1> HIDE DEF D, f, g, w, s
<1>7. Cache!Size(s) = SumFunctionOnSet(w, LastOnes(uses, n))
  BY <1>2, <1>3, <1>4, <1>5, <1>6, SumRenamed
<1> QED
  BY <1>7 DEF Weighs, s, w

LEMMA CacheHoldsLastUsed ==
  ASSUME SegmentsInv
  PROVE  Cache!HoldsLastUsed
<1> DEFINE n == Len(segment_cache)
<1>0. /\ uses \in Seq(Cache!Segments) /\ segment_cache \in Seq(Cached(Content))
      /\ InOrderOfUse(segment_cache, uses) /\ Fits(Lengths(Content), uses, n)
  BY DEF SegmentsInv, KeepsLast, Content
<1>1. n \in Nat /\ Len(uses) \in Nat /\ n <= Len(uses)
  BY <1>0 DEF InOrderOfUse
<1>2. Cache!Keys(segment_cache) = Cache!LastUsed(n)
  <2> DEFINE a == Cache!Keys(segment_cache)
             b == Cache!LastUsed(n)
  <2>1. /\ b \in Seq(Cache!Segments) /\ Len(b) = n
        /\ \A i \in 1 .. n : b[i] = uses[Len(uses) - n + i]
    BY <1>0, <1>1 DEF Cache!LastUsed
  <2>2. a = [i \in 1 .. n |-> segment_cache[i].segment]
    <3>1. DOMAIN segment_cache = 1 .. n
      BY <1>0
    <3> QED
      BY <3>1 DEF Cache!Keys
  <2>3. \A i \in 1 .. n : b[i] = segment_cache[i].segment
    BY <1>0, <2>1 DEF InOrderOfUse
  <2>4. b = [i \in 1 .. n |-> b[i]]
    BY <2>1
  <2> HIDE DEF a, b
  <2> QED
    BY <2>2, <2>3, <2>4 DEF a, b
<1>3. n <= 1 \/ Cache!Size(Cache!LastUsed(n)) <= SEGMENT_CACHE_BUDGET
  <2>1. n \in 0 .. Len(uses)
    BY <1>1
  <2> QED
    BY <1>0, <2>1, SizeOfLast DEF Fits
<1>4. n = Len(uses) \/ Cache!Size(Cache!LastUsed(n + 1)) > SEGMENT_CACHE_BUDGET
  <2>1. n = Len(uses) \/ n + 1 \in 0 .. Len(uses)
    BY <1>1
  <2> QED
    BY <1>0, <2>1, SizeOfLast DEF Fits
<1> QED
  BY <1>0, <1>2, <1>3, <1>4 DEF Cache!HoldsLastUsed, Fits

SegmentsPartInv == part = "segments" => SegmentsInv

\* Whatever is read, in whichever order and however damaged, and whenever the archive is
\* unlocked or closed: the cache holds the segments used last, as many as its budget takes,
\* and one at least.
THEOREM CacheKeepsLastUsed == ArchiveSpec => []HoldsLastUsed
<1>1. ArchiveInit => SegmentsPartInv
  BY NothingCached DEF ArchiveInit, Cache!Init, SegmentsPartInv, SegmentsInv
<1>2. SegmentsPartInv /\ [ArchiveNext]_archiveVars => SegmentsPartInv'
  <2> SUFFICES ASSUME SegmentsPartInv, [ArchiveNext]_archiveVars, part' = "segments"
               PROVE  SegmentsInv'
    BY DEF SegmentsPartInv
  <2>1. CASE part = "segments" /\ Cache!Next
    BY <2>1, SegmentsStep DEF SegmentsPartInv
  <2>2. CASE UNCHANGED archiveVars
    <3>1. UNCHANGED Cache!vars /\ part = "segments"
      BY <2>2 DEF archiveVars, cacheVars, Cache!vars
    <3> QED
      BY <3>1, SegmentsStep DEF SegmentsPartInv
  <2> QED
    BY <2>1, <2>2 DEF ArchiveNext
<1>3. SegmentsPartInv => HoldsLastUsed
  BY CacheHoldsLastUsed DEF SegmentsPartInv, HoldsLastUsed
<1> QED
  BY <1>1, <1>2, <1>3, PTL DEF ArchiveSpec
=============================================================================
