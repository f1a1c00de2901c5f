--------------------------- MODULE BackupsProofs ---------------------------
(***************************************************************************)
(* Theorems about LsmTree: for any keys, values and number of runs, a key  *)
(* looked up in the runs has the value that was last meant for it, and the *)
(* other ways of reading the runs give the same records.                   *)
(*                                                                         *)
(* And about Backups, where the runs hold the extents: every recovery      *)
(* point of a TIBX archive shows the volumes as they were backed up, for   *)
(* any extents and any number of backups, cleanups, flushes and merges.    *)
(* What a point shows at a place is what the row of the newest slice there *)
(* records, of the slices up to the point's.  A cleanup deletes a row only *)
(* where a newer one covers it for every point that is left; a new row is  *)
(* of a newer slice than all points.                                       *)
(***************************************************************************)
EXTENDS Backups, SumLemmas, SequenceTheorems, TLAPS

-----------------------------------------------------------------------------
(***************************************************************************)
(* Lookups in the runs                                                     *)
(***************************************************************************)

\* Find in any runs.
FindIn(runs, k) ==
  LET having == {i \in 1 .. Len(runs) : k \in DOMAIN runs[i]}
      first == CHOOSE i \in having : \A j \in having : i <= j
  IN  IF having # {} /\ k \in Alive(runs[first]) THEN runs[first][k] ELSE Missing

\* Run i is the newest that has a cell for key k.
Newest(runs, k, i) ==
  /\ i \in 1 .. Len(runs)
  /\ k \in DOMAIN runs[i]
  /\ \A j \in 1 .. i - 1 : k \notin DOMAIN runs[j]

Absent(runs, k) == \A i \in 1 .. Len(runs) : k \notin DOMAIN runs[i]

Meaning(v) == IF v = Tombstone THEN Missing ELSE v

\* The newest run with a cell for the key decides.
LEMMA FindNewest ==
  ASSUME NEW runs, Len(runs) \in Nat, NEW k, NEW i, Newest(runs, k, i)
  PROVE  FindIn(runs, k) = Meaning(runs[i][k])
<1> DEFINE having == {j \in 1 .. Len(runs) : k \in DOMAIN runs[j]}
           first == CHOOSE j \in having : \A l \in having : j <= l
<1>1. i \in having /\ \A l \in having : i <= l
  BY DEF Newest
<1>2. first \in having /\ \A l \in having : first <= l
  BY <1>1
<1>3. first = i
  BY <1>1, <1>2
<1>4. FindIn(runs, k) = IF having # {} /\ k \in Alive(runs[first]) THEN runs[first][k] ELSE Missing
  BY DEF FindIn
<1> HIDE DEF having, first
<1> QED
  BY <1>1, <1>3, <1>4 DEF Newest, Alive, Meaning

\* A key no run has a cell for is missing.
LEMMA FindAbsent ==
  ASSUME NEW runs, NEW k, Absent(runs, k)
  PROVE  FindIn(runs, k) = Missing
BY DEF FindIn, Absent

\* A key is absent, or some run is the newest that has a cell for it.
LEMMA NewestExists ==
  ASSUME NEW runs, Len(runs) \in Nat, NEW k
  PROVE  Absent(runs, k) \/ \E i \in 1 .. Len(runs) : Newest(runs, k, i)
<1> SUFFICES ASSUME ~Absent(runs, k)
             PROVE  \E i \in 1 .. Len(runs) : Newest(runs, k, i)
  OBVIOUS
<1> DEFINE having == {i \in 1 .. Len(runs) : k \in DOMAIN runs[i]}
<1>1. having \in SUBSET Nat /\ having # {}
  BY DEF Absent
<1>2. PICK i \in having : \A j \in having : i <= j
  BY <1>1, LeastNatural
<1>3. \A j \in 1 .. i - 1 : j \notin having
  BY <1>2
<1> QED
  BY <1>2, <1>3 DEF Newest

\* What the runs are, one by one.
RunsAre(runs, m, c) ==
  /\ Len(runs) = Len(c) + 1
  /\ runs[1] = m
  /\ \A i \in 1 .. Len(c) : runs[i + 1] = c[i]

\* The runs are the mem-tree and the ctrees.
LEMMA RunsOf ==
  ASSUME NEW m, NEW S, NEW c \in Seq(S)
  PROVE  RunsAre(<<m>> \o c, m, c)
BY DEF RunsAre

\* A cell that is written is what its key then reads as; other keys read as before.
LEMMA WriteMeans ==
  ASSUME NEW m, NEW S, NEW c \in Seq(S), NEW k, NEW v, NEW m2,
         m2 = Over(Cell(k, v), m)
  PROVE  /\ FindIn(<<m2>> \o c, k) = Meaning(v)
         /\ \A l : l # k => FindIn(<<m2>> \o c, l) = FindIn(<<m>> \o c, l)
<1> DEFINE runs == <<m>> \o c
           runs2 == <<m2>> \o c
<1>1. RunsAre(runs, m, c) /\ RunsAre(runs2, m2, c) /\ Len(c) \in Nat
  BY RunsOf
<1>2. /\ DOMAIN m2 = DOMAIN m \cup {k}
      /\ m2[k] = v
      /\ \A l \in DOMAIN m : l # k => m2[l] = m[l]
  BY DEF Over, Cell
<1> HIDE DEF runs, runs2
<1>3. FindIn(runs2, k) = Meaning(v)
  <2>1. Newest(runs2, k, 1)
    BY <1>1, <1>2 DEF Newest, RunsAre
  <2> QED
    BY <2>1, <1>1, <1>2, FindNewest DEF RunsAre
<1>4. ASSUME NEW l, l # k
      PROVE  FindIn(runs2, l) = FindIn(runs, l)
  <2>1. CASE Absent(runs, l)
    <3>1. Absent(runs2, l)
      <4> SUFFICES ASSUME NEW i \in 1 .. Len(runs2)
                   PROVE  l \notin DOMAIN runs2[i]
        BY DEF Absent
      <4>1. CASE i = 1
        BY <4>1, <1>1, <1>2, <1>4, <2>1 DEF Absent, RunsAre
      <4>2. CASE i # 1
        <5>1. i - 1 \in 1 .. Len(c) /\ (i - 1) + 1 = i
          BY <4>2, <1>1 DEF RunsAre
        <5>2. runs2[i] = runs[i]
          BY <5>1, <1>1 DEF RunsAre
        <5> QED
          BY <5>2, <2>1, <1>1 DEF Absent, RunsAre
      <4> QED
        BY <4>1, <4>2
    <3> QED
      BY <2>1, <3>1, FindAbsent
  <2>2. CASE \E i \in 1 .. Len(runs) : Newest(runs, l, i)
    <3>1. PICK i \in 1 .. Len(runs) : Newest(runs, l, i)
      BY <2>2
    <3>2. Len(runs2) = Len(runs) /\ Len(runs) \in Nat
      BY <1>1 DEF RunsAre
    <3>3. \A j \in 1 .. Len(runs) : l \in DOMAIN runs2[j] <=> l \in DOMAIN runs[j]
      <4> TAKE j \in 1 .. Len(runs)
      <4>1. CASE j = 1
        BY <4>1, <1>1, <1>2, <1>4 DEF RunsAre
      <4>2. CASE j # 1
        <5>1. j - 1 \in 1 .. Len(c) /\ (j - 1) + 1 = j
          BY <4>2, <1>1 DEF RunsAre
        <5> QED
          BY <5>1, <1>1 DEF RunsAre
      <4> QED
        BY <4>1, <4>2
    <3>4. runs2[i][l] = runs[i][l]
      <4>1. CASE i = 1
        BY <4>1, <1>1, <1>2, <1>4, <3>1 DEF RunsAre, Newest
      <4>2. CASE i # 1
        <5>1. i - 1 \in 1 .. Len(c) /\ (i - 1) + 1 = i
          BY <4>2, <1>1 DEF RunsAre
        <5> QED
          BY <5>1, <1>1 DEF RunsAre
      <4> QED
        BY <4>1, <4>2
    <3>5. Newest(runs2, l, i)
      BY <3>1, <3>2, <3>3 DEF Newest
    <3> QED
      BY <3>1, <3>2, <3>4, <3>5, FindNewest
  <2>3. Len(runs) \in Nat
    BY <1>1 DEF RunsAre
  <2> QED
    BY <2>1, <2>2, <2>3, NewestExists
<1> QED
  BY <1>3, <1>4 DEF runs, runs2

\* A run without cells changes nothing that is looked up.
LEMMA FlushMeans ==
  ASSUME NEW S, NEW runs \in Seq(S), NEW l
  PROVE  FindIn(<<NoCells>> \o runs, l) = FindIn(runs, l)
<1> DEFINE runs2 == <<NoCells>> \o runs
<1>1. RunsAre(runs2, NoCells, runs) /\ Len(runs) \in Nat
  BY RunsOf
<1>2. Len(runs2) = Len(runs) + 1 /\ Len(runs2) \in Nat
  BY <1>1 DEF RunsAre
<1> HIDE DEF runs2
<1>3. l \notin DOMAIN runs2[1]
  BY <1>1 DEF RunsAre, NoCells
<1>4. \A j \in 2 .. Len(runs2) : j - 1 \in 1 .. Len(runs) /\ runs2[j] = runs[j - 1]
  <2> TAKE j \in 2 .. Len(runs2)
  <2>1. j - 1 \in 1 .. Len(runs) /\ (j - 1) + 1 = j
    BY <1>1, <1>2
  <2> QED
    BY <2>1, <1>1 DEF RunsAre
<1>5. CASE Absent(runs, l)
  <2>1. Absent(runs2, l)
    <3> SUFFICES ASSUME NEW j \in 1 .. Len(runs2)
                 PROVE  l \notin DOMAIN runs2[j]
      BY DEF Absent
    <3>1. j = 1 \/ j \in 2 .. Len(runs2)
      BY <1>2
    <3> QED
      BY <3>1, <1>3, <1>4, <1>5 DEF Absent
  <2> QED
    BY <1>5, <2>1, FindAbsent DEF runs2
<1>6. CASE \E i \in 1 .. Len(runs) : Newest(runs, l, i)
  <2>1. PICK i \in 1 .. Len(runs) : Newest(runs, l, i)
    BY <1>6
  <2>2. i + 1 \in 2 .. Len(runs2) /\ (i + 1) - 1 = i
    BY <1>1, <1>2
  <2>3. runs2[i + 1] = runs[i]
    BY <2>2, <1>4
  <2>4. \A j \in 1 .. (i + 1) - 1 : l \notin DOMAIN runs2[j]
    <3> TAKE j \in 1 .. (i + 1) - 1
    <3>1. j = 1 \/ (j \in 2 .. Len(runs2) /\ j - 1 \in 1 .. i - 1)
      BY <1>1, <1>2
    <3> QED
      BY <3>1, <1>3, <1>4, <2>1 DEF Newest
  <2>5. Newest(runs2, l, i + 1)
    BY <2>1, <2>2, <2>3, <2>4, <1>2 DEF Newest
  <2> QED
    BY <1>1, <1>2, <2>1, <2>3, <2>5, FindNewest, ZenonT(60) DEF runs2
<1> QED
  BY <1>1, <1>5, <1>6, NewestExists DEF runs2

\* Runs in which i + 1 stands for what was i + 1 and i + 2, as merging ctrees leaves them.
Merges(runs, runs2, i, merged) ==
  /\ Len(runs2) = Len(runs) - 1
  /\ \A j \in 1 .. i : runs2[j] = runs[j]
  /\ runs2[i + 1] = merged
  /\ \A j \in i + 2 .. Len(runs2) : runs2[j] = runs[j + 1]

\* Merging two runs that follow each other changes nothing that is looked up, not even
\* when the tombstones go because nothing older is left.
LEMMA MergeMeans ==
  ASSUME NEW runs, NEW runs2, Len(runs) \in Nat, NEW l,
         NEW i \in 1 .. Len(runs) - 2, NEW over, NEW merged,
         over = Over(runs[i + 1], runs[i + 2]),
         Merges(runs, runs2, i, merged),
         \/ merged = over
         \/ i + 2 = Len(runs) /\ merged = [k \in Alive(over) |-> over[k]]
  PROVE  FindIn(runs2, l) = FindIn(runs, l)
<1>1. /\ Len(runs2) \in Nat
      /\ i \in Nat \ {0}
      /\ Len(runs2) = Len(runs) - 1
      /\ i + 1 <= Len(runs2)
  BY DEF Merges
<1>2. /\ DOMAIN over = DOMAIN runs[i + 1] \cup DOMAIN runs[i + 2]
      /\ \A k \in DOMAIN runs[i + 1] : over[k] = runs[i + 1][k]
      /\ \A k \in DOMAIN runs[i + 2] : k \notin DOMAIN runs[i + 1] => over[k] = runs[i + 2][k]
  BY DEF Over
<1>3. /\ DOMAIN merged \subseteq DOMAIN over
      /\ \A k \in DOMAIN merged : merged[k] = over[k]
      /\ \A k \in DOMAIN over : over[k] # Tombstone => k \in DOMAIN merged
      /\ i + 2 # Len(runs) => merged = over
  BY DEF Alive
<1>4. /\ \A j \in 1 .. i : runs2[j] = runs[j]
      /\ runs2[i + 1] = merged
      /\ \A j \in i + 2 .. Len(runs2) : runs2[j] = runs[j + 1]
  BY DEF Merges
<1>5. CASE Absent(runs, l)
  <2>1. l \notin DOMAIN merged
    BY <1>1, <1>2, <1>3, <1>5 DEF Absent
  <2>2. Absent(runs2, l)
    <3> SUFFICES ASSUME NEW j \in 1 .. Len(runs2)
                 PROVE  l \notin DOMAIN runs2[j]
      BY DEF Absent
    <3>1. CASE j \in 1 .. i
      BY <3>1, <1>1, <1>4, <1>5 DEF Absent
    <3>2. CASE j = i + 1
      BY <3>2, <1>4, <2>1
    <3>3. CASE j \in i + 2 .. Len(runs2)
      <4>1. j + 1 \in 1 .. Len(runs)
        BY <3>3, <1>1
      <4> QED
        BY <3>3, <4>1, <1>4, <1>5 DEF Absent
    <3> QED
      BY <3>1, <3>2, <3>3, <1>1
  <2> QED
    BY <1>5, <2>2, FindAbsent
<1>6. ASSUME NEW p \in 1 .. Len(runs), Newest(runs, l, p)
      PROVE  FindIn(runs2, l) = Meaning(runs[p][l])
  <2>1. /\ l \in DOMAIN runs[p]
        /\ \A j \in 1 .. p - 1 : l \notin DOMAIN runs[j]
    BY <1>6 DEF Newest
  <2>2. CASE p \in 1 .. i
    <3>1. Newest(runs2, l, p)
      <4>1. p \in 1 .. Len(runs2) /\ \A j \in 1 .. p : j \in 1 .. i
        BY <2>2, <1>1
      <4>2. \A j \in 1 .. p - 1 : j \in 1 .. p
        BY <2>2, <1>1
      <4> QED
        BY <4>1, <4>2, <2>1, <2>2, <1>4 DEF Newest
    <3> QED
      BY <3>1, <2>2, <1>1, <1>4, FindNewest
  <2>3. CASE p = i + 1 \/ p = i + 2
    <3>1. l \in DOMAIN over /\ over[l] = runs[p][l]
      <4>1. CASE p = i + 1
        BY <4>1, <2>1, <1>2
      <4>2. CASE p = i + 2
        <5>1. i + 1 \in 1 .. p - 1
          BY <4>2, <1>1
        <5> QED
          BY <5>1, <4>2, <2>1, <1>2
      <4> QED
        BY <4>1, <4>2, <2>3
    <3>2. \A j \in 1 .. i : l \notin DOMAIN runs2[j]
      <4> TAKE j \in 1 .. i
      <4>1. j \in 1 .. p - 1
        BY <2>3, <1>1
      <4> QED
        BY <4>1, <2>1, <1>4
    <3>3. CASE l \in DOMAIN merged
      <4>1. (i + 1) - 1 = i /\ i + 1 \in 1 .. Len(runs2)
        BY <1>1
      <4>2. Newest(runs2, l, i + 1)
        BY <3>2, <3>3, <4>1, <1>4 DEF Newest
      <4> QED
        BY <4>2, <3>1, <3>3, <1>1, <1>3, <1>4, FindNewest
    <3>4. CASE l \notin DOMAIN merged
      <4>1. over[l] = Tombstone /\ i + 2 = Len(runs)
        BY <3>1, <3>4, <1>3
      <4>2. Absent(runs2, l)
        <5> SUFFICES ASSUME NEW j \in 1 .. Len(runs2)
                     PROVE  l \notin DOMAIN runs2[j]
          BY DEF Absent
        <5>1. j \in 1 .. i \/ j = i + 1
          BY <4>1, <1>1
        <5> QED
          BY <5>1, <3>2, <3>4, <1>4
      <4> QED
        BY <4>1, <4>2, <3>1, FindAbsent DEF Meaning
    <3> QED
      BY <3>3, <3>4
  <2>4. CASE p \in i + 3 .. Len(runs)
    <3>1. p - 1 \in i + 2 .. Len(runs2) /\ (p - 1) + 1 = p /\ p - 1 \in 1 .. Len(runs2)
      BY <2>4, <1>1
    <3>2. runs2[p - 1] = runs[p]
      BY <3>1, <1>4
    <3>3. l \notin DOMAIN merged
      <4>1. i + 1 \in 1 .. p - 1 /\ i + 2 \in 1 .. p - 1
        BY <2>4, <1>1
      <4> QED
        BY <4>1, <2>1, <1>2, <1>3
    <3>4. \A j \in 1 .. (p - 1) - 1 : l \notin DOMAIN runs2[j]
      <4> TAKE j \in 1 .. (p - 1) - 1
      <4>1. CASE j \in 1 .. i
        <5>1. j \in 1 .. p - 1
          BY <2>4, <1>1
        <5> QED
          BY <4>1, <5>1, <2>1, <1>4
      <4>2. CASE j = i + 1
        BY <4>2, <3>3, <1>4
      <4>3. CASE j \in i + 2 .. Len(runs2)
        <5>1. j + 1 \in 1 .. p - 1
          BY <2>4, <4>3, <1>1, SMTT(30)
        <5> QED
          BY <4>3, <5>1, <2>1, <1>4
      <4> QED
        BY <4>1, <4>2, <4>3, <2>4, <1>1, SMTT(30)
    <3>5. Newest(runs2, l, p - 1)
      BY <3>1, <3>2, <3>4, <2>1 DEF Newest
    <3> QED
      BY <3>2, <3>5, <1>1, FindNewest
  <2> QED
    BY <2>2, <2>3, <2>4, <1>1
<1> QED
  BY <1>5, <1>6, NewestExists, FindNewest

-----------------------------------------------------------------------------

\* The runs a tree is made of.
Run == UNION {RunOn(K) : K \in SUBSET Keys}

\* The parts of TypeOK the steps use: the runs, and the map.
LEMMA Types ==
  ASSUME TypeOK
  PROVE  /\ memtree \in Run
         /\ ctrees \in Seq(Run)
         /\ meant \in [Keys -> Values \cup {Missing}]
<1>1. memtree \in RunOn(DOMAIN memtree) /\ DOMAIN memtree \in SUBSET Keys
  BY DEF TypeOK, IsRun
<1>2. memtree \in Run
  BY <1>1 DEF Run
<1> QED
  BY <1>2 DEF TypeOK, Run

\* A function on some of the keys, to values or Tombstone, is a run.
LEMMA RunIntro ==
  ASSUME NEW D \in SUBSET Keys, NEW r \in RunOn(D)
  PROVE  IsRun(r) /\ r \in Run /\ DOMAIN r = D
<1>1. DOMAIN r = D
  BY DEF RunOn
<1> QED
  BY <1>1 DEF IsRun, Run

\* Run r over run s is a run.
LEMMA OverType ==
  ASSUME NEW r \in Run, NEW s \in Run
  PROVE  IsRun(Over(r, s)) /\ Over(r, s) \in Run
<1>1. PICK D \in SUBSET Keys : r \in RunOn(D)
  BY DEF Run
<1>2. PICK E \in SUBSET Keys : s \in RunOn(E)
  BY DEF Run
<1>3. Over(r, s) \in RunOn(D \cup E)
  BY <1>1, <1>2 DEF RunOn, Over
<1>4. D \cup E \in SUBSET Keys
  OBVIOUS
<1> QED
  BY <1>3, <1>4, RunIntro

\* A run less its tombstones is a run.
LEMMA AliveType ==
  ASSUME NEW r \in Run
  PROVE  [k \in Alive(r) |-> r[k]] \in Run
<1>1. PICK D \in SUBSET Keys : r \in RunOn(D)
  BY DEF Run
<1>2. Alive(r) \in SUBSET Keys /\ [k \in Alive(r) |-> r[k]] \in RunOn(Alive(r))
  BY <1>1 DEF RunOn, Alive
<1> QED
  BY <1>2, RunIntro

\* Writing a cell keeps the types, and changes what is looked up for its key alone.
LEMMA WriteStep ==
  ASSUME TypeOK, NEW k \in Keys, NEW v \in Values \cup {Tombstone}, Write(k, v)
  PROVE  /\ IsRun(memtree')
         /\ ctrees' = ctrees
         /\ Find(k)' = Meaning(v)
         /\ \A l \in Keys : l # k => Find(l)' = Find(l)
<1>1. memtree \in Run /\ ctrees \in Seq(Run)
  BY Types
<1>2. memtree' = Over(Cell(k, v), memtree) /\ ctrees' = ctrees
  BY DEF Write
<1>3. {k} \in SUBSET Keys /\ Cell(k, v) \in RunOn({k})
  BY DEF RunOn, Cell
<1>4. IsRun(memtree')
  BY <1>1, <1>2, <1>3, RunIntro, OverType
<1>5. /\ FindIn(<<memtree'>> \o ctrees, k) = Meaning(v)
      /\ \A l : l # k => FindIn(<<memtree'>> \o ctrees, l) = FindIn(<<memtree>> \o ctrees, l)
  BY <1>1, <1>2, WriteMeans
<1>6. Find(k)' = Meaning(v)
  <2>1. Find(k)' = FindIn(<<memtree'>> \o ctrees, k)
    BY <1>2 DEF Find, FindIn, Runs
  <2> QED
    BY <1>5, <2>1
<1>7. ASSUME NEW l \in Keys, l # k
      PROVE  Find(l)' = Find(l)
  <2>1. Find(l) = FindIn(<<memtree>> \o ctrees, l)
    BY DEF Find, FindIn, Runs
  <2>2. Find(l)' = FindIn(<<memtree'>> \o ctrees, l)
    BY <1>2 DEF Find, FindIn, Runs
  <2> QED
    BY <1>5, <1>7, <2>1, <2>2
<1> QED
  BY <1>2, <1>4, <1>6, <1>7

\* Flushing changes nothing that is looked up.
LEMMA FlushStep ==
  ASSUME TypeOK, Flush
  PROVE  TypeOK' /\ \A l \in Keys : Find(l)' = Find(l)
<1>1. memtree \in Run /\ ctrees \in Seq(Run)
  BY Types
<1>2. /\ memtree' = NoCells
      /\ ctrees' = <<memtree>> \o ctrees
      /\ meant' = meant
      /\ Len(ctrees) < MaxCtrees
  BY DEF Flush
<1>3. <<memtree>> \o ctrees \in Seq(Run) /\ Len(<<memtree>> \o ctrees) = Len(ctrees) + 1
  BY <1>1
<1>4. {} \in SUBSET Keys /\ NoCells \in RunOn({})
  BY DEF NoCells, RunOn
<1>5. IsRun(NoCells)
  BY <1>4, RunIntro
<1>6. Len(ctrees') <= MaxCtrees
  BY <1>1, <1>2, <1>3, MaxCtreesAssumption
<1>7. TypeOK'
  BY <1>2, <1>3, <1>5, <1>6 DEF TypeOK, Run
<1>8. ASSUME NEW l \in Keys
      PROVE  Find(l)' = Find(l)
  <2>1. Find(l) = FindIn(<<memtree>> \o ctrees, l)
    BY DEF Find, FindIn, Runs
  <2>2. Find(l)' = FindIn(<<NoCells>> \o (<<memtree>> \o ctrees), l)
    BY <1>2 DEF Find, FindIn, Runs
  <2> QED
    BY <1>3, <2>1, <2>2, FlushMeans
<1> QED
  BY <1>7, <1>8

\* Merging two ctrees that follow each other changes nothing that is looked up.
LEMMA CompactStep ==
  ASSUME TypeOK, Compact
  PROVE  TypeOK' /\ \A l \in Keys : Find(l)' = Find(l)
<1>1. memtree \in Run /\ ctrees \in Seq(Run) /\ Len(ctrees) \in Nat
  BY Types
<1>2. PICK i \in 1 .. Len(ctrees) - 1 :
        ctrees' = [j \in 1 .. Len(ctrees) - 1 |->
                     IF j < i THEN ctrees[j]
                     ELSE IF j = i THEN Compacted(i)
                     ELSE ctrees[j + 1]]
  BY DEF Compact
<1>3. memtree' = memtree /\ meant' = meant
  BY DEF Compact
<1> DEFINE over == Over(ctrees[i], ctrees[i + 1])
<1>4. over \in Run
  <2>1. i \in 1 .. Len(ctrees) /\ i + 1 \in 1 .. Len(ctrees)
    BY <1>1
  <2>2. ctrees[i] \in Run /\ ctrees[i + 1] \in Run
    BY <1>1, <2>1
  <2> QED
    BY <2>2, OverType
<1>5. \/ Compacted(i) = over
      \/ i + 1 = Len(ctrees) /\ Compacted(i) = [k \in Alive(over) |-> over[k]]
  BY DEF Compacted
<1>6. Compacted(i) \in Run
  BY <1>4, <1>5, AliveType
<1>7. ctrees' \in Seq(Run) /\ Len(ctrees') = Len(ctrees) - 1
  <2>1. \A j \in 1 .. Len(ctrees) - 1 :
          j \in 1 .. Len(ctrees) /\ j + 1 \in 1 .. Len(ctrees)
    BY <1>1
  <2>2. \A j \in 1 .. Len(ctrees) - 1 : ctrees[j] \in Run /\ ctrees[j + 1] \in Run
    BY <1>1, <2>1
  <2>3. ctrees' \in [1 .. Len(ctrees) - 1 -> Run]
    BY <1>2, <1>6, <2>2
  <2>4. Len(ctrees) - 1 \in Nat
    BY <1>1
  <2> QED
    BY <2>3, <2>4
<1>8. TypeOK'
  BY <1>1, <1>3, <1>7, MaxCtreesAssumption DEF TypeOK, Run
<1>9. ASSUME NEW l \in Keys
      PROVE  Find(l)' = Find(l)
  <2> DEFINE runs == <<memtree>> \o ctrees
             runs2 == <<memtree>> \o ctrees'
  <2>1. Find(l) = FindIn(runs, l) /\ Find(l)' = FindIn(runs2, l)
    BY <1>3 DEF Find, FindIn, Runs
  <2>2. RunsAre(runs, memtree, ctrees)
    BY <1>1, RunsOf
  <2>3. RunsAre(runs2, memtree, ctrees')
    BY <1>7, RunsOf
  <2> HIDE DEF runs, runs2, over
  <2>4. /\ Len(runs) = Len(ctrees) + 1
        /\ Len(runs2) = Len(runs) - 1
        /\ Len(runs) \in Nat
        /\ i \in 1 .. Len(runs) - 2
    BY <1>1, <1>7, <2>2, <2>3 DEF RunsAre
  <2>5. runs[i + 1] = ctrees[i] /\ runs[i + 2] = ctrees[i + 1]
    <3>1. i \in 1 .. Len(ctrees) /\ i + 1 \in 1 .. Len(ctrees) /\ (i + 1) + 1 = i + 2
      BY <1>1
    <3> QED
      BY <3>1, <2>2 DEF RunsAre
  <2>6. \A j \in 1 .. Len(ctrees) - 1 :
          runs2[j + 1] = IF j < i THEN ctrees[j]
                         ELSE IF j = i THEN Compacted(i)
                         ELSE ctrees[j + 1]
    BY <1>2, <1>7, <2>3 DEF RunsAre
  <2>7. Merges(runs, runs2, i, Compacted(i))
    <3>1. \A j \in 1 .. i : runs2[j] = runs[j]
      <4> TAKE j \in 1 .. i
      <4>1. CASE j = 1
        BY <4>1, <2>2, <2>3 DEF RunsAre
      <4>2. CASE j # 1
        <5>1. /\ j - 1 \in 1 .. Len(ctrees) - 1
              /\ j - 1 \in 1 .. Len(ctrees)
              /\ (j - 1) + 1 = j
              /\ j - 1 < i
          BY <4>2, <1>1
        <5> QED
          BY <5>1, <2>2, <2>6 DEF RunsAre
      <4> QED
        BY <4>1, <4>2
    <3>2. runs2[i + 1] = Compacted(i)
      BY <1>1, <2>6
    <3>3. \A j \in i + 2 .. Len(runs2) : runs2[j] = runs[j + 1]
      <4> TAKE j \in i + 2 .. Len(runs2)
      <4>1. /\ j - 1 \in 1 .. Len(ctrees) - 1
            /\ j \in 1 .. Len(ctrees)
            /\ (j - 1) + 1 = j
            /\ ~(j - 1 < i) /\ j - 1 # i
        BY <1>1, <2>4
      <4> QED
        BY <4>1, <2>2, <2>6 DEF RunsAre
    <3> QED
      BY <2>4, <3>1, <3>2, <3>3 DEF Merges
  <2>8. over = Over(runs[i + 1], runs[i + 2])
    BY <2>5 DEF over
  <2>9. i + 1 = Len(ctrees) => i + 2 = Len(runs)
    BY <1>1, <2>4
  <2> QED
    BY <1>5, <2>1, <2>4, <2>7, <2>8, <2>9, MergeMeans
<1> QED
  BY <1>8, <1>9

\* A tree that nothing was written to reads as it should.
LEMMA LookupInit == Init => TypeOK /\ LookupFindsNewest
<1> SUFFICES ASSUME Init
             PROVE  TypeOK /\ LookupFindsNewest
  OBVIOUS
<1>1. {} \in SUBSET Keys /\ NoCells \in RunOn({})
  BY DEF NoCells, RunOn
<1>2. TypeOK
  <2>1. IsRun(memtree)
    BY <1>1, RunIntro DEF Init
  <2>2. ctrees \in Seq(Run) /\ Len(ctrees) <= MaxCtrees
    BY MaxCtreesAssumption DEF Init
  <2>3. meant \in [Keys -> Values \cup {Missing}]
    BY DEF Init
  <2> QED
    BY <2>1, <2>2, <2>3 DEF TypeOK, Run
<1>3. ASSUME NEW l \in Keys
      PROVE  Find(l) = meant[l]
  <2>1. memtree = NoCells /\ ctrees = <<>> /\ ctrees \in Seq(Run)
    BY DEF Init
  <2>2. Absent(<<memtree>> \o ctrees, l)
    <3>1. RunsAre(<<memtree>> \o ctrees, memtree, ctrees)
      BY <2>1, RunsOf
    <3> QED
      BY <2>1, <3>1 DEF Absent, RunsAre, NoCells
  <2>3. FindIn(<<memtree>> \o ctrees, l) = Missing
    BY <2>2, FindAbsent
  <2> QED
    BY <2>3 DEF Find, FindIn, Runs, Init
<1> QED
  BY <1>2, <1>3 DEF LookupFindsNewest

\* Whatever is written, flushed or merged, keys read as they are meant.
LEMMA LookupStep == TypeOK /\ LookupFindsNewest /\ [Next]_vars => TypeOK' /\ LookupFindsNewest'
<1> SUFFICES ASSUME TypeOK, LookupFindsNewest, [Next]_vars
             PROVE  TypeOK' /\ LookupFindsNewest'
  OBVIOUS
<1>1. CASE Put
  <2>1. PICK k \in Keys, v \in Values : Write(k, v) /\ meant' = [meant EXCEPT ![k] = v]
    BY <1>1 DEF Put
  <2>2. /\ IsRun(memtree')
        /\ ctrees' = ctrees
        /\ Find(k)' = Meaning(v)
        /\ \A l \in Keys : l # k => Find(l)' = Find(l)
    BY <2>1, WriteStep
  <2>3. meant \in [Keys -> Values \cup {Missing}]
    BY Types
  <2>4. TypeOK'
    BY <2>1, <2>2, <2>3 DEF TypeOK
  <2>5. Meaning(v) = v
    BY ValuesAssumption DEF Meaning
  <2> QED
    BY <2>1, <2>2, <2>3, <2>4, <2>5 DEF LookupFindsNewest
<1>2. CASE Delete
  <2>1. PICK k \in Keys : Write(k, Tombstone) /\ meant' = [meant EXCEPT ![k] = Missing]
    BY <1>2 DEF Delete
  <2>2. /\ IsRun(memtree')
        /\ ctrees' = ctrees
        /\ Find(k)' = Meaning(Tombstone)
        /\ \A l \in Keys : l # k => Find(l)' = Find(l)
    BY <2>1, WriteStep
  <2>3. meant \in [Keys -> Values \cup {Missing}]
    BY Types
  <2>4. TypeOK'
    BY <2>1, <2>2, <2>3 DEF TypeOK
  <2>5. Meaning(Tombstone) = Missing
    BY DEF Meaning
  <2> QED
    BY <2>1, <2>2, <2>3, <2>4, <2>5 DEF LookupFindsNewest
<1>3. CASE Flush
  BY <1>3, FlushStep DEF LookupFindsNewest, Flush
<1>4. CASE Compact
  BY <1>4, CompactStep, SMTT(30) DEF LookupFindsNewest, Compact
<1>5. CASE UNCHANGED vars
  BY <1>5 DEF vars, TypeOK, IsRun, LookupFindsNewest, Find, Runs
<1> QED
  BY <1>1, <1>2, <1>3, <1>4, <1>5 DEF Next

\* Looking a key up finds what was last meant for it, in every state of the tree.
THEOREM LookupCorrect == Spec => [](TypeOK /\ LookupFindsNewest)
  BY LookupInit, LookupStep, PTL DEF Spec

-----------------------------------------------------------------------------
(***************************************************************************)
(* The readers that go over all runs.  What each of them makes of the      *)
(* cells is the cells that no newer run decides (Winners).                 *)
(***************************************************************************)

\* Rows of which the order can be told.
AreRows(S) ==
  /\ IsFiniteSet(S)
  /\ \A x \in S : x.run \in Nat /\ x.key \in Keys
  /\ \A x, y \in S : x.run = y.run /\ x.key = y.key => x = y

\* Before is a strict order of the rows, and a total one.
Precedes(S) == {p \in S \X S : Before(p[1], p[2])}

LEMMA BeforeOrders ==
  ASSUME NEW S, AreRows(S)
  PROVE  Orders(Precedes(S), S)
<1>1. \A x \in S : x.run \in Nat /\ x.key \in Nat /\ Position[x.key] \in Nat
  BY KeysAssumption DEF AreRows, Keys
<1>2. \A x, y \in S : x.run = y.run /\ x.key = y.key => x = y
  BY DEF AreRows
<1>3. /\ \A x \in S : ~Before(x, x)
      /\ \A x, y \in S : x = y \/ Before(x, y) \/ Before(y, x)
      /\ \A x, y, z \in S : Before(x, y) /\ Before(y, z) => Before(x, z)
  BY <1>1, <1>2 DEF Before, Yielded
<1> QED
  BY <1>3 DEF Orders, Precedes

\* s holds each row of S once, in order.
Sorted(s, S) ==
  /\ Len(s) = Cardinality(S) /\ Len(s) \in Nat
  /\ \A i \in 1 .. Len(s) : s[i] \in S
  /\ \A x \in S : \E i \in 1 .. Len(s) : s[i] = x
  /\ \A i, j \in 1 .. Len(s) : i < j => Before(s[i], s[j])

LEMMA OffsetOrderSorts ==
  ASSUME NEW S, AreRows(S)
  PROVE  Sorted(InOffsetOrder(S), S)
<1> DEFINE n == Cardinality(S)
           place == Place(Precedes(S), S)
           s == [i \in 1 .. n |-> CHOOSE x \in S : place[x] = i]
<1>1. InOffsetOrder(S) = s
  <2>1. \A x \in S : Lower(Precedes(S), S, x) = {y \in S : Before(y, x)}
    BY DEF Lower, Precedes
  <2>2. place = [x \in S |-> 1 + Cardinality({y \in S : Before(y, x)})]
    BY <2>1 DEF Place
  <2> QED
    BY <2>2 DEF InOffsetOrder
<1>2. n \in Nat
  BY FS_CardinalityType DEF AreRows
<1>3. /\ place \in [S -> 1 .. n]
      /\ \A x, y \in S : place[x] < place[y] <=> <<x, y>> \in Precedes(S)
      /\ \A x, y \in S : place[x] = place[y] => x = y
      /\ \A i \in 1 .. n : \E x \in S : place[x] = i
  BY BeforeOrders, PlacesInOrder DEF AreRows
<1> HIDE DEF place
<1>4. \A i \in 1 .. n : s[i] \in S /\ place[s[i]] = i
  BY <1>3
<1>5. Len(s) = n
  BY <1>2
<1> HIDE DEF s
<1>6. \A x \in S : \E i \in 1 .. n : s[i] = x
  BY <1>3, <1>4
<1>7. \A i, j \in 1 .. n : i < j => Before(s[i], s[j])
  <2> TAKE i, j \in 1 .. n
  <2>1. s[i] \in S /\ s[j] \in S /\ place[s[i]] = i /\ place[s[j]] = j
    BY <1>4
  <2>2. i < j => <<s[i], s[j]>> \in Precedes(S)
    BY <1>3, <2>1
  <2> QED
    BY <2>2 DEF Precedes
<1> QED
  BY <1>1, <1>2, <1>4, <1>5, <1>6, <1>7 DEF Sorted

\* Rows in order share a key if two of them do.
LEMMA SharingFound ==
  ASSUME NEW S, AreRows(S), NEW s, Sorted(s, S)
  PROVE  SharesAKey(s) <=> \E x, y \in S : x # y /\ x.key = y.key
<1>1. \A x \in S : x.run \in Nat /\ x.key \in Keys /\ Position[x.key] \in Nat
  BY KeysAssumption DEF AreRows
<1>2. ASSUME SharesAKey(s)
      PROVE  \E x, y \in S : x # y /\ x.key = y.key
  <2>1. PICK i, j \in 1 .. Len(s) : i < j /\ s[i].key = s[j].key
    BY <1>2 DEF SharesAKey
  <2>2. s[i] \in S /\ s[j] \in S /\ Before(s[i], s[j])
    BY <2>1 DEF Sorted
  <2>3. s[i] # s[j]
    BY <2>2, BeforeOrders DEF Orders, Precedes
  <2> QED
    BY <2>1, <2>2, <2>3
<1>3. ASSUME NEW x \in S, NEW y \in S, x # y, x.key = y.key, Before(x, y)
      PROVE  SharesAKey(s)
  <2>1. PICK i \in 1 .. Len(s) : s[i] = x
    BY DEF Sorted
  <2>2. PICK j \in 1 .. Len(s) : s[j] = y
    BY DEF Sorted
  <2>3. i < j
    <3>1. j < i => Before(y, x)
      BY <2>1, <2>2 DEF Sorted
    <3>2. ~Before(y, x)
      BY <1>3, BeforeOrders DEF Orders, Precedes
    <3>3. i # j
      BY <1>3, <2>1, <2>2
    <3> QED
      BY <3>1, <3>2, <3>3
  <2>4. ASSUME NEW k \in i .. j
        PROVE  Position[s[k].key] = Position[s[i].key]
    <3>1. k \in 1 .. Len(s) /\ s[k] \in S
      BY DEF Sorted
    <3>2. k = i \/ Before(s[i], s[k])
      BY <3>1 DEF Sorted
    <3>3. k = j \/ Before(s[k], s[j])
      BY <3>1 DEF Sorted
    <3>4. Position[s[i].key] <= Position[s[k].key]
      BY <1>1, <3>1, <3>2, <2>1 DEF Before
    <3>5. Position[s[k].key] <= Position[s[j].key]
      BY <1>1, <3>1, <3>3, <2>2 DEF Before
    <3>6. Position[s[i].key] \in Nat /\ Position[s[k].key] \in Nat
      BY <1>1, <2>1, <3>1
    <3> QED
      BY <1>3, <2>1, <2>2, <3>4, <3>5, <3>6
  <2> QED
    BY <1>3, <2>1, <2>2, <2>3, <2>4 DEF SharesAKey
<1> QED
  BY <1>2, <1>3, BeforeOrders DEF Orders, Precedes

\* The rows of the runs, those that no newer run decides.
Undecided(S) == {x \in S : \A i \in 1 .. x.run - 1 : x.key \notin DOMAIN Runs[i]}

Winners == Undecided(Columns)

\* What the runs are.
LEMMA RunsType ==
  ASSUME TypeOK
  PROVE  /\ Runs \in Seq(Run) /\ Len(Runs) \in Nat
         /\ \A i \in 1 .. Len(Runs) : DOMAIN Runs[i] \in SUBSET Keys
<1>1. memtree \in Run /\ ctrees \in Seq(Run)
  BY Types
<1>2. Runs \in Seq(Run) /\ Len(Runs) \in Nat
  BY <1>1 DEF Runs
<1>3. \A r \in Run : DOMAIN r \in SUBSET Keys
  BY DEF Run, RunOn
<1> QED
  BY <1>2, <1>3

\* What a cell is.
LEMMA CellsAre ==
  /\ \A x \in Cells : /\ x.run \in 1 .. Len(Runs)
                      /\ x.key \in DOMAIN Runs[x.run]
                      /\ x.value = Runs[x.run][x.key]
                      /\ x = [run |-> x.run, key |-> x.key, value |-> x.value]
  /\ \A i \in 1 .. Len(Runs) : \A k \in DOMAIN Runs[i] :
       [run |-> i, key |-> k, value |-> Runs[i][k]] \in Cells
BY DEF Cells

\* The cells, and any of them, can be put in order.
LEMMA CellsAreRows ==
  ASSUME TypeOK, NEW S \in SUBSET Cells
  PROVE  AreRows(S)
<1>1. \A x \in S : x.run \in 1 .. Len(Runs) /\ x.run \in Nat /\ x.key \in Keys
  BY RunsType, CellsAre
<1>2. \A x, y \in S : x.run = y.run /\ x.key = y.key => x = y
  BY CellsAre
<1>3. IsFiniteSet(S)
  <2> DEFINE T == (1 .. Len(Runs)) \X Keys
             f == [x \in S |-> <<x.run, x.key>>]
  <2>1. IsFiniteSet(T)
    <3>1. IsFiniteSet(1 .. Len(Runs)) /\ IsFiniteSet(Keys)
      BY RunsType, KeysAssumption, FS_Interval DEF Keys
    <3> QED
      BY <3>1, FS_Product
  <2>2. f \in Injection(S, T)
    <3>1. f \in [S -> T]
      BY <1>1
    <3>2. \A x, y \in S : f[x] = f[y] => x = y
      BY <1>2
    <3> HIDE DEF f, T
    <3> QED
      BY <3>1, <3>2 DEF Injection, IsInjective
  <2> QED
    BY <2>1, <2>2, FS_Injection
<1> QED
  BY <1>1, <1>2, <1>3 DEF AreRows

\* The cell that decides a key, if one does.
LEMMA Decisive ==
  ASSUME TypeOK, NEW x \in Cells, x \in Undecided(Cells)
  PROVE  Find(x.key) = Meaning(x.value)
<1>1. Newest(Runs, x.key, x.run)
  BY CellsAre DEF Undecided, Newest
<1>2. Find(x.key) = FindIn(Runs, x.key)
  BY DEF Find, FindIn
<1> QED
  BY <1>1, <1>2, FindNewest, RunsType, CellsAre

\* The winners are what looking every key up finds, each key once.
LEMMA WinnersFound ==
  ASSUME TypeOK
  PROVE  /\ {<<x.key, x.value>> : x \in Winners} = {<<k, Find(k)>> : k \in {j \in Keys : Find(j) # Missing}}
         /\ \A x, y \in Winners : x.key = y.key => x = y
<1>1. \A x \in Winners : /\ x \in Cells /\ x \in Undecided(Cells) /\ x.value # Tombstone
                         /\ x.key \in Keys /\ x.run \in 1 .. Len(Runs)
  BY RunsType, CellsAre DEF Winners, Undecided, Columns
<1>2. \A i \in 1 .. Len(Runs) : \A k \in DOMAIN Runs[i] : Runs[i][k] # Missing
  <2>1. \A r \in Run : \A k \in DOMAIN r : r[k] # Missing
    BY ValuesAssumption DEF Run, RunOn
  <2> QED
    BY <2>1, RunsType
<1>3. ASSUME NEW x \in Winners
      PROVE  x.key \in Keys /\ Find(x.key) = x.value /\ x.value # Missing
  BY <1>1, <1>2, CellsAre, Decisive DEF Meaning
<1>4. ASSUME NEW k \in Keys, Find(k) # Missing
      PROVE  \E x \in Winners : x.key = k
  <2>1. Find(k) = FindIn(Runs, k)
    BY DEF Find, FindIn
  <2>2. PICK i \in 1 .. Len(Runs) : Newest(Runs, k, i)
    BY <1>4, <2>1, FindAbsent, NewestExists, RunsType
  <2>3. Find(k) = Meaning(Runs[i][k])
    BY <2>1, <2>2, FindNewest, RunsType
  <2>4. Runs[i][k] # Tombstone
    BY <1>4, <2>3 DEF Meaning
  <2> DEFINE x == [run |-> i, key |-> k, value |-> Runs[i][k]]
  <2>5. x \in Cells
    BY <2>2, CellsAre DEF Newest
  <2>6. x \in Winners
    BY <2>2, <2>4, <2>5 DEF Winners, Undecided, Columns, Newest
  <2> QED
    BY <2>6
<1>5. ASSUME NEW x \in Winners, NEW y \in Winners, x.key = y.key
      PROVE  x = y
  <2>1. ~(x.run < y.run) /\ ~(y.run < x.run)
    <3>1. x.run \in 1 .. Len(Runs) /\ y.run \in 1 .. Len(Runs) /\ Len(Runs) \in Nat
      BY <1>1, RunsType
    <3>2. x.key \in DOMAIN Runs[x.run] /\ y.key \in DOMAIN Runs[y.run]
      BY <1>1, CellsAre
    <3>3. x.run < y.run => x.run \in 1 .. y.run - 1
      BY <3>1
    <3>4. y.run < x.run => y.run \in 1 .. x.run - 1
      BY <3>1
    <3> QED
      BY <1>5, <3>2, <3>3, <3>4 DEF Winners, Undecided
  <2>2. x.run = y.run
    BY <1>1, <2>1, RunsType
  <2> QED
    BY <1>1, <1>5, <2>2, CellsAre
<1> QED
  BY <1>3, <1>4, <1>5

\* Keeping the first cell seen of each key gives the winners.
LEMMA FirstAreWinners ==
  ASSUME TypeOK
  PROVE  FirstCells = Winners
<1>1. ASSUME NEW x \in Cells
      PROVE  (~ \E y \in Cells : y.key = x.key /\ Yielded(y, x)) <=> x \in Undecided(Cells)
  <2>1. ASSUME NEW y \in Cells, y.key = x.key, Yielded(y, x)
        PROVE  x \notin Undecided(Cells)
    <3>1. /\ y.run \in 1 .. Len(Runs) /\ x.run \in 1 .. Len(Runs) /\ Len(Runs) \in Nat
          /\ y.key \in DOMAIN Runs[y.run]
          /\ x.key \in Nat
      BY RunsType, CellsAre DEF Keys
    <3>2. y.run \in 1 .. x.run - 1
      BY <2>1, <3>1 DEF Yielded
    <3> QED
      BY <2>1, <3>1, <3>2 DEF Undecided
  <2>2. ASSUME x \notin Undecided(Cells)
        PROVE  \E y \in Cells : y.key = x.key /\ Yielded(y, x)
    <3>1. PICK i \in 1 .. x.run - 1 : x.key \in DOMAIN Runs[i]
      BY <2>2 DEF Undecided
    <3>2. x.run \in 1 .. Len(Runs) /\ Len(Runs) \in Nat
      BY RunsType, CellsAre
    <3>3. i \in 1 .. Len(Runs) /\ i < x.run
      BY <3>2
    <3> DEFINE y == [run |-> i, key |-> x.key, value |-> Runs[i][x.key]]
    <3>4. y \in Cells
      BY <3>1, <3>3, CellsAre
    <3>5. y.key = x.key /\ Yielded(y, x)
      BY <3>3 DEF Yielded
    <3> QED
      BY <3>4, <3>5
  <2> QED
    BY <2>1, <2>2
<1>2. \A x : x \in FirstCells <=> /\ x \in Cells /\ x.value # Tombstone
                                 /\ ~ \E y \in Cells : y.key = x.key /\ Yielded(y, x)
  BY DEF FirstCells
<1>3. \A x : x \in Winners <=> x \in Cells /\ x.value # Tombstone /\ x \in Undecided(Cells)
  BY DEF Winners, Undecided, Columns
<1> QED
  BY <1>1, <1>2, <1>3

\* Where no two columns share a key, or only the oldest run has any, or they were merged
\* before, they are the winners.
LEMMA UnorderedAre ==
  ASSUME TypeOK
  PROVE  /\ Winners \in SUBSET Cells
         /\ Unordered \in SUBSET Cells
         /\ KeepFirst(Unordered) = Winners
         /\ AnyDeleted => Unordered = Winners
         /\ Unordered # Winners => /\ Cardinality(Bounds) > 1
                                   /\ \E x, y \in Unordered : x # y /\ x.key = y.key
<1>1. \A S : KeepFirst(S) = Undecided(S)
  BY DEF KeepFirst, Undecided
<1>2. Undecided(Winners) = Winners
  BY DEF Winners, Undecided
<1>3. Unordered = Winners \/ (Unordered = Columns /\ ~AnyDeleted)
  BY <1>1 DEF Unordered, Winners
<1>4. AnyDeleted => Unordered = Winners
  BY <1>1 DEF Unordered, Winners
<1>5. Winners \in SUBSET Cells /\ Columns \in SUBSET Cells
  BY DEF Winners, Undecided, Columns
<1>6. KeepFirst(Unordered) = Winners
  BY <1>1, <1>2, <1>3 DEF Winners
<1>7. ASSUME Unordered # Winners
      PROVE  /\ Cardinality(Bounds) > 1
             /\ \E x, y \in Unordered : x # y /\ x.key = y.key
  <2>1. Unordered = Columns /\ ~AnyDeleted
    BY <1>3, <1>7
  <2>2. PICK x \in Columns : x \notin Winners
    BY <1>7, <2>1 DEF Winners, Undecided
  <2>3. PICK i \in 1 .. x.run - 1 : x.key \in DOMAIN Runs[i]
    BY <2>2 DEF Winners, Undecided
  <2>4. /\ x.run \in 1 .. Len(Runs) /\ Len(Runs) \in Nat /\ x.key \in DOMAIN Runs[x.run]
        /\ i \in 1 .. Len(Runs) /\ i < x.run
    BY <1>5, <2>2, RunsType, CellsAre
  <2>5. i \in Bounds /\ x.run \in Bounds
    BY <2>3, <2>4 DEF Bounds
  <2>6. Cardinality(Bounds) > 1
    <3>1. Bounds \in SUBSET (1 .. Len(Runs))
      BY DEF Bounds
    <3>2. IsFiniteSet(Bounds)
      <4>1. IsFiniteSet(1 .. Len(Runs))
        BY <2>4, FS_Interval
      <4> QED
        BY <3>1, <4>1, FS_Subset
    <3>3. Cardinality(Bounds) \in Nat /\ Cardinality(Bounds) # 0 /\ Cardinality(Bounds) # 1
      BY <2>4, <2>5, <3>2, FS_CardinalityType, FS_EmptySet, FS_Singleton
    <3> QED
      BY <3>3
  <2>7. Deleted(Runs[i]) = {}
    BY <2>1, <2>4, <2>5 DEF AnyDeleted
  <2> DEFINE y == [run |-> i, key |-> x.key, value |-> Runs[i][x.key]]
  <2>8. y \in Columns
    <3>1. y \in Cells
      BY <2>3, <2>4, CellsAre
    <3>2. Runs[i][x.key] # Tombstone
      BY <2>3, <2>7 DEF Deleted
    <3> QED
      BY <3>1, <3>2 DEF Columns
  <2>9. y # x /\ y.key = x.key
    <3>1. y.run = i /\ y.key = x.key
      OBVIOUS
    <3> QED
      BY <2>4, <3>1
  <2> QED
    BY <2>1, <2>2, <2>6, <2>8, <2>9
<1>8. Unordered \in SUBSET Cells
  BY <1>3, <1>5
<1> QED
  BY <1>4, <1>5, <1>6, <1>7, <1>8

\* load_extents puts the winners in order.
LEMMA ExtentsAreWinners ==
  ASSUME TypeOK
  PROVE  Sorted(LoadExtents, Winners)
<1> DEFINE ordered == InOffsetOrder(Unordered)
<1>1. Sorted(ordered, Unordered)
  BY UnorderedAre, CellsAreRows, OffsetOrderSorts
<1>2. SharesAKey(ordered) <=> \E x, y \in Unordered : x # y /\ x.key = y.key
  BY <1>1, UnorderedAre, CellsAreRows, SharingFound
<1>3. Sorted(InOffsetOrder(Winners), Winners)
  BY UnorderedAre, CellsAreRows, OffsetOrderSorts
<1>4. LoadExtents = IF Cardinality(Bounds) > 1 /\ SharesAKey(ordered)
                    THEN InOffsetOrder(KeepFirst(Unordered))
                    ELSE ordered
  BY DEF LoadExtents
<1> HIDE DEF ordered
<1>5. CASE Unordered = Winners
  BY <1>1, <1>3, <1>4, <1>5, UnorderedAre
<1>6. CASE Unordered # Winners
  BY <1>2, <1>3, <1>4, <1>6, UnorderedAre
<1> QED
  BY <1>5, <1>6

\* Readers of the whole tree return what looking every key up finds.
LEMMA ReadersFindMeant ==
  ASSUME TypeOK, LookupFindsNewest
  PROVE  ExtentsAreNewest /\ ReadersAgree
<1> DEFINE pairs == {<<x.key, x.value>> : x \in Winners}
           s == LoadExtents
<1>1. Present = {<<k, Find(k)>> : k \in {j \in Keys : Find(j) # Missing}}
  BY DEF Present, LookupFindsNewest
<1>2. pairs = Present /\ \A x, y \in Winners : x.key = y.key => x = y
  BY <1>1, WinnersFound
<1>3. Sorted(s, Winners) /\ AreRows(Winners)
  BY ExtentsAreWinners, UnorderedAre, CellsAreRows
<1>4. Cardinality(Present) = Cardinality(Winners)
  <2> DEFINE f == [x \in Winners |-> <<x.key, x.value>>]
  <2>1. f \in Bijection(Winners, Present)
    <3>1. f \in [Winners -> Present]
      BY <1>2
    <3>2. \A x, y \in Winners : f[x] = f[y] => x = y
      BY <1>2
    <3>3. \A p \in Present : \E x \in Winners : f[x] = p
      BY <1>2
    <3> HIDE DEF f
    <3> QED
      BY <3>1, <3>2, <3>3 DEF Bijection, Injection, Surjection, IsInjective
  <2>2. ExistsBijection(Winners, Present)
    BY <2>1 DEF ExistsBijection
  <2> QED
    BY <1>3, <2>2, FS_Bijection DEF AreRows
<1>5. MergesOnce
  <2> SUFFICES ASSUME AnyDeleted
               PROVE  ~SharesAKey(InOffsetOrder(Unordered))
    BY DEF MergesOnce
  <2>1. Unordered = Winners
    BY UnorderedAre
  <2> QED
    BY <1>2, <1>3, <2>1, OffsetOrderSorts, SharingFound
<1>6. ExtentsAreNewest
  <2> HIDE DEF s
  <2>1. {<<s[i].key, s[i].value>> : i \in 1 .. Len(s)} = Present
    <3>1. \A i \in 1 .. Len(s) : s[i] \in Winners
      BY <1>3 DEF Sorted
    <3>2. \A x \in Winners : \E i \in 1 .. Len(s) : s[i] = x
      BY <1>3 DEF Sorted
    <3> QED
      BY <1>2, <3>1, <3>2
  <2>2. Len(s) = Cardinality(Present)
    BY <1>3, <1>4 DEF Sorted
  <2>3. ASSUME NEW i \in 1 .. Len(s) - 1
        PROVE  Position[s[i].key] <= Position[s[i + 1].key]
    <3>1. i \in 1 .. Len(s) /\ i + 1 \in 1 .. Len(s) /\ i < i + 1
      BY <1>3 DEF Sorted
    <3>2. s[i] \in Winners /\ s[i + 1] \in Winners /\ Before(s[i], s[i + 1])
      BY <1>3, <3>1 DEF Sorted
    <3>3. Position[s[i].key] \in Nat /\ Position[s[i + 1].key] \in Nat
      BY <1>3, <3>2, KeysAssumption DEF AreRows
    <3> QED
      BY <3>2, <3>3 DEF Before
  <2> QED
    BY <1>5, <2>1, <2>2, <2>3 DEF ExtentsAreNewest, s
<1>7. LiveIds = {k \in Keys : Find(k) # Missing}
  <2>1. ASSUME NEW k \in LiveIds
        PROVE  k \in Keys /\ Find(k) # Missing
    <3>1. PICK i \in 1 .. Len(Runs) : k \in Alive(Runs[i]) /\ \A j \in 1 .. i - 1 : k \notin DOMAIN Runs[j]
      BY DEF LiveIds
    <3> DEFINE x == [run |-> i, key |-> k, value |-> Runs[i][k]]
    <3>2. x \in Cells
      BY <3>1, CellsAre DEF Alive
    <3>3. x \in Winners /\ x.key = k
      BY <3>1, <3>2 DEF Winners, Undecided, Columns, Alive
    <3>4. <<k, x.value>> \in Present
      BY <3>3, <1>2
    <3>5. PICK j \in {l \in Keys : Find(l) # Missing} : <<k, x.value>> = <<j, Find(j)>>
      BY <3>4, <1>1
    <3>6. k = j
      BY <3>5
    <3> QED
      BY <3>5, <3>6
  <2>2. ASSUME NEW k \in Keys, Find(k) # Missing
        PROVE  k \in LiveIds
    <3>1. PICK x \in Winners : x.key = k
      <4>1. <<k, Find(k)>> \in pairs
        BY <1>1, <1>2, <2>2
      <4> QED
        BY <4>1
    <3>2. /\ x \in Cells /\ x.value # Tombstone
          /\ \A i \in 1 .. x.run - 1 : x.key \notin DOMAIN Runs[i]
      BY DEF Winners, Undecided, Columns
    <3>3. x.run \in 1 .. Len(Runs) /\ k \in Alive(Runs[x.run])
      BY <3>1, <3>2, CellsAre DEF Alive
    <3> QED
      BY <3>1, <3>2, <3>3 DEF LiveIds
  <2> QED
    BY <2>1, <2>2
<1>8. ReadersAgree
  BY <1>1, <1>2, <1>7, FirstAreWinners DEF ReadersAgree
<1> QED
  BY <1>6, <1>8

\* In every state of the tree, load_extents returns what the writer meant, and merges its
\* runs at most once.
THEOREM ExtentsCorrect == Spec => []ExtentsAreNewest
<1>1. TypeOK /\ LookupFindsNewest => ExtentsAreNewest
  BY ReadersFindMeant
<1> QED
  BY <1>1, LookupCorrect, PTL

\* In every state of the tree, going over its keys or its cells gives what lookups give.
THEOREM ReadersCorrect == Spec => []ReadersAgree
<1>1. TypeOK /\ LookupFindsNewest => ReadersAgree
  BY ReadersFindMeant
<1> QED
  BY <1>1, LookupCorrect, PTL

-----------------------------------------------------------------------------
(***************************************************************************)
(* Recovery points                                                         *)
(***************************************************************************)

\* What is assumed of the keys: fields are numbers, and positions put volumes in order.
LEMMA KeysInOrder ==
  /\ \A k \in Keys : /\ ExtentKeys[k].volume \in Nat /\ ExtentKeys[k].offset \in Nat
                     /\ ExtentKeys[k].length \in Nat /\ ExtentKeys[k].slice \in Nat
                     /\ ExtentKeys[k].extent \in Nat
  /\ Values \subseteq Nat
  /\ \A k, j \in Keys :
       Position[k] <= Position[j] => ExtentKeys[k].volume <= ExtentKeys[j].volume
  /\ MaxSlices \in Nat
BY ExtentKeysAssumption, SlicesAssumption

\* The keys that m has a row for, and those of them that a reader of the slices up to a
\* limit finds at a place.
Recorded(m) == {k \in Keys : m[k] # Missing}

Covering(m, limit, p) ==
  {k \in Recorded(m) : ExtentKeys[k].slice <= limit /\ p \in Places(ExtentKeys[k])}

\* Row k is the newest at place p.
NewestRow(m, limit, p, k) ==
  /\ k \in Covering(m, limit, p)
  /\ \A j \in Covering(m, limit, p) : j # k => ExtentKeys[j].slice < ExtentKeys[k].slice

\* Place p holds v, as far as the slices up to the limit tell.
Holds(m, limit, p, v) ==
  IF Covering(m, limit, p) = {} THEN v = Zero
  ELSE \E k \in Keys : NewestRow(m, limit, p, k) /\ v = m[k]

ChainInv ==
  /\ TypeOK
  /\ LookupFindsNewest
  /\ slice \in Nat /\ slice > 0
  /\ backups \in Seq([AllPlaces -> Values \cup {Zero}]) /\ Len(backups) = slice - 1
  /\ volumes \in [AllPlaces -> Values \cup {Zero}]
  /\ points \in Seq(1 .. slice - 1)
  /\ \A k \in Recorded(meant) : ExtentKeys[k].slice <= slice
  /\ \A k, j \in Recorded(meant) :
       k # j /\ ExtentKeys[k].slice = ExtentKeys[j].slice =>
         Places(ExtentKeys[k]) \cap Places(ExtentKeys[j]) = {}
  /\ \A p \in AllPlaces : Holds(meant, slice, p, volumes[p])
  /\ \A i \in 1 .. Len(points), p \in AllPlaces :
       Holds(meant, points[i], p, backups[points[i]][p])

-----------------------------------------------------------------------------
(***************************************************************************)
(* What a stream made of some rows shows.                                  *)
(***************************************************************************)

RowOf(m, k) == Row(ExtentKeys[k], m[k])

\* The rows are those of the keys K, one each, volume by volume; f tells whose they are.
Lists(rows, m, K, f) ==
  /\ K \in SUBSET Keys
  /\ Len(rows) \in Nat
  /\ rows = [i \in 1 .. Len(rows) |-> RowOf(m, f[i])]
  /\ \A i \in 1 .. Len(rows) : f[i] \in K
  /\ \A i, j \in 1 .. Len(rows) : f[i] = f[j] => i = j
  /\ \A k \in K : \E i \in 1 .. Len(rows) : f[i] = k
  /\ \A i, j \in 1 .. Len(rows) : i <= j => rows[i].volume <= rows[j].volume

\* A set of numbers from 1 up to n, with each those below it, is an interval.
LEMMA DownwardInterval ==
  ASSUME NEW n \in Nat, NEW S \in SUBSET (1 .. n),
         \A i \in S : \A j \in 1 .. n : j <= i => j \in S
  PROVE  Cardinality(S) \in 0 .. n /\ S = 1 .. Cardinality(S)
<1> DEFINE none == {i \in Nat : i + 1 \notin S}
<1>1. n \in none
  OBVIOUS
<1>2. PICK c \in none : \A i \in none : c <= i
  BY <1>1, LeastNatural
<1>3. c \in 0 .. n
  BY <1>1, <1>2
<1>4. \A i \in 1 .. c : i \in S
  <2> TAKE i \in 1 .. c
  <2>1. i - 1 \in Nat /\ ~(c <= i - 1) /\ (i - 1) + 1 = i
    BY <1>3
  <2> QED
    BY <2>1, <1>2
<1>5. \A i \in S : i <= c
  <2> SUFFICES ASSUME NEW i \in S, i > c
               PROVE  FALSE
    BY <1>3
  <2>1. c + 1 \in 1 .. n /\ c + 1 <= i
    BY <1>3
  <2> QED
    BY <2>1, <1>2
<1>6. S = 1 .. c
  <2>1. \A i \in S : i \in 1 .. c
    BY <1>3, <1>5
  <2> QED
    BY <1>4, <2>1
<1>7. Cardinality(1 .. c) = c
  BY <1>3, FS_Interval
<1> QED
  BY <1>3, <1>6, <1>7

Rows(rows) ==
  /\ Len(rows) \in Nat
  /\ \A i \in 1 .. Len(rows) : rows[i].volume \in Nat
  /\ \A i, j \in 1 .. Len(rows) : i <= j => rows[i].volume <= rows[j].volume

OfVolume(rows, v) == {i \in 1 .. Len(rows) : rows[i].volume = v}

\* The rows of a volume are all between its first and its last.
LEMMA VolumeBetween ==
  ASSUME NEW rows, Rows(rows), NEW v \in Nat, OfVolume(rows, v) # {}
  PROVE  \E a, b \in 1 .. Len(rows) :
           /\ a <= b
           /\ OfVolume(rows, v) = a .. b
           /\ {x \in VolumeRanges(rows) : x.volume = v} = {[volume |-> v, start |-> a, stop |-> b]}
<1> DEFINE n == Len(rows)
           V == OfVolume(rows, v)
           starts == {i \in 1 .. n : i = 1 \/ rows[i - 1].volume # rows[i].volume}
           stop(i) == Cardinality({j \in 1 .. n : rows[j].volume <= rows[i].volume})
<1>1. VolumeRanges(rows) = {[volume |-> rows[i].volume, start |-> i, stop |-> stop(i)] : i \in starts}
  BY DEF VolumeRanges
<1>2. n \in Nat /\ V \in SUBSET (1 .. n) /\ V # {} /\ V \in SUBSET Nat
  BY DEF Rows, OfVolume
<1>3. PICK a \in V : \A i \in V : a <= i
  BY <1>2, LeastNatural
<1> DEFINE D == {j \in 1 .. n : rows[j].volume <= v}
           b == Cardinality(D)
<1>4. b \in 0 .. n /\ D = 1 .. b
  <2>1. \A i \in D : \A j \in 1 .. n : j <= i => j \in D
    BY DEF Rows
  <2> HIDE DEF D
  <2>2. D \in SUBSET (1 .. n)
    BY DEF D
  <2> QED
    BY <1>2, <2>1, <2>2, DownwardInterval
<1>5. V \in SUBSET D
  BY DEF OfVolume
<1> HIDE DEF b, D
<1>6. a \in 1 .. b /\ b \in 1 .. n
  BY <1>3, <1>4, <1>5
<1>7. V = a .. b
  <2>1. ASSUME NEW i \in V
        PROVE  i \in a .. b
    BY <1>2, <1>3, <1>4, <1>5, <2>1
  <2>2. ASSUME NEW i \in a .. b
        PROVE  i \in V
    <3>1. i \in 1 .. n /\ i \in D /\ a \in 1 .. n /\ a <= i
      BY <1>4, <1>6
    <3>2. rows[i].volume <= v
      BY <3>1 DEF D
    <3>3. rows[a].volume = v /\ rows[a].volume <= rows[i].volume
      BY <1>3, <3>1 DEF OfVolume, Rows
    <3>4. rows[i].volume \in Nat
      BY <3>1 DEF Rows
    <3> QED
      BY <3>1, <3>2, <3>3, <3>4 DEF OfVolume
  <2> QED
    BY <2>1, <2>2
<1>8. a \in starts
  <2>1. a \in 1 .. n /\ rows[a].volume = v
    BY <1>3 DEF OfVolume
  <2>2. ASSUME a # 1
        PROVE  rows[a - 1].volume # v
    <3>1. a - 1 \in 1 .. n /\ ~(a <= a - 1)
      BY <1>2, <2>1, <2>2
    <3>2. a - 1 \notin V
      BY <1>3, <3>1
    <3> QED
      BY <3>1, <3>2 DEF OfVolume
  <2> QED
    BY <2>1, <2>2
<1>9. \A i \in starts : rows[i].volume = v => i = a
  <2> SUFFICES ASSUME NEW i \in starts, rows[i].volume = v, i # a
               PROVE  FALSE
    OBVIOUS
  <2>1. i \in V
    BY DEF OfVolume
  <2>2. a < i /\ a \in 1 .. n /\ i \in 1 .. n
    BY <1>2, <1>3, <2>1
  <2>3. i - 1 \in a .. b
    BY <1>6, <1>7, <2>1, <2>2
  <2>4. rows[i - 1].volume = v
    BY <1>7, <2>3 DEF OfVolume
  <2> QED
    BY <2>2, <2>4
<1>10. stop(a) = b
  <2>1. rows[a].volume = v
    BY <1>3 DEF OfVolume
  <2> QED
    BY <2>1 DEF b, D
<1>11. rows[a].volume = v
  BY <1>3 DEF OfVolume
<1> DEFINE range(i) == [volume |-> rows[i].volume, start |-> i, stop |-> stop(i)]
<1>12. \A i : range(i).volume = rows[i].volume
  OBVIOUS
<1>13. range(a) = [volume |-> v, start |-> a, stop |-> b]
  BY <1>10, <1>11
<1>14. VolumeRanges(rows) = {range(i) : i \in starts}
  BY <1>1
<1> HIDE DEF range, starts, stop
<1>15. {x \in VolumeRanges(rows) : x.volume = v} = {range(a)}
  BY <1>8, <1>9, <1>11, <1>12, <1>14
<1>16. a \in 1 .. n /\ a <= b
  BY <1>6
<1> QED
  BY <1>6, <1>7, <1>13, <1>15, <1>16

\* A volume no row is of has no range.
LEMMA NoRange ==
  ASSUME NEW rows, NEW v, OfVolume(rows, v) = {}
  PROVE  {x \in VolumeRanges(rows) : x.volume = v} = {}
<1> DEFINE starts == {i \in 1 .. Len(rows) : i = 1 \/ rows[i - 1].volume # rows[i].volume}
           stop(i) == Cardinality({j \in 1 .. Len(rows) : rows[j].volume <= rows[i].volume})
           range(i) == [volume |-> rows[i].volume, start |-> i, stop |-> stop(i)]
<1>0. VolumeRanges(rows) = {range(i) : i \in starts}
  BY DEF VolumeRanges
<1>1. \A x \in VolumeRanges(rows) : \E i \in 1 .. Len(rows) : x.volume = rows[i].volume
  <2>1. \A i : range(i).volume = rows[i].volume
    OBVIOUS
  <2>2. \A i \in starts : i \in 1 .. Len(rows)
    OBVIOUS
  <2> HIDE DEF range, starts
  <2> QED
    BY <1>0, <2>1, <2>2
<1> QED
  BY <1>1 DEF OfVolume

\* Of several rows that cover a place, the newest decides.
LEMMA ShownOf ==
  ASSUME NEW m, NEW K, NEW f, NEW rows, Lists(rows, m, K, f), NEW p \in AllPlaces,
         \A k \in K : m[k] \in Nat
  PROVE  /\ (\A k \in K : p \notin Places(ExtentKeys[k])) => Shown(rows, p) = Zero
         /\ \A k \in K :
              /\ p \in Places(ExtentKeys[k])
              /\ \A j \in K : p \in Places(ExtentKeys[j]) /\ j # k =>
                                ExtentKeys[j].slice < ExtentKeys[k].slice
              => Shown(rows, p) = m[k]
<1>1. PICK v \in Nat, b \in Int : p = <<v, b>> /\ p[1] = v /\ p[2] = b
  BY KeysInOrder DEF AllPlaces, Places
<1> DEFINE n == Len(rows)
           Key(i) == ExtentKeys[f[i]]
<1>2. n \in Nat /\ \A i \in 1 .. n : f[i] \in K /\ f[i] \in Keys
  BY DEF Lists
<1>3. \A i \in 1 .. n : /\ rows[i].volume = Key(i).volume /\ rows[i].offset = Key(i).offset
                        /\ rows[i].length = Key(i).length /\ rows[i].slice = Key(i).slice
                        /\ rows[i].segment = m[f[i]] /\ rows[i].extent = Key(i).extent
  BY DEF Lists, RowOf, Row
<1>4. \A i \in 1 .. n : /\ Key(i).volume \in Nat /\ Key(i).offset \in Nat
                        /\ Key(i).length \in Nat /\ Key(i).slice \in Nat
                        /\ Key(i).extent \in Nat
  BY <1>2, KeysInOrder
<1>5. \A i \in 1 .. n : p \in Places(Key(i)) <=> rows[i].volume = v /\ X!Covers(rows, i, b)
  <2> TAKE i \in 1 .. n
  <2>1. p \in Places(Key(i)) <=> Key(i).volume = v /\ b \in Key(i).offset .. Key(i).offset + Key(i).length - 1
    BY <1>1 DEF Places
  <2>2. X!Covers(rows, i, b) <=> Key(i).offset <= b /\ b < Key(i).offset + Key(i).length
    BY <1>3 DEF X!Covers, X!EndOf
  <2>3. Key(i).offset \in Nat /\ Key(i).length \in Nat /\ rows[i].volume = Key(i).volume
    BY <1>3, <1>4
  <2> HIDE DEF Key
  <2>4. b \in Key(i).offset .. Key(i).offset + Key(i).length - 1
          <=> Key(i).offset <= b /\ b < Key(i).offset + Key(i).length
    BY <2>3
  <2> QED
    BY <2>1, <2>2, <2>3, <2>4
<1>6. Rows(rows)
  BY <1>2, <1>3, <1>4 DEF Rows, Lists
<1> HIDE DEF n, Key
<1> DEFINE ranges == {x \in VolumeRanges(rows) : x.volume = p[1]}
           range == CHOOSE x \in ranges : TRUE
           table == SubSeq(rows, range.start, range.stop)
           first == {r \in 1 .. Len(table) : X!Decides(table, r, p[2])}
<1>7. Shown(rows, p) = IF ranges = {} \/ first = {} THEN Zero
                       ELSE table[CHOOSE r \in first : TRUE].segment
  BY SMTT(30) DEF Shown
<1>8. CASE OfVolume(rows, v) = {}
  <2>1. ranges = {}
    BY <1>1, <1>8, NoRange
  <2>2. \A i \in 1 .. n : p \notin Places(Key(i))
    BY <1>5, <1>8 DEF OfVolume, n
  <2>3. \A k \in K : p \notin Places(ExtentKeys[k])
    BY <2>2 DEF Lists, n, Key
  <2> QED
    BY <1>7, <2>1, <2>3
<1>9. CASE OfVolume(rows, v) # {}
  <2>1. PICK a \in 1 .. n, c \in 1 .. n :
          /\ a <= c
          /\ OfVolume(rows, v) = a .. c
          /\ ranges = {[volume |-> v, start |-> a, stop |-> c]}
    BY <1>1, <1>6, <1>9, VolumeBetween DEF n
  <2>2. range.start = a /\ range.stop = c /\ ranges # {}
    <3> HIDE DEF ranges
    <3>1. range \in ranges /\ ranges # {}
      BY <2>1
    <3>2. range = [volume |-> v, start |-> a, stop |-> c]
      BY <2>1, <3>1
    <3> HIDE DEF range
    <3> QED
      BY <3>1, <3>2
  <2> DEFINE rest == c - a + 1
  <2>3. Len(table) = rest /\ \A r \in 1 .. rest : table[r] = rows[a + r - 1]
    <3>1. table = SubSeq(rows, a, c)
      BY <2>2
    <3> HIDE DEF table
    <3>2. a \in Int /\ c \in Int
      BY <1>2
    <3>3. /\ Len(SubSeq(rows, a, c)) = IF a <= c THEN c - a + 1 ELSE 0
          /\ \A i \in 1 .. c - a + 1 : SubSeq(rows, a, c)[i] = rows[a + i - 1]
      BY <3>2
    <3> QED
      BY <2>1, <3>1, <3>3
  <2>4. rest \in Nat /\ \A r \in 1 .. rest : a + r - 1 \in 1 .. n
    BY <1>2, <2>1
  <2> HIDE DEF ranges, table, range
  <2>5. \A r \in 1 .. rest : X!Covers(table, r, b) <=> p \in Places(Key(a + r - 1))
    <3> TAKE r \in 1 .. rest
    <3>1. a + r - 1 \in OfVolume(rows, v) /\ a + r - 1 \in 1 .. n
      BY <1>2, <2>1, <2>4
    <3>2. rows[a + r - 1].volume = v
      BY <3>1 DEF OfVolume
    <3>3. X!Covers(table, r, b) <=> X!Covers(rows, a + r - 1, b)
      BY <2>3 DEF X!Covers
    <3> QED
      BY <1>5, <3>1, <3>2, <3>3
  <2>6. ASSUME NEW k \in K, p \in Places(ExtentKeys[k])
        PROVE  \E r \in 1 .. rest : f[a + r - 1] = k
    <3>1. PICK i \in 1 .. n : f[i] = k
      BY DEF Lists, n
    <3>2. i \in OfVolume(rows, v)
      BY <1>5, <2>6, <3>1 DEF OfVolume, n, Key
    <3>3. i - a + 1 \in 1 .. rest /\ a + (i - a + 1) - 1 = i
      BY <1>2, <2>1, <3>2
    <3> QED
      BY <3>1, <3>3
  <2>7. ASSUME \A k \in K : p \notin Places(ExtentKeys[k])
        PROVE  Shown(rows, p) = Zero
    <3>1. \A r \in 1 .. rest : ~X!Covers(table, r, b)
      BY <1>2, <2>4, <2>5, <2>7 DEF Key
    <3>2. first = {}
      BY <1>1, <2>3, <3>1 DEF X!Decides
    <3> QED
      BY <1>7, <3>2
  <2>8. ASSUME NEW k \in K, p \in Places(ExtentKeys[k]),
               \A j \in K : p \in Places(ExtentKeys[j]) /\ j # k =>
                              ExtentKeys[j].slice < ExtentKeys[k].slice
        PROVE  Shown(rows, p) = m[k]
    <3>1. PICK r \in 1 .. rest : f[a + r - 1] = k
      BY <2>6, <2>8
    <3>2. \A q \in 1 .. rest : X!Covers(table, q, b) /\ q # r => table[q].slice < table[r].slice
      <4> SUFFICES ASSUME NEW q \in 1 .. rest, X!Covers(table, q, b), q # r
                   PROVE  table[q].slice < table[r].slice
        OBVIOUS
      <4>1. a + q - 1 \in 1 .. n /\ a + r - 1 \in 1 .. n /\ a + q - 1 # a + r - 1
        BY <1>2, <2>1, <2>4
      <4>2. f[a + q - 1] # k /\ f[a + q - 1] \in K
        BY <1>2, <3>1, <4>1 DEF Lists, n
      <4>3. p \in Places(ExtentKeys[f[a + q - 1]])
        BY <2>5 DEF Key
      <4>4. ExtentKeys[f[a + q - 1]].slice < ExtentKeys[k].slice
        BY <2>8, <4>2, <4>3
      <4>5. table[q].slice = ExtentKeys[f[a + q - 1]].slice /\ table[r].slice = ExtentKeys[k].slice
        BY <1>3, <2>3, <3>1, <4>1 DEF Key
      <4> QED
        BY <4>4, <4>5
    <3>3. \A q \in 1 .. rest : table[q].slice \in Nat
      BY <1>3, <1>4, <2>3, <2>4, SMTT(30)
    <3>4. X!Covers(table, r, b)
      BY <2>5, <2>8, <3>1 DEF Key
    <3>5. r \in first
      <4> SUFFICES ASSUME NEW q \in 1 .. rest, X!Covers(table, q, b)
                   PROVE  /\ ~X!MoreRecent(table[q], table[r])
                          /\ X!SameRecency(table[q], table[r]) => r <= q
        BY <1>1, <2>3, <3>4 DEF X!Decides
      <4>1. CASE q = r
        <5>1. ~X!MoreRecent(table[r], table[r])
          <6>1. table[r].slice \in Nat /\ table[r].extent \in Nat /\ table[r].segment \in Nat
            <7>1. a + r - 1 \in 1 .. n /\ table[r] = rows[a + r - 1]
              BY <2>3, <2>4
            <7>2. f[a + r - 1] \in K
              BY <1>2, <7>1
            <7> QED
              BY <1>3, <1>4, <7>1, <7>2
          <6> QED
            BY <6>1 DEF X!MoreRecent
        <5> QED
          BY <4>1, <5>1
      <4>2. CASE q # r
        <5>1. table[q].slice < table[r].slice /\ table[q].slice \in Nat /\ table[r].slice \in Nat
          BY <3>2, <3>3, <4>2
        <5> QED
          BY <5>1 DEF X!MoreRecent, X!SameRecency
      <4> QED
        BY <4>1, <4>2
    <3>6. \A q \in first : q = r
      <4> SUFFICES ASSUME NEW q \in first, q # r
                   PROVE  FALSE
        OBVIOUS
      <4>1. q \in 1 .. rest /\ X!Covers(table, q, b) /\ ~X!MoreRecent(table[r], table[q])
        BY <1>1, <2>3, <3>4 DEF X!Decides
      <4>2. table[q].slice < table[r].slice /\ table[q].slice \in Nat /\ table[r].slice \in Nat
        BY <3>2, <3>3, <4>1
      <4> QED
        BY <4>1, <4>2 DEF X!MoreRecent
    <3> HIDE DEF first
    <3>7. (CHOOSE q \in first : TRUE) = r
      BY <3>5, <3>6
    <3>8. table[r].segment = m[k]
      BY <1>3, <2>3, <2>4, <3>1
    <3> QED
      BY <1>7, <2>2, <3>5, <3>7, <3>8
  <2> QED
    BY <2>7, <2>8
<1> QED
  BY <1>8, <1>9

-----------------------------------------------------------------------------
(***************************************************************************)
(* The rows that are read.                                                 *)
(***************************************************************************)

\* All rows are those the writer meant.
LEMMA UnfilteredLists ==
  ASSUME TypeOK, LookupFindsNewest
  PROVE  \E f : Lists(Unfiltered, meant, Recorded(meant), f)
<1> DEFINE s == LoadExtents
           n == Len(s)
           rows == [i \in 1 .. n |-> Row(ExtentKeys[s[i].key], s[i].value)]
           f == [i \in 1 .. n |-> s[i].key]
<1>1. Unfiltered = rows
  BY DEF Unfiltered
<1>2. Sorted(s, Winners) /\ Winners \in SUBSET Cells /\ AreRows(Winners)
  BY ExtentsAreWinners, UnorderedAre, CellsAreRows
<1> HIDE DEF s
<1>3. n \in Nat
  BY <1>2 DEF Sorted
<1>4. \A k \in Keys : Find(k) = meant[k]
  BY DEF LookupFindsNewest
<1>5. /\ {<<x.key, x.value>> : x \in Winners} = {<<k, Find(k)>> : k \in {j \in Keys : Find(j) # Missing}}
      /\ \A x, y \in Winners : x.key = y.key => x = y
  BY WinnersFound
<1>6. \A x \in Winners : x.key \in Recorded(meant) /\ x.value = meant[x.key]
  <2> TAKE x \in Winners
  <2>1. PICK k \in {j \in Keys : Find(j) # Missing} : <<x.key, x.value>> = <<k, Find(k)>>
    BY <1>5
  <2> QED
    BY <1>4, <2>1 DEF Recorded
<1>7. \A k \in Recorded(meant) : \E x \in Winners : x.key = k
  <2> TAKE k \in Recorded(meant)
  <2>1. <<k, Find(k)>> \in {<<x.key, x.value>> : x \in Winners}
    BY <1>4, <1>5 DEF Recorded
  <2> QED
    BY <2>1
<1>8. \A i \in 1 .. n : s[i] \in Winners
  BY <1>2 DEF Sorted
<1>9. Len(rows) = n
  BY <1>3
<1>10. \A i \in 1 .. n : f[i] = s[i].key
  OBVIOUS
<1>11. rows = [i \in 1 .. n |-> RowOf(meant, f[i])]
  <2>1. \A i \in 1 .. n : s[i].key = f[i] /\ s[i].value = meant[f[i]]
    BY <1>6, <1>8
  <2> HIDE DEF f
  <2> QED
    BY <2>1 DEF RowOf
<1>12. \A i \in 1 .. n : f[i] \in Recorded(meant)
  BY <1>6, <1>8
<1>13. \A i, j \in 1 .. n : f[i] = f[j] => i = j
  <2> SUFFICES ASSUME NEW i \in 1 .. n, NEW j \in 1 .. n, f[i] = f[j], i < j
               PROVE  FALSE
    BY <1>3
  <2>1. s[i] = s[j]
    BY <1>5, <1>8
  <2>2. <<s[i], s[j]>> \in Precedes(Winners)
    BY <1>2, <1>8 DEF Sorted, Precedes
  <2> QED
    BY <1>2, <1>8, <2>1, <2>2, BeforeOrders DEF Orders
<1>14. \A k \in Recorded(meant) : \E i \in 1 .. n : f[i] = k
  <2> TAKE k \in Recorded(meant)
  <2>1. PICK x \in Winners : x.key = k
    BY <1>7
  <2>2. PICK i \in 1 .. n : s[i] = x
    BY <1>2 DEF Sorted
  <2> QED
    BY <2>1, <2>2
<1>15. \A i, j \in 1 .. n : i <= j => rows[i].volume <= rows[j].volume
  <2> SUFFICES ASSUME NEW i \in 1 .. n, NEW j \in 1 .. n, i <= j
               PROVE  rows[i].volume <= rows[j].volume
    OBVIOUS
  <2>1. s[i].key \in Keys /\ s[j].key \in Keys
    BY <1>6, <1>8 DEF Recorded
  <2>2. i = j \/ Before(s[i], s[j])
    BY <1>2 DEF Sorted
  <2>3. Position[s[i].key] \in Nat /\ Position[s[j].key] \in Nat
    BY <2>1, KeysAssumption
  <2>4. Position[s[i].key] <= Position[s[j].key]
    BY <2>2, <2>3 DEF Before
  <2>5. ExtentKeys[s[i].key].volume <= ExtentKeys[s[j].key].volume
    BY <2>1, <2>4, KeysInOrder
  <2> QED
    BY <2>5 DEF Row
<1> HIDE DEF n, rows, f
<1>16. Lists(rows, meant, Recorded(meant), f)
  BY <1>3, <1>9, <1>11, <1>12, <1>13, <1>14, <1>15 DEF Lists, Recorded
<1> QED
  BY <1>1, <1>16

\* Selecting rows leaves those of the slices up to the limit.
LEMMA SelectLists ==
  ASSUME NEW rows, NEW m, NEW K, NEW f, Lists(rows, m, K, f), NEW limit \in Nat
  PROVE  \E g : Lists(Select(rows, limit), m, {k \in K : ExtentKeys[k].slice <= limit}, g)
<1> DEFINE n == Len(rows)
           kept == {i \in 1 .. n : rows[i].slice <= limit}
           R == {p \in kept \X kept : p[1] < p[2]}
           place == Place(R, kept)
           nth == [c \in 1 .. Cardinality(kept) |-> CHOOSE i \in kept : place[i] = c]
           selected == [c \in 1 .. Cardinality(kept) |-> rows[nth[c]]]
           g == [c \in 1 .. Cardinality(kept) |-> f[nth[c]]]
           left == {k \in K : ExtentKeys[k].slice <= limit}
<1>1. Select(rows, limit) = selected
  <2>1. \A i \in kept : Lower(R, kept, i) = {j \in kept : j < i}
    BY DEF Lower
  <2>2. place = [i \in kept |-> 1 + Cardinality({j \in kept : j < i})]
    BY <2>1 DEF Place
  <2> HIDE DEF place
  <2>3. Select(rows, limit) = [c \in 1 .. Cardinality(kept) |-> rows[CHOOSE i \in kept : place[i] = c]]
    BY <2>2 DEF Select
  <2>4. \A c \in 1 .. Cardinality(kept) : nth[c] = CHOOSE i \in kept : place[i] = c
    OBVIOUS
  <2> HIDE DEF nth, kept
  <2> QED
    BY <2>3, <2>4
<1>2. n \in Nat /\ \A i \in 1 .. n : rows[i] = RowOf(m, f[i]) /\ f[i] \in K /\ f[i] \in Keys
  BY DEF Lists
<1>3. \A i \in 1 .. n : rows[i].slice = ExtentKeys[f[i]].slice
  <2>1. \A k : RowOf(m, k).slice = ExtentKeys[k].slice
    BY DEF RowOf, Row
  <2> QED
    BY <1>2, <2>1
<1>4. IsFiniteSet(kept) /\ Cardinality(kept) \in Nat
  <2>1. IsFiniteSet(1 .. n) /\ kept \in SUBSET (1 .. n)
    BY <1>2, FS_Interval
  <2>2. IsFiniteSet(kept)
    BY <2>1, FS_Subset
  <2> QED
    BY <2>2, FS_CardinalityType
<1>5. Orders(R, kept)
  BY <1>2 DEF Orders
<1>6. \A i \in kept : i \in 1 .. n /\ i \in Nat /\ f[i] \in left
  BY <1>2, <1>3
<1>7. \A i \in 1 .. n : f[i] \in left => i \in kept
  BY <1>3
<1>8. \A i, j \in kept : <<i, j>> \in R <=> i < j
  OBVIOUS
<1> HIDE DEF n, kept, R
<1>9. /\ place \in [kept -> 1 .. Cardinality(kept)]
      /\ \A i, j \in kept : place[i] < place[j] <=> <<i, j>> \in R
      /\ \A i, j \in kept : place[i] = place[j] => i = j
      /\ \A c \in 1 .. Cardinality(kept) : \E i \in kept : place[i] = c
  BY <1>4, <1>5, PlacesInOrder
<1> HIDE DEF place
<1>10. \A c \in 1 .. Cardinality(kept) : nth[c] \in kept /\ place[nth[c]] = c
  BY <1>9
<1>11. Len(selected) = Cardinality(kept)
  BY <1>4
<1>12. \A c \in 1 .. Cardinality(kept) : selected[c] = rows[nth[c]] /\ g[c] = f[nth[c]]
  OBVIOUS
<1> HIDE DEF nth
<1>13. selected = [c \in 1 .. Cardinality(kept) |-> RowOf(m, g[c])]
  BY <1>2, <1>6, <1>10
<1> HIDE DEF selected, g, left
<1>14. \A c \in 1 .. Cardinality(kept) : g[c] \in left
  BY <1>6, <1>10, <1>12
<1>15. ASSUME NEW c \in 1 .. Cardinality(kept), NEW d \in 1 .. Cardinality(kept), g[c] = g[d]
       PROVE  c = d
  <2>1. nth[c] \in 1 .. n /\ nth[d] \in 1 .. n /\ f[nth[c]] = f[nth[d]]
    BY <1>6, <1>10, <1>12, <1>15
  <2>2. nth[c] = nth[d]
    BY <2>1 DEF Lists, n
  <2> QED
    BY <1>10, <2>2
<1>16. ASSUME NEW k \in left
       PROVE  \E c \in 1 .. Cardinality(kept) : g[c] = k
  <2>1. PICK i \in 1 .. n : f[i] = k
    BY DEF Lists, n, left
  <2>2. i \in kept /\ place[i] \in 1 .. Cardinality(kept)
    BY <1>7, <1>9, <2>1
  <2>3. nth[place[i]] = i
    BY <1>9, <1>10, <2>2
  <2> QED
    BY <1>12, <2>1, <2>2, <2>3
<1>17. ASSUME NEW c \in 1 .. Cardinality(kept), NEW d \in 1 .. Cardinality(kept), c <= d
       PROVE  selected[c].volume <= selected[d].volume
  <2>1. nth[c] \in 1 .. n /\ nth[d] \in 1 .. n /\ nth[c] \in Nat /\ nth[d] \in Nat
    BY <1>6, <1>10
  <2>2. nth[c] <= nth[d]
    <3>1. ~(nth[d] < nth[c])
      <4>1. nth[d] < nth[c] => place[nth[d]] < place[nth[c]]
        BY <1>8, <1>9, <1>10
      <4> QED
        BY <1>4, <1>10, <1>17, <4>1
    <3> QED
      BY <2>1, <3>1
  <2>3. rows[nth[c]].volume <= rows[nth[d]].volume
    BY <2>1, <2>2 DEF Lists, n
  <2> QED
    BY <1>12, <2>3
<1>18. Lists(selected, m, left, g)
  <2>1. left \in SUBSET Keys
    BY DEF left, Lists
  <2> QED
    BY <1>4, <1>11, <1>13, <1>14, <1>15, <1>16, <1>17, <2>1 DEF Lists
<1> QED
  BY <1>1, <1>18 DEF left

\* A reader of the slices up to a limit is shown what they record.
LEMMA ShownHolds ==
  ASSUME NEW rows, NEW m \in [Keys -> Values \cup {Missing}], NEW limit, NEW f,
         Lists(rows, m, {k \in Recorded(m) : ExtentKeys[k].slice <= limit}, f),
         NEW p \in AllPlaces, NEW v, Holds(m, limit, p, v)
  PROVE  Shown(rows, p) = v
<1> DEFINE K == {k \in Recorded(m) : ExtentKeys[k].slice <= limit}
<1>1. \A k \in K : m[k] \in Nat
  BY KeysInOrder DEF Recorded
<1>2. \A k : k \in Covering(m, limit, p) <=> k \in K /\ p \in Places(ExtentKeys[k])
  BY DEF Covering
<1>3. Lists(rows, m, K, f)
  OBVIOUS
<1> HIDE DEF K
<1>4. CASE Covering(m, limit, p) = {}
  BY <1>1, <1>2, <1>3, <1>4, ShownOf DEF Holds
<1>5. CASE Covering(m, limit, p) # {}
  <2>1. PICK k \in Keys : NewestRow(m, limit, p, k) /\ v = m[k]
    BY <1>5 DEF Holds
  <2>2. /\ k \in K /\ p \in Places(ExtentKeys[k])
        /\ \A j \in K : p \in Places(ExtentKeys[j]) /\ j # k =>
                          ExtentKeys[j].slice < ExtentKeys[k].slice
    BY <1>2, <2>1 DEF NewestRow
  <2> QED
    BY <1>1, <1>3, <2>1, <2>2, ShownOf
<1> QED
  BY <1>4, <1>5

\* The points, and the latest state, are shown as they were backed up.
LEMMA InvShows ==
  ASSUME ChainInv
  PROVE  PointsAsBackedUp
<1>1. meant \in [Keys -> Values \cup {Missing}] /\ TypeOK /\ LookupFindsNewest
  BY DEF ChainInv, TypeOK
<1>2. PICK f : Lists(Unfiltered, meant, Recorded(meant), f)
  BY <1>1, UnfilteredLists
<1>3. ASSUME NEW i \in 1 .. Len(points), NEW p \in AllPlaces
      PROVE  Shown(RowsAt(i), p) = backups[points[i]][p]
  <2>1. points[i] \in Nat
    <3>1. points[i] \in 1 .. slice - 1 /\ slice \in Nat
      BY DEF ChainInv
    <3> QED
      BY <3>1
  <2>2. PICK g : Lists(RowsAt(i), meant, {k \in Recorded(meant) : ExtentKeys[k].slice <= points[i]}, g)
    BY <1>2, <2>1, SelectLists DEF RowsAt, Limit
  <2>3. Holds(meant, points[i], p, backups[points[i]][p])
    BY DEF ChainInv
  <2> QED
    BY <1>1, <2>2, <2>3, ShownHolds
<1>4. ASSUME NEW p \in AllPlaces
      PROVE  Shown(Latest, p) = volumes[p]
  <2>1. Recorded(meant) = {k \in Recorded(meant) : ExtentKeys[k].slice <= slice}
    BY DEF ChainInv
  <2>2. Lists(Latest, meant, {k \in Recorded(meant) : ExtentKeys[k].slice <= slice}, f)
    BY <1>2, <2>1 DEF Latest
  <2>3. Holds(meant, slice, p, volumes[p])
    BY DEF ChainInv
  <2> QED
    BY <1>1, <2>2, <2>3, ShownHolds
<1> QED
  BY <1>3, <1>4 DEF PointsAsBackedUp

-----------------------------------------------------------------------------
(***************************************************************************)
(* What the writer keeps true.                                             *)
(***************************************************************************)

\* What the places hold does not change with what is the same at them.
LEMMA SameHolds ==
  ASSUME NEW m, NEW l, NEW m2, NEW l2, NEW p, NEW v, Holds(m, l, p, v),
         Covering(m2, l2, p) = Covering(m, l, p),
         \A k \in Covering(m, l, p) : m2[k] = m[k]
  PROVE  Holds(m2, l2, p, v)
BY DEF Holds, NewestRow

\* A place holds what is recorded for it, if no row of so new a slice is there yet.
LEMMA RecordHolds ==
  ASSUME NEW m, NEW k \in Keys, NEW v \in Values, NEW m2, m2 = [m EXCEPT ![k] = v],
         m \in [Keys -> Values \cup {Missing}],
         NEW p, NEW limit, p \in Places(ExtentKeys[k]), ExtentKeys[k].slice <= limit,
         \A j \in Covering(m, limit, p) : ExtentKeys[j].slice < ExtentKeys[k].slice
  PROVE  Holds(m2, limit, p, v)
<1>1. m2[k] = v /\ v # Missing /\ \A j \in Keys : j # k => m2[j] = m[j]
  BY ValuesAssumption
<1>2. k \in Covering(m2, limit, p)
  BY <1>1 DEF Covering, Recorded
<1>3. \A j \in Covering(m2, limit, p) : j # k => j \in Covering(m, limit, p)
  BY <1>1 DEF Covering, Recorded
<1> QED
  BY <1>1, <1>2, <1>3 DEF Holds, NewestRow

\* Deleting a row that another one is newer than changes nothing that is held.
LEMMA DeleteHolds ==
  ASSUME NEW m, NEW k \in Keys, NEW m2, m2 = [m EXCEPT ![k] = Missing],
         m \in [Keys -> Values \cup {Missing}],
         NEW p, NEW limit, NEW v, Holds(m, limit, p, v),
         k \in Covering(m, limit, p) =>
           \E j \in Covering(m, limit, p) : ~(ExtentKeys[j].slice <= ExtentKeys[k].slice),
         \A j \in Keys : ExtentKeys[j].slice \in Nat
  PROVE  Holds(m2, limit, p, v)
<1>1. m2[k] = Missing /\ \A j \in Keys : j # k => m2[j] = m[j]
  OBVIOUS
<1>2. Covering(m2, limit, p) = Covering(m, limit, p) \ {k}
  BY <1>1 DEF Covering, Recorded
<1>3. CASE k \notin Covering(m, limit, p)
  <2>1. Covering(m2, limit, p) = Covering(m, limit, p)
    BY <1>2, <1>3
  <2>2. \A j \in Covering(m, limit, p) : m2[j] = m[j]
    BY <1>1, <1>3 DEF Covering, Recorded
  <2> QED
    BY <2>1, <2>2, SameHolds
<1>4. CASE k \in Covering(m, limit, p)
  <2>1. PICK t \in Keys : NewestRow(m, limit, p, t) /\ v = m[t]
    BY <1>4 DEF Holds
  <2>2. PICK j \in Covering(m, limit, p) : ~(ExtentKeys[j].slice <= ExtentKeys[k].slice)
    BY <1>4
  <2>3. t # k
    <3>1. j \in Keys /\ ExtentKeys[j].slice \in Nat /\ ExtentKeys[k].slice \in Nat
      BY DEF Covering, Recorded
    <3>2. j # k
      BY <2>2, <3>1
    <3> QED
      BY <2>1, <2>2, <3>1, <3>2 DEF NewestRow
  <2>4. NewestRow(m2, limit, p, t) /\ m2[t] = v
    BY <1>1, <1>2, <2>1, <2>3 DEF NewestRow
  <2> QED
    BY <2>4 DEF Holds, NewestRow
<1> QED
  BY <1>3, <1>4

\* Whatever the writer does to its tree is a step of the tree.
LEMMA TreeStep ==
  ASSUME ChainInv, [ChainNext]_chainVars
  PROVE  TypeOK' /\ LookupFindsNewest'
<1>1. [Next]_vars
  BY DEF ChainNext, chainVars, Record, Finish, CleanUp, Prune, Next, vars, Put, Delete, Write
<1> QED
  BY <1>1, LookupStep DEF ChainInv

LEMMA ChainInit_Inv ==
  ASSUME ChainInit
  PROVE  ChainInv
<1>1. TypeOK /\ LookupFindsNewest
  BY LookupInit DEF ChainInit
<1>2. Recorded(meant) = {}
  BY DEF ChainInit, Init, Recorded
<1>3. points = <<>> /\ backups = <<>> /\ slice = 1 /\ volumes = [p \in AllPlaces |-> Zero]
  BY DEF ChainInit
<1>4. \A p \in AllPlaces : Holds(meant, slice, p, volumes[p])
  BY <1>2, <1>3 DEF Holds, Covering
<1> QED
  BY <1>1, <1>2, <1>3, <1>4 DEF ChainInv

\* A new row is held where it lies; the points that there are do not read so far.
LEMMA RecordStep ==
  ASSUME ChainInv, Record
  PROVE  ChainInv'
<1>1. PICK k \in Keys, v \in Values :
        /\ ExtentKeys[k].slice = slice
        /\ \A j \in Keys :
             ExtentKeys[j].slice = slice /\ meant[j] # Missing =>
               j < k /\ Places(ExtentKeys[j]) \cap Places(ExtentKeys[k]) = {}
        /\ meant' = [meant EXCEPT ![k] = v]
        /\ volumes' = [p \in AllPlaces |-> IF p \in Places(ExtentKeys[k]) THEN v ELSE volumes[p]]
  BY DEF Record
<1>2. UNCHANGED <<points, slice, backups>>
  BY DEF Record
<1>3. TypeOK' /\ LookupFindsNewest'
  BY TreeStep DEF ChainNext
<1>4. meant \in [Keys -> Values \cup {Missing}]
  BY DEF ChainInv, TypeOK
<1>5. slice \in Nat /\ \A j \in Keys : ExtentKeys[j].slice \in Nat
  BY KeysInOrder DEF ChainInv
<1>6. meant'[k] = v /\ v # Missing /\ \A j \in Keys : j # k => meant'[j] = meant[j]
  BY <1>1, <1>4, ValuesAssumption
<1>7. k \notin Recorded(meant)
  BY <1>1, <1>5 DEF Recorded, Keys
<1>8. Recorded(meant') = Recorded(meant) \cup {k}
  BY <1>6 DEF Recorded
<1>9. \A j \in Recorded(meant) : ExtentKeys[j].slice <= slice
  BY DEF ChainInv
<1>10. \A j \in Recorded(meant') : ExtentKeys[j].slice <= slice'
  BY <1>1, <1>2, <1>5, <1>8, <1>9
<1>11. \A i, j \in Recorded(meant') :
         i # j /\ ExtentKeys[i].slice = ExtentKeys[j].slice =>
           Places(ExtentKeys[i]) \cap Places(ExtentKeys[j]) = {}
  <2>1. \A i, j \in Recorded(meant) :
          i # j /\ ExtentKeys[i].slice = ExtentKeys[j].slice =>
            Places(ExtentKeys[i]) \cap Places(ExtentKeys[j]) = {}
    BY DEF ChainInv
  <2>2. \A j \in Recorded(meant) :
          ExtentKeys[j].slice = slice => Places(ExtentKeys[j]) \cap Places(ExtentKeys[k]) = {}
    BY <1>1 DEF Recorded
  <2> QED
    BY <1>1, <1>8, <2>1, <2>2
<1>12. ASSUME NEW p \in AllPlaces
       PROVE  Holds(meant', slice', p, volumes'[p])
  <2>1. Holds(meant, slice, p, volumes[p])
    BY DEF ChainInv
  <2>2. CASE p \in Places(ExtentKeys[k])
    <3>1. \A j \in Covering(meant, slice, p) : ExtentKeys[j].slice < ExtentKeys[k].slice
      <4> TAKE j \in Covering(meant, slice, p)
      <4>1. j \in Recorded(meant) /\ j \in Keys /\ p \in Places(ExtentKeys[j])
        BY DEF Covering, Recorded
      <4>2. ExtentKeys[j].slice # slice
        BY <1>1, <2>2, <4>1 DEF Recorded
      <4> QED
        BY <1>1, <1>5, <1>9, <4>1, <4>2
    <3>2. volumes'[p] = v
      BY <1>1, <2>2
    <3>3. ExtentKeys[k].slice <= slice
      BY <1>1, <1>5
    <3> QED
      BY <1>1, <1>2, <1>4, <2>2, <3>1, <3>2, <3>3, RecordHolds
  <2>3. CASE p \notin Places(ExtentKeys[k])
    <3>1. Covering(meant', slice', p) = Covering(meant, slice, p)
      BY <1>2, <1>8, <2>3 DEF Covering
    <3>2. \A j \in Covering(meant, slice, p) : meant'[j] = meant[j]
      BY <1>6, <1>7 DEF Covering, Recorded
    <3>3. volumes'[p] = volumes[p]
      BY <1>1, <2>3
    <3> QED
      BY <2>1, <3>1, <3>2, <3>3, SameHolds
  <2> QED
    BY <2>2, <2>3
<1>13. ASSUME NEW i \in 1 .. Len(points), NEW p \in AllPlaces
       PROVE  Holds(meant', points[i], p, backups[points[i]][p])
  <2>1. Holds(meant, points[i], p, backups[points[i]][p])
    BY DEF ChainInv
  <2>2. points[i] \in Nat /\ points[i] < slice
    <3>1. points[i] \in 1 .. slice - 1
      BY DEF ChainInv
    <3> QED
      BY <1>5, <3>1
  <2>3. ~(ExtentKeys[k].slice <= points[i])
    BY <1>1, <1>5, <2>2
  <2>4. Covering(meant', points[i], p) = Covering(meant, points[i], p)
    BY <1>8, <2>3 DEF Covering
  <2>5. \A j \in Covering(meant, points[i], p) : meant'[j] = meant[j]
    BY <1>6, <1>7 DEF Covering, Recorded
  <2> QED
    BY <2>1, <2>4, <2>5, SameHolds
<1>14. volumes' \in [AllPlaces -> Values \cup {Zero}]
  <2>1. volumes \in [AllPlaces -> Values \cup {Zero}]
    BY DEF ChainInv
  <2> QED
    BY <1>1, <2>1
<1> QED
  BY <1>2, <1>3, <1>10, <1>11, <1>12, <1>13, <1>14 DEF ChainInv

\* What the volumes hold when a backup is finished is what its point shows.
LEMMA FinishStep ==
  ASSUME ChainInv, Finish
  PROVE  ChainInv'
<1>1. /\ points' = Append(points, slice)
      /\ backups' = Append(backups, volumes)
      /\ slice' = slice + 1
      /\ meant' = meant /\ volumes' = volumes
  BY DEF Finish
<1>2. TypeOK' /\ LookupFindsNewest'
  BY TreeStep DEF ChainNext
<1>3. /\ slice \in Nat /\ slice > 0
      /\ backups \in Seq([AllPlaces -> Values \cup {Zero}]) /\ Len(backups) = slice - 1
      /\ volumes \in [AllPlaces -> Values \cup {Zero}]
      /\ points \in Seq(1 .. slice - 1)
      /\ \A k \in Recorded(meant) : ExtentKeys[k].slice <= slice
  BY DEF ChainInv
<1>4. \A k \in Keys : ExtentKeys[k].slice \in Nat
  BY KeysInOrder
<1>5. \A k \in Recorded(meant) : ExtentKeys[k].slice <= slice'
  BY <1>1, <1>3, <1>4 DEF Recorded
<1>6. backups' \in Seq([AllPlaces -> Values \cup {Zero}]) /\ Len(backups') = slice' - 1
  BY <1>1, <1>3
<1>7. points' \in Seq(1 .. slice' - 1)
  <2>1. points \in Seq(1 .. slice)
    <3>1. \A i \in 1 .. Len(points) : points[i] \in 1 .. slice
      BY <1>3
    <3> QED
      BY <1>3, <3>1
  <2>2. slice' - 1 = slice /\ slice \in 1 .. slice
    BY <1>1, <1>3
  <2> QED
    BY <1>1, <2>1, <2>2
<1>8. ASSUME NEW p \in AllPlaces
      PROVE  Holds(meant', slice', p, volumes'[p])
  <2>1. Holds(meant, slice, p, volumes[p])
    BY DEF ChainInv
  <2>2. Covering(meant', slice', p) = Covering(meant, slice, p)
    BY <1>1, <1>3, <1>5 DEF Covering
  <2> QED
    BY <1>1, <2>1, <2>2, SameHolds
<1>9. ASSUME NEW i \in 1 .. Len(points'), NEW p \in AllPlaces
      PROVE  Holds(meant', points'[i], p, backups'[points'[i]][p])
  <2>1. CASE i = Len(points) + 1
    <3>1. points'[i] = slice /\ backups'[slice] = volumes
      BY <1>1, <1>3, <2>1
    <3>2. Holds(meant, slice, p, volumes[p])
      BY DEF ChainInv
    <3> QED
      BY <1>1, <3>1, <3>2
  <2>2. CASE i # Len(points) + 1
    <3>1. i \in 1 .. Len(points) /\ points'[i] = points[i] /\ points[i] \in 1 .. slice - 1
      BY <1>1, <1>3, <2>2
    <3>2. backups'[points[i]] = backups[points[i]]
      BY <1>1, <1>3, <3>1
    <3>3. Holds(meant, points[i], p, backups[points[i]][p])
      BY <3>1 DEF ChainInv
    <3> QED
      BY <1>1, <3>1, <3>2, <3>3
  <2> QED
    BY <2>1, <2>2
<1>10. \A k, j \in Recorded(meant) :
         k # j /\ ExtentKeys[k].slice = ExtentKeys[j].slice =>
           Places(ExtentKeys[k]) \cap Places(ExtentKeys[j]) = {}
  BY DEF ChainInv
<1>11. slice' \in Nat /\ slice' > 0
  BY <1>1, <1>3
<1> QED
  BY <1>1, <1>2, <1>3, <1>5, <1>6, <1>7, <1>8, <1>9, <1>10, <1>11 DEF ChainInv

\* Of a sequence, an element less.
LEMMA RemovedAt ==
  ASSUME NEW S, NEW s \in Seq(S), NEW i \in 1 .. Len(s)
  PROVE  /\ RemoveAt(s, i) \in Seq(S)
         /\ \A j \in 1 .. Len(RemoveAt(s, i)) : \E l \in 1 .. Len(s) : RemoveAt(s, i)[j] = s[l]
<1> DEFINE n == Len(s)
           T == {s[l] : l \in 1 .. n}
<1>1. n \in Nat /\ T \in SUBSET S
  OBVIOUS
<1>2. SubSeq(s, 1, i - 1) \in Seq(T)
  <2>1. \A l \in 1 .. i - 1 : s[l] \in T
    OBVIOUS
  <2> HIDE DEF T
  <2>2. 1 \in Int /\ i - 1 \in Int
    OBVIOUS
  <2> QED
    BY <2>1, <2>2, SubSeqProperties
<1>3. SubSeq(s, i + 1, n) \in Seq(T)
  <2>1. \A l \in i + 1 .. n : s[l] \in T
    OBVIOUS
  <2>2. i + 1 \in Int /\ n \in Int
    OBVIOUS
  <2> HIDE DEF T, n
  <2> QED
    BY <2>1, <2>2, SubSeqProperties
<1>4. RemoveAt(s, i) \in Seq(T)
  BY <1>2, <1>3 DEF RemoveAt
<1> HIDE DEF n
<1>5. \A j \in 1 .. Len(RemoveAt(s, i)) : RemoveAt(s, i)[j] \in T
  BY <1>4
<1>6. RemoveAt(s, i) \in Seq(S)
  <2> HIDE DEF T
  <2>1. \A j \in 1 .. Len(RemoveAt(s, i)) : RemoveAt(s, i)[j] \in S
    BY <1>1, <1>5
  <2> QED
    BY <1>4, <2>1
<1> QED
  BY <1>5, <1>6 DEF n

\* The points that are left are points there were.
LEMMA CleanUpStep ==
  ASSUME ChainInv, CleanUp
  PROVE  ChainInv'
<1>1. PICK i \in 1 .. Len(points) - 1 : points' = RemoveAt(points, i)
  BY DEF CleanUp
<1>2. UNCHANGED <<memtree, ctrees, meant, slice, volumes, backups>>
  BY DEF CleanUp
<1>3. TypeOK' /\ LookupFindsNewest'
  BY TreeStep DEF ChainNext
<1>4. points \in Seq(1 .. slice - 1) /\ Len(points) \in Nat
  BY DEF ChainInv
<1>5. /\ points' \in Seq(1 .. slice - 1)
      /\ \A j \in 1 .. Len(points') : \E l \in 1 .. Len(points) : points'[j] = points[l]
  BY <1>1, <1>4, RemovedAt
<1>6. \A j \in 1 .. Len(points'), p \in AllPlaces :
        Holds(meant, points'[j], p, backups[points'[j]][p])
  BY <1>5 DEF ChainInv
<1> QED
  BY <1>2, <1>3, <1>5, <1>6 DEF ChainInv

\* A row that is deleted was not the newest anywhere for any point.
LEMMA PruneStep ==
  ASSUME ChainInv, Prune
  PROVE  ChainInv'
<1>1. PICK k \in Keys : ~Needed(k) /\ meant' = [meant EXCEPT ![k] = Missing]
  BY DEF Prune
<1>2. UNCHANGED <<points, slice, volumes, backups>>
  BY DEF Prune
<1>3. TypeOK' /\ LookupFindsNewest'
  BY TreeStep DEF ChainNext
<1>4. meant \in [Keys -> Values \cup {Missing}]
  BY DEF ChainInv, TypeOK
<1>5. \A j \in Keys : ExtentKeys[j].slice \in Nat
  BY KeysInOrder
<1>6. Recorded(meant') \in SUBSET Recorded(meant)
  BY <1>1, <1>4 DEF Recorded
<1>7. ASSUME NEW limit \in ToSet(points) \cup {slice}, NEW p, NEW v, Holds(meant, limit, p, v)
      PROVE  Holds(meant', limit, p, v)
  <2>1. ASSUME k \in Covering(meant, limit, p)
        PROVE  \E j \in Covering(meant, limit, p) : ~(ExtentKeys[j].slice <= ExtentKeys[k].slice)
    <3>1. p \in Places(ExtentKeys[k])
      BY <2>1 DEF Covering
    <3>2. Covering(meant, limit, p) =
            {j \in Keys : /\ meant[j] # Missing /\ ExtentKeys[j].slice <= limit
                          /\ p \in Places(ExtentKeys[j])}
      BY DEF Covering, Recorded
    <3> QED
      BY <1>1, <2>1, <3>1, <3>2 DEF Needed
  <2> QED
    BY <1>1, <1>4, <1>5, <1>7, <2>1, DeleteHolds
<1>8. \A i \in 1 .. Len(points) : points[i] \in ToSet(points)
  <2>1. points \in Seq(1 .. slice - 1)
    BY DEF ChainInv
  <2> QED
    BY <2>1 DEF ToSet
<1>9. \A p \in AllPlaces : Holds(meant', slice', p, volumes'[p])
  BY <1>2, <1>7 DEF ChainInv
<1>10. \A i \in 1 .. Len(points'), p \in AllPlaces : Holds(meant', points'[i], p, backups'[points'[i]][p])
  BY <1>2, <1>7, <1>8 DEF ChainInv
<1> QED
  BY <1>2, <1>3, <1>6, <1>9, <1>10 DEF ChainInv

\* Every point that is left shows the volumes as they were backed up, for any extents, values
\* and number of backups, through every cleanup, flush and merge.
THEOREM PointsCorrect == ChainSpec => []PointsAsBackedUp
<1>1. ChainInit => ChainInv
  BY ChainInit_Inv
<1>2. ChainInv /\ [ChainNext]_chainVars => ChainInv'
  <2> SUFFICES ASSUME ChainInv, [ChainNext]_chainVars
               PROVE  ChainInv'
    OBVIOUS
  <2>1. CASE Record
    BY <2>1, RecordStep
  <2>2. CASE Finish
    BY <2>2, FinishStep
  <2>3. CASE CleanUp
    BY <2>3, CleanUpStep
  <2>4. CASE Prune
    BY <2>4, PruneStep
  <2>5. CASE (Flush \/ Compact) /\ UNCHANGED <<points, slice, volumes, backups>>
    <3>1. meant' = meant
      BY <2>5 DEF Flush, Compact
    <3> QED
      BY <2>5, <3>1, TreeStep DEF ChainInv
  <2>6. CASE UNCHANGED chainVars
    BY <2>6, TreeStep DEF ChainInv, chainVars
  <2> QED
    BY <2>1, <2>2, <2>3, <2>4, <2>5, <2>6 DEF ChainNext
<1>3. ChainInv => PointsAsBackedUp
  BY InvShows
<1> QED
  BY <1>1, <1>2, <1>3, PTL DEF ChainSpec
=============================================================================
