------------------------------ MODULE VbkProofs ------------------------------
(***************************************************************************)
(* That a read of any file in a VBK file gives every block as it was       *)
(* stored, that any path leads to its item, and that the properties of an  *)
(* item are read as they were written, if they fit on a page.              *)
(***************************************************************************)
EXTENDS Streams, SumLemmas

-----------------------------------------------------------------------------
(***************************************************************************)
(* Vectors, and the blocks of a file that they list                        *)
(***************************************************************************)

\* A multiple of a number is divided by it without a rest, and what is less has no part in it.
LEMMA Multiple ==
  ASSUME NEW k \in Nat, NEW n \in Nat \ {0}, NEW r \in 0 .. n - 1
  PROVE  (k * n + r) \div n = k /\ (k * n + r) % n = r
<1> DEFINE q == (k * n + r) \div n
           s == (k * n + r) % n
<1>0. k * n \in Nat /\ k * n + r \in Nat
  OBVIOUS
<1>1. q \in Nat /\ s \in 0 .. n - 1 /\ k * n + r = q * n + s
  BY <1>0, Divided
<1> HIDE DEF q, s
<1>2. q = k
  <2>1. q * n \in Int /\ (q + 1) * n = q * n + n /\ (k + 1) * n = k * n + n
    BY <1>1, Stepped
  <2>2. ~(q < k)
    <3>1. q < k => q + 1 <= k
      BY <1>1
    <3>2. q + 1 <= k => (q + 1) * n <= k * n
      <4>1. q + 1 < k => (q + 1) * n < k * n
        BY <1>1, ProductOrder
      <4> QED
        BY <1>0, <1>1, <2>1, <4>1
    <3> QED
      BY <1>0, <1>1, <2>1, <3>1, <3>2
  <2>3. ~(k < q)
    <3>1. k < q => k + 1 <= q
      BY <1>1
    <3>2. k + 1 <= q => (k + 1) * n <= q * n
      <4>1. k + 1 < q => (k + 1) * n < q * n
        BY <1>1, ProductOrder
      <4> QED
        BY <1>0, <1>1, <2>1, <4>1
    <3> QED
      BY <1>0, <1>1, <2>1, <3>1, <3>2
  <2> QED
    BY <1>1, <2>2, <2>3
<1>3. s = r
  BY <1>0, <1>1, <1>2
<1> QED
  BY <1>2, <1>3 DEF q, s

\* How many pages of entries the pages of a table before page i list, but for the one that the
\* first of them lists less.
Listed(i) == i * PAGE_SIZE - i - 3 * ((i + 1) \div 3)

\* Each page of a table lists the pages behind those that the one before it lists.
LEMMA ListedSteps ==
  ASSUME PAGE_SIZE \in Nat, PAGE_SIZE > 4, NEW i \in Nat
  PROVE  /\ Listed(i) \in Nat /\ VbkReader!MaxEntries(i) \in 1 .. PAGE_SIZE
         /\ Listed(i + 1) = Listed(i) + VbkReader!MaxEntries(i)
         /\ Listed(0) = 0 /\ Listed(1) = PAGE_SIZE - 1 /\ i <= Listed(i)
         /\ VbkReader!FirstListed(i) = IF i = 0 THEN 0 ELSE Listed(i) - 1
         /\ i # 0 => VbkReader!TableHeader(i) = PAGE_SIZE - VbkReader!MaxEntries(i)
         /\ VbkReader!TableHeader(0) = 2
<1> DEFINE p == i * PAGE_SIZE
           q == (i + 1) \div 3
           r == (i + 2) \div 3
<1>1. p \in Int /\ (i + 1) * PAGE_SIZE = p + PAGE_SIZE
  BY Stepped
<1>2. VbkReader!MaxEntries(i) = IF i % 3 = 1 THEN PAGE_SIZE - 4 ELSE PAGE_SIZE - 1
  <2>1. i % 3 = 0 \/ i % 3 = 1 \/ i % 3 = 2
    OBVIOUS
  <2>2. CASE i % 3 = 0
    BY <2>2 DEF VbkReader!MaxEntries
  <2>3. CASE i % 3 = 1
    BY <2>3 DEF VbkReader!MaxEntries
  <2>4. CASE i % 3 = 2
    BY <2>4 DEF VbkReader!MaxEntries
  <2> QED
    BY <2>1, <2>2, <2>3, <2>4
<1>3. q \in Nat /\ r = IF i % 3 = 1 THEN q + 1 ELSE q
  OBVIOUS
<1>4. 3 * q <= i + 1
  OBVIOUS
<1>5. 5 * i <= p
  <2>1. (PAGE_SIZE - 5) * i \in Nat
    <3>1. PAGE_SIZE - 5 \in Nat
      OBVIOUS
    <3> QED
      BY <3>1
  <2>2. (PAGE_SIZE - 5) * i = p - 5 * i
    OBVIOUS
  <2> QED
    BY <1>1, <2>1, <2>2
<1>6. i + 1 + 1 = i + 2
  OBVIOUS
<1>7. Listed(i) = p - i - 3 * q /\ Listed(i + 1) = (i + 1) * PAGE_SIZE - (i + 1) - 3 * r
  BY <1>6 DEF Listed
<1>8. VbkReader!FirstListed(i) = IF i = 0 THEN 0 ELSE Listed(i) - 1
  <2>1. VbkReader!FirstListed(i) = p - (IF i = 0 THEN 0 ELSE 1 + i + 3 * q)
    BY DEF VbkReader!FirstListed
  <2>2. i = 0 => p = 0
    OBVIOUS
  <2> HIDE DEF p, q
  <2> QED
    BY <1>1, <1>3, <1>7, <2>1, <2>2
<1>9. /\ i # 0 => VbkReader!TableHeader(i) = PAGE_SIZE - VbkReader!MaxEntries(i)
      /\ VbkReader!TableHeader(0) = 2
  BY <1>2 DEF VbkReader!TableHeader
<1>10. Listed(0) = 0 /\ Listed(1) = PAGE_SIZE - 1
  BY DEF Listed
<1> HIDE DEF p, q, r
<1>11. Listed(i) \in Nat /\ Listed(i + 1) = Listed(i) + VbkReader!MaxEntries(i) /\ i <= Listed(i)
  BY <1>1, <1>2, <1>3, <1>4, <1>5, <1>7
<1> QED
  BY <1>2, <1>8, <1>9, <1>10, <1>11

\* The pages of a table list one part of the pages of entries after the other.
LEMMA ListedOrder ==
  ASSUME PAGE_SIZE \in Nat, PAGE_SIZE > 4
  PROVE  \A i \in Nat : \A j \in Nat : i < j => Listed(i + 1) <= Listed(j)
<1> DEFINE bad == {j \in Nat : \E i \in Nat : i < j /\ ~(Listed(i + 1) <= Listed(j))}
<1>1. bad = {}
  <2> SUFFICES ASSUME bad # {} PROVE FALSE
    OBVIOUS
  <2>0. bad \in SUBSET Nat
    OBVIOUS
  <2>1. PICK j \in bad : \A k \in bad : j <= k
    BY <2>0, LeastNatural
  <2>2. PICK i \in Nat : i < j /\ ~(Listed(i + 1) <= Listed(j))
    BY <2>1
  <2>3. j \in Nat /\ j - 1 \in Nat /\ j - 1 \notin bad /\ j - 1 + 1 = j
    BY <2>1, <2>2
  <2>4. Listed(j) \in Nat /\ Listed(i + 1) \in Nat /\ Listed(j - 1) \in Nat
        /\ Listed(j - 1) <= Listed(j)
    <3>1. i + 1 \in Nat
      OBVIOUS
    <3>2. Listed(j - 1 + 1) = Listed(j - 1) + VbkReader!MaxEntries(j - 1)
          /\ VbkReader!MaxEntries(j - 1) \in 1 .. PAGE_SIZE
      BY <2>3, ListedSteps
    <3>3. Listed(j) \in Nat /\ Listed(i + 1) \in Nat /\ Listed(j - 1) \in Nat
      BY <2>3, <3>1, ListedSteps
    <3> QED
      BY <2>3, <3>2, <3>3
  <2>5. i # j - 1
    BY <2>2, <2>3, <2>4
  <2>6. i < j - 1
    BY <2>2, <2>3, <2>5
  <2>7. Listed(i + 1) <= Listed(j - 1)
    BY <2>3, <2>6
  <2> QED
    BY <2>2, <2>4, <2>7
<1> QED
  BY <1>1

\* The page of a table that lists what x is, counted from the page that would list most.
Lists(i, x) == Listed(i) <= x /\ x < Listed(i + 1)

\* There is one such page.
LEMMA ListsOne ==
  ASSUME PAGE_SIZE \in Nat, PAGE_SIZE > 4, NEW x \in Nat
  PROVE  /\ \E i \in Nat : Lists(i, x)
         /\ \A i \in Nat : \A j \in Nat : Lists(i, x) /\ Lists(j, x) => i = j
<1> DEFINE above == {j \in Nat : x < Listed(j)}
<1>1. x + 1 \in above
  <2>1. x + 1 \in Nat /\ Listed(x + 1) \in Nat /\ x + 1 <= Listed(x + 1)
    BY ListedSteps
  <2> QED
    BY <2>1
<1>2. PICK j \in above : \A k \in above : j <= k
  <2>1. above \in SUBSET Nat /\ above # {}
    BY <1>1
  <2> HIDE DEF above
  <2> QED
    BY <2>1, LeastNatural
<1>3. j # 0
  BY <1>2, ListedSteps
<1>4. j - 1 \in Nat /\ j - 1 \notin above /\ j - 1 + 1 = j
  BY <1>2, <1>3
<1>5. Lists(j - 1, x)
  <2>1. Listed(j - 1) \in Nat
    BY <1>4, ListedSteps
  <2> QED
    BY <1>2, <1>4, <2>1 DEF Lists
<1>6. ASSUME NEW i \in Nat, NEW k \in Nat, Lists(i, x), Lists(k, x), i < k
      PROVE  FALSE
  <2>1. Listed(i + 1) <= Listed(k)
    BY <1>6, ListedOrder
  <2>2. Listed(i + 1) \in Nat /\ Listed(k) \in Nat
    <3>1. i + 1 \in Nat
      OBVIOUS
    <3> QED
      BY <3>1, ListedSteps
  <2> QED
    BY <1>6, <2>1, <2>2 DEF Lists
<1>7. ASSUME NEW i \in Nat, NEW k \in Nat, Lists(i, x), Lists(k, x)
      PROVE  i = k
  <2>1. ~(i < k) /\ ~(k < i)
    BY <1>6, <1>7
  <2> QED
    BY <2>1
<1> QED
  BY <1>4, <1>5, <1>7

-----------------------------------------------------------------------------

\* The word of the table that lists page x - 1.
WordOf(x) ==
  LET i == CHOOSE i \in Nat : Lists(i, x)
  IN  i * PAGE_SIZE + (PAGE_SIZE - VbkReader!MaxEntries(i)) + (x - Listed(i))

\* That word is of the table page that lists the page.
LEMMA WordOn ==
  ASSUME PAGE_SIZE \in Nat, PAGE_SIZE > 4, NEW x \in Nat, NEW i \in Nat, Lists(i, x)
  PROVE  WordOf(x) = i * PAGE_SIZE + (PAGE_SIZE - VbkReader!MaxEntries(i)) + (x - Listed(i))
<1>1. (CHOOSE j \in Nat : Lists(j, x)) = i
  BY ListsOne
<1> QED
  BY <1>1 DEF WordOf

\* f finds the words of the table as TableOffset does.
Looks(f) ==
  f = [n \in Nat |->
        [i \in Nat |->
           IF n < VbkReader!MaxEntries(i)
           THEN i * PAGE_SIZE + (PAGE_SIZE - VbkReader!MaxEntries(i)) + n
           ELSE f[n - VbkReader!MaxEntries(i)][i + 1]]]

\* What it finds, page after page of the table.
LEMMA LooksOn ==
  ASSUME NEW f, Looks(f)
  PROVE  \A a \in Nat : \A b \in Nat :
           f[a][b] = IF a < VbkReader!MaxEntries(b)
                     THEN b * PAGE_SIZE + (PAGE_SIZE - VbkReader!MaxEntries(b)) + a
                     ELSE f[a - VbkReader!MaxEntries(b)][b + 1]
<1> TAKE a \in Nat
<1> TAKE b \in Nat
<1>1. f[a] = [i \in Nat |->
                IF a < VbkReader!MaxEntries(i)
                THEN i * PAGE_SIZE + (PAGE_SIZE - VbkReader!MaxEntries(i)) + a
                ELSE f[a - VbkReader!MaxEntries(i)][i + 1]]
  BY DEF Looks
<1> QED
  BY <1>1

\* Behind i pages of the table the page that is n further on.
LEMMA OffsetOne ==
  ASSUME PAGE_SIZE \in Nat, PAGE_SIZE > 4, NEW n \in Nat, NEW i \in Nat
  PROVE  /\ n + Listed(i) \in Nat
         /\ n < VbkReader!MaxEntries(i) =>
              WordOf(n + Listed(i)) = i * PAGE_SIZE + (PAGE_SIZE - VbkReader!MaxEntries(i)) + n
         /\ ~(n < VbkReader!MaxEntries(i)) =>
              /\ n - VbkReader!MaxEntries(i) \in Nat /\ n - VbkReader!MaxEntries(i) < n
              /\ i + 1 \in Nat
              /\ n - VbkReader!MaxEntries(i) + Listed(i + 1) = n + Listed(i)
<1> DEFINE m == VbkReader!MaxEntries(i)
<1>1. Listed(i) \in Nat /\ m \in 1 .. PAGE_SIZE /\ Listed(i + 1) = Listed(i) + m
  BY ListedSteps
<1> HIDE DEF m
<1>2. n + Listed(i) \in Nat
  BY <1>1
<1>3. ASSUME n < m
      PROVE  WordOf(n + Listed(i)) = i * PAGE_SIZE + (PAGE_SIZE - m) + n
  <2> DEFINE x == n + Listed(i)
  <2>1. x \in Nat /\ Lists(i, x) /\ x - Listed(i) = n
    BY <1>1, <1>2, <1>3 DEF Lists
  <2> HIDE DEF x
  <2>2. WordOf(x) = i * PAGE_SIZE + (PAGE_SIZE - VbkReader!MaxEntries(i)) + (x - Listed(i))
    BY <2>1, WordOn
  <2> QED
    BY <2>1, <2>2 DEF m, x
<1>4. ~(n < m) => n - m \in Nat /\ n - m < n /\ i + 1 \in Nat /\ n - m + Listed(i + 1) = n + Listed(i)
  BY <1>1
<1> QED
  BY <1>2, <1>3, <1>4 DEF m

\* The recursion of TableOffset comes to an end at that word.
LEMMA TableOffsetIs ==
  ASSUME PAGE_SIZE \in Nat, PAGE_SIZE > 4, NEW n \in Nat, NEW i \in Nat
  PROVE  VbkReader!TableOffset(n, i) = WordOf(n + Listed(i))
<1> DEFINE g == [a \in Nat |-> [b \in Nat |-> WordOf(a + Listed(b))]]
<1>1. Looks(g)
  <2>1. ASSUME NEW a \in Nat, NEW b \in Nat
        PROVE  WordOf(a + Listed(b)) =
                 IF a < VbkReader!MaxEntries(b)
                 THEN b * PAGE_SIZE + (PAGE_SIZE - VbkReader!MaxEntries(b)) + a
                 ELSE g[a - VbkReader!MaxEntries(b)][b + 1]
    <3>1. CASE a < VbkReader!MaxEntries(b)
      BY <3>1, OffsetOne
    <3>2. CASE ~(a < VbkReader!MaxEntries(b))
      <4>1. /\ a - VbkReader!MaxEntries(b) \in Nat /\ b + 1 \in Nat
            /\ a - VbkReader!MaxEntries(b) + Listed(b + 1) = a + Listed(b)
        BY <3>2, OffsetOne
      <4>2. g[a - VbkReader!MaxEntries(b)][b + 1] = WordOf(a + Listed(b))
        BY <4>1
      <4> QED
        BY <3>2, <4>2
    <3> QED
      BY <3>1, <3>2
  <2> QED
    BY <2>1, Zenon DEF Looks
<1> DEFINE f == CHOOSE f : Looks(f)
<1>2. Looks(f)
  BY <1>1
<1>3. VbkReader!TableOffset(n, i) = f[n][i]
  BY DEF VbkReader!TableOffset, Looks
<1> HIDE DEF f, g
<1>4. \A a \in Nat : \A b \in Nat :
        f[a][b] = IF a < VbkReader!MaxEntries(b)
                  THEN b * PAGE_SIZE + (PAGE_SIZE - VbkReader!MaxEntries(b)) + a
                  ELSE f[a - VbkReader!MaxEntries(b)][b + 1]
  BY <1>2, LooksOn
<1> DEFINE bad == {a \in Nat : \E b \in Nat : f[a][b] # WordOf(a + Listed(b))}
<1>5. bad = {}
  <2> SUFFICES ASSUME bad # {} PROVE FALSE
    OBVIOUS
  <2>0. bad \in SUBSET Nat
    OBVIOUS
  <2>1. PICK a \in bad : \A c \in bad : a <= c
    BY <2>0, LeastNatural
  <2>2. PICK b \in Nat : f[a][b] # WordOf(a + Listed(b))
    BY <2>1
  <2>3. a \in Nat
    BY <2>1
  <2>4. CASE a < VbkReader!MaxEntries(b)
    BY <1>4, <2>2, <2>3, <2>4, OffsetOne
  <2>5. CASE ~(a < VbkReader!MaxEntries(b))
    <3>1. /\ a - VbkReader!MaxEntries(b) \in Nat /\ a - VbkReader!MaxEntries(b) < a /\ b + 1 \in Nat
          /\ a - VbkReader!MaxEntries(b) + Listed(b + 1) = a + Listed(b)
      BY <2>3, <2>5, OffsetOne
    <3>2. a - VbkReader!MaxEntries(b) \notin bad
      BY <2>1, <2>3, <3>1
    <3>3. f[a - VbkReader!MaxEntries(b)][b + 1] = WordOf(a - VbkReader!MaxEntries(b) + Listed(b + 1))
      BY <3>1, <3>2
    <3> QED
      BY <1>4, <2>2, <2>3, <2>5, <3>1, <3>3
  <2> QED
    BY <2>4, <2>5
<1> QED
  BY <1>3, <1>5

\* The reader looks for the word that lists a page.
LEMMA LookupPageIs ==
  ASSUME PAGE_SIZE \in Nat, PAGE_SIZE > 4, NEW idx \in Nat
  PROVE  VbkReader!LookupPage(idx) = WordOf(idx + 1)
<1>1. /\ Listed(0) = 0 /\ Listed(1) = PAGE_SIZE - 1
      /\ VbkReader!MaxEntries(0) = PAGE_SIZE - 1
  <2>1. Listed(0 + 1) = Listed(0) + VbkReader!MaxEntries(0) /\ VbkReader!MaxEntries(0) \in 1 .. PAGE_SIZE
        /\ Listed(0) = 0 /\ Listed(1) = PAGE_SIZE - 1
    BY ListedSteps
  <2> QED
    BY <2>1
<1>2. CASE idx < PAGE_SIZE - 2
  <2> DEFINE x == idx + 1
             i == 0
  <2>1. x \in Nat /\ i \in Nat /\ Lists(i, x)
    BY <1>1, <1>2 DEF Lists
  <2> HIDE DEF x, i
  <2>a. WordOf(x) = i * PAGE_SIZE + (PAGE_SIZE - VbkReader!MaxEntries(i)) + (x - Listed(i))
    BY <2>1, WordOn
  <2>2. /\ i * PAGE_SIZE = 0 /\ VbkReader!MaxEntries(i) = PAGE_SIZE - 1 /\ Listed(i) = 0
        /\ x = idx + 1
    BY <1>1 DEF x, i
  <2>3. WordOf(x) = idx + 2
    BY <2>a, <2>2
  <2>4. WordOf(idx + 1) = idx + 2
    BY <2>2, <2>3
  <2> QED
    BY <1>2, <2>4 DEF VbkReader!LookupPage
<1>3. CASE ~(idx < PAGE_SIZE - 2)
  <2>1. idx - (PAGE_SIZE - 2) \in Nat /\ idx - (PAGE_SIZE - 2) + Listed(1) = idx + 1
    BY <1>1, <1>3
  <2>2. VbkReader!TableOffset(idx - (PAGE_SIZE - 2), 1) = WordOf(idx + 1)
    BY <2>1, TableOffsetIs
  <2> QED
    BY <1>3, <2>2 DEF VbkReader!LookupPage
<1> QED
  BY <1>2, <1>3

-----------------------------------------------------------------------------

\* Further pages of a table list further pages.
LEMMA FirstListedOrder ==
  ASSUME PAGE_SIZE \in Nat, PAGE_SIZE > 4, NEW i \in Nat, NEW j \in Nat, j < i
  PROVE  /\ VbkReader!FirstListed(i) \in Nat /\ VbkReader!FirstListed(j) \in Nat
         /\ VbkReader!FirstListed(j) <= VbkReader!FirstListed(i)
         /\ i <= VbkReader!FirstListed(i) + 1
<1>1. /\ Listed(i) \in Nat /\ i <= Listed(i) /\ VbkReader!FirstListed(i) = Listed(i) - 1
  BY ListedSteps
<1>2. /\ Listed(j) \in Nat /\ Listed(j + 1) = Listed(j) + VbkReader!MaxEntries(j)
      /\ VbkReader!MaxEntries(j) \in Nat /\ j <= Listed(j)
      /\ VbkReader!FirstListed(j) = IF j = 0 THEN 0 ELSE Listed(j) - 1
  BY ListedSteps
<1>3. Listed(j + 1) <= Listed(i)
  BY ListedOrder
<1> QED
  BY <1>1, <1>2, <1>3

\* The pages of a table follow each other.
LEMMA TablePagesAre ==
  ASSUME PAGE_SIZE \in Nat, PAGE_SIZE > 4, NEW m \in Nat
  PROVE  LET c == Cardinality(VbkReader!TablePages(m))
         IN  c \in Nat \ {0} /\ VbkReader!TablePages(m) = 0 .. c - 1
<1> DEFINE T == VbkReader!TablePages(m)
           no == {k \in Nat : k \notin T}
<1>1. T \in SUBSET (0 .. m) /\ 0 \in T
  BY DEF VbkReader!TablePages
<1>2. m + 1 \in no /\ no \in SUBSET Nat
  BY <1>1
<1>3. PICK c \in no : \A k \in no : c <= k
  <2> HIDE DEF no
  <2> QED
    BY <1>2, LeastNatural
<1>4. c \in Nat /\ c # 0 /\ c \notin T /\ \A k \in Nat : k < c => k \in T
  BY <1>1, <1>3
<1>5. ASSUME NEW k \in T, c < k
      PROVE  FALSE
  <2>1. k \in Nat /\ k # 0 /\ k \in 0 .. m /\ VbkReader!FirstListed(k) < m
    BY <1>4, <1>5 DEF VbkReader!TablePages
  <2>2. /\ VbkReader!FirstListed(k) \in Nat /\ VbkReader!FirstListed(c) \in Nat
        /\ VbkReader!FirstListed(c) <= VbkReader!FirstListed(k)
    BY <1>4, <1>5, <2>1, FirstListedOrder
  <2>3. c \in 0 .. m /\ VbkReader!FirstListed(c) < m
    BY <1>4, <1>5, <2>1, <2>2
  <2>4. c \in T
    BY <2>3 DEF VbkReader!TablePages
  <2> QED
    BY <1>4, <2>4
<1> HIDE DEF T, no
<1>6. T = 0 .. c - 1
  <2>1. \A k \in T : k \in Nat /\ k # c /\ ~(c < k)
    BY <1>1, <1>4, <1>5
  <2>2. \A k \in T : k \in 0 .. c - 1
    BY <1>4, <2>1
  <2>3. \A k \in 0 .. c - 1 : k \in T
    BY <1>4
  <2> QED
    BY <2>2, <2>3
<1>7. Cardinality(T) = c
  <2>1. 0 <= c - 1 /\ c - 1 \in Int /\ c - 1 - 0 + 1 = c
    BY <1>4
  <2>2. Cardinality(0 .. c - 1) = c - 1 - 0 + 1
    BY <2>1, FS_Interval
  <2> QED
    BY <1>6, <2>1, <2>2
<1> QED
  BY <1>4, <1>6, <1>7 DEF T

\* The table of m pages of entries.
TableOf(m) == [i \in 1 .. Cardinality(VbkReader!TablePages(m)) |-> VbkReader!TablePage(i - 1)]

\* Its pages are those of a table, each of whole words.
LEMMA TableOfType ==
  ASSUME PAGE_SIZE \in Nat, PAGE_SIZE > 4, NEW m \in Nat
  PROVE  /\ TableOf(m) \in Seq(Seq(Int))
         /\ Len(TableOf(m)) = Cardinality(VbkReader!TablePages(m))
         /\ \A i \in 1 .. Len(TableOf(m)) : /\ TableOf(m)[i] = VbkReader!TablePage(i - 1)
                                            /\ Len(TableOf(m)[i]) = PAGE_SIZE
<1> DEFINE c == Cardinality(VbkReader!TablePages(m))
<1>1. c \in Nat \ {0}
  BY TablePagesAre
<1>2. ASSUME NEW i \in Nat
      PROVE  VbkReader!TablePage(i) \in Seq(Int) /\ Len(VbkReader!TablePage(i)) = PAGE_SIZE
  <2>1. VbkReader!TableHeader(i) \in Int
    BY DEF VbkReader!TableHeader
  <2>2. VbkReader!FirstListed(i) \in Int
    <3>1. Listed(i) \in Nat /\ VbkReader!FirstListed(i) = IF i = 0 THEN 0 ELSE Listed(i) - 1
      BY ListedSteps
    <3> QED
      BY <3>1
  <2>3. \A w \in 1 .. PAGE_SIZE :
          (IF w <= VbkReader!TableHeader(i) THEN VbkReader!Header
           ELSE VbkReader!FirstListed(i) + w - 1 - VbkReader!TableHeader(i)) \in Int
    BY <2>1, <2>2 DEF VbkReader!Header
  <2>4. VbkReader!TablePage(i) \in [1 .. PAGE_SIZE -> Int]
    BY <2>3 DEF VbkReader!TablePage
  <2> QED
    BY <2>4
<1> HIDE DEF c
<1>3. \A i \in 1 .. c : i - 1 \in Nat
  BY <1>1
<1>4. TableOf(m) = [i \in 1 .. c |-> VbkReader!TablePage(i - 1)]
  BY DEF TableOf, c
<1>5. TableOf(m) \in [1 .. c -> Seq(Int)]
  BY <1>2, <1>3, <1>4
<1>6. TableOf(m) \in Seq(Seq(Int)) /\ Len(TableOf(m)) = c
  BY <1>1, <1>5
<1>7. \A i \in 1 .. c : TableOf(m)[i] = VbkReader!TablePage(i - 1)
  BY <1>4
<1> QED
  BY <1>2, <1>3, <1>6, <1>7 DEF c

\* One page after the other fills its place in the table.
LEMMA TablePlaces ==
  ASSUME PAGE_SIZE \in Nat, PAGE_SIZE > 4, NEW m \in Nat,
         NEW i \in VbkReader!TablePages(m), NEW w \in 1 .. PAGE_SIZE
  PROVE  /\ i * PAGE_SIZE + w <= Len(FlattenSeq(TableOf(m)))
         /\ FlattenSeq(TableOf(m))[i * PAGE_SIZE + w] = VbkReader!TablePage(i)[w]
<1> DEFINE ss == TableOf(m)
           c == Cardinality(VbkReader!TablePages(m))
<1>1. /\ c \in Nat \ {0} /\ i \in 0 .. c - 1 /\ i \in Nat
      /\ ss \in Seq(Seq(Int)) /\ Len(ss) = c
      /\ \A j \in 1 .. c : ss[j] = VbkReader!TablePage(j - 1) /\ Len(ss[j]) = PAGE_SIZE
  <2>1. c \in Nat \ {0} /\ i \in 0 .. c - 1
    BY TablePagesAre
  <2>2. /\ ss \in Seq(Seq(Int)) /\ Len(ss) = c
        /\ \A j \in 1 .. Len(ss) : ss[j] = VbkReader!TablePage(j - 1) /\ Len(ss[j]) = PAGE_SIZE
    BY TableOfType
  <2> HIDE DEF ss, c
  <2> QED
    BY <2>1, <2>2
<1> HIDE DEF ss, c
<1>2. /\ FlatTo(ss, 0) = <<>>
      /\ FlattenSeq(ss) \in Seq(Int)
  BY <1>1, FlatToSteps, FlattenType
<1>3. \A j \in 1 .. c : Len(FlatTo(ss, j)) = Len(FlatTo(ss, j - 1)) + PAGE_SIZE
  BY <1>1, FlattenAt
<1> DEFINE bad == {j \in Nat : j <= c /\ Len(FlatTo(ss, j)) # j * PAGE_SIZE}
<1>4. bad = {}
  <2> SUFFICES ASSUME bad # {} PROVE FALSE
    OBVIOUS
  <2>0. bad \in SUBSET Nat
    OBVIOUS
  <2>1. PICK j \in bad : \A k \in bad : j <= k
    BY <2>0, LeastNatural
  <2>2. j \in Nat /\ j <= c /\ Len(FlatTo(ss, j)) # j * PAGE_SIZE
    BY <2>1
  <2>3. CASE j = 0
    <3>1. Len(FlatTo(ss, 0)) = 0 /\ 0 * PAGE_SIZE = 0
      BY <1>2, EmptySeq
    <3> QED
      BY <2>2, <2>3, <3>1
  <2>4. CASE j # 0
    <3>1. j - 1 \in Nat /\ j - 1 \notin bad /\ j \in 1 .. c /\ j - 1 <= c /\ j - 1 + 1 = j
      BY <1>1, <2>1, <2>2, <2>4
    <3>2. Len(FlatTo(ss, j - 1)) = (j - 1) * PAGE_SIZE
      BY <3>1
    <3>3. (j - 1 + 1) * PAGE_SIZE = (j - 1) * PAGE_SIZE + PAGE_SIZE
      BY <3>1, Stepped
    <3> QED
      BY <1>3, <2>2, <3>1, <3>2, <3>3
  <2> QED
    BY <2>3, <2>4
<1>5. i + 1 \in 1 .. Len(ss) /\ i + 1 - 1 = i /\ i <= c
  BY <1>1
<1>6. Len(FlatTo(ss, i)) = i * PAGE_SIZE
  BY <1>1, <1>4, <1>5
<1>7. /\ Len(FlatTo(ss, i + 1)) = i * PAGE_SIZE + PAGE_SIZE
      /\ Len(FlatTo(ss, i + 1)) <= Len(FlattenSeq(ss))
      /\ FlattenSeq(ss)[i * PAGE_SIZE + w] = VbkReader!TablePage(i)[w]
  <2> DEFINE j == i + 1
  <2>1. j \in 1 .. Len(ss) /\ j - 1 = i /\ j \in 1 .. c
    BY <1>1, <1>5
  <2> HIDE DEF j
  <2>2. /\ Len(FlatTo(ss, j)) = Len(FlatTo(ss, j - 1)) + Len(ss[j])
        /\ Len(FlatTo(ss, j)) <= Len(FlattenSeq(ss))
        /\ \A k \in 1 .. Len(ss[j]) : FlattenSeq(ss)[Len(FlatTo(ss, j - 1)) + k] = ss[j][k]
    BY <1>1, <2>1, FlattenAt
  <2>3. ss[j] = VbkReader!TablePage(i) /\ Len(ss[j]) = PAGE_SIZE
    BY <1>1, <2>1
  <2> QED
    BY <1>6, <2>1, <2>2, <2>3 DEF j
<1> DEFINE p == i * PAGE_SIZE
           n == Len(FlattenSeq(ss))
<1>8. p \in Nat /\ n \in Nat /\ p + PAGE_SIZE <= n
  <2>1. n \in Nat
    BY <1>2, LenProperties
  <2> QED
    BY <1>1, <1>7, <2>1
<1> HIDE DEF p, n
<1>9. p + w <= n
  BY <1>8
<1> QED
  BY <1>7, <1>9 DEF ss, p, n

\* The table has each page of entries where the reader looks for it.
LEMMA LookupFinds ==
  ASSUME PAGE_SIZE \in Nat, PAGE_SIZE > 4, NEW m \in Nat, NEW idx \in Nat, idx < m
  PROVE  LET word == VbkReader!LookupPage(idx) + 1
         IN  word <= Len(FlattenSeq(TableOf(m))) /\ FlattenSeq(TableOf(m))[word] = idx
<1> DEFINE x == idx + 1
<1>1. x \in Nat /\ x <= m /\ x = idx + 1
  OBVIOUS
<1> HIDE DEF x
<1>2. PICK i \in Nat : Lists(i, x)
  BY <1>1, ListsOne
<1> DEFINE n == VbkReader!MaxEntries(i)
           l == Listed(i)
           p == i * PAGE_SIZE
           w == PAGE_SIZE - n + (x - l) + 1
<1>3. /\ l \in Nat /\ n \in 1 .. PAGE_SIZE /\ Listed(i + 1) = l + n /\ i <= l /\ l <= x /\ x < l + n
      /\ VbkReader!FirstListed(i) = IF i = 0 THEN 0 ELSE l - 1
      /\ VbkReader!TableHeader(i) = IF i = 0 THEN 2 ELSE PAGE_SIZE - n
      /\ i = 0 => l = 0 /\ n = PAGE_SIZE - 1
  <2>1. /\ l \in Nat /\ n \in 1 .. PAGE_SIZE /\ Listed(i + 1) = l + n /\ i <= l
        /\ VbkReader!FirstListed(i) = IF i = 0 THEN 0 ELSE l - 1
        /\ i # 0 => VbkReader!TableHeader(i) = PAGE_SIZE - n
        /\ VbkReader!TableHeader(0) = 2
    BY ListedSteps
  <2>2. i = 0 => l = 0 /\ n = PAGE_SIZE - 1
    <3>1. VbkReader!MaxEntries(0) = PAGE_SIZE - 1 /\ Listed(0) = 0
      BY ListedSteps DEF VbkReader!MaxEntries
    <3> QED
      BY <3>1
  <2>3. l <= x /\ x < l + n
    BY <1>2, <2>1 DEF Lists
  <2> QED
    BY <2>1, <2>2, <2>3
<1>4. VbkReader!LookupPage(idx) = p + (PAGE_SIZE - n) + (x - l)
  <2>1. VbkReader!LookupPage(idx) = WordOf(x)
    BY LookupPageIs DEF x
  <2> QED
    BY <1>1, <1>2, <2>1, WordOn
<1>5. i \in VbkReader!TablePages(m)
  <2> HIDE DEF n, l
  <2>1. i \in 0 .. m
    BY <1>1, <1>3
  <2>2. i = 0 \/ VbkReader!FirstListed(i) < m
    BY <1>1, <1>3
  <2> QED
    BY <2>1, <2>2 DEF VbkReader!TablePages
<1>6. p \in Int
  OBVIOUS
<1> HIDE DEF n, l, p
<1>7. w \in 1 .. PAGE_SIZE /\ VbkReader!LookupPage(idx) + 1 = p + w
  BY <1>1, <1>3, <1>4, <1>6
<1>8. VbkReader!TablePage(i)[w] = idx
  <2>1. VbkReader!TablePage(i)[w] = IF w <= VbkReader!TableHeader(i) THEN VbkReader!Header
                                  ELSE VbkReader!FirstListed(i) + w - 1 - VbkReader!TableHeader(i)
    <3> HIDE DEF w
    <3> QED
      BY <1>7 DEF VbkReader!TablePage
  <2> QED
    BY <1>1, <1>3, <2>1
<1> HIDE DEF w
<1>9. /\ p + w <= Len(FlattenSeq(TableOf(m)))
      /\ FlattenSeq(TableOf(m))[p + w] = VbkReader!TablePage(i)[w]
  BY <1>5, <1>7, TablePlaces DEF p
<1> QED
  BY <1>7, <1>8, <1>9

-----------------------------------------------------------------------------

\* Parts of n each have what is in s where it is divided to.
InParts(S, s, n, parts) ==
  /\ parts \in Seq(Seq(S))
  /\ \A idx \in 0 .. Len(s) - 1 :
       /\ idx \div n + 1 \in 1 .. Len(parts)
       /\ (idx % n) + 1 \in 1 .. Len(parts[idx \div n + 1])
       /\ parts[idx \div n + 1][(idx % n) + 1] = s[idx + 1]

\* The parts of a sequence hold what is in it, each but the last of them n.
LEMMA PartsAre ==
  ASSUME NEW S, NEW s \in Seq(S), NEW n \in Nat \ {0}
  PROVE  /\ InParts(S, s, n, VbkReader!Parts(s, n))
         /\ Len(VbkReader!Parts(s, n)) = VbkReader!CeilDiv(Len(s), n)
<1> DEFINE l == Len(s)
           c == VbkReader!CeilDiv(l, n)
           to(i) == IF i * n < l THEN i * n ELSE l
           piece(i) == SubSeq(s, (i - 1) * n + 1, to(i))
           parts == VbkReader!Parts(s, n)
<1>1. l \in Nat /\ \A i \in 1 .. l : s[i] \in S
  BY LenProperties, ElementOfSeq
<1>2. parts = [i \in 1 .. c |-> piece(i)]
  BY DEF VbkReader!Parts
<1> HIDE DEF l, parts
<1>3. /\ c \in Nat
      /\ l # 0 => l <= c * n
  <2>1. CASE l = 0
    <3>1. c = (n - 1) \div n /\ n - 1 \in Nat
      BY <2>1 DEF VbkReader!CeilDiv
    <3>2. c \in Nat
      BY <3>1, Divided
    <3> QED
      BY <2>1, <3>2
  <2>2. CASE l # 0
    <3>1. l \in Nat \ {0}
      BY <1>1, <2>2
    <3>2. (l + n - 1) \div n \in Nat \ {0} /\ l <= ((l + n - 1) \div n) * n
      BY <3>1, RoundedUp
    <3> QED
      BY <3>2 DEF VbkReader!CeilDiv
  <2> QED
    BY <2>1, <2>2
<1> HIDE DEF c
<1>4. ASSUME NEW i \in 1 .. c
      PROVE  /\ (i - 1) * n \in Nat /\ to(i) \in 0 .. l /\ i * n = (i - 1) * n + n /\ piece(i) \in Seq(S)
             /\ Len(piece(i)) = IF (i - 1) * n + 1 <= to(i) THEN to(i) - (i - 1) * n ELSE 0
             /\ \A j \in 1 .. to(i) - (i - 1) * n : piece(i)[j] = s[(i - 1) * n + j]
  <2>1. (i - 1) * n \in Nat /\ i * n = (i - 1) * n + n
    <3>1. i - 1 \in Nat /\ i - 1 + 1 = i
      BY <1>3
    <3>2. (i - 1 + 1) * n = (i - 1) * n + n /\ (i - 1) * n \in Nat
      BY <3>1, Stepped
    <3> QED
      BY <3>1, <3>2
  <2> DEFINE a == (i - 1) * n
             b == to(i)
  <2>2. a \in Nat /\ b \in 0 .. l
    BY <1>1, <2>1
  <2> HIDE DEF a, b
  <2>3. \A j \in a + 1 .. b : s[j] \in S
    BY <1>1, <2>2
  <2>4. /\ SubSeq(s, a + 1, b) \in Seq(S)
        /\ Len(SubSeq(s, a + 1, b)) = IF a + 1 <= b THEN b - (a + 1) + 1 ELSE 0
        /\ \A j \in 1 .. b - (a + 1) + 1 : SubSeq(s, a + 1, b)[j] = s[a + 1 + j - 1]
    BY <2>2, <2>3, SubSeqProperties
  <2>5. /\ Len(SubSeq(s, a + 1, b)) = IF a + 1 <= b THEN b - a ELSE 0
        /\ \A j \in 1 .. b - a : SubSeq(s, a + 1, b)[j] = s[a + j]
    BY <2>2, <2>4
  <2> QED
    BY <2>1, <2>2, <2>4, <2>5 DEF a, b
<1>5. parts \in Seq(Seq(S)) /\ Len(parts) = c
  <2>1. \A i \in 1 .. c : piece(i) \in Seq(S)
    BY <1>4
  <2> HIDE DEF piece
  <2>2. parts \in [1 .. c -> Seq(S)]
    BY <1>2, <2>1
  <2> QED
    BY <1>3, <2>2
<1>6. ASSUME NEW idx \in 0 .. l - 1
      PROVE  /\ idx \div n + 1 \in 1 .. Len(parts)
             /\ (idx % n) + 1 \in 1 .. Len(parts[idx \div n + 1])
             /\ parts[idx \div n + 1][(idx % n) + 1] = s[idx + 1]
  <2> DEFINE q == idx \div n
             k == idx % n
             i == q + 1
  <2>1. idx \in Nat /\ q \in Nat /\ k \in 0 .. n - 1 /\ idx = q * n + k
    <3>1. idx \in Nat
      BY <1>1
    <3> QED
      BY <3>1, Divided
  <2> HIDE DEF q, k
  <2>2. q * n \in Int
    BY <2>1
  <2>3. q < c
    <3>1. q * n < c * n
      <4>1. l <= c * n /\ c * n \in Int
        BY <1>1, <1>3
      <4> QED
        BY <1>1, <2>1, <2>2, <4>1
    <3> QED
      BY <1>3, <2>1, <3>1, ProductOrder
  <2>4. i \in 1 .. c /\ i - 1 = q
    BY <1>3, <2>1, <2>3
  <2> HIDE DEF i
  <2>5. /\ q * n \in Nat /\ to(i) \in 0 .. l /\ i * n = q * n + n
        /\ Len(piece(i)) = IF q * n + 1 <= to(i) THEN to(i) - q * n ELSE 0
        /\ \A j \in 1 .. to(i) - q * n : piece(i)[j] = s[q * n + j]
    BY <1>4, <2>4
  <2>6. to(i) = IF i * n < l THEN i * n ELSE l
    OBVIOUS
  <2>7. parts[i] = piece(i)
    BY <1>2, <2>4
  <2> HIDE DEF to, piece
  <2>8. k + 1 \in 1 .. to(i) - q * n /\ q * n + 1 <= to(i) /\ q * n + (k + 1) = idx + 1
    BY <1>1, <2>1, <2>5, <2>6
  <2>9. k + 1 \in 1 .. Len(parts[i]) /\ parts[i][k + 1] = s[idx + 1]
    BY <2>5, <2>7, <2>8
  <2> QED
    BY <1>5, <2>4, <2>9 DEF q, k, i
<1> QED
  BY <1>5, <1>6 DEF InParts, l, parts, c

\* A page has room for an entry and its header; what it has room for does not go over its end.
LEMMA PerPageIs ==
  ASSUME PAGE_SIZE \in Nat, NEW version2 \in BOOLEAN, NEW size \in 1 .. PAGE_SIZE - 1
  PROVE  /\ VbkReader!PerPage(version2, size) \in Nat \ {0}
         /\ VbkReader!EntryHeader(version2) + VbkReader!PerPage(version2, size) * size <= PAGE_SIZE
         /\ VbkReader!PerPage(version2, size) <= PAGE_SIZE \div size
         /\ PAGE_SIZE \div size \in Nat \ {0}
         /\ version2 => VbkReader!PerPage(version2, size) = PAGE_SIZE \div size
         /\ ~version2 => VbkReader!PerPage(version2, size) = (PAGE_SIZE - 1) \div size
<1> DEFINE h == VbkReader!EntryHeader(version2)
           n == (PAGE_SIZE - h) \div size
           r == (PAGE_SIZE - h) % size
           m == PAGE_SIZE \div size
           t == PAGE_SIZE % size
<1>1. h \in 0 .. 1 /\ (version2 => h = 0) /\ (~version2 => h = 1) /\ PAGE_SIZE - h \in Nat
      /\ size \in Nat \ {0}
  BY DEF VbkReader!EntryHeader
<1> HIDE DEF h
<1>2. n \in Nat /\ r \in 0 .. size - 1 /\ PAGE_SIZE - h = n * size + r
  BY <1>1, Divided
<1>3. m \in Nat /\ t \in 0 .. size - 1 /\ PAGE_SIZE = m * size + t
  BY <1>1, Divided
<1>4. /\ version2 => n = PAGE_SIZE \div size
      /\ ~version2 => n = (PAGE_SIZE - 1) \div size
  <2>1. PAGE_SIZE - 0 = PAGE_SIZE
    OBVIOUS
  <2> QED
    BY <1>1, <2>1
<1> HIDE DEF n, r, m, t
<1>5. n * size \in Int /\ m * size \in Int
  BY <1>2, <1>3
<1>6. n # 0 /\ m # 0
  <2>1. 0 * size = 0
    OBVIOUS
  <2>2. n * size # 0 /\ m * size # 0
    BY <1>1, <1>2, <1>3, <1>5
  <2> QED
    BY <2>1, <2>2
<1>7. n <= m
  <2>1. m < n => m + 1 <= n
    BY <1>2, <1>3
  <2>2. m + 1 < n => (m + 1) * size < n * size
    BY <1>1, <1>2, <1>3, ProductOrder
  <2>3. (m + 1) * size = m * size + size
    BY <1>1, <1>3, Stepped
  <2>4. m + 1 <= n => m * size + size <= n * size
    BY <1>2, <1>3, <1>5, <2>2, <2>3
  <2> QED
    BY <1>1, <1>2, <1>3, <1>5, <2>1, <2>4
<1>8. h + n * size <= PAGE_SIZE
  BY <1>1, <1>2, <1>5
<1> QED
  BY <1>2, <1>3, <1>4, <1>6, <1>7, <1>8 DEF VbkReader!PerPage, h, n, m

\* The operators of the community modules are the same in the module of the vectors.
LEMMA VectorOperators ==
  /\ \A ss : VbkReader!FlattenSeq(ss) = FlattenSeq(ss)
  /\ \A T : VbkReader!Cardinality(T) = Cardinality(T)
<1>1. ASSUME NEW ss
      PROVE  VbkReader!FlattenSeq(ss) = FlattenSeq(ss)
  BY DEF VbkReader!FlattenSeq, FlattenSeq
<1>2. ASSUME NEW T
      PROVE  VbkReader!Cardinality(T) = Cardinality(T)
  BY DEF VbkReader!Cardinality, Cardinality
<1> QED
  BY <1>1, <1>2

\* The fields of a vector.
LEMMA VectorIs ==
  ASSUME NEW version2, NEW size, NEW entries
  PROVE  LET v == VbkReader!Vector(version2, size, entries)
         IN  /\ v.version2 = version2 /\ v.size = size /\ v.count = Len(entries)
             /\ v.pages = VbkReader!Parts(entries, VbkReader!PerPage(version2, size))
             /\ v.table = FlattenSeq(TableOf(Len(v.pages)))
<1>1. VbkReader!TableWords(Len(VbkReader!Parts(entries, VbkReader!PerPage(version2, size)))) =
        FlattenSeq(TableOf(Len(VbkReader!Parts(entries, VbkReader!PerPage(version2, size)))))
  BY VectorOperators DEF VbkReader!TableWords, TableOf
<1> QED
  BY <1>1, Zenon DEF VbkReader!Vector

\* An entry is found on the page that it was put on.
LEMMA EntryFound ==
  ASSUME PAGE_SIZE \in Nat, NEW version2 \in BOOLEAN, NEW size \in 1 .. PAGE_SIZE - 1,
         NEW S, NEW entries \in Seq(S), NEW idx \in 0 .. Len(entries) - 1
  PROVE  LET n == VbkReader!PerPage(version2, size)
             v == VbkReader!Vector(version2, size, entries)
         IN  /\ idx \div n \in Nat /\ idx \div n + 1 \in DOMAIN v.pages /\ idx \div n < Len(v.pages)
             /\ Len(v.pages) \in Nat
             /\ VbkReader!EntryOf(v, size, idx \div n, idx % n) = VbkReader!Entry(entries[idx + 1])
<1> DEFINE n == VbkReader!PerPage(version2, size)
           v == VbkReader!Vector(version2, size, entries)
           h == VbkReader!EntryHeader(version2)
           q == idx \div n
           k == idx % n
<1>1. /\ n \in Nat \ {0} /\ h + n * size <= PAGE_SIZE /\ h \in Nat /\ size \in Nat \ {0}
      /\ Len(entries) \in Nat /\ idx \in Nat
  <2>1. n \in Nat \ {0} /\ h + n * size <= PAGE_SIZE
    BY PerPageIs
  <2> HIDE DEF n
  <2> QED
    BY <2>1, LenProperties DEF VbkReader!EntryHeader
<1>2. v.version2 = version2 /\ v.size = size /\ v.pages = VbkReader!Parts(entries, n)
  BY VectorIs
<1> HIDE DEF n, v, h
<1>3. q \in Nat /\ k \in 0 .. n - 1
  BY <1>1, Divided
<1>4. /\ v.pages \in Seq(Seq(S))
      /\ q + 1 \in 1 .. Len(v.pages)
      /\ k + 1 \in 1 .. Len(v.pages[q + 1]) /\ v.pages[q + 1][k + 1] = entries[idx + 1]
  <2>1. InParts(S, entries, n, v.pages)
    BY <1>1, <1>2, PartsAre
  <2> HIDE DEF v
  <2> QED
    BY <2>1 DEF InParts
<1> HIDE DEF q, k
<1>5. /\ Len(v.pages) \in Nat /\ q + 1 \in DOMAIN v.pages /\ k + 1 \in DOMAIN v.pages[q + 1]
  <2>1. Len(v.pages) \in Nat /\ DOMAIN v.pages = 1 .. Len(v.pages) /\ v.pages[q + 1] \in Seq(S)
    BY <1>4, LenProperties, ElementOfSeq
  <2> DEFINE s == v.pages[q + 1]
  <2>2. DOMAIN s = 1 .. Len(s)
    BY <2>1, LenProperties
  <2> QED
    BY <1>4, <2>1, <2>2
<1>6. (k * size) \div size = k /\ (k * size) % size = 0
  <2>1. 0 \in 0 .. size - 1 /\ k \in Nat /\ k * size \in Nat
    BY <1>1, <1>3
  <2>2. (k * size + 0) \div size = k /\ (k * size + 0) % size = 0
    BY <1>1, <2>1, Multiple
  <2>3. k * size + 0 = k * size
    BY <2>1
  <2> QED
    BY <2>2, <2>3
<1>7. ~(h + (k + 1) * size > PAGE_SIZE)
  <2>1. k + 1 < n => (k + 1) * size < n * size
    BY <1>1, <1>3, ProductOrder
  <2>2. (k + 1) * size \in Int /\ n * size \in Int
    BY <1>1, <1>3
  <2>3. (k + 1) * size <= n * size
    BY <1>1, <1>3, <2>1, <2>2
  <2> QED
    BY <1>1, <2>2, <2>3
<1>8. VbkReader!EntryOf(v, size, q, k) = VbkReader!Entry(v.pages[q + 1][k + 1])
  BY <1>2, <1>5, <1>6, <1>7, Zenon DEF VbkReader!EntryOf, h
<1>9. q < Len(v.pages)
  BY <1>3, <1>4, <1>5
<1> QED
  BY <1>3, <1>4, <1>5, <1>8, <1>9 DEF q, k, n, v

\* The reader looks for a word.
LEMMA LookupType ==
  ASSUME PAGE_SIZE \in Nat, PAGE_SIZE > 4, NEW idx \in Nat
  PROVE  VbkReader!LookupPage(idx) \in Int
<1> DEFINE x == idx + 1
<1>1. x \in Nat /\ VbkReader!LookupPage(idx) = WordOf(x)
  BY LookupPageIs
<1> HIDE DEF x
<1>2. PICK i \in Nat : Lists(i, x)
  BY <1>1, ListsOne
<1>3. Listed(i) \in Nat /\ VbkReader!MaxEntries(i) \in 1 .. PAGE_SIZE
  BY ListedSteps
<1>4. WordOf(x) = i * PAGE_SIZE + (PAGE_SIZE - VbkReader!MaxEntries(i)) + (x - Listed(i))
  BY <1>1, <1>2, WordOn
<1> QED
  BY <1>1, <1>3, <1>4

\* Entries of a size lie where they are looked for: all of them, or those of the first page.
Placed(version2, size, idx) ==
  \/ version2
  \/ (PAGE_SIZE - 1) \div size = PAGE_SIZE \div size
  \/ idx < (PAGE_SIZE - 1) \div size

\* Get gives the entry that was put there.
LEMMA GetIs ==
  ASSUME PAGE_SIZE \in Nat, PAGE_SIZE > 4, NEW version2 \in BOOLEAN,
         NEW size \in 1 .. PAGE_SIZE - 1, NEW S, NEW entries \in Seq(S), NEW idx \in Nat,
         Placed(version2, size, idx)
  PROVE  VbkReader!Get(VbkReader!Vector(version2, size, entries), size, idx) =
           IF idx < Len(entries) THEN VbkReader!Entry(entries[idx + 1]) ELSE VbkReader!OutOfRange
<1> DEFINE n == VbkReader!PerPage(version2, size)
           m == PAGE_SIZE \div size
           v == VbkReader!Vector(version2, size, entries)
           l == Len(entries)
<1>1. /\ n \in Nat \ {0} /\ m \in Nat \ {0} /\ n <= m
      /\ version2 => n = m
      /\ ~version2 => n = (PAGE_SIZE - 1) \div size
  BY PerPageIs
<1>2. v.count = l /\ v.version2 = version2 /\ v.table = FlattenSeq(TableOf(Len(v.pages)))
  BY VectorIs
<1>3. l \in Nat
  BY LenProperties
<1>4. CASE ~(idx < l)
  <2>1. idx >= v.count
    <3> HIDE DEF v, l
    <3> QED
      BY <1>2, <1>3, <1>4
  <2> QED
    BY <1>4, <2>1 DEF VbkReader!Get
<1>5. CASE idx < l
  <2>1. idx \div m = idx \div n /\ idx % m = idx % n
    <3>1. n = m \/ idx < n
      BY <1>1 DEF Placed
    <3> HIDE DEF n, m
    <3>2. ASSUME NEW a \in Nat \ {0}, idx < a
          PROVE  idx \div a = 0 /\ idx % a = idx
      <4>1. 0 * a + idx = idx /\ idx \in 0 .. a - 1
        BY <3>2
      <4> QED
        BY <4>1, Multiple
    <3>3. CASE idx < n
      <4>1. idx < m
        BY <1>1, <3>3
      <4> QED
        BY <1>1, <3>2, <3>3, <4>1
    <3> QED
      BY <3>1, <3>3
  <2>2. idx \in 0 .. l - 1
    BY <1>3, <1>5
  <2> DEFINE nth == idx \div n
             k == idx % n
             word == VbkReader!LookupPage(nth) + 1
  <2>3. /\ nth \in Nat /\ nth + 1 \in DOMAIN v.pages /\ nth < Len(v.pages) /\ Len(v.pages) \in Nat
        /\ VbkReader!EntryOf(v, size, nth, k) = VbkReader!Entry(entries[idx + 1])
    BY <2>2, EntryFound
  <2> HIDE DEF nth, k, v
  <2>4. word <= Len(v.table) /\ v.table[word] = nth
    BY <1>2, <2>3, LookupFinds
  <2>5. word \in Int
    <3>1. VbkReader!LookupPage(nth) \in Int
      BY <2>3, LookupType
    <3> QED
      BY <3>1
  <2>6. Len(v.table) \in Int
    <3>1. TableOf(Len(v.pages)) \in Seq(Seq(Int))
      BY <2>3, TableOfType
    <3>2. FlattenSeq(TableOf(Len(v.pages))) \in Seq(Int)
      BY <3>1, FlattenType
    <3> QED
      BY <1>2, <3>2, LenProperties
  <2>7. ~(word > Len(v.table)) /\ ~(idx >= v.count)
    <3> HIDE DEF word, l
    <3> QED
      BY <1>2, <1>3, <1>5, <2>4, <2>5, <2>6
  <2>8. VbkReader!Get(v, size, idx) = VbkReader!EntryOf(v, size, nth, k)
    <3>1. /\ idx \div VbkReader!EntriesPerPage(size) = nth
          /\ idx % VbkReader!EntriesPerPage(size) = k
      BY <2>1 DEF VbkReader!EntriesPerPage, nth, k
    <3>2. CASE version2
      BY <1>2, <2>4, <2>7, <3>1, <3>2, Zenon DEF VbkReader!Get
    <3>3. CASE ~version2
      BY <1>2, <2>3, <2>7, <3>1, <3>3, Zenon DEF VbkReader!Get
    <3> QED
      BY <3>2, <3>3
  <2> QED
    BY <1>5, <2>3, <2>8 DEF v
<1> QED
  BY <1>4, <1>5

\* The first entry is found whatever it is taken for.
LEMMA GetFirst ==
  ASSUME PAGE_SIZE \in Nat, PAGE_SIZE > 4, NEW version2 \in BOOLEAN, ~version2,
         NEW size \in 1 .. PAGE_SIZE - 1, NEW taken \in 1 .. PAGE_SIZE - 1,
         NEW S, NEW entries \in Seq(S)
  PROVE  VbkReader!Get(VbkReader!Vector(version2, size, entries), taken, 0) =
           IF 0 < Len(entries) THEN VbkReader!Entry(entries[1]) ELSE VbkReader!OutOfRange
<1> DEFINE n == VbkReader!PerPage(version2, size)
           m == PAGE_SIZE \div taken
           v == VbkReader!Vector(version2, size, entries)
           l == Len(entries)
<1>1. n \in Nat \ {0} /\ m \in Nat \ {0} /\ size \in Nat \ {0}
  <2>1. n \in Nat \ {0}
    BY PerPageIs
  <2>2. m \in Nat \ {0}
    BY PerPageIs
  <2> QED
    BY <2>1, <2>2
<1>2. v.count = l /\ v.version2 = version2 /\ v.size = size /\ v.pages = VbkReader!Parts(entries, n)
  BY VectorIs
<1>3. l \in Nat
  BY LenProperties
<1>4. CASE l = 0
  <2> HIDE DEF v, l
  <2>1. 0 >= v.count /\ ~(0 < l)
    BY <1>2, <1>4
  <2>2. VbkReader!Get(v, taken, 0) = VbkReader!OutOfRange
    BY <2>1 DEF VbkReader!Get
  <2> QED
    BY <2>1, <2>2 DEF v, l
<1>5. CASE l # 0
  <2>1. 0 \in 0 .. l - 1 /\ ~(0 >= l) /\ 0 < l
    BY <1>3, <1>5
  <2> HIDE DEF n, m, v
  <2>2. 0 \div n = 0 /\ 0 % n = 0 /\ 0 \div m = 0 /\ 0 % m = 0 /\ 0 \div size = 0 /\ 0 % size = 0
    <3>1. ASSUME NEW a \in Nat \ {0}
          PROVE  0 \div a = 0 /\ 0 % a = 0
      <4>1. 0 * a + 0 = 0 /\ 0 \in 0 .. a - 1
        OBVIOUS
      <4> QED
        BY <4>1, Multiple
    <3> QED
      BY <1>1, <3>1
  <2>3. /\ v.pages \in Seq(Seq(S))
        /\ 0 + 1 \in 1 .. Len(v.pages)
        /\ 0 + 1 \in 1 .. Len(v.pages[0 + 1]) /\ v.pages[0 + 1][0 + 1] = entries[0 + 1]
    <3>1. InParts(S, entries, n, v.pages)
      BY <1>1, <1>2, PartsAre
    <3>2. /\ v.pages \in Seq(Seq(S))
          /\ 0 \div n + 1 \in 1 .. Len(v.pages)
          /\ (0 % n) + 1 \in 1 .. Len(v.pages[0 \div n + 1])
          /\ v.pages[0 \div n + 1][(0 % n) + 1] = entries[0 + 1]
      BY <2>1, <3>1, Zenon DEF InParts
    <3> QED
      BY <2>2, <3>2, Zenon
  <2>4. 1 \in DOMAIN v.pages /\ 1 \in DOMAIN v.pages[1] /\ v.pages[1][1] = entries[1]
    <3>1. 0 + 1 = 1
      OBVIOUS
    <3>2. v.pages \in Seq(Seq(S)) /\ 1 \in 1 .. Len(v.pages) /\ 1 \in 1 .. Len(v.pages[1])
          /\ v.pages[1][1] = entries[1]
      BY <2>3, <3>1
    <3> DEFINE s == v.pages[1]
    <3>3. DOMAIN v.pages = 1 .. Len(v.pages) /\ s \in Seq(S)
      BY <3>2, LenProperties, ElementOfSeq
    <3>4. DOMAIN s = 1 .. Len(s)
      BY <3>3, LenProperties
    <3> QED
      BY <3>2, <3>3, <3>4
  <2>5. 0 * taken = 0 /\ ~(VbkReader!EntryHeader(version2) + (0 + 1) * taken > PAGE_SIZE)
    BY DEF VbkReader!EntryHeader
  <2>6. VbkReader!EntryOf(v, taken, 0, 0) = VbkReader!Entry(entries[1])
    <3>1. (0 * taken) \div v.size + 1 = 1 /\ (0 * taken) % v.size = 0 /\ 0 + 1 = 1
      BY <1>2, <2>2, <2>5
    <3> QED
      BY <1>2, <2>4, <2>5, <3>1, Zenon DEF VbkReader!EntryOf
  <2>7. VbkReader!Get(v, taken, 0) = VbkReader!EntryOf(v, taken, 0, 0)
    <3>1. 0 \div VbkReader!EntriesPerPage(taken) = 0 /\ 0 % VbkReader!EntriesPerPage(taken) = 0
      BY <2>2 DEF VbkReader!EntriesPerPage, m
    <3>2. 0 + 1 \in DOMAIN v.pages /\ ~(0 >= v.count)
      BY <1>2, <2>1, <2>4
    <3> QED
      BY <1>2, <3>1, <3>2, Zenon DEF VbkReader!Get
  <2> QED
    BY <2>1, <2>6, <2>7 DEF v
<1> QED
  BY <1>4, <1>5

-----------------------------------------------------------------------------

\* What Get found.
LEMMA EntryIs ==
  \A e : VbkReader!Entry(e).entry = e /\ VbkReader!Entry(e).error = ""
BY DEF VbkReader!Entry

\* The blocks a file lists.
BlockDescriptors ==
  [type : {"normal"}, id : Nat] \cup [type : {"sparse", "archived"}, id : {0}]

\* What is written of a file.
LEMMA VbkFile ==
  ASSUME NEW v \in Vbks
  PROVE  LET w == VbkReader!Written(v)
         IN  /\ w.old = v.old /\ w.blocks = v.blocks /\ w.store = v.store
             /\ w.tables = VbkReader!Vector(v.version2, TableSize, VbkReader!TableEntries(v))
             /\ w.block_store = VbkReader!Vector(v.version2, IF v.old THEN OldStoreSize ELSE StoreSize,
                                                 v.store)
             /\ w.block_store.version2 = v.version2
             /\ v.version2 \in BOOLEAN /\ v.old \in BOOLEAN /\ (v.version2 => ~v.old)
             /\ v.blocks \in Seq(BlockDescriptors) /\ Len(v.blocks) \in Nat
             /\ v.store \in Seq([data : Int, compression : STRING]) /\ Len(v.store) \in Nat
             /\ VbkReader!FibEntrySize(v.old) \in 1 .. PAGE_SIZE - 1
<1>1. /\ v.version2 \in BOOLEAN /\ v.old \in BOOLEAN /\ (v.version2 => ~v.old)
      /\ v.blocks \in Seq(BlockDescriptors) /\ v.store \in Seq([data : Int, compression : STRING])
  BY VbkAssumption DEF BlockDescriptors
<1>2. VbkReader!FibEntrySize(v.old) \in 1 .. PAGE_SIZE - 1
  BY <1>1, VbkAssumption DEF VbkReader!FibEntrySize
<1>3. Len(v.blocks) \in Nat /\ Len(v.store) \in Nat
  BY <1>1, LenProperties
<1>4. LET w == VbkReader!Written(v)
      IN  /\ w.old = v.old /\ w.blocks = v.blocks /\ w.store = v.store
          /\ w.tables = VbkReader!Vector(v.version2, TableSize, VbkReader!TableEntries(v))
          /\ w.block_store = VbkReader!Vector(v.version2, IF v.old THEN OldStoreSize ELSE StoreSize,
                                              v.store)
  BY DEF VbkReader!Written
<1>5. VbkReader!Written(v).block_store.version2 = v.version2
  BY <1>4, VectorIs
<1> QED
  BY <1>1, <1>2, <1>3, <1>4, <1>5

\* The block store is found by number, also that of an old file by number 0.
LEMMA StoredIs ==
  ASSUME NEW v \in Vbks, NEW id \in Nat, v.old => id = 0
  PROVE  VbkReader!Get(VbkReader!Written(v).block_store, StoreSize, id) =
           IF id < Len(v.store) THEN VbkReader!Entry(v.store[id + 1]) ELSE VbkReader!OutOfRange
<1>1. /\ VbkReader!Written(v).block_store =
           VbkReader!Vector(v.version2, IF v.old THEN OldStoreSize ELSE StoreSize, v.store)
      /\ v.version2 \in BOOLEAN /\ v.old \in BOOLEAN /\ (v.version2 => ~v.old)
      /\ v.store \in Seq([data : Int, compression : STRING])
  BY VbkFile
<1>2. /\ PAGE_SIZE \in Nat /\ PAGE_SIZE > 4 /\ StoreSize \in 1 .. PAGE_SIZE - 1
      /\ OldStoreSize \in 1 .. PAGE_SIZE - 1
      /\ (PAGE_SIZE - 1) \div StoreSize = PAGE_SIZE \div StoreSize
  BY VbkAssumption
<1>3. CASE v.old
  <2>1. VbkReader!Get(VbkReader!Vector(v.version2, OldStoreSize, v.store), StoreSize, 0) =
          IF 0 < Len(v.store) THEN VbkReader!Entry(v.store[1]) ELSE VbkReader!OutOfRange
    BY <1>1, <1>2, <1>3, GetFirst
  <2>2. id = 0 /\ 0 + 1 = 1
    BY <1>3
  <2> QED
    BY <1>1, <1>3, <2>1, <2>2, Zenon
<1>4. CASE ~v.old
  <2>1. Placed(v.version2, StoreSize, id)
    BY <1>2 DEF Placed
  <2>2. VbkReader!Get(VbkReader!Vector(v.version2, StoreSize, v.store), StoreSize, id) =
          IF id < Len(v.store) THEN VbkReader!Entry(v.store[id + 1]) ELSE VbkReader!OutOfRange
    BY <1>1, <1>2, <2>1, GetIs
  <2> QED
    BY <1>1, <1>4, <2>2, Zenon
<1> QED
  BY <1>3, <1>4

\* The tables of a file list its blocks in their order.
LEMMA TablesList ==
  ASSUME NEW v \in Vbks, NEW b \in 0 .. Len(v.blocks) - 1
  PROVE  LET M == MAX_ENTRIES_PER_TABLE
             parts == VbkReader!Parts(v.blocks, M)
             entries == VbkReader!TableEntries(v)
         IN  /\ parts \in Seq(Seq(BlockDescriptors))
             /\ b \div M \in Nat /\ b % M \in Nat /\ b \div M + 1 \in 1 .. Len(parts)
             /\ (b % M) + 1 \in 1 .. Len(parts[b \div M + 1])
             /\ parts[b \div M + 1][(b % M) + 1] = v.blocks[b + 1]
             /\ Len(entries) = Len(parts) /\ Len(parts) \in Nat
             /\ \E S : entries \in Seq(S)
             /\ entries[b \div M + 1] =
                  IF \A x \in VbkReader!ToSet(parts[b \div M + 1]) : x = VbkReader!Sparse
                  THEN [listed |-> FALSE, vector |-> VbkReader!NoVector]
                  ELSE [listed |-> TRUE,
                        vector |-> VbkReader!Vector(v.version2, VbkReader!FibEntrySize(v.old),
                                                    parts[b \div M + 1])]
<1> DEFINE M == MAX_ENTRIES_PER_TABLE
           parts == VbkReader!Parts(v.blocks, M)
           entries == VbkReader!TableEntries(v)
           q == b \div M
           k == b % M
           Listing(t) == IF \A x \in VbkReader!ToSet(parts[t]) : x = VbkReader!Sparse
                         THEN [listed |-> FALSE, vector |-> VbkReader!NoVector]
                         ELSE [listed |-> TRUE,
                               vector |-> VbkReader!Vector(v.version2, VbkReader!FibEntrySize(v.old),
                                                           parts[t])]
<1>1. v.blocks \in Seq(BlockDescriptors) /\ Len(v.blocks) \in Nat /\ M \in Nat \ {0} /\ b \in Nat
  BY VbkFile, VbkAssumption
<1>2. InParts(BlockDescriptors, v.blocks, M, parts)
  BY <1>1, PartsAre
<1>3. entries = [t \in DOMAIN parts |-> Listing(t)]
  BY DEF VbkReader!TableEntries
<1> HIDE DEF parts, entries, Listing, M
<1>4. q \in Nat /\ k \in Nat
  <2>1. q \in Nat /\ k \in 0 .. M - 1
    BY <1>1, Divided
  <2> QED
    BY <1>1, <2>1
<1>5. /\ parts \in Seq(Seq(BlockDescriptors)) /\ q + 1 \in 1 .. Len(parts)
      /\ k + 1 \in 1 .. Len(parts[q + 1]) /\ parts[q + 1][k + 1] = v.blocks[b + 1]
  BY <1>2 DEF InParts
<1>6. Len(parts) \in Nat /\ DOMAIN parts = 1 .. Len(parts)
  BY <1>5, LenProperties
<1> HIDE DEF q, k
<1>7. entries[q + 1] = Listing(q + 1)
  BY <1>3, <1>5, <1>6
<1>8. entries \in Seq({Listing(t) : t \in 1 .. Len(parts)}) /\ Len(entries) = Len(parts)
  <2> DEFINE S == {Listing(t) : t \in 1 .. Len(parts)}
             n == Len(parts)
  <2>1. \A t \in 1 .. n : Listing(t) \in S
    OBVIOUS
  <2> HIDE DEF S
  <2>2. entries \in [1 .. n -> S]
    BY <1>3, <1>6, <2>1
  <2> HIDE DEF n
  <2>3. entries \in Seq(S) /\ Len(entries) = n
    BY <1>6, <2>2 DEF n
  <2> QED
    BY <2>3 DEF S, n
<1> QED
  BY <1>4, <1>5, <1>6, <1>7, <1>8 DEF q, k, parts, entries, Listing, M

\* The descriptor of a block is found if it lies where it is looked for.
LEMMA DescriptorIs ==
  ASSUME NEW v \in Vbks, NEW b \in 0 .. Len(v.blocks) - 1, vbk = VbkReader!Written(v),
         Placed(v.version2, VbkReader!FibEntrySize(v.old), b % MAX_ENTRIES_PER_TABLE)
  PROVE  VbkReader!BlockDescriptor(b) = VbkReader!Entry(v.blocks[b + 1])
<1> DEFINE M == MAX_ENTRIES_PER_TABLE
           q == b \div M
           k == b % M
           parts == VbkReader!Parts(v.blocks, M)
           entries == VbkReader!TableEntries(v)
           size == VbkReader!FibEntrySize(v.old)
           t == VbkReader!Get(vbk.tables, TableSize, q).entry
<1>1. /\ vbk.old = v.old /\ vbk.blocks = v.blocks
      /\ vbk.tables = VbkReader!Vector(v.version2, TableSize, entries)
      /\ v.version2 \in BOOLEAN /\ size \in 1 .. PAGE_SIZE - 1 /\ Len(v.blocks) \in Nat
      /\ v.blocks \in Seq(BlockDescriptors)
  BY VbkFile
<1>2. /\ PAGE_SIZE \in Nat /\ PAGE_SIZE > 4 /\ TableSize \in 1 .. PAGE_SIZE - 1
      /\ (PAGE_SIZE - 1) \div TableSize = PAGE_SIZE \div TableSize
  BY VbkAssumption
<1>3. /\ parts \in Seq(Seq(BlockDescriptors)) /\ q \in Nat /\ k \in Nat /\ q + 1 \in 1 .. Len(parts)
      /\ k + 1 \in 1 .. Len(parts[q + 1]) /\ parts[q + 1][k + 1] = v.blocks[b + 1]
      /\ Len(entries) = Len(parts) /\ Len(parts) \in Nat
      /\ \E S : entries \in Seq(S)
      /\ entries[q + 1] =
           IF \A x \in VbkReader!ToSet(parts[q + 1]) : x = VbkReader!Sparse
           THEN [listed |-> FALSE, vector |-> VbkReader!NoVector]
           ELSE [listed |-> TRUE, vector |-> VbkReader!Vector(v.version2, size, parts[q + 1])]
  BY TablesList
<1>4. Placed(v.version2, size, k)
  OBVIOUS
<1>5. VbkReader!BlockDescriptor(b) =
        IF b >= Len(v.blocks) THEN VbkReader!OutOfRange
        ELSE IF t.listed THEN VbkReader!Get(t.vector, size, k) ELSE VbkReader!Entry(VbkReader!Sparse)
  BY <1>1, Zenon DEF VbkReader!BlockDescriptor
<1> HIDE DEF parts, entries, size, q, k, M
<1>6. t = entries[q + 1]
  <2>1. PICK S : entries \in Seq(S)
    BY <1>3
  <2>2. Placed(v.version2, TableSize, q) /\ q < Len(entries)
    BY <1>2, <1>3 DEF Placed
  <2>3. VbkReader!Get(vbk.tables, TableSize, q) = VbkReader!Entry(entries[q + 1])
    BY <1>1, <1>2, <1>3, <2>1, <2>2, GetIs
  <2> QED
    BY <2>3, EntryIs, Zenon
<1> HIDE DEF t
<1>7. ~(b >= Len(v.blocks))
  BY <1>1
<1>8. parts[q + 1] \in Seq(BlockDescriptors) /\ Len(parts[q + 1]) \in Nat
  <2>1. parts[q + 1] \in Seq(BlockDescriptors)
    BY <1>3, ElementOfSeq
  <2> QED
    BY <2>1, LenProperties
<1>9. CASE \A x \in VbkReader!ToSet(parts[q + 1]) : x = VbkReader!Sparse
  <2>1. v.blocks[b + 1] = VbkReader!Sparse
    <3> DEFINE s == parts[q + 1]
    <3>1. DOMAIN s = 1 .. Len(s)
      BY <1>8, LenProperties
    <3>2. s[k + 1] \in VbkReader!ToSet(s)
      BY <1>3, <3>1 DEF VbkReader!ToSet
    <3> QED
      BY <1>3, <1>9, <3>2
  <2>2. ~t.listed
    BY <1>3, <1>6, <1>9
  <2> QED
    BY <1>5, <1>7, <2>1, <2>2
<1>10. CASE ~(\A x \in VbkReader!ToSet(parts[q + 1]) : x = VbkReader!Sparse)
  <2>1. t.listed /\ t.vector = VbkReader!Vector(v.version2, size, parts[q + 1])
    BY <1>3, <1>6, <1>10
  <2>2. k < Len(parts[q + 1])
    BY <1>3, <1>8
  <2>3. VbkReader!Get(VbkReader!Vector(v.version2, size, parts[q + 1]), size, k) =
          VbkReader!Entry(parts[q + 1][k + 1])
    BY <1>1, <1>2, <1>3, <1>4, <1>8, <2>2, GetIs
  <2> QED
    BY <1>3, <1>5, <1>7, <2>1, <2>3
<1> QED
  BY <1>9, <1>10

-----------------------------------------------------------------------------

\* What holds while a file is read: the blocks read that are in place are the file's, and so is
\* the descriptor that was looked up.
VbkReadInv ==
  /\ \E v \in Vbks : vbk = VbkReader!Written(v)
  /\ request.first \in Nat /\ request.count \in Nat
  /\ request.first + request.count <= Len(vbk.blocks)
  /\ block \in Nat /\ request.first <= block /\ block <= request.first + request.count
  /\ \E S : result \in Seq(S)
  /\ Len(result) = block - request.first
  /\ \A i \in 1 .. Len(result) :
       VbkReader!InPlace(request.first + i - 1) => result[i] = VbkReader!Content(request.first + i - 1)
  /\ descriptor # VbkReader!NoDescriptor =>
       /\ block < request.first + request.count
       /\ VbkReader!InPlace(block) => descriptor = VbkReader!Entry(vbk.blocks[block + 1])
  /\ pc \notin {"reading", "done"} => VbkReader!Unreadable(block) \/ ~VbkReader!InPlace(block)

LEMMA VbkReadInit == VbkReader!Init => VbkReadInv
<1> SUFFICES ASSUME VbkReader!Init PROVE VbkReadInv
  OBVIOUS
<1>1. PICK v \in Vbks : vbk = VbkReader!Written(v)
  BY DEF VbkReader!Init
<1>2. Len(vbk.blocks) \in Nat
  BY <1>1, VbkFile
<1>3. request \in [first : 0 .. Len(vbk.blocks) - 1, count : 1 .. Len(vbk.blocks)]
      /\ request.first + request.count <= Len(vbk.blocks)
  BY DEF VbkReader!Init
<1>4. request.first \in Nat /\ request.count \in Nat /\ request.first <= request.first + request.count
  BY <1>2, <1>3
<1>5. block = request.first /\ descriptor = VbkReader!NoDescriptor /\ result = <<>> /\ pc = "reading"
  BY DEF VbkReader!Init
<1>6. result \in Seq(Int) /\ Len(result) = block - request.first
  BY <1>4, <1>5
<1>7. \A i \in 1 .. Len(result) : FALSE
  BY <1>5
<1> QED
  BY <1>1, <1>3, <1>4, <1>5, <1>6, <1>7 DEF VbkReadInv

\* A block in place is found in the tables and, if it is stored, in the block store.
LEMMA InPlaceFound ==
  ASSUME NEW v \in Vbks, vbk = VbkReader!Written(v), NEW b \in Nat, b < Len(v.blocks),
         VbkReader!InPlace(b)
  PROVE  /\ VbkReader!BlockDescriptor(b) = VbkReader!Entry(v.blocks[b + 1])
         /\ v.blocks[b + 1] \in BlockDescriptors
         /\ v.blocks[b + 1].type = "normal" =>
              VbkReader!Get(vbk.block_store, StoreSize, v.blocks[b + 1].id) =
                IF v.blocks[b + 1].id < Len(v.store)
                THEN VbkReader!Entry(v.store[v.blocks[b + 1].id + 1]) ELSE VbkReader!OutOfRange
<1>1. /\ vbk.old = v.old /\ vbk.blocks = v.blocks /\ vbk.block_store.version2 = v.version2
      /\ v.version2 \in BOOLEAN /\ v.old \in BOOLEAN /\ (v.version2 => ~v.old)
      /\ v.blocks \in Seq(BlockDescriptors) /\ Len(v.blocks) \in Nat
  BY VbkFile
<1>2. b \in 0 .. Len(v.blocks) - 1 /\ b + 1 \in 1 .. Len(v.blocks)
  BY <1>1
<1>3. /\ Placed(v.version2, VbkReader!FibEntrySize(v.old), b % MAX_ENTRIES_PER_TABLE)
      /\ v.old => v.blocks[b + 1].id = 0
  BY <1>1 DEF VbkReader!InPlace, VbkReader!Fits, Placed
<1>4. v.blocks[b + 1] \in BlockDescriptors
  BY <1>1, <1>2, ElementOfSeq
<1>5. v.blocks[b + 1].id \in Nat
  BY <1>4 DEF BlockDescriptors
<1> QED
  BY <1>2, <1>3, <1>4, <1>5, DescriptorIs, StoredIs

\* The descriptors of blocks tell their types.
LEMMA BlockTypes ==
  ASSUME NEW x \in BlockDescriptors
  PROVE  /\ x.type \in {"normal", "sparse", "archived"} /\ x.id \in Nat
         /\ x = VbkReader!Sparse <=> x.type = "sparse"
         /\ x = VbkReader!Archived <=> x.type = "archived"
BY DEF BlockDescriptors, VbkReader!Sparse, VbkReader!Archived

\* A block that is read right keeps the invariant.
LEMMA VbkGives ==
  ASSUME VbkReadInv, NEW x, VbkReader!Give(x), pc = "reading",
         block < request.first + request.count,
         VbkReader!InPlace(block) => x = VbkReader!Content(block)
  PROVE  VbkReadInv'
<1> DEFINE f == request.first
<1>1. /\ result' = Append(result, x) /\ block' = block + 1 /\ descriptor' = VbkReader!NoDescriptor
      /\ vbk' = vbk /\ request' = request /\ pc' = pc
  BY DEF VbkReader!Give
<1>2. /\ f \in Nat /\ request.count \in Nat /\ block \in Nat /\ f <= block
      /\ Len(result) = block - f
  BY DEF VbkReadInv
<1>3. PICK S : result \in Seq(S)
  BY DEF VbkReadInv
<1>4. /\ result' \in Seq(S \cup {x}) /\ Len(result') = Len(result) + 1
      /\ \A i \in 1 .. Len(result) : result'[i] = result[i]
      /\ result'[Len(result) + 1] = x
  <2>1. result \in Seq(S \cup {x})
    BY <1>3
  <2> QED
    BY <1>1, <2>1, AppendProperties
<1>5. \A b : /\ VbkReader!InPlace(b)' <=> VbkReader!InPlace(b)
             /\ VbkReader!Content(b)' = VbkReader!Content(b)
  BY <1>1 DEF VbkReader!InPlace, VbkReader!Content
<1>6. ASSUME NEW i \in 1 .. Len(result'), VbkReader!InPlace(f + i - 1)
      PROVE  result'[i] = VbkReader!Content(f + i - 1)
  <2>1. CASE i = Len(result) + 1
    <3>1. f + i - 1 = block
      BY <1>2, <2>1
    <3> QED
      BY <1>4, <1>6, <2>1, <3>1
  <2>2. CASE i # Len(result) + 1
    <3>1. i \in 1 .. Len(result)
      BY <1>2, <1>4, <2>2
    <3>2. result[i] = VbkReader!Content(f + i - 1)
      BY <1>6, <3>1 DEF VbkReadInv
    <3> QED
      BY <1>4, <3>1, <3>2
  <2> QED
    BY <2>1, <2>2
<1>7. /\ block' \in Nat /\ f <= block' /\ block' <= f + request.count
      /\ Len(result') = block' - f
  BY <1>1, <1>2, <1>4
<1>8. \A i \in 1 .. Len(result') :
        VbkReader!InPlace(request.first + i - 1)' => result'[i] = VbkReader!Content(request.first + i - 1)'
  BY <1>1, <1>5, <1>6
<1>9. /\ \E v \in Vbks : vbk' = VbkReader!Written(v)
      /\ request'.first \in Nat /\ request'.count \in Nat
      /\ request'.first + request'.count <= Len(vbk'.blocks)
  BY <1>1 DEF VbkReadInv
<1> QED
  BY <1>1, <1>4, <1>7, <1>8, <1>9 DEF VbkReadInv

\* A read that ends or fails where it may keeps the invariant, and so does one that goes on.
LEMMA VbkKeeps ==
  ASSUME VbkReadInv, UNCHANGED <<vbk, request, block, result>>,
         descriptor' # VbkReader!NoDescriptor =>
           /\ block < request.first + request.count
           /\ VbkReader!InPlace(block) => descriptor' = VbkReader!Entry(vbk.blocks[block + 1]),
         pc' \notin {"reading", "done"} => VbkReader!Unreadable(block) \/ ~VbkReader!InPlace(block)
  PROVE  VbkReadInv'
<1>1. \A b : /\ VbkReader!InPlace(b)' <=> VbkReader!InPlace(b)
             /\ VbkReader!Content(b)' = VbkReader!Content(b)
             /\ VbkReader!Unreadable(b)' <=> VbkReader!Unreadable(b)
  BY DEF VbkReader!InPlace, VbkReader!Content, VbkReader!Unreadable
<1>2. \A i \in 1 .. Len(result') :
        VbkReader!InPlace(request.first + i - 1)' => result'[i] = VbkReader!Content(request.first + i - 1)'
  BY <1>1 DEF VbkReadInv
<1>3. /\ \E v \in Vbks : vbk' = VbkReader!Written(v)
      /\ request'.first \in Nat /\ request'.count \in Nat
      /\ request'.first + request'.count <= Len(vbk'.blocks)
      /\ block' \in Nat /\ request'.first <= block' /\ block' <= request'.first + request'.count
      /\ \E S : result' \in Seq(S)
      /\ Len(result') = block' - request'.first
  BY DEF VbkReadInv
<1>4. /\ descriptor' # VbkReader!NoDescriptor =>
           /\ block' < request'.first + request'.count
           /\ VbkReader!InPlace(block)' => descriptor' = VbkReader!Entry(vbk'.blocks[block' + 1])
      /\ pc' \notin {"reading", "done"} => VbkReader!Unreadable(block)' \/ ~VbkReader!InPlace(block)'
  BY <1>1
<1>5. block' = block
  OBVIOUS
<1> QED
  BY <1>1, <1>2, <1>3, <1>4, <1>5 DEF VbkReadInv

\* Every step of a read keeps the invariant.
LEMMA VbkReadStep ==
  ASSUME VbkReadInv, [VbkReader!Next]_(VbkReader!vars)
  PROVE  VbkReadInv'
<1>1. PICK v \in Vbks : vbk = VbkReader!Written(v)
  BY DEF VbkReadInv
<1>2. /\ vbk.old = v.old /\ vbk.blocks = v.blocks /\ vbk.store = v.store
      /\ Len(v.blocks) \in Nat /\ Len(v.store) \in Nat
  BY <1>1, VbkFile
<1>3. /\ request.first \in Nat /\ request.count \in Nat
      /\ request.first + request.count <= Len(v.blocks)
      /\ block \in Nat
  BY <1>2 DEF VbkReadInv
<1>4. ASSUME block < request.first + request.count, VbkReader!InPlace(block)
      PROVE  /\ VbkReader!BlockDescriptor(block) = VbkReader!Entry(v.blocks[block + 1])
             /\ v.blocks[block + 1] \in BlockDescriptors
             /\ v.blocks[block + 1].type = "normal" =>
                  VbkReader!Get(vbk.block_store, StoreSize, v.blocks[block + 1].id) =
                    IF v.blocks[block + 1].id < Len(v.store)
                    THEN VbkReader!Entry(v.store[v.blocks[block + 1].id + 1]) ELSE VbkReader!OutOfRange
  <2>1. block < Len(v.blocks)
    BY <1>2, <1>3, <1>4
  <2> QED
    BY <1>1, <1>3, <1>4, <2>1, InPlaceFound
\* What is known of the block that is read when its descriptor was looked up.
<1> DEFINE x == v.blocks[block + 1]
<1>5. ASSUME VbkReader!Reading, descriptor # VbkReader!NoDescriptor, VbkReader!InPlace(block)
      PROVE  /\ descriptor = VbkReader!Entry(x) /\ descriptor.entry = x /\ descriptor.error = ""
             /\ x.type \in {"normal", "sparse", "archived"} /\ x.id \in Nat
             /\ x = VbkReader!Sparse <=> x.type = "sparse"
             /\ x = VbkReader!Archived <=> x.type = "archived"
             /\ x.type = "normal" =>
                  VbkReader!StoreEntry = IF x.id < Len(v.store) THEN VbkReader!Entry(v.store[x.id + 1])
                                         ELSE VbkReader!OutOfRange
  <2>1. /\ block < request.first + request.count
        /\ descriptor = VbkReader!Entry(vbk.blocks[block + 1])
    BY <1>5 DEF VbkReadInv
  <2>2. descriptor = VbkReader!Entry(x)
    BY <1>2, <2>1
  <2> HIDE DEF x
  <2>3. descriptor.entry = x /\ descriptor.error = ""
    BY <2>2, EntryIs
  <2>4. x \in BlockDescriptors
    BY <1>4, <1>5, <2>1 DEF x
  <2>5. x.type = "normal" =>
          VbkReader!StoreEntry = IF x.id < Len(v.store) THEN VbkReader!Entry(v.store[x.id + 1])
                                 ELSE VbkReader!OutOfRange
    BY <1>4, <1>5, <2>1, <2>3 DEF x, VbkReader!StoreEntry
  <2> QED
    BY <2>2, <2>3, <2>4, <2>5, BlockTypes
<1>6. /\ VbkReader!NoDescriptor.error = "not looked up"
      /\ \A type : VbkReader!At(type) =>
           VbkReader!Reading /\ descriptor # VbkReader!NoDescriptor /\ descriptor.entry.type = type
      /\ VbkReader!Reading => pc = "reading" /\ block < request.first + request.count
  <2>1. VbkReader!NoDescriptor.error = "not looked up"
    BY DEF VbkReader!NoDescriptor
  <2>2. \A type : VbkReader!At(type) =>
          VbkReader!Reading /\ descriptor.error = "" /\ descriptor.entry.type = type
    BY DEF VbkReader!At
  <2>3. VbkReader!Reading => pc = "reading" /\ block < request.first + request.count
    BY DEF VbkReader!Reading
  <2>4. descriptor.error = "" => descriptor # VbkReader!NoDescriptor
    BY <2>1
  <2> QED
    BY <2>1, <2>2, <2>3, <2>4
<1>7. VbkReader!OutOfRange.error = "index out of range"
  BY DEF VbkReader!OutOfRange
<1> HIDE DEF x
<1>8. VbkReader!Content(block) = IF x = VbkReader!Sparse THEN VbkReader!Zero ELSE v.store[x.id + 1].data
  BY <1>2 DEF VbkReader!Content, x
<1>9. VbkReader!Unreadable(block) <=>
        \/ x = VbkReader!Archived
        \/ x # VbkReader!Sparse /\ (x.id >= Len(v.store)
             \/ v.store[x.id + 1].compression \notin {VbkReader!Plain, VbkReader!LZ4})
  BY <1>2 DEF VbkReader!Unreadable, x
<1>10. CASE VbkReader!LookUp
  <2>1. /\ VbkReader!Reading /\ descriptor' = VbkReader!BlockDescriptor(block) /\ pc' = pc
        /\ UNCHANGED <<vbk, request, block, result>>
    BY <1>10 DEF VbkReader!LookUp
  <2>2. VbkReader!InPlace(block) => descriptor' = VbkReader!Entry(vbk.blocks[block + 1])
    BY <1>2, <1>4, <1>6, <2>1
  <2> QED
    BY <1>6, <2>1, <2>2, VbkKeeps
\* A step that fails.
<1>11. ASSUME NEW error, VbkReader!Fail(error), VbkReader!Reading, descriptor # VbkReader!NoDescriptor,
              VbkReader!Unreadable(block) \/ ~VbkReader!InPlace(block)
       PROVE  VbkReadInv'
  <2>1. UNCHANGED <<vbk, request, block, result, descriptor>>
    BY <1>11 DEF VbkReader!Fail
  <2>2. VbkReader!InPlace(block) => descriptor = VbkReader!Entry(vbk.blocks[block + 1])
    BY <1>11 DEF VbkReadInv
  <2> QED
    BY <1>6, <1>11, <2>1, <2>2, VbkKeeps
<1>12. CASE VbkReader!NotThere
  <2>1. /\ VbkReader!Reading /\ descriptor # VbkReader!NoDescriptor /\ descriptor.error # ""
        /\ VbkReader!Fail(descriptor.error)
    BY <1>12 DEF VbkReader!NotThere
  <2>2. ~VbkReader!InPlace(block)
    BY <1>5, <2>1
  <2> QED
    BY <1>11, <2>1, <2>2
<1>13. CASE VbkReader!ReadStored
  <2>1. /\ VbkReader!At("normal") /\ VbkReader!StoreEntry.error = ""
        /\ VbkReader!Give(VbkReader!StoreEntry.entry.data)
    BY <1>13 DEF VbkReader!ReadStored
  <2>2. ASSUME VbkReader!InPlace(block)
        PROVE  VbkReader!StoreEntry.entry.data = VbkReader!Content(block)
    <3>1. /\ x.type = "normal" /\ x # VbkReader!Sparse
          /\ VbkReader!StoreEntry = IF x.id < Len(v.store) THEN VbkReader!Entry(v.store[x.id + 1])
                                    ELSE VbkReader!OutOfRange
      BY <1>5, <1>6, <2>1, <2>2
    <3>2. VbkReader!StoreEntry = VbkReader!Entry(v.store[x.id + 1])
      BY <1>7, <2>1, <3>1
    <3>3. VbkReader!StoreEntry.entry = v.store[x.id + 1]
      BY <3>2, EntryIs
    <3> QED
      BY <1>8, <3>1, <3>3
  <2> QED
    BY <1>6, <2>1, <2>2, VbkGives
<1>14. CASE VbkReader!NotStored
  <2>1. /\ VbkReader!At("normal") /\ VbkReader!StoreEntry.error # ""
        /\ VbkReader!Fail(VbkReader!StoreEntry.error)
    BY <1>14 DEF VbkReader!NotStored
  <2>2. VbkReader!InPlace(block) => VbkReader!Unreadable(block)
    <3> SUFFICES ASSUME VbkReader!InPlace(block) PROVE VbkReader!Unreadable(block)
      OBVIOUS
    <3>1. /\ x # VbkReader!Sparse /\ x.id \in Nat
          /\ VbkReader!StoreEntry = IF x.id < Len(v.store) THEN VbkReader!Entry(v.store[x.id + 1])
                                    ELSE VbkReader!OutOfRange
      BY <1>5, <1>6, <2>1
    <3>2. ~(x.id < Len(v.store))
      BY <2>1, <3>1, EntryIs
    <3> QED
      BY <1>2, <1>9, <3>1, <3>2
  <2> QED
    BY <1>6, <1>11, <2>1, <2>2
<1>15. CASE VbkReader!UnsupportedCompression
  <2>1. /\ VbkReader!At("normal") /\ VbkReader!StoreEntry.error = ""
        /\ VbkReader!StoreEntry.entry.compression \notin {VbkReader!Plain, VbkReader!LZ4}
        /\ VbkReader!Fail("unsupported compression")
    BY <1>15 DEF VbkReader!UnsupportedCompression
  <2>2. VbkReader!InPlace(block) => VbkReader!Unreadable(block)
    <3> SUFFICES ASSUME VbkReader!InPlace(block) PROVE VbkReader!Unreadable(block)
      OBVIOUS
    <3>1. /\ x # VbkReader!Sparse
          /\ VbkReader!StoreEntry = IF x.id < Len(v.store) THEN VbkReader!Entry(v.store[x.id + 1])
                                    ELSE VbkReader!OutOfRange
      BY <1>5, <1>6, <2>1
    <3>2. VbkReader!StoreEntry = VbkReader!Entry(v.store[x.id + 1])
      BY <1>7, <2>1, <3>1
    <3>3. VbkReader!StoreEntry.entry = v.store[x.id + 1]
      BY <3>2, EntryIs
    <3> QED
      BY <1>9, <2>1, <3>1, <3>3
  <2> QED
    BY <1>6, <1>11, <2>1, <2>2
<1>16. CASE VbkReader!ReadSparse
  <2>1. VbkReader!At("sparse") /\ VbkReader!Give(VbkReader!Zero)
    BY <1>16 DEF VbkReader!ReadSparse
  <2>2. VbkReader!InPlace(block) => VbkReader!Zero = VbkReader!Content(block)
    BY <1>5, <1>6, <1>8, <2>1
  <2> QED
    BY <1>6, <2>1, <2>2, VbkGives
<1>17. CASE VbkReader!UnsupportedBlock
  <2>1. /\ VbkReader!Reading /\ descriptor.error = "" /\ VbkReader!Fail("unsupported block")
        /\ descriptor.entry.type \notin {"normal", "sparse"}
    BY <1>17 DEF VbkReader!UnsupportedBlock
  <2>2. descriptor # VbkReader!NoDescriptor
    BY <1>6, <2>1
  <2>3. VbkReader!InPlace(block) => VbkReader!Unreadable(block)
    BY <1>5, <1>9, <2>1, <2>2
  <2> QED
    BY <1>11, <2>1, <2>2, <2>3
<1>18. CASE VbkReader!Return
  <2>1. pc' = "done" /\ UNCHANGED <<vbk, request, block, descriptor, result>>
    BY <1>18 DEF VbkReader!Return
  <2>2. descriptor # VbkReader!NoDescriptor =>
          /\ block < request.first + request.count
          /\ VbkReader!InPlace(block) => descriptor = VbkReader!Entry(vbk.blocks[block + 1])
    BY DEF VbkReadInv
  <2> QED
    BY <2>1, <2>2, VbkKeeps
<1>19. CASE UNCHANGED VbkReader!vars
  <2>1. UNCHANGED <<vbk, request, block, descriptor, result, pc>>
    BY <1>19 DEF VbkReader!vars
  <2>2. /\ descriptor # VbkReader!NoDescriptor =>
             /\ block < request.first + request.count
             /\ VbkReader!InPlace(block) => descriptor = VbkReader!Entry(vbk.blocks[block + 1])
        /\ pc \notin {"reading", "done"} => VbkReader!Unreadable(block) \/ ~VbkReader!InPlace(block)
    BY DEF VbkReadInv
  <2> QED
    BY <2>1, <2>2, VbkKeeps
<1> QED
  BY <1>10, <1>12, <1>13, <1>14, <1>15, <1>16, <1>17, <1>18, <1>19 DEF VbkReader!Next, VbkReader!Ended

LEMMA VbkReadFinal == VbkReadInv => VbkReader!ReadsInPlace
BY DEF VbkReadInv, VbkReader!ReadsInPlace

\* For any VBK file, a read of a file in it gives every block as it was stored, wherever in its
\* tables and in the block store it is listed, and fails only at a block that cannot be read, if
\* its entries are in place (FibStream._read, FibMetaSparseTable, MetaVector, MetaVector2).
THEOREM VbkReadCorrect == Spec => []VbkReadsFile
<1> DEFINE Inv == format = "vbk" => VbkReadInv
<1>1. Init => Inv
  BY VbkReadInit DEF Init
<1>2. Inv /\ [Next]_vars => Inv'
  <2> SUFFICES ASSUME Inv, [Next]_vars, format' = "vbk"
               PROVE  VbkReadInv'
    OBVIOUS
  <2>1. format = "vbk" /\ [VbkReader!Next]_(VbkReader!vars)
    BY DEF Next, vars, vbk_read, VbkReader!vars
  <2> QED
    BY <2>1, VbkReadStep
<1>3. Inv => VbkReadsFile
  BY VbkReadFinal DEF VbkReadsFile
<1> QED
  BY <1>1, <1>2, <1>3, PTL DEF Spec

-----------------------------------------------------------------------------
(***************************************************************************)
(* Items found by their paths                                              *)
(***************************************************************************)

\* The module of the directories has the same vectors.
LEMMA ItemVector ==
  ASSUME NEW version2, NEW size, NEW entries
  PROVE  VbkItems!Vector(version2, size, entries) = VbkReader!Vector(version2, size, entries)
<1>1. \A m : VbkItems!TableWords(m) = VbkReader!TableWords(m)
  BY DEF VbkItems!TableWords, VbkReader!TableWords, VbkItems!FlattenSeq, VbkReader!FlattenSeq,
    VbkItems!Cardinality, VbkReader!Cardinality, VbkItems!TablePages, VbkReader!TablePages,
    VbkItems!TablePage, VbkReader!TablePage, VbkItems!FirstListed, VbkReader!FirstListed,
    VbkItems!TableHeader, VbkReader!TableHeader, VbkItems!Header, VbkReader!Header
<1> QED
  BY <1>1 DEF VbkItems!Vector, VbkReader!Vector, VbkItems!Parts, VbkReader!Parts,
    VbkItems!PerPage, VbkReader!PerPage, VbkItems!EntryHeader, VbkReader!EntryHeader,
    VbkItems!CeilDiv, VbkReader!CeilDiv

\* And it finds the same in them.
LEMMA ItemGet ==
  ASSUME NEW v, NEW size, NEW idx
  PROVE  VbkItems!Get(v, size, idx) = VbkReader!Get(v, size, idx)
BY DEF VbkItems!Get, VbkReader!Get, VbkItems!LookupPage, VbkReader!LookupPage,
  VbkItems!TableOffset, VbkReader!TableOffset, VbkItems!MaxEntries, VbkReader!MaxEntries,
  VbkItems!EntryOf, VbkReader!EntryOf, VbkItems!EntryHeader, VbkReader!EntryHeader,
  VbkItems!EntriesPerPage, VbkReader!EntriesPerPage, VbkItems!OutOfRange, VbkReader!OutOfRange,
  VbkItems!CutOff, VbkReader!CutOff, VbkItems!Entry, VbkReader!Entry, VbkItems!Garbage,
  VbkReader!Garbage

DirItems == [name : STRING, kind : STRING, folder : Nat]

\* A tree is what is written of one.
StoredTree == \E t \in VbkTrees : tree = VbkItems!Stored(t)

\* A directory has its items where they are looked for.
LEMMA DirectoryIs ==
  ASSUME StoredTree, NEW d \in DOMAIN tree.directories
  PROVE  /\ tree.directories[d] \in Seq(DirItems) /\ Len(tree.directories[d]) \in Nat
         /\ tree.vectors[d].count = Len(tree.directories[d])
         /\ \A e \in Nat : e < Len(tree.directories[d]) =>
              VbkItems!Get(tree.vectors[d], ItemSize, e).entry = tree.directories[d][e + 1]
<1>1. PICK t \in VbkTrees : tree = VbkItems!Stored(t)
  BY DEF StoredTree
<1>2. /\ tree.directories = t.directories
      /\ tree.vectors[d] = VbkReader!Vector(t.version2, ItemSize, t.directories[d])
  <2>1. tree.directories = t.directories
    BY <1>1 DEF VbkItems!Stored
  <2>2. tree.vectors[d] = VbkItems!Vector(t.version2, ItemSize, t.directories[d])
    BY <1>1, <2>1 DEF VbkItems!Stored
  <2> QED
    BY <2>1, <2>2, ItemVector
<1> DEFINE s == t.directories[d]
<1>3. s \in Seq(DirItems) /\ t.version2 \in BOOLEAN
  BY <1>2, VbkTreesAssumption DEF DirItems
<1>4. Len(s) \in Nat
  BY <1>3, LenProperties
<1>5. /\ PAGE_SIZE \in Nat /\ PAGE_SIZE > 4 /\ ItemSize \in 1 .. PAGE_SIZE - 1
      /\ (PAGE_SIZE - 1) \div ItemSize = PAGE_SIZE \div ItemSize
  BY VbkAssumption
<1> HIDE DEF s
<1>6. VbkReader!Vector(t.version2, ItemSize, s).count = Len(s)
  BY VectorIs
<1>7. ASSUME NEW e \in Nat, e < Len(s)
      PROVE  VbkItems!Get(VbkReader!Vector(t.version2, ItemSize, s), ItemSize, e).entry = s[e + 1]
  <2>1. Placed(t.version2, ItemSize, e)
    BY <1>5 DEF Placed
  <2>2. VbkReader!Get(VbkReader!Vector(t.version2, ItemSize, s), ItemSize, e) =
          VbkReader!Entry(s[e + 1])
    BY <1>3, <1>5, <1>7, <2>1, GetIs
  <2> QED
    BY <2>2, ItemGet, EntryIs
<1> QED
  BY <1>2, <1>3, <1>4, <1>6, <1>7 DEF s

\* The items of a tree; a folder has a directory.
LEMMA AllItemsAre ==
  ASSUME StoredTree
  PROVE  /\ VbkItems!Root \in VbkItems!AllItems
         /\ \A x \in VbkItems!AllItems : x.kind = VbkItems!Folder => x.folder \in DOMAIN tree.directories
         /\ \A d \in DOMAIN tree.directories : \A i \in 1 .. Len(tree.directories[d]) :
              tree.directories[d][i] \in VbkItems!AllItems
<1>1. PICK t \in VbkTrees : tree = VbkItems!Stored(t)
  BY DEF StoredTree
<1>2. tree.directories = t.directories
  BY <1>1 DEF VbkItems!Stored
<1>3. /\ 1 \in DOMAIN tree.directories
      /\ \A d \in DOMAIN tree.directories :
           /\ tree.directories[d] \in Seq(DirItems)
           /\ \A i \in 1 .. Len(tree.directories[d]) :
                tree.directories[d][i].kind = VbkItems!Folder =>
                  tree.directories[d][i].folder \in DOMAIN tree.directories
  BY <1>2, VbkTreesAssumption DEF DirItems, VbkItems!Folder
<1>4. \A d \in DOMAIN tree.directories :
        /\ DOMAIN tree.directories[d] = 1 .. Len(tree.directories[d])
        /\ \A i \in 1 .. Len(tree.directories[d]) : tree.directories[d][i] \in DirItems
  BY <1>3, LenProperties, ElementOfSeq
<1>5. VbkItems!Root.folder = 1
  BY DEF VbkItems!Root
<1>6. \A x : x \in VbkItems!AllItems <=>
        \/ x = VbkItems!Root
        \/ \E d \in DOMAIN tree.directories : \E i \in 1 .. Len(tree.directories[d]) :
             x = tree.directories[d][i]
  BY <1>4 DEF VbkItems!AllItems, VbkItems!ToSet
<1> QED
  BY <1>3, <1>4, <1>5, <1>6

\* A step of a path is to the first item of that name, in the directory of a folder.
LEMMA LeadsTo ==
  ASSUME StoredTree, NEW from \in VbkItems!AllItems, NEW name, NEW e \in Nat, NEW to,
         from.kind = VbkItems!Folder, e < Len(tree.directories[from.folder]),
         tree.directories[from.folder][e + 1].name = name,
         \A j \in 1 .. e : tree.directories[from.folder][j].name # name
  PROVE  VbkItems!Leads(from, name, to) <=> to = tree.directories[from.folder][e + 1]
<1> DEFINE s == tree.directories[from.folder]
<1>1. s \in Seq(DirItems) /\ Len(s) \in Nat /\ DOMAIN s = 1 .. Len(s)
  <2>1. s \in Seq(DirItems) /\ Len(s) \in Nat
    BY AllItemsAre, DirectoryIs
  <2> HIDE DEF s
  <2> QED
    BY <2>1, LenProperties
<1>2. VbkItems!Leads(from, name, to) <=>
        \E i \in 1 .. Len(s) : to = s[i] /\ to.name = name /\ \A j \in 1 .. i - 1 : s[j].name # name
  BY <1>1 DEF VbkItems!Leads
<1>3. s[e + 1].name = name /\ e < Len(s) /\ \A j \in 1 .. e : s[j].name # name
  OBVIOUS
<1> HIDE DEF s
<1>4. e + 1 \in 1 .. Len(s) /\ e + 1 - 1 = e
  BY <1>1, <1>3
<1>5. ASSUME NEW i \in 1 .. Len(s), s[i].name = name, \A j \in 1 .. i - 1 : s[j].name # name
      PROVE  i = e + 1
  <2>1. ~(i < e + 1)
    <3>1. i < e + 1 => i \in 1 .. e
      BY <1>1
    <3> QED
      BY <1>3, <1>5, <3>1
  <2>2. ~(e + 1 < i)
    <3>1. e + 1 < i => e + 1 \in 1 .. i - 1
      BY <1>1
    <3> QED
      BY <1>3, <1>5, <3>1
  <2> QED
    BY <1>1, <2>1, <2>2
<1>6. to = s[e + 1] =>
        \E i \in 1 .. Len(s) : to = s[i] /\ to.name = name /\ \A j \in 1 .. i - 1 : s[j].name # name
  BY <1>3, <1>4
<1> QED
  BY <1>2, <1>5, <1>6 DEF s

\* No step is from what is no folder, or where no item has the name.
LEMMA LeadsNowhere ==
  ASSUME StoredTree, NEW from \in VbkItems!AllItems, NEW name,
         \/ from.kind # VbkItems!Folder
         \/ \A j \in 1 .. Len(tree.directories[from.folder]) :
              tree.directories[from.folder][j].name # name,
         NEW to
  PROVE  ~VbkItems!Leads(from, name, to)
<1>1. CASE from.kind # VbkItems!Folder
  BY <1>1 DEF VbkItems!Leads
<1>2. CASE from.kind = VbkItems!Folder
  <2> DEFINE s == tree.directories[from.folder]
  <2>1. s \in Seq(DirItems)
    BY <1>2, AllItemsAre, DirectoryIs
  <2>2. DOMAIN s = 1 .. Len(s)
    <3> HIDE DEF s
    <3> QED
      BY <2>1, LenProperties
  <2> QED
    BY <1>2, <2>2 DEF VbkItems!Leads
<1> QED
  BY <1>1, <1>2

-----------------------------------------------------------------------------

\* f has the items that the first names of the path lead to.
FindsAt(f) ==
  f = [n \in Nat |->
         IF n = 0 THEN {VbkItems!Root}
         ELSE {to \in VbkItems!AllItems :
                 \E from \in f[n - 1] : VbkItems!Leads(from, VbkItems!Names[n], to)}]

\* The items s goes over, along the first n names of the path.
GoesOver(n, s) ==
  /\ s \in [0 .. n -> VbkItems!AllItems]
  /\ s[0] = VbkItems!Root
  /\ \A i \in 1 .. n : VbkItems!Leads(s[i - 1], VbkItems!Names[i], s[i])

\* A way along n names is one along the names before the last, and a step.
LEMMA GoesOn ==
  ASSUME NEW n \in Nat \ {0}, NEW to \in VbkItems!AllItems
  PROVE  (\E s : GoesOver(n, s) /\ s[n] = to) <=>
           \E from \in VbkItems!AllItems : /\ \E s : GoesOver(n - 1, s) /\ s[n - 1] = from
                                           /\ VbkItems!Leads(from, VbkItems!Names[n], to)
<1>1. ASSUME NEW s, GoesOver(n, s), s[n] = to
      PROVE  /\ s[n - 1] \in VbkItems!AllItems
             /\ VbkItems!Leads(s[n - 1], VbkItems!Names[n], to)
             /\ \E u : GoesOver(n - 1, u) /\ u[n - 1] = s[n - 1]
  <2> DEFINE u == [i \in 0 .. n - 1 |-> s[i]]
  <2>1. n - 1 \in 0 .. n /\ n \in 1 .. n
    OBVIOUS
  <2>2. \A i \in 0 .. n - 1 : i \in 0 .. n /\ u[i] = s[i]
    OBVIOUS
  <2>3. u \in [0 .. n - 1 -> VbkItems!AllItems]
    BY <1>1 DEF GoesOver
  <2>4. u[0] = VbkItems!Root /\ u[n - 1] = s[n - 1]
    BY <1>1 DEF GoesOver
  <2>5. ASSUME NEW i \in 1 .. n - 1
        PROVE  VbkItems!Leads(u[i - 1], VbkItems!Names[i], u[i])
    <3>1. i \in 1 .. n /\ i \in 0 .. n - 1 /\ i - 1 \in 0 .. n - 1
      OBVIOUS
    <3> QED
      BY <1>1, <2>2, <3>1 DEF GoesOver
  <2>6. GoesOver(n - 1, u)
    BY <2>3, <2>4, <2>5 DEF GoesOver
  <2> QED
    BY <1>1, <2>1, <2>4, <2>6 DEF GoesOver
<1>2. ASSUME NEW from \in VbkItems!AllItems, NEW s, GoesOver(n - 1, s), s[n - 1] = from,
             VbkItems!Leads(from, VbkItems!Names[n], to)
      PROVE  \E u : GoesOver(n, u) /\ u[n] = to
  <2> DEFINE u == [i \in 0 .. n |-> IF i = n THEN to ELSE s[i]]
  <2>1. \A i \in 0 .. n : i # n => i \in 0 .. n - 1
    OBVIOUS
  <2>2. u \in [0 .. n -> VbkItems!AllItems]
    BY <1>2, <2>1 DEF GoesOver
  <2>3. u[n] = to /\ u[0] = VbkItems!Root /\ u[n - 1] = from
    <3>1. n \in 0 .. n /\ 0 \in 0 .. n /\ n - 1 \in 0 .. n /\ n # 0 /\ n - 1 # n
      OBVIOUS
    <3> QED
      BY <1>2, <3>1 DEF GoesOver
  <2>4. ASSUME NEW i \in 1 .. n
        PROVE  VbkItems!Leads(u[i - 1], VbkItems!Names[i], u[i])
    <3>1. CASE i = n
      BY <1>2, <2>3, <3>1
    <3>2. CASE i # n
      <4>1. i \in 1 .. n - 1 /\ i \in 0 .. n /\ i - 1 \in 0 .. n /\ i - 1 # n
        BY <3>2
      <4>2. u[i] = s[i] /\ u[i - 1] = s[i - 1]
        BY <3>2, <4>1
      <4> QED
        BY <1>2, <4>1, <4>2 DEF GoesOver
    <3> QED
      BY <3>1, <3>2
  <2> HIDE DEF u
  <2>5. GoesOver(n, u)
    BY <2>2, <2>3, <2>4 DEF GoesOver
  <2> QED
    BY <2>3, <2>5
<1> QED
  BY <1>1, <1>2

\* The items that names lead to are those that the names before lead to, and one step.
LEMMA AtSteps ==
  ASSUME StoredTree
  PROVE  /\ VbkItems!At[0] = {VbkItems!Root}
         /\ \A n \in Nat : VbkItems!At[n + 1] =
              {to \in VbkItems!AllItems :
                 \E from \in VbkItems!At[n] : VbkItems!Leads(from, VbkItems!Names[n + 1], to)}
<1> DEFINE g == [n \in Nat |-> {to \in VbkItems!AllItems : \E s : GoesOver(n, s) /\ s[n] = to}]
<1>1. g[0] = {VbkItems!Root}
  <2>1. VbkItems!Root \in VbkItems!AllItems
    BY AllItemsAre
  <2> DEFINE u == [i \in 0 .. 0 |-> VbkItems!Root]
  <2>2. GoesOver(0, u) /\ u[0] = VbkItems!Root
    BY <2>1 DEF GoesOver
  <2> HIDE DEF u
  <2>3. \A to \in VbkItems!AllItems : (\E s : GoesOver(0, s) /\ s[0] = to) <=> to = VbkItems!Root
    BY <2>2 DEF GoesOver
  <2> QED
    BY <2>1, <2>3
<1>2. ASSUME NEW n \in Nat \ {0}
      PROVE  g[n] = {to \in VbkItems!AllItems :
                       \E from \in g[n - 1] : VbkItems!Leads(from, VbkItems!Names[n], to)}
  <2>1. n \in Nat /\ n - 1 \in Nat
    OBVIOUS
  <2>2. \A to \in VbkItems!AllItems :
          (\E s : GoesOver(n, s) /\ s[n] = to) <=>
            \E from \in g[n - 1] : VbkItems!Leads(from, VbkItems!Names[n], to)
    BY <2>1, GoesOn
  <2> QED
    BY <2>1, <2>2
<1>3. FindsAt(g)
  <2>1. \A n \in Nat : g[n] = IF n = 0 THEN {VbkItems!Root}
                              ELSE {to \in VbkItems!AllItems :
                                      \E from \in g[n - 1] : VbkItems!Leads(from, VbkItems!Names[n], to)}
    BY <1>1, <1>2
  <2>2. g = [n \in Nat |-> g[n]]
    OBVIOUS
  <2> HIDE DEF g
  <2> QED
    BY <2>1, <2>2 DEF FindsAt
<1>4. FindsAt(VbkItems!At)
  <2>1. VbkItems!At = CHOOSE f : FindsAt(f)
    BY DEF VbkItems!At, FindsAt
  <2> HIDE DEF g
  <2> QED
    BY <1>3, <2>1
<1>5. \A n \in Nat : VbkItems!At[n] =
        IF n = 0 THEN {VbkItems!Root}
        ELSE {to \in VbkItems!AllItems :
                \E from \in VbkItems!At[n - 1] : VbkItems!Leads(from, VbkItems!Names[n], to)}
  <2> DEFINE f == VbkItems!At
  <2>1. FindsAt(f)
    BY <1>4
  <2> HIDE DEF f
  <2> QED
    BY <2>1, Zenon DEF FindsAt, f
<1>6. VbkItems!At[0] = {VbkItems!Root}
  BY <1>5
<1>7. ASSUME NEW n \in Nat
      PROVE  VbkItems!At[n + 1] =
               {to \in VbkItems!AllItems :
                  \E from \in VbkItems!At[n] : VbkItems!Leads(from, VbkItems!Names[n + 1], to)}
  <2> DEFINE m == n + 1
  <2>1. m \in Nat /\ m # 0 /\ m - 1 = n
    OBVIOUS
  <2> HIDE DEF m
  <2>2. VbkItems!At[m] = {to \in VbkItems!AllItems :
          \E from \in VbkItems!At[m - 1] : VbkItems!Leads(from, VbkItems!Names[m], to)}
    BY <1>5, <2>1, Zenon
  <2>3. VbkItems!At[m] = {to \in VbkItems!AllItems :
          \E from \in VbkItems!At[n] : VbkItems!Leads(from, VbkItems!Names[m], to)}
    BY <2>1, <2>2
  <2> QED
    BY <2>3 DEF m
<1> QED
  BY <1>6, <1>7, Zenon

\* Behind names that lead to nothing no names lead to anything.
LEMMA AtNothing ==
  ASSUME StoredTree, NEW n \in Nat, VbkItems!At[n] = {}, NEW m \in Nat, n <= m
  PROVE  VbkItems!At[m] = {}
<1> DEFINE bad == {k \in Nat : n <= k /\ VbkItems!At[k] # {}}
<1>1. bad = {}
  <2> SUFFICES ASSUME bad # {} PROVE FALSE
    OBVIOUS
  <2>1. bad \in SUBSET Nat
    OBVIOUS
  <2>2. PICK k \in bad : \A j \in bad : k <= j
    BY <2>1, LeastNatural
  <2>3. k - 1 \in Nat /\ n <= k - 1 /\ k - 1 \notin bad /\ k - 1 + 1 = k
    BY <2>2
  <2>4. VbkItems!At[k - 1] = {}
    BY <2>3
  <2>5. VbkItems!At[k] = {}
    BY <2>3, <2>4, AtSteps
  <2> QED
    BY <2>2, <2>5
<1> QED
  BY <1>1

-----------------------------------------------------------------------------

\* The parts of the path, those without a name with nothing.
PathNames == [i \in 1 .. Len(path) |-> IF VbkItems!Nameless(path[i]) THEN <<>> ELSE <<path[i]>>]

\* The names among the first k parts of the path.
NamesTo(k) == Len(FlatTo(PathNames, k))

\* Each part with a name is a name more.
LEMMA NamesAre ==
  ASSUME path \in VbkPaths
  PROVE  /\ Len(path) \in Nat /\ Len(VbkItems!Names) \in Nat
         /\ NamesTo(0) = 0 /\ NamesTo(Len(path)) = Len(VbkItems!Names)
         /\ \A k \in 0 .. Len(path) : NamesTo(k) \in Nat
         /\ \A k \in 0 .. Len(path) - 1 :
              /\ VbkItems!Nameless(path[k + 1]) => NamesTo(k + 1) = NamesTo(k)
              /\ ~VbkItems!Nameless(path[k + 1]) => /\ NamesTo(k + 1) = NamesTo(k) + 1
                                     /\ NamesTo(k) + 1 <= Len(VbkItems!Names)
                                     /\ VbkItems!Names[NamesTo(k) + 1] = path[k + 1]
<1> DEFINE n == Len(path)
<1>1. path \in Seq(STRING) /\ n \in Nat /\ DOMAIN path = 1 .. n
  <2>1. path \in Seq(STRING)
    BY VbkTreesAssumption
  <2> QED
    BY <2>1, LenProperties
<1>2. VbkItems!Names = FlattenSeq(PathNames)
  <2>1. VbkItems!Names = VbkItems!FlattenSeq(PathNames)
    BY <1>1, Zenon DEF VbkItems!Names, PathNames
  <2> QED
    BY <2>1 DEF VbkItems!FlattenSeq, FlattenSeq
<1>3. /\ PathNames \in Seq(Seq(STRING)) /\ Len(PathNames) = n
      /\ \A i \in 1 .. n : PathNames[i] = IF VbkItems!Nameless(path[i]) THEN <<>> ELSE <<path[i]>>
  <2>1. \A i \in 1 .. n : path[i] \in STRING
    BY <1>1, ElementOfSeq
  <2>2. \A i \in 1 .. n : (IF VbkItems!Nameless(path[i]) THEN <<>> ELSE <<path[i]>>) \in Seq(STRING)
    <3>1. ASSUME NEW S, NEW x \in S PROVE <<>> \in Seq(S) /\ <<x>> \in Seq(S)
      OBVIOUS
    <3> QED
      BY <2>1, <3>1, Zenon
  <2> HIDE DEF n
  <2>3. PathNames \in [1 .. n -> Seq(STRING)]
    BY <2>2 DEF PathNames, n
  <2> QED
    BY <1>1, <2>3 DEF PathNames, n
<1> HIDE DEF n
<1>4. /\ NamesTo(0) = 0 /\ NamesTo(n) = Len(VbkItems!Names)
      /\ \A k \in 0 .. n : NamesTo(k) \in Nat
      /\ Len(VbkItems!Names) \in Nat
  <2>1. FlatTo(PathNames, 0) = <<>> /\ FlatTo(PathNames, n) = FlattenSeq(PathNames)
        /\ \A k \in 0 .. n : Len(FlatTo(PathNames, k)) \in Nat
    BY <1>3, FlatToSteps
  <2>2. NamesTo(0) = 0
    BY <2>1, EmptySeq DEF NamesTo
  <2>3. NamesTo(n) = Len(VbkItems!Names) /\ \A k \in 0 .. n : NamesTo(k) \in Nat
    BY <1>2, <2>1 DEF NamesTo
  <2> QED
    BY <1>1, <2>2, <2>3
<1>5. ASSUME NEW k \in 0 .. n - 1
      PROVE  /\ VbkItems!Nameless(path[k + 1]) => NamesTo(k + 1) = NamesTo(k)
             /\ ~VbkItems!Nameless(path[k + 1]) => /\ NamesTo(k + 1) = NamesTo(k) + 1
                                    /\ NamesTo(k) + 1 <= Len(VbkItems!Names)
                                    /\ VbkItems!Names[NamesTo(k) + 1] = path[k + 1]
  <2> DEFINE i == k + 1
             s == PathNames[i]
  <2>1. i \in 1 .. n /\ i - 1 = k /\ k \in 0 .. n
    BY <1>1
  <2> HIDE DEF i
  <2>2. /\ NamesTo(i) = NamesTo(i - 1) + Len(s)
        /\ NamesTo(i) <= Len(VbkItems!Names)
        /\ \A j \in 1 .. Len(s) : VbkItems!Names[NamesTo(i - 1) + j] = s[j]
    BY <1>2, <1>3, <2>1, FlattenAt DEF NamesTo
  <2>3. s = IF VbkItems!Nameless(path[i]) THEN <<>> ELSE <<path[i]>>
    BY <1>3, <2>1
  <2> HIDE DEF s
  <2>4. CASE VbkItems!Nameless(path[i])
    <3>1. Len(s) = 0
      BY <2>3, <2>4
    <3> QED
      BY <1>4, <2>1, <2>2, <2>4, <3>1 DEF i
  <2>5. CASE ~VbkItems!Nameless(path[i])
    <3>1. Len(s) = 1 /\ s[1] = path[i] /\ 1 \in 1 .. Len(s)
      BY <2>3, <2>5
    <3>2. /\ NamesTo(i) = NamesTo(k) + 1 /\ NamesTo(k) + 1 <= Len(VbkItems!Names)
          /\ VbkItems!Names[NamesTo(k) + 1] = path[i]
      BY <2>1, <2>2, <3>1
    <3> QED
      BY <2>5, <3>2 DEF i
  <2> QED
    BY <2>4, <2>5 DEF i
<1> QED
  BY <1>1, <1>4, <1>5 DEF n

\* What holds while an item is looked for: the names so far lead to the item, and to nothing
\* else; no entry that was passed over has the name that is looked for.
VbkFindInv ==
  /\ StoredTree /\ path \in VbkPaths
  /\ part \in 0 .. Len(path) /\ entry \in Nat
  /\ VbkItems!At[NamesTo(part)] = {item} /\ item \in VbkItems!AllItems
  /\ entry # 0 =>
       /\ part < Len(path) /\ ~VbkItems!Nameless(path[part + 1]) /\ item.kind = VbkItems!Folder
       /\ entry <= Len(tree.directories[item.folder])
       /\ \A j \in 1 .. entry : tree.directories[item.folder][j].name # path[part + 1]
  /\ pc \in {"looking", "found", "missing", "nodirectory"}
  /\ pc = "found" => part = Len(path)
  /\ pc \in {"missing", "nodirectory"} => part < Len(path) /\ ~VbkItems!Nameless(path[part + 1])
  /\ pc = "missing" => item.kind = VbkItems!Folder /\ entry >= Len(tree.directories[item.folder])
  /\ pc = "nodirectory" => item.kind # VbkItems!Folder

LEMMA VbkFindInit == VbkItems!Init => VbkFindInv
<1> SUFFICES ASSUME VbkItems!Init PROVE VbkFindInv
  OBVIOUS
<1>1. /\ StoredTree /\ path \in VbkPaths /\ item = VbkItems!Root /\ part = 0 /\ entry = 0
      /\ pc = "looking"
  BY DEF VbkItems!Init, StoredTree
<1>2. Len(path) \in Nat /\ NamesTo(0) = 0
  BY <1>1, NamesAre
<1>3. VbkItems!At[0] = {VbkItems!Root} /\ VbkItems!Root \in VbkItems!AllItems
  BY <1>1, AtSteps, AllItemsAre
<1> QED
  BY <1>1, <1>2, <1>3 DEF VbkFindInv

\* While the tree and the path stay, so does where its names lead.
LEMMA FindSame ==
  ASSUME UNCHANGED <<tree, path>>
  PROVE  /\ VbkItems!At' = VbkItems!At /\ VbkItems!Names' = VbkItems!Names
         /\ VbkItems!AllItems' = VbkItems!AllItems
         /\ StoredTree' <=> StoredTree
         /\ \A k : NamesTo(k)' = NamesTo(k)
<1>1. VbkItems!Names' = VbkItems!Names
  BY DEF VbkItems!Names
<1>2. VbkItems!AllItems' = VbkItems!AllItems
  BY DEF VbkItems!AllItems
<1>3. \A a, b, c : VbkItems!Leads(a, b, c)' = VbkItems!Leads(a, b, c)
  BY DEF VbkItems!Leads
<1>4. VbkItems!At' = VbkItems!At
  BY <1>1, <1>2, <1>3 DEF VbkItems!At
<1>5. PathNames' = PathNames
  BY DEF PathNames
<1>6. \A k : NamesTo(k)' = NamesTo(k)
  BY <1>5 DEF NamesTo
<1> QED
  BY <1>1, <1>2, <1>4, <1>6 DEF StoredTree

\* The entry that is looked at is the next one of the directory.
LEMMA ItemLookedAt ==
  ASSUME VbkFindInv, item.kind = VbkItems!Folder
  PROVE  /\ Len(tree.directories[item.folder]) \in Nat
         /\ VbkItems!Directory.count = Len(tree.directories[item.folder])
         /\ entry < Len(tree.directories[item.folder]) =>
              /\ VbkItems!Item = tree.directories[item.folder][entry + 1]
              /\ VbkItems!Item \in VbkItems!AllItems
<1>1. StoredTree /\ item \in VbkItems!AllItems /\ entry \in Nat
  BY DEF VbkFindInv
<1>2. item.folder \in DOMAIN tree.directories
  BY <1>1, AllItemsAre
<1>3. /\ Len(tree.directories[item.folder]) \in Nat
      /\ tree.vectors[item.folder].count = Len(tree.directories[item.folder])
      /\ \A e \in Nat : e < Len(tree.directories[item.folder]) =>
           VbkItems!Get(tree.vectors[item.folder], ItemSize, e).entry =
             tree.directories[item.folder][e + 1]
  BY <1>1, <1>2, DirectoryIs
<1>4. entry < Len(tree.directories[item.folder]) =>
        entry + 1 \in 1 .. Len(tree.directories[item.folder])
  BY <1>1, <1>3
<1>5. entry < Len(tree.directories[item.folder]) =>
        tree.directories[item.folder][entry + 1] \in VbkItems!AllItems
  BY <1>1, <1>2, <1>4, AllItemsAre
<1> QED
  BY <1>1, <1>3, <1>5 DEF VbkItems!Directory, VbkItems!Item

\* Every step of a lookup keeps the invariant.
LEMMA VbkFindStep ==
  ASSUME VbkFindInv, [VbkItems!Next]_(VbkItems!vars)
  PROVE  VbkFindInv'
<1> USE DEF VbkFindInv
<1>1. /\ StoredTree /\ path \in VbkPaths /\ part \in 0 .. Len(path) /\ entry \in Nat
      /\ item \in VbkItems!AllItems /\ VbkItems!At[NamesTo(part)] = {item}
  OBVIOUS
<1>2. Len(path) \in Nat /\ NamesTo(part) \in Nat
  BY <1>1, NamesAre
<1>3. part < Len(path) => part \in 0 .. Len(path) - 1 /\ part + 1 \in 0 .. Len(path)
  BY <1>1, <1>2
<1>4. VbkItems!Part = path[part + 1] /\ (VbkItems!Looking => pc = "looking" /\ part < Len(path))
  BY DEF VbkItems!Part, VbkItems!Looking
<1>5. VbkItems!MoreEntries => entry < VbkItems!Directory.count
  BY DEF VbkItems!MoreEntries
<1>6. CASE VbkItems!SkipEmpty
  <2>1. /\ VbkItems!Looking /\ VbkItems!Nameless(VbkItems!Part) /\ part' = part + 1
        /\ UNCHANGED <<tree, path, item, entry, pc>>
    BY <1>6 DEF VbkItems!SkipEmpty
  <2>2. NamesTo(part + 1) = NamesTo(part) /\ entry = 0 /\ part + 1 \in 0 .. Len(path)
    BY <1>1, <1>3, <1>4, <2>1, NamesAre
  <2>3. /\ StoredTree' /\ VbkItems!At' = VbkItems!At /\ VbkItems!AllItems' = VbkItems!AllItems
        /\ NamesTo(part)' = NamesTo(part + 1)
    BY <1>1, <2>1, FindSame DEF NamesTo
  <2> QED
    BY <1>1, <1>4, <2>1, <2>2, <2>3
<1>7. CASE VbkItems!NotADirectory
  <2>1. /\ VbkItems!Looking /\ ~VbkItems!Nameless(VbkItems!Part) /\ item.kind # VbkItems!Folder
        /\ pc' = "nodirectory" /\ UNCHANGED <<tree, path, item, part, entry>>
    BY <1>7 DEF VbkItems!NotADirectory, VbkItems!Fail
  <2>2. /\ StoredTree' /\ VbkItems!At' = VbkItems!At /\ VbkItems!AllItems' = VbkItems!AllItems
        /\ NamesTo(part)' = NamesTo(part)
    BY <1>1, <2>1, FindSame DEF NamesTo
  <2> QED
    BY <1>1, <1>4, <2>1, <2>2
<1>8. CASE VbkItems!PassOver
  <2>1. /\ VbkItems!Looking /\ ~VbkItems!Nameless(VbkItems!Part) /\ item.kind = VbkItems!Folder
        /\ VbkItems!MoreEntries /\ VbkItems!Item.name # VbkItems!Part
        /\ entry' = entry + 1 /\ UNCHANGED <<tree, path, item, part, pc>>
    BY <1>8 DEF VbkItems!PassOver
  <2>2. /\ StoredTree' /\ VbkItems!At' = VbkItems!At /\ VbkItems!AllItems' = VbkItems!AllItems
        /\ NamesTo(part)' = NamesTo(part)
    BY <1>1, <2>1, FindSame DEF NamesTo
  <2> DEFINE s == tree.directories[item.folder]
  <2>3. /\ Len(s) \in Nat /\ entry < Len(s) /\ VbkItems!Item = s[entry + 1]
    BY <1>5, <2>1, ItemLookedAt
  <2>4. \A j \in 1 .. entry : s[j].name # path[part + 1]
    BY <1>1
  <2> HIDE DEF s
  <2>5. entry + 1 <= Len(s) /\ \A j \in 1 .. entry + 1 : s[j].name # path[part + 1]
    <3>1. \A j \in 1 .. entry + 1 : j \in 1 .. entry \/ j = entry + 1
      BY <1>1
    <3> QED
      BY <1>1, <1>4, <2>1, <2>3, <2>4, <3>1
  <2> QED
    BY <1>1, <1>4, <2>1, <2>2, <2>5 DEF s
<1>9. CASE VbkItems!Enter
  <2>1. /\ VbkItems!Looking /\ ~VbkItems!Nameless(VbkItems!Part) /\ item.kind = VbkItems!Folder
        /\ VbkItems!MoreEntries /\ VbkItems!Item.name = VbkItems!Part
        /\ item' = VbkItems!Item /\ part' = part + 1 /\ entry' = 0
        /\ UNCHANGED <<tree, path, pc>>
    BY <1>9 DEF VbkItems!Enter
  <2> DEFINE s == tree.directories[item.folder]
  <2>2. /\ Len(s) \in Nat /\ entry < Len(s) /\ VbkItems!Item = s[entry + 1]
        /\ VbkItems!Item \in VbkItems!AllItems
    BY <1>5, <2>1, ItemLookedAt
  <2>3. \A j \in 1 .. entry : s[j].name # path[part + 1]
    BY <1>1
  <2>4. \A to : VbkItems!Leads(item, path[part + 1], to) <=> to = VbkItems!Item
    <3> HIDE DEF VbkFindInv
    <3>1. StoredTree /\ item \in VbkItems!AllItems /\ item.kind = VbkItems!Folder
      BY <1>1, <2>1
    <3>2. entry \in Nat /\ entry < Len(s) /\ s[entry + 1].name = path[part + 1]
      BY <1>1, <1>4, <2>1, <2>2
    <3> HIDE DEF s
    <3>3. /\ tree.directories[item.folder][entry + 1] = VbkItems!Item
          /\ entry < Len(tree.directories[item.folder])
          /\ tree.directories[item.folder][entry + 1].name = path[part + 1]
          /\ \A j \in 1 .. entry : tree.directories[item.folder][j].name # path[part + 1]
      BY <2>2, <2>3, <3>2 DEF s
    <3>4. ASSUME NEW to
          PROVE  VbkItems!Leads(item, path[part + 1], to)
                   <=> to = tree.directories[item.folder][entry + 1]
      BY <3>1, <3>2, <3>3, LeadsTo
    <3> QED
      BY <3>3, <3>4
  <2> HIDE DEF s
  <2>5. /\ NamesTo(part + 1) = NamesTo(part) + 1 /\ part + 1 \in 0 .. Len(path)
        /\ VbkItems!Names[NamesTo(part) + 1] = path[part + 1]
    BY <1>1, <1>3, <1>4, <2>1, NamesAre
  <2>6. VbkItems!At[NamesTo(part + 1)] = {VbkItems!Item}
    <3>1. VbkItems!At[NamesTo(part) + 1] =
            {to \in VbkItems!AllItems : \E from \in VbkItems!At[NamesTo(part)] :
               VbkItems!Leads(from, VbkItems!Names[NamesTo(part) + 1], to)}
      BY <1>1, <1>2, AtSteps
    <3>2. \A to \in VbkItems!AllItems :
            (\E from \in VbkItems!At[NamesTo(part)] :
               VbkItems!Leads(from, VbkItems!Names[NamesTo(part) + 1], to)) <=> to = VbkItems!Item
      BY <1>1, <2>4, <2>5
    <3> QED
      BY <2>2, <2>5, <3>1, <3>2
  <2>7. /\ StoredTree' /\ VbkItems!At' = VbkItems!At /\ VbkItems!AllItems' = VbkItems!AllItems
        /\ NamesTo(part)' = NamesTo(part + 1)
    BY <1>1, <2>1, FindSame DEF NamesTo
  <2>8. /\ VbkItems!At'[NamesTo(part)'] = {item'} /\ item' \in VbkItems!AllItems'
    BY <2>1, <2>2, <2>6, <2>7
  <2> QED
    BY <1>1, <1>4, <2>1, <2>5, <2>7, <2>8
<1>10. CASE VbkItems!NotFound
  <2>1. /\ VbkItems!Looking /\ ~VbkItems!Nameless(VbkItems!Part) /\ item.kind = VbkItems!Folder
        /\ ~(entry < VbkItems!Directory.count)
        /\ pc' = "missing" /\ UNCHANGED <<tree, path, item, part, entry>>
    BY <1>10 DEF VbkItems!NotFound, VbkItems!Fail, VbkItems!MoreEntries
  <2>2. /\ StoredTree' /\ VbkItems!At' = VbkItems!At /\ VbkItems!AllItems' = VbkItems!AllItems
        /\ NamesTo(part)' = NamesTo(part)
    BY <1>1, <2>1, FindSame DEF NamesTo
  <2> DEFINE l == Len(tree.directories[item.folder])
  <2>3. l \in Nat /\ ~(entry < l)
    BY <2>1, ItemLookedAt
  <2> HIDE DEF l
  <2>4. entry >= l
    BY <1>1, <2>3
  <2> QED
    BY <1>1, <1>4, <2>1, <2>2, <2>4 DEF l
<1>11. CASE VbkItems!Return
  <2>1. part = Len(path) /\ pc' = "found" /\ UNCHANGED <<tree, path, item, part, entry>>
    BY <1>11 DEF VbkItems!Return
  <2>2. /\ StoredTree' /\ VbkItems!At' = VbkItems!At /\ VbkItems!AllItems' = VbkItems!AllItems
        /\ NamesTo(part)' = NamesTo(part)
    BY <1>1, <2>1, FindSame DEF NamesTo
  <2> QED
    BY <1>1, <2>1, <2>2
<1>12. CASE UNCHANGED VbkItems!vars
  <2>1. UNCHANGED <<tree, path, item, part, entry, pc>>
    BY <1>12 DEF VbkItems!vars
  <2>2. /\ StoredTree' /\ VbkItems!At' = VbkItems!At /\ VbkItems!AllItems' = VbkItems!AllItems
        /\ NamesTo(part)' = NamesTo(part)
    BY <1>1, <2>1, FindSame DEF NamesTo
  <2> QED
    BY <1>1, <2>1, <2>2
<1> QED
  BY <1>6, <1>7, <1>8, <1>9, <1>10, <1>11, <1>12 DEF VbkItems!Next, VbkItems!Ended

\* What the invariant says of a lookup that has come to its end.
LEMMA VbkFindFinal == VbkFindInv => VbkItems!FindsItem
<1> SUFFICES ASSUME VbkFindInv PROVE VbkItems!FindsItem
  OBVIOUS
<1> DEFINE names == Len(VbkItems!Names)
           stop == CHOOSE n \in 0 .. names :
                     VbkItems!At[n] # {} /\ (n = names \/ VbkItems!At[n + 1] = {})
           k == NamesTo(part)
<1>1. /\ StoredTree /\ path \in VbkPaths /\ part \in 0 .. Len(path) /\ entry \in Nat
      /\ item \in VbkItems!AllItems /\ VbkItems!At[k] = {item}
  BY DEF VbkFindInv
<1>2. names \in Nat /\ k \in Nat /\ Len(path) \in Nat
  BY <1>1, NamesAre
<1>3. ASSUME pc = "found"
      PROVE  VbkItems!At[names] = {item}
  <2>1. part = Len(path)
    BY <1>3 DEF VbkFindInv
  <2>2. k = names
    BY <1>1, <2>1, NamesAre
  <2> QED
    BY <1>1, <2>2
<1>4. ASSUME pc \in {"missing", "nodirectory"}
      PROVE  VbkItems!At[names] = {} /\ VbkItems!At[stop] = {item}
  <2>1. part < Len(path) /\ ~VbkItems!Nameless(path[part + 1])
    BY <1>4 DEF VbkFindInv
  <2>2. part \in 0 .. Len(path) - 1
    BY <1>1, <1>2, <2>1
  <2>3. k + 1 <= names /\ VbkItems!Names[k + 1] = path[part + 1]
    BY <1>1, <2>1, <2>2, NamesAre
  <2>4. \A to : ~VbkItems!Leads(item, path[part + 1], to)
    <3>1. CASE pc = "nodirectory"
      <4>1. item.kind # VbkItems!Folder
        BY <3>1 DEF VbkFindInv
      <4> QED
        BY <1>1, <4>1, LeadsNowhere
    <3>2. CASE pc = "missing"
      <4> DEFINE s == tree.directories[item.folder]
      <4>1. item.kind = VbkItems!Folder /\ entry >= Len(s)
        BY <3>2 DEF VbkFindInv
      <4>2. Len(s) \in Nat
        BY <4>1, ItemLookedAt
      <4>3. \A j \in 1 .. entry : s[j].name # path[part + 1]
        BY <1>1 DEF VbkFindInv
      <4>4. \A j \in 1 .. Len(s) : s[j].name # path[part + 1]
        <5> HIDE DEF s
        <5> QED
          BY <1>1, <4>1, <4>2, <4>3
      <4> QED
        BY <1>1, <4>4, LeadsNowhere
    <3> QED
      BY <1>4, <3>1, <3>2
  <2>5. VbkItems!At[k + 1] = {}
    <3>1. VbkItems!At[k + 1] =
            {to \in VbkItems!AllItems : \E from \in VbkItems!At[k] :
               VbkItems!Leads(from, VbkItems!Names[k + 1], to)}
      BY <1>1, <1>2, AtSteps
    <3>2. \A to \in VbkItems!AllItems : ~(\E from \in VbkItems!At[k] :
               VbkItems!Leads(from, VbkItems!Names[k + 1], to))
      BY <1>1, <2>3, <2>4
    <3> QED
      BY <3>1, <3>2
  <2> HIDE DEF names, k
  <2>6. k + 1 \in Nat /\ k \in 0 .. names
    BY <1>2, <2>3
  <2>7. VbkItems!At[names] = {}
    BY <1>1, <1>2, <2>3, <2>5, <2>6, AtNothing
  <2>8. VbkItems!At[k] # {} /\ VbkItems!At[k + 1] = {}
    BY <1>1, <2>5
  <2>9. ASSUME NEW n \in 0 .. names, VbkItems!At[n] # {}, n = names \/ VbkItems!At[n + 1] = {}
        PROVE  n = k
    <3>1. VbkItems!At[n + 1] = {} /\ n \in Nat /\ n + 1 \in Nat
      BY <1>2, <2>7, <2>9
    <3>2. ~(n + 1 <= k)
      BY <1>1, <1>2, <2>8, <3>1, AtNothing
    <3>3. ~(k + 1 <= n)
      BY <1>1, <1>2, <2>6, <2>8, <2>9, <3>1, AtNothing
    <3> QED
      BY <1>2, <3>1, <3>2, <3>3
  <2>10. stop = k
    BY <2>6, <2>8, <2>9
  <2> QED
    BY <1>1, <2>7, <2>10
<1>5. /\ pc = "missing" => item.kind = VbkItems!Folder
      /\ pc = "nodirectory" => item.kind # VbkItems!Folder
  BY DEF VbkFindInv
<1> QED
  BY <1>3, <1>4, <1>5 DEF VbkItems!FindsItem

\* For any VBK file and path, the item found is the one that the path leads to, wherever on the
\* pages of its directories its items are; and none is found only where there is none (VBK.get).
THEOREM VbkFindCorrect == Spec => []VbkFindsItem
<1> DEFINE Inv == format = "vbk directory" => VbkFindInv
<1>1. Init => Inv
  BY VbkFindInit DEF Init
<1>2. Inv /\ [Next]_vars => Inv'
  <2> SUFFICES ASSUME Inv, [Next]_vars, format' = "vbk directory"
               PROVE  VbkFindInv'
    OBVIOUS
  <2>1. format = "vbk directory" /\ [VbkItems!Next]_(VbkItems!vars)
    BY DEF Next, vars, named, vbk_directory, VbkItems!vars
  <2> QED
    BY <2>1, VbkFindStep
<1>3. Inv => VbkFindsItem
  BY VbkFindFinal DEF VbkFindsItem
<1> QED
  BY <1>1, <1>2, <1>3, PTL DEF Spec

-----------------------------------------------------------------------------
(***************************************************************************)
(* The properties of an item of a VBK file                                 *)
(***************************************************************************)

\* What is put together of sequences is the same in the module of the properties.
LEMMA VbkFlattened ==
  ASSUME NEW ss
  PROVE  VbkItemProperties!FlattenSeq(ss) = FlattenSeq(ss)
BY DEF VbkItemProperties!FlattenSeq, FlattenSeq

\* A part of a sequence that has the elements of t is t.
LEMMA PartIs ==
  ASSUME NEW s \in Seq(Int), NEW t \in Seq(Int), NEW a \in Nat, a + Len(t) <= Len(s),
         \A j \in 1 .. Len(t) : s[a + j] = t[j]
  PROVE  SubSeq(s, a + 1, a + Len(t)) = t
<1> DEFINE u == SubSeq(s, a + 1, a + Len(t))
<1>0. Len(s) \in Nat /\ Len(t) \in Nat
  BY LenProperties
<1>1. u \in Seq(Int) /\ Len(u) = Len(t) /\ \A j \in 1 .. Len(t) : u[j] = s[a + j]
  <2>1. u = [j \in 1 .. Len(t) |-> s[a + j]]
    <3>1. a + Len(t) - (a + 1) + 1 = Len(t)
      BY <1>0
    <3>2. \A j \in 1 .. Len(t) : a + 1 + j - 1 = a + j
      BY <1>0
    <3>3. u = [j \in 1 .. a + Len(t) - (a + 1) + 1 |-> s[a + 1 + j - 1]]
      BY DEF SubSeq
    <3> QED
      BY <3>1, <3>2, <3>3
  <2>2. \A j \in 1 .. Len(t) : a + j \in 1 .. Len(s) /\ s[a + j] \in Int
    BY <1>0, ElementOfSeq
  <2> QED
    BY <1>0, <2>1, <2>2
<1>2. \A j \in 1 .. Len(t) : u[j] = t[j]
  BY <1>1
<1> HIDE DEF u
<1>3. u = t
  BY <1>0, <1>1, <1>2, SeqEqual
<1> QED
  BY <1>3 DEF u

\* A length and what it covers are one more than what it covers.
LEMMA OneMore ==
  ASSUME NEW a \in Nat, NEW b \in Nat
  PROVE  /\ 2 + a + (1 + b) = 3 + a + b
         /\ \A j \in 1 .. b : 1 + j \in 1 .. 1 + b /\ 2 + a + (1 + j) = 3 + a + j
OBVIOUS

\* A property that can be written.
VbkProperty == [type : Int \ {-1}, name : Seq(Int), value : Seq(Int)]

\* Its words: the type, the length of the name, the name and the value, with a length if it has
\* no size of its own.
LEMMA VbkWordsOf ==
  ASSUME NEW p \in VbkProperty
  PROVE  /\ Len(p.name) \in Nat /\ Len(p.value) \in Nat
         /\ VbkItemProperties!WordsOf(p) \in Seq(Int)
         /\ VbkItemProperties!WordsOf(p)[1] = p.type
         /\ VbkItemProperties!WordsOf(p)[2] = Len(p.name)
         /\ \A j \in 1 .. Len(p.name) : VbkItemProperties!WordsOf(p)[2 + j] = p.name[j]
         /\ p.type \in {3, 4, 5} =>
              /\ Len(VbkItemProperties!WordsOf(p)) = 3 + Len(p.name) + Len(p.value)
              /\ VbkItemProperties!WordsOf(p)[3 + Len(p.name)] = Len(p.value)
              /\ \A j \in 1 .. Len(p.value) :
                   VbkItemProperties!WordsOf(p)[3 + Len(p.name) + j] = p.value[j]
         /\ p.type \notin {3, 4, 5} =>
              /\ Len(VbkItemProperties!WordsOf(p)) = 2 + Len(p.name) + Len(p.value)
              /\ \A j \in 1 .. Len(p.value) :
                   VbkItemProperties!WordsOf(p)[2 + Len(p.name) + j] = p.value[j]
<1> DEFINE rest == IF p.type \in {3, 4, 5} THEN <<Len(p.value)>> \o p.value ELSE p.value
           head == <<p.type>> \o (<<Len(p.name)>> \o p.name)
           m == Len(p.name)
<1>1. p.type \in Int /\ p.name \in Seq(Int) /\ p.value \in Seq(Int)
  BY DEF VbkProperty
<1>2. m \in Nat /\ Len(p.value) \in Nat
  BY <1>1, LenProperties
<1>3. VbkItemProperties!WordsOf(p) = head \o rest
  BY DEF VbkItemProperties!WordsOf, VbkItemProperties!WithLength, VbkItemProperties!AString,
         VbkItemProperties!WString, VbkItemProperties!Binary
<1>4. \A n \in Int : <<n>> \in Seq(Int) /\ Len(<<n>>) = 1 /\ <<n>>[1] = n
  OBVIOUS
<1>5. ASSUME NEW n \in Int, NEW s \in Seq(Int)
      PROVE  /\ <<n>> \o s \in Seq(Int) /\ Len(<<n>> \o s) = 1 + Len(s)
             /\ (<<n>> \o s)[1] = n /\ \A j \in 1 .. Len(s) : (<<n>> \o s)[1 + j] = s[j]
  <2> DEFINE w == <<n>>
  <2>1. w \in Seq(Int) /\ Len(w) = 1 /\ w[1] = n /\ Len(s) \in Nat
    BY <1>4, LenProperties
  <2> HIDE DEF w
  <2>2. w \o s \in Seq(Int) /\ Len(w \o s) = 1 + Len(s)
    <3>1. w \o s \in Seq(Int) /\ Len(w \o s) = Len(w) + Len(s)
      BY <2>1, ConcatProperties
    <3> QED
      BY <2>1, <3>1
  <2>3. \A j \in 1 .. Len(w) + Len(s) : (w \o s)[j] = IF j <= Len(w) THEN w[j] ELSE s[j - Len(w)]
    BY <2>1, ConcatProperties
  <2>4. (w \o s)[1] = n
    BY <2>1, <2>3
  <2>5. ASSUME NEW j \in 1 .. Len(s)
        PROVE  (w \o s)[1 + j] = s[j]
    <3>1. 1 + j \in 1 .. Len(w) + Len(s) /\ ~(1 + j <= Len(w)) /\ 1 + j - Len(w) = j
      BY <2>1
    <3> QED
      BY <2>3, <3>1
  <2> QED
    BY <2>2, <2>4, <2>5 DEF w
<1> DEFINE labelled == <<m>> \o p.name
<1>6. /\ labelled \in Seq(Int) /\ Len(labelled) = 1 + m /\ labelled[1] = m
      /\ \A j \in 1 .. m : labelled[1 + j] = p.name[j]
  BY <1>1, <1>2, <1>5
<1>7. head = <<p.type>> \o labelled
  OBVIOUS
<1> HIDE DEF labelled, head
<1>8. /\ head \in Seq(Int) /\ Len(head) = 2 + m /\ head[1] = p.type /\ head[2] = m
      /\ \A j \in 1 .. m : head[2 + j] = p.name[j]
  <2>1. head \in Seq(Int) /\ Len(head) = 2 + m /\ head[1] = p.type
        /\ \A j \in 1 .. 1 + m : head[1 + j] = labelled[j]
    BY <1>1, <1>2, <1>5, <1>6, <1>7
  <2>2. head[1 + 1] = labelled[1]
    BY <1>2, <2>1
  <2>3. ASSUME NEW j \in 1 .. m
        PROVE  head[2 + j] = p.name[j]
    <3>1. 1 + j \in 1 .. 1 + m /\ 1 + (1 + j) = 2 + j
      BY <1>2
    <3> QED
      BY <1>6, <2>1, <3>1
  <2> QED
    BY <1>6, <2>1, <2>2, <2>3
<1>9. /\ p.type \in {3, 4, 5} =>
           /\ Len(rest) = 1 + Len(p.value) /\ rest[1] = Len(p.value)
           /\ \A j \in 1 .. Len(p.value) : rest[1 + j] = p.value[j]
      /\ p.type \notin {3, 4, 5} => rest = p.value
      /\ rest \in Seq(Int)
  BY <1>1, <1>2, <1>5
<1> HIDE DEF rest
<1>10. /\ head \o rest \in Seq(Int) /\ Len(head \o rest) = 2 + m + Len(rest) /\ Len(rest) \in Nat
       /\ \A j \in 1 .. 2 + m : (head \o rest)[j] = head[j]
       /\ \A j \in 1 .. Len(rest) : (head \o rest)[2 + m + j] = rest[j]
  <2>1. Len(rest) \in Nat
    BY <1>9, LenProperties
  <2>0. head \in Seq(Int) /\ rest \in Seq(Int) /\ Len(head) = 2 + m
    BY <1>8, <1>9
  <2>2. head \o rest \in Seq(Int) /\ Len(head \o rest) = Len(head) + Len(rest)
    BY <2>0, ConcatProperties
  <2>3. \A j \in 1 .. Len(head) + Len(rest) :
          (head \o rest)[j] = IF j <= Len(head) THEN head[j] ELSE rest[j - Len(head)]
    BY <2>0, ConcatProperties
  <2>4. ASSUME NEW j \in 1 .. 2 + m
        PROVE  (head \o rest)[j] = head[j]
    BY <1>2, <1>8, <2>1, <2>3
  <2>5. ASSUME NEW j \in 1 .. Len(rest)
        PROVE  (head \o rest)[2 + m + j] = rest[j]
    <3>1. 2 + m + j \in 1 .. Len(head) + Len(rest) /\ ~(2 + m + j <= Len(head))
          /\ 2 + m + j - Len(head) = j
      BY <1>2, <1>8, <2>1
    <3> QED
      BY <2>3, <3>1
  <2> QED
    BY <2>0, <2>1, <2>2, <2>4, <2>5
<1> DEFINE W == head \o rest
<1>11. W[1] = p.type /\ W[2] = m /\ \A j \in 1 .. m : W[2 + j] = p.name[j]
  <2>1. 1 \in 1 .. 2 + m /\ 2 \in 1 .. 2 + m /\ \A j \in 1 .. m : 2 + j \in 1 .. 2 + m
    BY <1>2
  <2> QED
    BY <1>8, <1>10, <2>1
<1>12. ASSUME p.type \in {3, 4, 5}
       PROVE  /\ Len(W) = 3 + m + Len(p.value) /\ W[3 + m] = Len(p.value)
              /\ \A j \in 1 .. Len(p.value) : W[3 + m + j] = p.value[j]
  <2>1. Len(rest) = 1 + Len(p.value) /\ rest[1] = Len(p.value)
        /\ \A j \in 1 .. Len(p.value) : rest[1 + j] = p.value[j]
    BY <1>9, <1>12
  <2>2. 1 \in 1 .. Len(rest) /\ 2 + m + 1 = 3 + m
    BY <1>2, <2>1
  <2>3. W[3 + m] = rest[1]
    BY <1>10, <2>2
  <2>4. ASSUME NEW j \in 1 .. Len(p.value)
        PROVE  W[3 + m + j] = p.value[j]
    <3>1. 1 + j \in 1 .. Len(rest) /\ 2 + m + (1 + j) = 3 + m + j
      BY <1>2, <2>1, OneMore
    <3> QED
      BY <1>10, <2>1, <3>1
  <2>5. Len(W) = 3 + m + Len(p.value)
    <3>1. Len(W) = 2 + m + Len(rest)
      BY <1>10, ZenonT(60)
    <3> QED
      BY <1>2, <2>1, <3>1, OneMore
  <2> QED
    BY <2>1, <2>3, <2>4, <2>5, Zenon
<1>13. ASSUME p.type \notin {3, 4, 5}
       PROVE  /\ Len(W) = 2 + m + Len(p.value)
              /\ \A j \in 1 .. Len(p.value) : W[2 + m + j] = p.value[j]
  BY <1>9, <1>10, <1>13
<1> HIDE DEF W
<1>14. VbkItemProperties!WordsOf(p) = W
  BY <1>3 DEF W
<1>15. W \in Seq(Int)
  BY <1>10 DEF W
<1> QED
  BY <1>2, <1>11, <1>12, <1>13, <1>14, <1>15

\* The words of each property, and where those of property k end.
VbkWords == [i \in DOMAIN dictionary |-> VbkItemProperties!WordsOf(dictionary[i])]

VbkEnd(k) == Len(FlatTo(VbkWords, k))

\* A dictionary is a sequence of properties.
LEMMA VbkDictionary ==
  ASSUME dictionary \in Dictionaries
  PROVE  /\ Len(dictionary) \in Nat /\ DOMAIN dictionary = 1 .. Len(dictionary)
         /\ VbkWords \in Seq(Seq(Int)) /\ Len(VbkWords) = Len(dictionary)
         /\ \A i \in 1 .. Len(dictionary) :
              /\ dictionary[i] \in VbkProperty
              /\ VbkWords[i] = VbkItemProperties!WordsOf(dictionary[i])
              /\ dictionary[i].type = 1 => Len(dictionary[i].value) = 1
              /\ dictionary[i].type = 2 => Len(dictionary[i].value) = 2
              /\ dictionary[i].type = 6 => dictionary[i].value \in {<<0>>, <<1>>}
<1>1. dictionary \in Seq(VbkProperty)
  BY VbkPropertiesAssumption DEF VbkProperty
<1>2. Len(dictionary) \in Nat /\ DOMAIN dictionary = 1 .. Len(dictionary)
  BY <1>1, LenProperties
<1>3. \A i \in 1 .. Len(dictionary) : dictionary[i] \in VbkProperty
  BY <1>1, ElementOfSeq
<1>4. \A i \in 1 .. Len(dictionary) : VbkItemProperties!WordsOf(dictionary[i]) \in Seq(Int)
  BY <1>3, VbkWordsOf
<1>5. /\ VbkWords \in Seq(Seq(Int)) /\ Len(VbkWords) = Len(dictionary)
      /\ \A i \in 1 .. Len(dictionary) :
           VbkWords[i] = VbkItemProperties!WordsOf(dictionary[i])
  BY <1>2, <1>4 DEF VbkWords
<1>6. ASSUME NEW i \in 1 .. Len(dictionary)
      PROVE  /\ dictionary[i].type = 1 => Len(dictionary[i].value) = 1
             /\ dictionary[i].type = 2 => Len(dictionary[i].value) = 2
             /\ dictionary[i].type = 6 => dictionary[i].value \in {<<0>>, <<1>>}
  BY VbkPropertiesAssumption
<1> QED
  BY <1>2, <1>3, <1>5, <1>6

\* The words of the properties are all there, one property after the other, and then an end.
LEMMA VbkAllWords ==
  ASSUME dictionary \in Dictionaries
  PROVE  /\ VbkItemProperties!AllWords \in Seq(Int)
         /\ Len(VbkItemProperties!AllWords) = VbkEnd(Len(dictionary)) + 1
         /\ VbkItemProperties!AllWords[VbkEnd(Len(dictionary)) + 1] = -1
         /\ VbkEnd(0) = 0
         /\ \A k \in 0 .. Len(dictionary) : VbkEnd(k) \in Nat
         /\ \A k \in 1 .. Len(dictionary) :
              /\ VbkEnd(k) = VbkEnd(k - 1) + Len(VbkItemProperties!WordsOf(dictionary[k]))
              /\ VbkEnd(k) <= VbkEnd(Len(dictionary))
              /\ \A j \in 1 .. Len(VbkItemProperties!WordsOf(dictionary[k])) :
                   VbkItemProperties!AllWords[VbkEnd(k - 1) + j] =
                     VbkItemProperties!WordsOf(dictionary[k])[j]
<1> DEFINE ss == VbkWords
           n == Len(dictionary)
           F == FlattenSeq(ss)
           tail == <<-1>>
<1>1. /\ n \in Nat /\ ss \in Seq(Seq(Int)) /\ Len(ss) = n
      /\ \A i \in 1 .. n : ss[i] = VbkItemProperties!WordsOf(dictionary[i])
  BY VbkDictionary
<1>2. VbkItemProperties!AllWords = F \o tail
  BY VbkFlattened DEF VbkItemProperties!AllWords, VbkItemProperties!End, VbkWords
<1>3. \A k \in 0 .. n : VbkEnd(k) = Len(FlatTo(ss, k))
  BY DEF VbkEnd
<1>4. tail \in Seq(Int) /\ Len(tail) = 1 /\ tail[1] = -1
  OBVIOUS
<1> HIDE DEF ss, n, tail
<1>5. /\ F \in Seq(Int) /\ FlatTo(ss, n) = F /\ FlatTo(ss, 0) = <<>> /\ Len(F) \in Nat
      /\ \A k \in 0 .. n : Len(FlatTo(ss, k)) \in Nat
  BY <1>1, FlattenType, FlatToSteps, LenProperties
<1>6. \A k \in 1 .. n :
        /\ Len(FlatTo(ss, k)) = Len(FlatTo(ss, k - 1)) + Len(ss[k])
        /\ Len(FlatTo(ss, k)) <= Len(F)
        /\ Len(ss[k]) \in Nat
        /\ \A j \in 1 .. Len(ss[k]) : F[Len(FlatTo(ss, k - 1)) + j] = ss[k][j]
  <2> TAKE k \in 1 .. n
  <2>1. k \in 1 .. Len(ss)
    BY <1>1
  <2>2. ss[k] \in Seq(Int)
    BY <1>1, <2>1, ElementOfSeq
  <2> QED
    BY <1>1, <2>1, <2>2, FlattenAt, LenProperties
<1> HIDE DEF F
<1>7. /\ F \o tail \in Seq(Int) /\ Len(F \o tail) = Len(F) + 1
      /\ (F \o tail)[Len(F) + 1] = -1
      /\ \A j \in 1 .. Len(F) : (F \o tail)[j] = F[j]
  <2>1. F \o tail \in Seq(Int) /\ Len(F \o tail) = Len(F) + Len(tail)
    BY <1>4, <1>5, ConcatProperties
  <2>2. \A j \in 1 .. Len(F) + Len(tail) :
          (F \o tail)[j] = IF j <= Len(F) THEN F[j] ELSE tail[j - Len(F)]
    BY <1>4, <1>5, ConcatProperties
  <2>3. Len(F) + 1 \in 1 .. Len(F) + Len(tail) /\ ~(Len(F) + 1 <= Len(F))
        /\ Len(F) + 1 - Len(F) = 1
    BY <1>4, <1>5
  <2> QED
    BY <1>4, <1>5, <2>1, <2>2, <2>3
<1>8. n \in 0 .. n /\ 0 \in 0 .. n /\ \A k \in 1 .. n : k \in 0 .. n /\ k - 1 \in 0 .. n
  BY <1>1
<1>9. VbkEnd(n) = Len(F) /\ VbkEnd(0) = 0 /\ \A k \in 0 .. n : VbkEnd(k) \in Nat
  BY <1>3, <1>5, <1>8, EmptySeq
<1>10. ASSUME NEW k \in 1 .. n
       PROVE  /\ VbkEnd(k) = VbkEnd(k - 1) + Len(ss[k])
              /\ VbkEnd(k) <= VbkEnd(n)
              /\ \A j \in 1 .. Len(ss[k]) : (F \o tail)[VbkEnd(k - 1) + j] = ss[k][j]
  <2>1. VbkEnd(k) = Len(FlatTo(ss, k)) /\ VbkEnd(k - 1) = Len(FlatTo(ss, k - 1))
    BY <1>3, <1>8
  <2>2. VbkEnd(k) = VbkEnd(k - 1) + Len(ss[k]) /\ VbkEnd(k) <= VbkEnd(n)
    BY <1>6, <1>9, <2>1
  <2>3. \A j \in 1 .. Len(ss[k]) : VbkEnd(k - 1) + j \in 1 .. Len(F)
    <3>1. VbkEnd(k - 1) \in Nat /\ Len(ss[k]) \in Nat /\ Len(F) \in Nat
      BY <1>5, <1>6, <1>8, <1>9
    <3>2. VbkEnd(k - 1) + Len(ss[k]) <= Len(F)
      BY <1>9, <2>2
    <3> QED
      BY <3>1, <3>2
  <2> QED
    BY <1>6, <1>7, <2>1, <2>2, <2>3
<1> QED
  BY <1>1, <1>2, <1>7, <1>9, <1>10 DEF n

\* If all of it fits on one page, that is the last one, and has the words behind its header.
LEMMA VbkPageIs ==
  ASSUME dictionary \in Dictionaries, VbkItemProperties!PageCount = 1
  PROVE  /\ VbkItemProperties!BlobPage(1) \in Seq(Int)
         /\ VbkItemProperties!BlobPage(1)[1] = -1
         /\ Len(VbkItemProperties!BlobPage(1)) = BlobPageSize
         /\ 3 + Len(VbkItemProperties!AllWords) <= BlobPageSize
         /\ \A i \in 1 .. Len(VbkItemProperties!AllWords) :
              VbkItemProperties!BlobPage(1)[3 + i] = VbkItemProperties!AllWords[i]
<1> DEFINE A == VbkItemProperties!AllWords
           B == BlobPageSize - 3
           head == <<-1, -1, 0>>
           body == [w \in 1 .. B |-> IF w <= Len(A) THEN A[w] ELSE 0]
<1>1. A \in Seq(Int) /\ Len(A) \in Nat \ {0}
  <2>1. Len(dictionary) \in 0 .. Len(dictionary)
    BY VbkDictionary
  <2> QED
    BY <2>1, VbkAllWords
<1> HIDE DEF A
<1>2. BlobPageSize \in Nat /\ B \in Nat \ {0} /\ BlobPageSize = 3 + B
  BY VbkPropertiesAssumption
<1>3. (Len(A) + B - 1) \div B = 1
  BY DEF A, VbkItemProperties!PageCount, VbkItemProperties!Body, VbkItemProperties!HeaderSize
<1> HIDE DEF B
<1>4. Len(A) <= B
  <2>1. Len(A) <= ((Len(A) + B - 1) \div B) * B
    BY <1>1, <1>2, RoundedUp
  <2> QED
    BY <1>2, <1>3, <2>1
<1>5. body \in Seq(Int) /\ Len(body) = B /\ \A i \in 1 .. Len(A) : body[i] = A[i]
  <2>1. \A w \in 1 .. B : (IF w <= Len(A) THEN A[w] ELSE 0) \in Int
    <3> TAKE w \in 1 .. B
    <3>1. w <= Len(A) => w \in 1 .. Len(A)
      BY <1>1, <1>2
    <3> QED
      BY <1>1, <3>1, ElementOfSeq
  <2>2. body \in Seq(Int) /\ Len(body) = B
    BY <1>2, <2>1
  <2>3. \A i \in 1 .. Len(A) : i \in 1 .. B /\ i <= Len(A)
    BY <1>1, <1>2, <1>4
  <2> QED
    BY <2>2, <2>3
<1>6. head \in Seq(Int) /\ Len(head) = 3 /\ head[1] = -1
  OBVIOUS
<1>7. VbkItemProperties!BlobPage(1) = head \o body
  <2>1. \A w \in 1 .. B : (1 - 1) * B + w = w
    BY <1>2
  <2>2. [w \in 1 .. B |-> LET p == (1 - 1) * B + w IN IF p <= Len(A) THEN A[p] ELSE 0] = body
    BY <2>1
  <2> QED
    BY <2>2 DEF VbkItemProperties!BlobPage, VbkItemProperties!Body, VbkItemProperties!NoPage,
                VbkItemProperties!HeaderSize, A, B
<1> HIDE DEF head, body
<1>8. head \o body \in Seq(Int) /\ Len(head \o body) = Len(head) + Len(body)
  BY <1>5, <1>6, ConcatProperties
<1>9. \A j \in 1 .. Len(head) + Len(body) :
        (head \o body)[j] = IF j <= Len(head) THEN head[j] ELSE body[j - Len(head)]
  BY <1>5, <1>6, ConcatProperties
<1>10. (head \o body)[1] = -1
  BY <1>2, <1>5, <1>6, <1>9
<1>11. ASSUME NEW i \in 1 .. Len(A)
       PROVE  (head \o body)[3 + i] = A[i]
  <2> DEFINE q == 3 + i
  <2>1. q \in 1 .. 3 + B /\ ~(q <= 3) /\ q - 3 = i
    BY <1>1, <1>2, <1>4
  <2> HIDE DEF q
  <2>2. \A j \in 1 .. 3 + B : (head \o body)[j] = IF j <= 3 THEN head[j] ELSE body[j - 3]
    BY <1>5, <1>6, <1>9
  <2>3. (head \o body)[q] = body[q - 3]
    BY <2>1, <2>2
  <2> QED
    BY <1>5, <2>1, <2>3 DEF q
<1>12. Len(head \o body) = BlobPageSize /\ 3 + Len(A) <= BlobPageSize
  <2>1. Len(head \o body) = 3 + B
    BY <1>5, <1>6, <1>8
  <2> QED
    BY <1>1, <1>2, <1>4, <2>1
<1> QED
  BY <1>7, <1>8, <1>10, <1>11, <1>12, Zenon DEF A

\* A length covers what is written behind it, if all of that is there.
LEMMA VbkCovers ==
  ASSUME data \in Seq(Int), pos \in Nat, NEW i \in Nat, NEW t \in Seq(Int),
         data[pos + i] = Len(t), pos + i + Len(t) <= Len(data),
         \A j \in 1 .. Len(t) : data[pos + i + j] = t[j]
  PROVE  VbkItemProperties!Covered(i) = t
<1>1. Len(t) \in Nat /\ Len(data) \in Nat /\ pos + i \in Nat
  BY LenProperties
<1>2. SubSeq(data, pos + i + 1, pos + i + Len(t)) = t
  BY <1>1, PartIs
<1>3. VbkItemProperties!Word(i) = Len(t)
  BY DEF VbkItemProperties!Word
<1>4. pos + i + Len(t) \in pos + i .. Len(data)
  BY <1>1
<1> QED
  BY <1>2, <1>3, <1>4 DEF VbkItemProperties!Covered

\* The data read of one page has the words of property k where the ones before it end.
LEMMA VbkWordsAt ==
  ASSUME dictionary \in Dictionaries, VbkItemProperties!PageCount = 1,
         data = VbkItemProperties!BlobPage(1),
         NEW k \in 1 .. Len(dictionary), pos = 3 + VbkEnd(k - 1)
  PROVE  LET W == VbkItemProperties!WordsOf(dictionary[k])
         IN  /\ data \in Seq(Int) /\ pos \in Nat /\ Len(data) \in Nat /\ Len(W) \in Nat
             /\ pos + Len(W) <= Len(data)
             /\ pos + Len(W) = 3 + VbkEnd(k)
             /\ \A j \in 1 .. Len(W) : data[pos + j] = W[j]
<1> DEFINE W == VbkItemProperties!WordsOf(dictionary[k])
           A == VbkItemProperties!AllWords
<1>0. Len(dictionary) \in Nat /\ dictionary[k] \in VbkProperty
  BY VbkDictionary
<1>1. W \in Seq(Int) /\ Len(W) \in Nat
  BY <1>0, VbkWordsOf, LenProperties
<1>2. /\ A \in Seq(Int) /\ Len(A) = VbkEnd(Len(dictionary)) + 1
      /\ VbkEnd(k) = VbkEnd(k - 1) + Len(W)
      /\ VbkEnd(k) <= VbkEnd(Len(dictionary))
      /\ \A j \in 1 .. Len(W) : A[VbkEnd(k - 1) + j] = W[j]
  BY VbkAllWords
<1>3. VbkEnd(k - 1) \in Nat /\ VbkEnd(Len(dictionary)) \in Nat
  <2>1. k - 1 \in 0 .. Len(dictionary) /\ Len(dictionary) \in 0 .. Len(dictionary)
    BY <1>0
  <2> QED
    BY <2>1, VbkAllWords
<1>4. /\ data \in Seq(Int) /\ Len(data) = BlobPageSize /\ 3 + Len(A) <= BlobPageSize
      /\ \A i \in 1 .. Len(A) : data[3 + i] = A[i]
  BY VbkPageIs
<1> HIDE DEF W, A
<1>5. BlobPageSize \in Nat
  BY VbkPropertiesAssumption
<1>6. pos + Len(W) <= Len(data) /\ pos + Len(W) = 3 + VbkEnd(k) /\ pos \in Nat
      /\ \A j \in 1 .. Len(W) : /\ VbkEnd(k - 1) + j \in 1 .. Len(A)
                                /\ 3 + (VbkEnd(k - 1) + j) = pos + j
  <2> DEFINE l == Len(W)
             a == Len(A)
             n == Len(data)
             b == VbkEnd(k - 1)
             e == VbkEnd(k)
             z == VbkEnd(Len(dictionary))
  <2>1. /\ l \in Nat /\ b \in Nat /\ z \in Nat /\ a = z + 1 /\ e = b + l /\ e <= z
        /\ n = BlobPageSize /\ 3 + a <= BlobPageSize /\ pos = 3 + b
    BY <1>1, <1>2, <1>3, <1>4
  <2> HIDE DEF l, a, n, b, e, z
  <2>2. pos + l <= n /\ pos + l = 3 + e /\ pos \in Nat
        /\ \A j \in 1 .. l : b + j \in 1 .. a /\ 3 + (b + j) = pos + j
    BY <1>5, <2>1
  <2> QED
    BY <2>2 DEF l, a, n, b, e
<1>7. ASSUME NEW j \in 1 .. Len(W)
      PROVE  data[pos + j] = W[j]
  <2> DEFINE i == VbkEnd(k - 1) + j
  <2>1. i \in 1 .. Len(A) /\ 3 + i = pos + j
    BY <1>6
  <2>2. A[i] = W[j]
    BY <1>2
  <2> HIDE DEF i
  <2>3. data[3 + i] = A[i]
    BY <1>4, <2>1
  <2> QED
    BY <2>1, <2>2, <2>3
<1> QED
  BY <1>1, <1>4, <1>5, <1>6, <1>7 DEF W

\* The property that is parsed next is the next one that was written.
LEMMA VbkTakes ==
  ASSUME dictionary \in Dictionaries, VbkItemProperties!PageCount = 1,
         data = VbkItemProperties!BlobPage(1),
         NEW k \in 1 .. Len(dictionary), pos = 3 + VbkEnd(k - 1)
  PROVE  /\ ~ VbkItemProperties!CutOff
         /\ VbkItemProperties!Type = dictionary[k].type
         /\ VbkItemProperties!Name = dictionary[k].name
         /\ VbkItemProperties!Known <=> dictionary[k].type \in 1 .. 6
         /\ VbkItemProperties!Known =>
              /\ VbkItemProperties!Value = dictionary[k].value
              /\ pos + VbkItemProperties!ValueAt - 1 + VbkItemProperties!ValueSize =
                   3 + VbkEnd(k)
<1> DEFINE p == dictionary[k]
           W == VbkItemProperties!WordsOf(p)
           m == Len(p.name)
           v == Len(p.value)
<1>1. /\ data \in Seq(Int) /\ pos \in Nat /\ Len(data) \in Nat /\ Len(W) \in Nat
      /\ pos + Len(W) <= Len(data) /\ pos + Len(W) = 3 + VbkEnd(k)
      /\ \A j \in 1 .. Len(W) : data[pos + j] = W[j]
  BY VbkWordsAt
<1>2. /\ p \in VbkProperty
      /\ p.type = 1 => v = 1
      /\ p.type = 2 => v = 2
      /\ p.type = 6 => p.value \in {<<0>>, <<1>>}
  BY VbkDictionary
<1>3. /\ m \in Nat /\ v \in Nat
      /\ W[1] = p.type /\ W[2] = m
      /\ \A j \in 1 .. m : W[2 + j] = p.name[j]
      /\ p.type \in {3, 4, 5} =>
           /\ Len(W) = 3 + m + v /\ W[3 + m] = v
           /\ \A j \in 1 .. v : W[3 + m + j] = p.value[j]
      /\ p.type \notin {3, 4, 5} =>
           Len(W) = 2 + m + v /\ \A j \in 1 .. v : W[2 + m + j] = p.value[j]
  BY <1>2, VbkWordsOf
<1>4. p.type \in Int \ {-1} /\ p.name \in Seq(Int) /\ p.value \in Seq(Int)
  BY <1>2 DEF VbkProperty
<1> DEFINE l == Len(W)
           n == Len(data)
<1>5. /\ pos \in Nat /\ n \in Nat /\ l \in Nat /\ m \in Nat /\ v \in Nat
      /\ pos + l <= n /\ pos + l = 3 + VbkEnd(k)
      /\ p.type \in {3, 4, 5} => l = 3 + m + v
      /\ p.type \notin {3, 4, 5} => l = 2 + m + v
      /\ 2 + m <= l
  <2>1. /\ pos \in Nat /\ n \in Nat /\ l \in Nat /\ m \in Nat /\ v \in Nat
        /\ pos + l <= n /\ pos + l = 3 + VbkEnd(k)
        /\ p.type \in {3, 4, 5} => l = 3 + m + v
        /\ p.type \notin {3, 4, 5} => l = 2 + m + v
    BY <1>1, <1>3, Zenon
  <2>2. l = 3 + m + v \/ l = 2 + m + v
    BY <2>1, Zenon
  <2> HIDE DEF l, m, v
  <2>3. 2 + m <= l
    BY <2>1, <2>2
  <2> QED
    BY <2>1, <2>3
<1>a. /\ data \in Seq(Int)
      /\ \A j \in 1 .. l : data[pos + j] = W[j]
      /\ W[1] = p.type /\ W[2] = m
      /\ \A j \in 1 .. m : W[2 + j] = p.name[j]
      /\ p.type \in {3, 4, 5} => W[3 + m] = v /\ \A j \in 1 .. v : W[3 + m + j] = p.value[j]
      /\ p.type \notin {3, 4, 5} => \A j \in 1 .. v : W[2 + m + j] = p.value[j]
  BY <1>1, <1>3, Zenon
<1>b. m = Len(p.name) /\ v = Len(p.value) /\ n = Len(data)
  OBVIOUS
<1> HIDE DEF p, W, l, m, v, n
<1>c. 1 \in 1 .. l /\ 2 \in 1 .. l
  BY <1>5
<1>6. data[pos + 1] = p.type /\ data[pos + 2] = m
  BY <1>a, <1>c
<1>7. VbkItemProperties!Type = p.type
  BY <1>6 DEF VbkItemProperties!Type, VbkItemProperties!Word
<1>8. VbkItemProperties!Name = p.name
  <2>1. ASSUME NEW j \in 1 .. m
        PROVE  data[pos + 2 + j] = p.name[j]
    <3> DEFINE i == 2 + j
    <3>1. i \in 1 .. l /\ pos + i = pos + 2 + j
      BY <1>5
    <3>2. W[i] = p.name[j]
      BY <1>a
    <3> HIDE DEF i
    <3>3. data[pos + i] = W[i]
      BY <1>a, <3>1
    <3> QED
      BY <3>1, <3>2, <3>3
  <2>2. pos + 2 + m <= n
    BY <1>5
  <2>3. VbkItemProperties!Covered(2) = p.name
    <3>1. /\ data \in Seq(Int) /\ pos \in Nat /\ p.name \in Seq(Int)
          /\ data[pos + 2] = Len(p.name) /\ pos + 2 + Len(p.name) <= Len(data)
          /\ \A j \in 1 .. Len(p.name) : data[pos + 2 + j] = p.name[j]
      BY <1>a, <1>b, <1>4, <1>5, <1>6, <2>1, <2>2
    <3> QED
      BY <3>1, VbkCovers
  <2> QED
    BY <2>3 DEF VbkItemProperties!Name
<1>9. VbkItemProperties!ValueAt = 3 + m
  BY <1>b, <1>8 DEF VbkItemProperties!ValueAt
<1>10. VbkItemProperties!Known <=> p.type \in 1 .. 6
  BY <1>4, <1>7 DEF VbkItemProperties!Known, VbkItemProperties!UInt32,
       VbkItemProperties!UInt64, VbkItemProperties!AString, VbkItemProperties!WString,
       VbkItemProperties!Binary, VbkItemProperties!Boolean
<1>11. ASSUME p.type \in {3, 4, 5}
       PROVE  /\ VbkItemProperties!Value = p.value
              /\ VbkItemProperties!ValueSize = 1 + v
              /\ l = 3 + m + v
  <2>1. l = 3 + m + v /\ W[3 + m] = v /\ \A j \in 1 .. v : W[3 + m + j] = p.value[j]
    BY <1>5, <1>a, <1>11
  <2>2. 3 + m \in 1 .. l /\ pos + (3 + m) \in Nat /\ pos + (3 + m) + v <= n /\ 3 + m \in Nat
    BY <1>5, <2>1, SMTT(60)
  <2>3. data[pos + (3 + m)] = v
    BY <1>a, <2>1, <2>2
  <2>4. ASSUME NEW j \in 1 .. v
        PROVE  data[pos + (3 + m) + j] = p.value[j]
    <3> DEFINE i == 3 + m + j
    <3>0. l = 3 + m + v
      BY <2>1
    <3>1. i \in 1 .. l /\ pos + i = pos + (3 + m) + j
      BY <1>5, <3>0
    <3>2. W[i] = p.value[j]
      BY <2>1
    <3> HIDE DEF i
    <3>3. data[pos + i] = W[i]
      BY <1>a, <3>1
    <3> QED
      BY <3>1, <3>2, <3>3
  <2>5. VbkItemProperties!Covered(3 + m) = p.value
    <3>1. /\ data \in Seq(Int) /\ pos \in Nat /\ 3 + m \in Nat /\ p.value \in Seq(Int)
          /\ data[pos + (3 + m)] = Len(p.value) /\ pos + (3 + m) + Len(p.value) <= Len(data)
          /\ \A j \in 1 .. Len(p.value) : data[pos + (3 + m) + j] = p.value[j]
      BY <1>a, <1>b, <1>4, <1>5, <2>2, <2>3, <2>4
    <3> QED
      BY <3>1, VbkCovers
  <2>6. VbkItemProperties!Covered(VbkItemProperties!ValueAt) = p.value
    BY <1>9, <2>5
  <2>7. VbkItemProperties!Type \notin {1, 2, 6}
    BY <1>4, <1>7, <1>11
  <2>8. VbkItemProperties!Value = p.value
    BY <2>6, <2>7 DEF VbkItemProperties!Value, VbkItemProperties!UInt32,
         VbkItemProperties!UInt64, VbkItemProperties!Boolean
  <2>9. VbkItemProperties!ValueSize = 1 + v
    BY <1>b, <2>6, <2>7 DEF VbkItemProperties!ValueSize, VbkItemProperties!UInt32,
         VbkItemProperties!UInt64, VbkItemProperties!Boolean
  <2> QED
    BY <2>1, <2>8, <2>9
<1>12. ASSUME p.type \in {1, 2, 6}
       PROVE  /\ VbkItemProperties!Value = p.value
              /\ VbkItemProperties!ValueSize = v
              /\ v \in Nat \ {0}
              /\ p.type = 2 => v = 2
              /\ l = 2 + m + v
  <2>1. l = 2 + m + v /\ \A j \in 1 .. v : W[2 + m + j] = p.value[j]
    <3>1. p.type \notin {3, 4, 5}
      BY <1>12
    <3> QED
      BY <1>5, <1>a, <3>1
  <2>2. p.type = 6 => v = 1 /\ (p.value[1] = 0 \/ p.value[1] = 1) /\ p.value = <<p.value[1]>>
    <3> SUFFICES ASSUME p.type = 6
                 PROVE  v = 1 /\ (p.value[1] = 0 \/ p.value[1] = 1) /\ p.value = <<p.value[1]>>
      OBVIOUS
    <3>1. p.value = <<0>> \/ p.value = <<1>>
      BY <1>2
    <3>2. \A c : Len(<<c>>) = 1 /\ <<c>>[1] = c
      OBVIOUS
    <3>3. ASSUME NEW c, p.value = <<c>>
          PROVE  v = 1 /\ p.value[1] = c /\ p.value = <<p.value[1]>>
      BY <1>b, <3>2, <3>3
    <3> QED
      BY <3>1, <3>3
  <2>3. (p.type = 1 => v = 1) /\ (p.type = 2 => v = 2) /\ v \in Nat \ {0}
    <3>1. p.type = 1 \/ p.type = 2 \/ p.type = 6
      BY <1>12
    <3>2. (p.type = 1 => v = 1) /\ (p.type = 2 => v = 2)
      BY <1>2
    <3>3. v = 1 \/ v = 2
      BY <2>2, <3>1, <3>2, Zenon
    <3> QED
      BY <3>2, <3>3
  <2>4. 2 + m \in Nat /\ pos + (2 + m) \in Nat /\ pos + (2 + m) + v <= n
    <3>1. l = 2 + m + v
      BY <2>1
    <3> QED
      BY <1>5, <3>1
  <2>5. ASSUME NEW j \in 1 .. v
        PROVE  data[pos + (2 + m) + j] = p.value[j]
    <3> DEFINE i == 2 + m + j
    <3>0. l = 2 + m + v
      BY <2>1
    <3>1. i \in 1 .. l /\ pos + i = pos + (2 + m) + j
      BY <1>5, <3>0
    <3>2. W[i] = p.value[j]
      BY <2>1
    <3> HIDE DEF i
    <3>3. data[pos + i] = W[i]
      BY <1>a, <3>1
    <3> QED
      BY <3>1, <3>2, <3>3
  <2>6. SubSeq(data, pos + (2 + m) + 1, pos + (2 + m) + v) = p.value
    BY <1>a, <1>b, <1>4, <2>4, <2>5, PartIs
  <2>7. VbkItemProperties!Type = p.type
    BY <1>7
  <2>8. VbkItemProperties!ValueSize = v
    BY <1>12, <2>2, <2>3, <2>7 DEF VbkItemProperties!ValueSize, VbkItemProperties!UInt32,
         VbkItemProperties!UInt64, VbkItemProperties!Boolean
  <2>9. /\ pos + VbkItemProperties!ValueAt = pos + (2 + m) + 1
        /\ pos + VbkItemProperties!ValueAt + VbkItemProperties!ValueSize - 1 = pos + (2 + m) + v
    <3>1. pos \in Nat /\ m \in Nat /\ v \in Nat
      BY <1>5
    <3>2. pos + (3 + m) = pos + (2 + m) + 1 /\ pos + (3 + m) + v - 1 = pos + (2 + m) + v
      BY <3>1
    <3> QED
      BY <1>9, <2>8, <3>2, Zenon
  <2>10. CASE p.type \in {1, 2}
    <3>1. VbkItemProperties!Value =
            SubSeq(data, pos + VbkItemProperties!ValueAt,
                   pos + VbkItemProperties!ValueAt + VbkItemProperties!ValueSize - 1)
      <4> DEFINE x == SubSeq(data, pos + VbkItemProperties!ValueAt,
                        pos + VbkItemProperties!ValueAt + VbkItemProperties!ValueSize - 1)
                 y == <<IF VbkItemProperties!Word(VbkItemProperties!ValueAt) = 0 THEN 0 ELSE 1>>
                 z == VbkItemProperties!Covered(VbkItemProperties!ValueAt)
      <4>1. VbkItemProperties!Value = CASE VbkItemProperties!Type \in {1, 2} -> x
                                        [] VbkItemProperties!Type = 6 -> y
                                        [] OTHER -> z
        BY DEF VbkItemProperties!Value, VbkItemProperties!UInt32, VbkItemProperties!UInt64,
               VbkItemProperties!Boolean
      <4>2. VbkItemProperties!Type = 1 \/ VbkItemProperties!Type = 2
        BY <2>7, <2>10
      <4> HIDE DEF x, y, z
      <4>3. VbkItemProperties!Value = x
        BY <4>1, <4>2
      <4> QED
        BY <4>3 DEF x
    <3>2. VbkItemProperties!Value = p.value
      BY <2>6, <2>9, <3>1
    <3> QED
      BY <2>1, <2>3, <2>8, <3>2
  <2>11. CASE p.type = 6
    <3>1. VbkItemProperties!Value =
            <<IF VbkItemProperties!Word(VbkItemProperties!ValueAt) = 0 THEN 0 ELSE 1>>
      BY <2>7, <2>11 DEF VbkItemProperties!Value, VbkItemProperties!UInt32,
           VbkItemProperties!UInt64, VbkItemProperties!Boolean
    <3>2. VbkItemProperties!Word(VbkItemProperties!ValueAt) = p.value[1]
      <4>1. 1 \in 1 .. v
        BY <2>3
      <4> QED
        BY <2>5, <2>9, <4>1 DEF VbkItemProperties!Word
    <3>3. VbkItemProperties!Value = p.value
      BY <2>2, <2>11, <3>1, <3>2
    <3> QED
      BY <2>1, <2>3, <2>8, <3>3
  <2> QED
    BY <1>12, <2>10, <2>11
<1>13. ~ VbkItemProperties!CutOff
  <2>1. VbkItemProperties!Has(1) /\ VbkItemProperties!Has(2)
    <3>1. pos + 1 <= n /\ pos + 2 <= n
      BY <1>5
    <3> QED
      BY <1>b, <3>1 DEF VbkItemProperties!Has
  <2>2. ASSUME VbkItemProperties!Known
        PROVE  VbkItemProperties!Has(VbkItemProperties!ValueAt +
                 (IF VbkItemProperties!Type = VbkItemProperties!UInt64 THEN 1 ELSE 0))
    <3>1. p.type \in 1 .. 6
      BY <1>10, <2>2
    <3> DEFINE more == IF VbkItemProperties!Type = VbkItemProperties!UInt64 THEN 1 ELSE 0
    <3>a. more = IF p.type = 2 THEN 1 ELSE 0
      BY <1>7 DEF VbkItemProperties!UInt64
    <3> HIDE DEF more
    <3>2. CASE p.type \in {3, 4, 5}
      <4>1. l = 3 + m + v /\ more = 0
        BY <1>11, <3>2, <3>a
      <4>2. pos + (3 + m + more) <= n
        BY <1>5, <4>1
      <4> QED
        BY <1>9, <1>b, <4>2 DEF VbkItemProperties!Has, more
    <3>3. CASE p.type \in {1, 2, 6}
      <4>1. l = 2 + m + v /\ more <= v - 1 /\ more \in Nat
        BY <1>12, <3>3, <3>a
      <4>2. pos + (3 + m + more) <= n
        BY <1>5, <4>1
      <4> QED
        BY <1>9, <1>b, <4>2 DEF VbkItemProperties!Has, more
    <3> QED
      BY <3>1, <3>2, <3>3
  <2>3. VbkItemProperties!Type # VbkItemProperties!End
    BY <1>4, <1>7 DEF VbkItemProperties!End
  <2> QED
    BY <2>1, <2>2, <2>3 DEF VbkItemProperties!CutOff
<1>14. ASSUME VbkItemProperties!Known
       PROVE  /\ VbkItemProperties!Value = p.value
              /\ pos + VbkItemProperties!ValueAt - 1 + VbkItemProperties!ValueSize =
                   3 + VbkEnd(k)
  <2>1. p.type \in 1 .. 6
    BY <1>10, <1>14
  <2>2. CASE p.type \in {3, 4, 5}
    <3>1. l = 3 + m + v
      BY <1>11, <2>2
    <3>2. pos + (3 + m) - 1 + (1 + v) = pos + l
      BY <1>5, <3>1
    <3> QED
      BY <1>5, <1>9, <1>11, <2>2, <3>2, Zenon
  <2>3. CASE p.type \in {1, 2, 6}
    <3>1. l = 2 + m + v
      BY <1>12, <2>3
    <3>2. pos + (3 + m) - 1 + v = pos + l
      BY <1>5, <3>1
    <3> QED
      BY <1>5, <1>9, <1>12, <2>3, <3>2, Zenon
  <2> QED
    BY <2>1, <2>2, <2>3
<1> QED
  BY <1>7, <1>8, <1>10, <1>13, <1>14 DEF p

\* Behind the last property is the end.
LEMMA VbkEnds ==
  ASSUME dictionary \in Dictionaries, VbkItemProperties!PageCount = 1,
         data = VbkItemProperties!BlobPage(1), pos = 3 + VbkEnd(Len(dictionary))
  PROVE  ~ VbkItemProperties!CutOff /\ VbkItemProperties!Type = -1
<1> DEFINE A == VbkItemProperties!AllWords
           i == VbkEnd(Len(dictionary)) + 1
<1>1. Len(dictionary) \in 0 .. Len(dictionary)
  BY VbkDictionary
<1>2. VbkEnd(Len(dictionary)) \in Nat /\ Len(A) = i /\ A[i] = -1
  BY <1>1, VbkAllWords
<1>3. /\ Len(data) = BlobPageSize /\ 3 + Len(A) <= BlobPageSize
      /\ \A j \in 1 .. Len(A) : data[3 + j] = A[j]
  BY VbkPageIs
<1> HIDE DEF A
<1>4. i \in 1 .. Len(A) /\ 3 + i = pos + 1 /\ pos + 1 <= Len(data)
  BY <1>2, <1>3
<1> HIDE DEF i
<1>5. data[pos + 1] = -1
  BY <1>2, <1>3, <1>4
<1>6. VbkItemProperties!Has(1) /\ VbkItemProperties!Type = -1
  BY <1>4, <1>5 DEF VbkItemProperties!Has, VbkItemProperties!Type, VbkItemProperties!Word
<1> QED
  BY <1>6 DEF VbkItemProperties!CutOff, VbkItemProperties!End

VbkNames(k) == {dictionary[i].name : i \in 1 .. k}

\* The properties read are the first k: of those with the same name, the last one.
VbkHeld(k) ==
  /\ properties = [name \in VbkNames(k) |-> properties[name]]
  /\ \A i \in 1 .. k :
       (\A j \in 1 .. k : j > i => dictionary[j].name # dictionary[i].name)
         => properties[dictionary[i].name] = dictionary[i].value

\* If all fits on one page, that one is read, and then one property after the other, until the
\* end or one whose type is not known.
VbkInv ==
  /\ dictionary \in Dictionaries
  /\ VbkItemProperties!PageCount = 1 =>
       \/ /\ pc = "pages" /\ properties = <<>>
          /\ \/ page = 1 /\ data = <<>>
             \/ page = -1 /\ data = VbkItemProperties!BlobPage(1)
       \/ /\ pc = "parsing" /\ data = VbkItemProperties!BlobPage(1)
          /\ \E k \in 0 .. Len(dictionary) : pos = 3 + VbkEnd(k) /\ VbkHeld(k)
       \/ pc = "done" /\ VbkHeld(Len(dictionary))
       \/ /\ pc = "unsupported type"
          /\ \E i \in 1 .. Len(dictionary) : VbkItemProperties!UnknownType(dictionary[i])

\* What is written does not change.
LEMMA VbkSame ==
  ASSUME dictionary' = dictionary
  PROVE  /\ VbkItemProperties!PageCount' = VbkItemProperties!PageCount
         /\ VbkItemProperties!BlobPage(1)' = VbkItemProperties!BlobPage(1)
         /\ \A k : VbkEnd(k)' = VbkEnd(k)
<1>1. VbkItemProperties!AllWords' = VbkItemProperties!AllWords
  BY DEF VbkItemProperties!AllWords, VbkItemProperties!WordsOf
<1>2. VbkWords' = VbkWords
  BY DEF VbkWords, VbkItemProperties!WordsOf
<1> QED
  BY <1>1, <1>2 DEF VbkItemProperties!PageCount, VbkItemProperties!BlobPage, VbkEnd,
     VbkItemProperties!Body

\* Nothing is read yet.
LEMMA VbkPropertiesInit ==
  ASSUME VbkItemProperties!Init
  PROVE  VbkInv
BY DEF VbkItemProperties!Init, VbkInv

\* Without properties, none is held.
LEMMA VbkHeldNone ==
  ASSUME properties = <<>>
  PROVE  VbkHeld(0)
<1>1. VbkNames(0) = {} /\ 1 .. 0 = {}
  BY DEF VbkNames
<1>2. properties = [name \in {} |-> properties[name]]
  BY SMT
<1> QED
  BY <1>1, <1>2 DEF VbkHeld

\* One more property, or another value for its name.
LEMMA VbkHeldMore ==
  ASSUME NEW k \in Nat \ {0}, VbkHeld(k - 1), dictionary' = dictionary,
         properties' = [name \in DOMAIN properties \cup {dictionary[k].name} |->
                          IF name = dictionary[k].name THEN dictionary[k].value
                          ELSE properties[name]]
  PROVE  VbkHeld(k)'
<1> DEFINE new == dictionary[k].name
<1>0. \A i \in 1 .. k : i = k \/ i \in 1 .. k - 1
  OBVIOUS
<1>1. DOMAIN properties = VbkNames(k - 1)
  BY DEF VbkHeld
<1>2. VbkNames(k) = VbkNames(k - 1) \cup {new}
  <2>1. k \in 1 .. k /\ \A i \in 1 .. k - 1 : i \in 1 .. k
    OBVIOUS
  <2> QED
    BY <1>0, <2>1, Zenon DEF VbkNames
<1>3. VbkNames(k)' = VbkNames(k)
  BY DEF VbkNames
<1>4. properties' = [name \in VbkNames(k) |->
                       IF name = new THEN dictionary[k].value ELSE properties[name]]
  BY <1>1, <1>2
<1> HIDE DEF new
<1>5. properties' = [name \in VbkNames(k)' |-> properties'[name]]
  BY <1>3, <1>4
<1>6. ASSUME NEW i \in 1 .. k, \A j \in 1 .. k : j > i => dictionary[j].name # dictionary[i].name
      PROVE  properties'[dictionary[i].name] = dictionary[i].value
  <2>1. dictionary[i].name \in VbkNames(k)
    BY DEF VbkNames
  <2>2. properties'[dictionary[i].name] =
          IF dictionary[i].name = new THEN dictionary[k].value ELSE properties[dictionary[i].name]
    BY <1>4, <2>1
  <2>3. CASE i = k
    BY <2>2, <2>3 DEF new
  <2>4. CASE i # k
    <3>1. i \in 1 .. k - 1 /\ k > i /\ k \in 1 .. k /\ \A j \in 1 .. k - 1 : j \in 1 .. k
      BY <2>4
    <3>2. dictionary[i].name # new
      BY <1>6, <3>1 DEF new
    <3>3. \A j \in 1 .. k - 1 : j > i => dictionary[j].name # dictionary[i].name
      BY <1>6, <3>1
    <3>4. properties[dictionary[i].name] = dictionary[i].value
      BY <3>1, <3>3 DEF VbkHeld
    <3> QED
      BY <2>2, <3>2, <3>4
  <2> QED
    BY <2>3, <2>4
<1>7. \A i \in 1 .. k :
        (\A j \in 1 .. k : j > i => dictionary'[j].name # dictionary'[i].name)
          => properties'[dictionary'[i].name] = dictionary'[i].value
  BY <1>6
<1> QED
  BY <1>5, <1>7 DEF VbkHeld

\* The invariant is kept.
LEMMA VbkPropertiesStep ==
  ASSUME VbkInv, [VbkItemProperties!Next]_(VbkItemProperties!vars)
  PROVE  VbkInv'
<1> USE DEF VbkItemProperties!NoPage, VbkItemProperties!End
<1>1. dictionary \in Dictionaries /\ dictionary' = dictionary
  BY DEF VbkInv, VbkItemProperties!Next, VbkItemProperties!ReadPage,
     VbkItemProperties!BeginParsing, VbkItemProperties!TakeProperty, VbkItemProperties!TakeEnd,
     VbkItemProperties!UnsupportedType, VbkItemProperties!EndOfData, VbkItemProperties!Ended,
     VbkItemProperties!Stop, VbkItemProperties!vars
<1>2. /\ VbkItemProperties!PageCount' = VbkItemProperties!PageCount
      /\ VbkItemProperties!BlobPage(1)' = VbkItemProperties!BlobPage(1)
      /\ \A k : VbkEnd(k)' = VbkEnd(k)
  BY <1>1, VbkSame
<1>3. CASE VbkItemProperties!PageCount # 1
  BY <1>1, <1>2, <1>3 DEF VbkInv
<1>4. CASE VbkItemProperties!PageCount = 1
  <2>0. Len(dictionary) \in Nat /\ VbkEnd(0) = 0
    BY <1>1, VbkDictionary, VbkAllWords
  <2>1. CASE UNCHANGED VbkItemProperties!vars
    <3>1. /\ page' = page /\ data' = data /\ pos' = pos /\ properties' = properties /\ pc' = pc
      BY <2>1 DEF VbkItemProperties!vars
    <3>2. \A k : VbkHeld(k)' <=> VbkHeld(k)
      BY <1>1, <3>1 DEF VbkHeld, VbkNames
    <3> QED
      BY <1>1, <1>2, <3>1, <3>2 DEF VbkInv, VbkItemProperties!UnknownType
  <2>2. CASE VbkItemProperties!ReadPage
    <3>1. /\ pc = "pages" /\ page # -1 /\ data' = data \o VbkItemProperties!BlobPage(page)
          /\ page' = VbkItemProperties!BlobPage(page)[1] /\ pc' = pc /\ properties' = properties
      BY <2>2 DEF VbkItemProperties!ReadPage
    <3>2. properties = <<>> /\ page = 1 /\ data = <<>>
      BY <1>4, <3>1 DEF VbkInv
    <3>3. VbkItemProperties!BlobPage(1) \in Seq(Int) /\ VbkItemProperties!BlobPage(1)[1] = -1
      BY <1>1, <1>4, VbkPageIs
    <3>4. <<>> \o VbkItemProperties!BlobPage(1) = VbkItemProperties!BlobPage(1)
      BY <3>3, ConcatEmptySeq
    <3> QED
      BY <1>1, <1>2, <3>1, <3>2, <3>3, <3>4 DEF VbkInv
  <2>3. CASE VbkItemProperties!BeginParsing
    <3>1. /\ pc = "pages" /\ page = -1 /\ pc' = "parsing" /\ pos' = 3 /\ data' = data
          /\ properties' = properties
      BY <2>3 DEF VbkItemProperties!BeginParsing, VbkItemProperties!Skipped,
                  VbkItemProperties!HeaderSize
    <3>2. properties = <<>> /\ data = VbkItemProperties!BlobPage(1)
      BY <1>4, <3>1 DEF VbkInv
    <3>3. VbkHeld(0)
      BY <3>2, VbkHeldNone
    <3>4. VbkHeld(0)'
      BY <1>1, <3>1, <3>3 DEF VbkHeld, VbkNames
    <3>5. 0 \in 0 .. Len(dictionary') /\ pos' = 3 + VbkEnd(0)'
      BY <1>1, <1>2, <2>0, <3>1
    <3> QED
      BY <1>1, <1>2, <3>1, <3>2, <3>4, <3>5 DEF VbkInv
  <2>4. CASE pc = "parsing" /\ \/ VbkItemProperties!TakeProperty
                               \/ VbkItemProperties!TakeEnd
                               \/ VbkItemProperties!UnsupportedType
                               \/ VbkItemProperties!EndOfData
    <3>1. PICK k \in 0 .. Len(dictionary) : pos = 3 + VbkEnd(k) /\ VbkHeld(k)
      BY <1>4, <2>4 DEF VbkInv
    <3>2. data = VbkItemProperties!BlobPage(1)
      BY <1>4, <2>4 DEF VbkInv
    <3>3. CASE k = Len(dictionary)
      <4>1. ~ VbkItemProperties!CutOff /\ VbkItemProperties!Type = -1
        BY <1>1, <1>4, <3>1, <3>2, <3>3, VbkEnds
      <4>2. ~ VbkItemProperties!Known
        BY <4>1 DEF VbkItemProperties!Known, VbkItemProperties!UInt32,
           VbkItemProperties!UInt64, VbkItemProperties!AString, VbkItemProperties!WString,
           VbkItemProperties!Binary, VbkItemProperties!Boolean
      <4>3. pc' = "done" /\ properties' = properties
        BY <2>4, <4>1, <4>2 DEF VbkItemProperties!TakeProperty, VbkItemProperties!TakeEnd,
           VbkItemProperties!UnsupportedType, VbkItemProperties!EndOfData,
           VbkItemProperties!Stop
      <4>4. VbkHeld(Len(dictionary))'
        <5>1. VbkHeld(Len(dictionary))
          BY <3>1, <3>3
        <5>2. Len(dictionary') = Len(dictionary)
          BY <1>1
        <5> QED
          BY <1>1, <4>3, <5>1, <5>2 DEF VbkHeld, VbkNames
      <4> QED
        BY <1>1, <4>3, <4>4 DEF VbkInv
    <3>4. CASE k # Len(dictionary)
      <4> DEFINE n == k + 1
      <4>1. n \in 1 .. Len(dictionary) /\ n - 1 = k /\ n \in Nat \ {0} /\ n \in 0 .. Len(dictionary)
        BY <2>0, <3>1, <3>4
      <4> HIDE DEF n
      <4>2. /\ ~ VbkItemProperties!CutOff
            /\ VbkItemProperties!Type = dictionary[n].type
            /\ VbkItemProperties!Name = dictionary[n].name
            /\ VbkItemProperties!Known <=> dictionary[n].type \in 1 .. 6
            /\ VbkItemProperties!Known =>
                 /\ VbkItemProperties!Value = dictionary[n].value
                 /\ pos + VbkItemProperties!ValueAt - 1 + VbkItemProperties!ValueSize =
                      3 + VbkEnd(n)
        BY <1>1, <1>4, <3>1, <3>2, <4>1, VbkTakes
      <4>3. VbkItemProperties!Type # -1
        BY <1>1, <4>1, <4>2, VbkDictionary DEF VbkProperty
      <4>4. CASE VbkItemProperties!TakeProperty
        <5>1. /\ pc' = pc /\ data' = data
              /\ properties' = [name \in DOMAIN properties \cup {dictionary[n].name} |->
                                  IF name = dictionary[n].name THEN dictionary[n].value
                                  ELSE properties[name]]
          BY <4>2, <4>4 DEF VbkItemProperties!TakeProperty
        <5>2. pos' = 3 + VbkEnd(n)
          BY <4>2, <4>4 DEF VbkItemProperties!TakeProperty
        <5>3. VbkHeld(n)'
          BY <1>1, <3>1, <4>1, <5>1, VbkHeldMore
        <5>4. n \in 0 .. Len(dictionary') /\ pos' = 3 + VbkEnd(n)'
          BY <1>1, <1>2, <4>1, <5>2
        <5> QED
          BY <1>1, <1>2, <2>4, <3>2, <5>1, <5>3, <5>4 DEF VbkInv
      <4>5. CASE VbkItemProperties!UnsupportedType
        <5>1. pc' = "unsupported type" /\ dictionary[n].type \notin 1 .. 6
          BY <4>2, <4>5 DEF VbkItemProperties!UnsupportedType, VbkItemProperties!Stop
        <5>2. VbkItemProperties!UnknownType(dictionary'[n]) /\ n \in 1 .. Len(dictionary')
          BY <1>1, <4>1, <5>1 DEF VbkItemProperties!UnknownType
        <5> QED
          BY <1>1, <5>1, <5>2 DEF VbkInv, VbkItemProperties!UnknownType
      <4> QED
        BY <2>4, <4>2, <4>3, <4>4, <4>5
           DEF VbkItemProperties!TakeEnd, VbkItemProperties!EndOfData
    <3> QED
      BY <3>3, <3>4
  <2> QED
    BY <2>1, <2>2, <2>3, <2>4 DEF VbkItemProperties!Next, VbkItemProperties!Ended,
       VbkItemProperties!TakeProperty, VbkItemProperties!TakeEnd,
       VbkItemProperties!UnsupportedType, VbkItemProperties!EndOfData
<1> QED
  BY <1>3, <1>4

\* What is held of all of them is what was written.
LEMMA VbkHeldAll ==
  ASSUME dictionary \in Dictionaries, VbkHeld(Len(dictionary))
  PROVE  properties = VbkItemProperties!Written
<1> DEFINE n == Len(dictionary)
           names == {p.name : p \in VbkItemProperties!ToSet(dictionary)}
           IsLast(name, i) == /\ dictionary[i].name = name
                              /\ \A j \in DOMAIN dictionary : dictionary[j].name = name => j <= i
           last == [name \in names |-> CHOOSE i \in DOMAIN dictionary : IsLast(name, i)]
<1>1. n \in Nat /\ DOMAIN dictionary = 1 .. n
  BY VbkDictionary
<1>2. names = VbkNames(n)
  BY <1>1 DEF VbkItemProperties!ToSet, VbkNames
<1>3. VbkItemProperties!Written = [name \in names |-> dictionary[last[name]].value]
  BY DEF VbkItemProperties!Written
<1>a. VbkHeld(n)
  OBVIOUS
<1> HIDE DEF names, n
<1>4. ASSUME NEW name \in names
      PROVE  properties[name] = dictionary[last[name]].value
  <2> DEFINE T == {x \in Nat : \E i \in 1 .. n : dictionary[i].name = name /\ x = n - i}
  <2>1. PICK x \in T : \A y \in T : x <= y
    <3>1. PICK i \in 1 .. n : dictionary[i].name = name
      BY <1>2, <1>4 DEF VbkNames
    <3>2. n - i \in T
      BY <1>1, <3>1
    <3> HIDE DEF T
    <3>3. T # {}
      BY <3>2
    <3>4. T \in SUBSET Nat
      BY DEF T
    <3> QED
      BY <3>3, <3>4, LeastNatural
  <2>2. PICK i \in 1 .. n : dictionary[i].name = name /\ x = n - i
    OBVIOUS
  <2>3. ASSUME NEW j \in 1 .. n, dictionary[j].name = name
        PROVE  j <= i
    <3>1. n - j \in T
      <4>1. n - j \in Nat
        BY <1>1
      <4> QED
        BY <2>3, <4>1
    <3>2. x <= n - j
      BY <2>1, <3>1
    <3> QED
      BY <1>1, <2>2, <3>2
  <2>4. i \in DOMAIN dictionary /\ IsLast(name, i)
    BY <1>1, <2>2, <2>3
  <2>5. last[name] = CHOOSE l \in DOMAIN dictionary : IsLast(name, l)
    BY DEF last
  <2> HIDE DEF IsLast, last
  <2>6. last[name] \in DOMAIN dictionary /\ IsLast(name, last[name])
    BY <2>4, <2>5
  <2>7. /\ last[name] \in 1 .. n /\ dictionary[last[name]].name = name
        /\ \A j \in 1 .. n : dictionary[j].name = name => j <= last[name]
    BY <1>1, <2>6 DEF IsLast
  <2>8. \A j \in 1 .. n : j > last[name] => dictionary[j].name # name
    <3> DEFINE l == last[name]
    <3>1. l \in Int /\ \A j \in 1 .. n : j \in Int /\ (dictionary[j].name = name => j <= l)
      BY <1>1, <2>7
    <3> HIDE DEF l
    <3>2. \A j \in 1 .. n : j > l => dictionary[j].name # name
      BY <3>1
    <3> QED
      BY <3>2 DEF l
  <2> QED
    BY <1>a, <2>7, <2>8 DEF VbkHeld
<1>5. properties = [name \in names |-> properties[name]]
  BY <1>a, <1>2 DEF VbkHeld
<1> HIDE DEF last
<1> QED
  BY <1>3, <1>4, <1>5

\* What has been read in the end is what was written.
LEMMA VbkPropertiesFinal ==
  ASSUME VbkInv
  PROVE  VbkItemProperties!PropertiesOfOnePage
<1> SUFFICES ASSUME VbkItemProperties!PageCount = 1
             PROVE  VbkItemProperties!PropertiesAsWritten
  BY DEF VbkItemProperties!PropertiesOfOnePage
<1>1. pc = "done" => properties = VbkItemProperties!Written
  BY VbkHeldAll DEF VbkInv
<1>2. ASSUME pc \in {"unsupported type", "end of data"}
      PROVE  \E p \in VbkItemProperties!ToSet(dictionary) : VbkItemProperties!UnknownType(p)
  <2>1. PICK i \in 1 .. Len(dictionary) : VbkItemProperties!UnknownType(dictionary[i])
    BY <1>2 DEF VbkInv
  <2>2. dictionary[i] \in VbkItemProperties!ToSet(dictionary)
    BY VbkDictionary DEF VbkItemProperties!ToSet, VbkInv
  <2> QED
    BY <2>1, <2>2
<1> QED
  BY <1>1, <1>2 DEF VbkItemProperties!PropertiesAsWritten

\* For any dictionary that fits on a page, the properties of an item of a VBK file are those that
\* were written, or there is one of an unknown type (PropertiesDictionary, MetaBlob).
THEOREM VbkPropertiesCorrect == Spec => []VbkPropertiesOfOnePage
<1> DEFINE Inv == format = "vbk properties" => VbkInv
<1>1. Init => Inv
  BY VbkPropertiesInit DEF Init
<1>2. Inv /\ [Next]_vars => Inv'
  <2> SUFFICES ASSUME Inv, [Next]_vars, format' = "vbk properties"
               PROVE  VbkInv'
    OBVIOUS
  <2>1. format = "vbk properties" /\ [VbkItemProperties!Next]_(VbkItemProperties!vars)
    BY DEF Next, vars, vbk_properties, VbkItemProperties!vars
  <2> QED
    BY <2>1, VbkPropertiesStep
<1>3. Inv => VbkPropertiesOfOnePage
  BY VbkPropertiesFinal DEF VbkPropertiesOfOnePage
<1> QED
  BY <1>1, <1>2, <1>3, PTL DEF Spec
=============================================================================
