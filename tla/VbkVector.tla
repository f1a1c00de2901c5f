----------------------------- MODULE VbkVector -----------------------------
(***************************************************************************)
(* MetaVector and MetaVector2 of vbk.py: how the entries of a vector are   *)
(* found on its pages.                                                     *)
(*                                                                         *)
(* In files of version 1 the entries of a page follow the 8 bytes that     *)
(* lead to the next one; in those of version 2 (MetaVector2) they fill     *)
(* their pages, and other pages hold the table of those.  Lengths are in   *)
(* words of 8 bytes.  A file is old if is_v7 does not hold for it.         *)
(***************************************************************************)
EXTENDS Integers, FiniteSets, SequencesExt

CONSTANT PAGE_SIZE

\* What is found in an entry that is none.
Garbage == [type |-> "garbage", id |-> 0, compression |-> "garbage", data |-> -1,
            listed |-> FALSE, name |-> "garbage", kind |-> "garbage", folder |-> 0]

CeilDiv(a, b) == (a + b - 1) \div b

-----------------------------------------------------------------------------
\* The writer: a vector is [version2, size, count, pages, table], the size that of its
\* entries, its table the words of the table pages.

\* The parts of s of n each, but for the last.
Parts(s, n) ==
  [i \in 1 .. CeilDiv(Len(s), n) |->
     SubSeq(s, (i - 1) * n + 1, IF i * n < Len(s) THEN i * n ELSE Len(s))]

\* The words before the entries of a page.
EntryHeader(version2) == IF version2 THEN 0 ELSE 1

\* The words before the entries of page i of the table of a vector of version 2.
TableHeader(i) == IF i = 0 THEN 2 ELSE IF i % 3 = 1 THEN 4 ELSE 1

\* A word that leads to another page of the table: no page of entries.
Header == -1

\* The first page of entries that page i of a table lists: behind the words that the pages
\* before it leave free.
FirstListed(i) == i * PAGE_SIZE - (IF i = 0 THEN 0 ELSE 1 + i + 3 * ((i + 1) \div 3))

\* The pages of a table of m pages of entries.
TablePages(m) == {i \in 0 .. m : i = 0 \/ FirstListed(i) < m}

TablePage(i) ==
  [w \in 1 .. PAGE_SIZE |->
     IF w <= TableHeader(i) THEN Header ELSE FirstListed(i) + w - 1 - TableHeader(i)]

\* The words of the table of m pages of entries.
TableWords(m) ==
  FlattenSeq([i \in 1 .. Cardinality(TablePages(m)) |-> TablePage(i - 1)])

\* The entries that a page holds.
PerPage(version2, size) == (PAGE_SIZE - EntryHeader(version2)) \div size

Vector(version2, size, entries) ==
  LET pages == Parts(entries, PerPage(version2, size))
  IN  [version2 |-> version2, size |-> size, count |-> Len(entries), pages |-> pages,
       table |-> TableWords(Len(pages))]

-----------------------------------------------------------------------------
\* The reader, of entries that it takes to be of some size.

OutOfRange == [error |-> "index out of range", entry |-> Garbage]
CutOff == [error |-> "end of page", entry |-> Garbage]
Entry(e) == [error |-> "", entry |-> e]

EntriesPerPage(size) == PAGE_SIZE \div size

\* What is k entries behind the first one of page i.
EntryOf(vector, size, i, k) ==
  LET header == EntryHeader(vector.version2)
      nth    == (k * size) \div vector.size + 1
  IN  IF header + (k + 1) * size > PAGE_SIZE THEN CutOff
      ELSE IF /\ (k * size) % vector.size = 0
              /\ i + 1 \in DOMAIN vector.pages /\ nth \in DOMAIN vector.pages[i + 1]
           THEN Entry(vector.pages[i + 1][nth])
           ELSE Entry(Garbage)

\* How many pages table page i lists.
MaxEntries(i) == <<PAGE_SIZE - 1, PAGE_SIZE - 4, PAGE_SIZE - 1>>[(i % 3) + 1]

\* The word of the table that lists page idx: on table page i if it is less than the pages
\* that are listed there.
TableOffset(idx, table_idx) ==
  LET offset[n \in Nat] ==
        [i \in Nat |->
           IF n < MaxEntries(i)
           THEN i * PAGE_SIZE + (PAGE_SIZE - MaxEntries(i)) + n
           ELSE offset[n - MaxEntries(i)][i + 1]]
  IN  offset[idx][table_idx]

\* Mutation of LookupPage: the second page is like the third.
LookupPageEvenly(idx) ==
  IF idx < PAGE_SIZE - 2 THEN idx + 2 ELSE TableOffset(idx - (PAGE_SIZE - 2), 2)

LookupPage(idx) ==
  IF idx < PAGE_SIZE - 2 THEN idx + 2 ELSE TableOffset(idx - (PAGE_SIZE - 2), 1)

Get(vector, size, idx) ==
  LET page == idx \div EntriesPerPage(size)
      k    == idx % EntriesPerPage(size)
      word == LookupPage(page) + 1
  IN  IF idx >= vector.count THEN OutOfRange
      ELSE IF ~vector.version2
           THEN IF page + 1 \in DOMAIN vector.pages THEN EntryOf(vector, size, page, k)
                ELSE OutOfRange
      ELSE IF word > Len(vector.table) THEN OutOfRange
      ELSE EntryOf(vector, size, vector.table[word], k)
=============================================================================
