--------------------------- MODULE VbkProperties ---------------------------
(***************************************************************************)
(* PropertiesDictionary and MetaBlob of vbk.py: the properties of an item  *)
(* are a dictionary, written to a chain of pages.                          *)
(*                                                                         *)
(* Sizes are in words of 32 bits, also those of strings; a number of 64    *)
(* bits takes two.  A page starts with a header: the number of the next    *)
(* page, of 64 bits, and a word that is not known.                         *)
(***************************************************************************)
EXTENDS Integers, SequencesExt

CONSTANTS
  Dictionaries, (* the dictionaries looked at: sequences of properties,    *)
                (* each a type, a name and the words of its value          *)
  BlobPageSize

VARIABLES
  dictionary,
  page,       (* the page that is read next, or NoPage                     *)
  data,       (* the pages that were read                                  *)
  pos,        (* how far they are parsed                                   *)
  properties, (* those that were read, the value of each name              *)
  pc          (* "pages", "parsing", "done" or the error                   *)

vars == <<dictionary, page, data, pos, properties, pc>>

NoPage == -1

\* PropertyType
UInt32 == 1
UInt64 == 2
AString == 3
WString == 4
Binary == 5
Boolean == 6
End == -1

\* The words of len(c_vbk.MetaBlobHeader).
HeaderSize == 3

-----------------------------------------------------------------------------
\* The writer.

WithLength(words) == <<Len(words)>> \o words

WordsOf(p) ==
  <<p.type>> \o WithLength(p.name)
    \o (IF p.type \in {AString, WString, Binary} THEN WithLength(p.value) ELSE p.value)

AllWords == FlattenSeq([i \in DOMAIN dictionary |-> WordsOf(dictionary[i])]) \o <<End>>

Body == BlobPageSize - HeaderSize

PageCount == (Len(AllWords) + Body - 1) \div Body

\* Page i of the chain: the pages after the first one are the ones after it.
BlobPage(i) ==
  (IF i = PageCount THEN <<NoPage, NoPage, 0>> ELSE <<i + 1, 0, 0>>)
    \o [w \in 1 .. Body |->
          LET at == (i - 1) * Body + w IN IF at <= Len(AllWords) THEN AllWords[at] ELSE 0]

-----------------------------------------------------------------------------
\* MetaBlob

Init ==
  /\ dictionary \in Dictionaries
  /\ page = 1
  /\ data = <<>>
  /\ pos = 0
  /\ properties = <<>>
  /\ pc = "pages"

ReadPage ==
  /\ pc = "pages"
  /\ page # NoPage
  /\ data' = data \o BlobPage(page)
  /\ page' = BlobPage(page)[1]
  /\ UNCHANGED <<dictionary, pos, properties, pc>>

\* Mutation of Skipped: only the number of the next page is skipped.
NextPageSkipped == 1

\* What is not parsed.
Skipped == HeaderSize

BeginParsing ==
  /\ pc = "pages"
  /\ page = NoPage
  /\ pc' = "parsing"
  /\ pos' = Skipped
  /\ UNCHANGED <<dictionary, page, data, properties>>

-----------------------------------------------------------------------------
\* PropertiesDictionary

\* The word i after pos, and what a length there covers: the rest, if there is less.  (-1 is
\* the largest number.)
Has(i) == pos + i <= Len(data)
Word(i) == data[pos + i]
Covered(i) ==
  LET last == pos + i + Word(i)
  IN  SubSeq(data, pos + i + 1, IF last \in pos + i .. Len(data) THEN last ELSE Len(data))

\* A type, a name, and then the value.
Type == Word(1)
Name == Covered(2)
ValueAt == 3 + Len(Name)

Known == Type \in {UInt32, UInt64, AString, WString, Binary, Boolean}

\* How many words a value takes, its length included.
ValueSize ==
  CASE Type \in {UInt32, Boolean} -> 1
    [] Type = UInt64 -> 2
    [] OTHER -> 1 + Len(Covered(ValueAt))

Value ==
  CASE Type \in {UInt32, UInt64} -> SubSeq(data, pos + ValueAt, pos + ValueAt + ValueSize - 1)
    [] Type = Boolean -> <<IF Word(ValueAt) = 0 THEN 0 ELSE 1>>
    [] OTHER -> Covered(ValueAt)

\* A number is cut off by the end of the last page.
CutOff ==
  IF ~Has(1) THEN TRUE
  ELSE IF Type = End THEN FALSE
  ELSE IF ~Has(2) THEN TRUE
  ELSE Known /\ ~Has(ValueAt + (IF Type = UInt64 THEN 1 ELSE 0))

TakeProperty ==
  /\ pc = "parsing"
  /\ ~CutOff
  /\ Known
  /\ properties' = [name \in DOMAIN properties \cup {Name} |->
                      IF name = Name THEN Value ELSE properties[name]]
  /\ pos' = pos + ValueAt - 1 + ValueSize
  /\ UNCHANGED <<dictionary, page, data, pc>>

Stop(outcome) ==
  /\ pc' = outcome
  /\ UNCHANGED <<dictionary, page, data, pos, properties>>

TakeEnd == pc = "parsing" /\ CutOff = FALSE /\ Type = End /\ Stop("done")

UnsupportedType ==
  /\ pc = "parsing"
  /\ ~CutOff
  /\ ~Known /\ Type # End
  /\ Stop("unsupported type")

EndOfData == pc = "parsing" /\ CutOff /\ Stop("end of data")

Ended == pc \notin {"pages", "parsing"} /\ UNCHANGED vars

Next ==
  \/ ReadPage
  \/ BeginParsing
  \/ TakeProperty
  \/ TakeEnd
  \/ UnsupportedType
  \/ EndOfData
  \/ Ended

\* The properties are read until they are done or something is wrong with them.
Spec == Init /\ [][Next]_vars /\ WF_vars(Next)

-----------------------------------------------------------------------------

\* Every variable has its type.
TypeOK ==
  /\ page \in 1 .. PageCount \cup {NoPage}
  /\ pos \in 0 .. Len(data)
  /\ pc \in {"pages", "parsing", "done", "unsupported type", "end of data"}

UnknownType(p) == p.type \notin 1 .. 6

\* The last property of a name counts.
Written ==
  LET names == {p.name : p \in ToSet(dictionary)}
      last  == [n \in names |-> CHOOSE i \in DOMAIN dictionary :
                                 /\ dictionary[i].name = n
                                 /\ \A j \in DOMAIN dictionary : dictionary[j].name = n => j <= i]
  IN  [n \in names |-> dictionary[last[n]].value]

\* The properties read are those that were written, in any number and of any length; none is
\* read only if there is one of an unknown type.
PropertiesAsWritten ==
  /\ pc = "done" => properties = Written
  /\ pc \in {"unsupported type", "end of data"} =>
       \E p \in ToSet(dictionary) : UnknownType(p)

\* So they are as far as they fit on one page.
PropertiesOfOnePage == PageCount = 1 => PropertiesAsWritten
=============================================================================
