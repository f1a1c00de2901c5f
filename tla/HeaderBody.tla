----------------------------- MODULE HeaderBody -----------------------------
(***************************************************************************)
(* The header of a commit (tibx/lsm.py): read_header_body, which puts the  *)
(* pages together that it is on, parse_tlv_directory and LsmSuperBlock.    *)
(*                                                                         *)
(* A header is a sequence of words of two bytes: its fixed fields, and a   *)
(* directory of slots, each the length of a payload (two words) and the    *)
(* payload, beginning at a multiple of Align.                              *)
(***************************************************************************)
EXTENDS Integers, SequencesExt

CONSTANTS
  Headers,      (* the headers looked at: records of their version and     *)
                (* what is in each slot                                    *)
  BodyWords,    (* of a page, without its envelope: more than FixedWords   *)
  FixedWords,   (* before the directory                                    *)
  CTREE_SLOTS

VARIABLES
  header,     (* the pages from the header's first one on, and its size    *)
  next_index, (* the page that is looked at next                           *)
  body,
  slots,      (* the payloads that were found                              *)
  slot_pos,   (* where the next one begins                                 *)
  parsed      (* "pages", "slots", "done" or the error                     *)

vars == <<header, next_index, body, slots, slot_pos, parsed>>

TLV_SLOT_COUNT == 19
TLV_HEADER_SIZE == 2
Align == 2

ARCH == "ARCH"

\* The first words of a header and of a superblock.
ArchMagic == -1
LsmMagic == -2

\* LSB_FIXED_SIZE: the magic and the number of ctrees, the slots, and the mem-tree's header.
SuperBlockSize == 2 + 2 * CTREE_SLOTS + 1

\* Of a slot for a ctree that is empty; 0 is one too if all of the slot is.
CTREE_EMPTY_SENTINEL == -3

Least(a, b) == IF a <= b THEN a ELSE b

AlignUp(n) == ((n + Align - 1) \div Align) * Align

\* The slots that headers of old versions do not have.
Skipped(version) ==
  IF version < 7 THEN {8, 12, 13, 14, 15, 16}
  ELSE IF version < 8 THEN {12, 13, 14, 15, 16} ELSE {}

-----------------------------------------------------------------------------
\* The writer: a slot holds nothing, other words, or a tree [ctrees, used, nodes, blob], the
\* ctrees those of all its slots.

NoTree == [kind |-> "none"]

Payload(slot) ==
  CASE slot.kind = "none" -> <<>>
    [] slot.kind = "words" -> slot.words
    [] slot.kind = "tree" ->
         <<LsmMagic, slot.used>>
           \o FlattenSeq([i \in 1 .. CTREE_SLOTS |-> <<slot.ctrees[i].offset, slot.ctrees[i].nr>>])
           \o <<slot.nodes>> \o slot.blob

Padded(words) == words \o [w \in 1 .. AlignUp(Len(words)) - Len(words) |-> 0]

Directory(h) ==
  FlattenSeq([i \in 1 .. TLV_SLOT_COUNT |->
                IF i - 1 \in Skipped(h.version) THEN <<>>
                ELSE Padded(<<Len(Payload(h.slots[i])), 0>> \o Payload(h.slots[i]))])

Fixed(h) ==
  <<ArchMagic, FixedWords + Len(Directory(h)), h.version>> \o [w \in 1 .. FixedWords - 3 |-> 0]

\* The header of the next commit follows.  The page at lost is of another kind; the archive
\* ends where at is.
Stored(h, lost, at) ==
  LET words == Fixed(h) \o Directory(h)
      count == (Len(words) + BodyWords - 1) \div BodyWords
      page(i) ==
        [type |-> IF i = lost THEN "LEAF" ELSE ARCH,
         words |-> [w \in 1 .. BodyWords |->
                      LET n == (i - 1) * BodyWords + w
                      IN  IF n <= Len(words) THEN words[n] ELSE 0]]
      pages == [i \in 1 .. count |-> page(i)]
                 \o <<[type |-> ARCH, words |-> <<ArchMagic>> \o [w \in 1 .. BodyWords - 1 |-> 7]]>>
  IN  [version |-> h.version, slots |-> h.slots, size |-> Len(words), count |-> count,
       pages |-> IF at = 0 THEN pages ELSE SubSeq(pages, 1, Least(at, Len(pages)))]

-----------------------------------------------------------------------------
\* read_header_body

Init ==
  /\ header \in {Stored(h, lost, at) : h \in Headers, lost \in {0} \cup 2 .. 6, at \in 0 .. 6}
  /\ next_index = 2
  /\ body = header.pages[1].words
  /\ slots = <<>>
  /\ slot_pos = FixedWords
  /\ parsed = "pages"

MorePages ==
  /\ Len(body) < header.size
  /\ next_index <= Len(header.pages)
  /\ header.pages[next_index].type = ARCH

ReadPage ==
  /\ parsed = "pages"
  /\ MorePages
  /\ body' = body \o header.pages[next_index].words
  /\ next_index' = next_index + 1
  /\ UNCHANGED <<header, slots, slot_pos, parsed>>

EndBody ==
  /\ parsed = "pages"
  /\ ~MorePages
  /\ body' = SubSeq(body, 1, Least(header.size, Len(body)))
  /\ parsed' = "slots"
  /\ UNCHANGED <<header, next_index, slots, slot_pos>>

-----------------------------------------------------------------------------
\* parse_tlv_directory

Parsing == parsed = "slots" /\ Len(slots) < TLV_SLOT_COUNT

\* The slot at hand is skipped, or there are no words left for it.
Absent == Len(slots) \in Skipped(header.version) \/ slot_pos + TLV_HEADER_SIZE > Len(body)

SkipSlot ==
  /\ Parsing
  /\ Absent = TRUE
  /\ slots' = Append(slots, <<>>)
  /\ UNCHANGED <<header, next_index, body, slot_pos, parsed>>

\* Mutation of Following: the slots are taken to follow each other without a gap.
FollowingPacked(length) == slot_pos + TLV_HEADER_SIZE + length

Following(length) == AlignUp(slot_pos + TLV_HEADER_SIZE + length)

\* A payload that the body ends in is taken as far as it goes.
TakeSlot ==
  /\ Parsing
  /\ ~Absent
  /\ LET length == body[slot_pos + 1]
         start  == slot_pos + TLV_HEADER_SIZE
     IN  /\ slots' = Append(slots, SubSeq(body, start + 1, Least(start + length, Len(body))))
         /\ slot_pos' = Following(length)
  /\ UNCHANGED <<header, next_index, body, parsed>>

-----------------------------------------------------------------------------
\* ArchiveHeader, LsmSuperBlock

\* The slots that a tree is read from.
TreeSlots == {i \in 1 .. 9 : i <= Len(slots) /\ slots[i] # <<>> /\ slots[i][1] = LsmMagic}

\* The number of ctrees is cut off.
CutOff == \E i \in TreeSlots : Len(slots[i]) < 2

Finish ==
  /\ parsed = "slots"
  /\ Len(slots) = TLV_SLOT_COUNT
  /\ parsed' = IF CutOff THEN "end of data" ELSE "done"
  /\ UNCHANGED <<header, next_index, body, slots, slot_pos>>

Ended == parsed \notin {"pages", "slots"} /\ UNCHANGED vars

Next ==
  \/ ReadPage
  \/ EndBody
  \/ SkipSlot
  \/ TakeSlot
  \/ Finish
  \/ Ended

\* The header is read until it is done or something is wrong with it.
Spec == Init /\ [][Next]_vars /\ WF_vars(Next)

Empty(ref) == ref.offset = CTREE_EMPTY_SENTINEL \/ (ref.offset = 0 /\ ref.nr = 0)

\* The ctrees of a superblock: those in use that are there whole, without the empty ones.
CTrees(payload) ==
  LET there == Least(Least(payload[2], CTREE_SLOTS), (Len(payload) - 2) \div 2)
      ref(i) == [offset |-> payload[2 * i + 1], nr |-> payload[2 * i + 2]]
  IN  SelectSeq([i \in 1 .. there |-> ref(i)], LAMBDA r : ~Empty(r))

\* A mem-tree is read if the fixed part of its superblock is there.
LsmSuperBlock(payload) ==
  IF Len(payload) >= SuperBlockSize
  THEN [ctrees |-> CTrees(payload), nodes |-> payload[SuperBlockSize],
        blob |-> SubSeq(payload, SuperBlockSize + 1, Len(payload))]
  ELSE [ctrees |-> CTrees(payload), nodes |-> 0, blob |-> <<>>]

-----------------------------------------------------------------------------

\* Every variable has its type.
TypeOK ==
  /\ next_index \in 2 .. Len(header.pages) + 1
  /\ Len(slots) <= TLV_SLOT_COUNT
  /\ parsed \in {"pages", "slots", "done", "end of data"}

Written(i) ==
  IF i - 1 \in Skipped(header.version) THEN <<>> ELSE Payload(header.slots[i])

Whole ==
  /\ Len(header.pages) >= header.count
  /\ \A i \in 2 .. header.count : header.pages[i].type = ARCH

Used(tree) ==
  SelectSeq(SubSeq(tree.ctrees, 1, Least(tree.used, CTREE_SLOTS)), LAMBDA r : ~Empty(r))

\* Of a header that is whole, however many pages it is on, every slot is read as it was
\* written and every tree with its ctrees and its mem-tree, and nothing of the header after
\* it.  Of one that is cut off, what is read is the beginning of what was written: a slot may
\* be cut, and those after it are empty.
HeaderAsWritten ==
  /\ parsed = "done" /\ Whole =>
       /\ \A i \in 1 .. TLV_SLOT_COUNT : slots[i] = Written(i)
       /\ \A i \in TreeSlots :
            LET tree == header.slots[i]
            IN  LsmSuperBlock(slots[i]) = [ctrees |-> Used(tree), nodes |-> tree.nodes,
                                           blob |-> tree.blob]
  /\ \A i \in 1 .. Len(slots) :
       /\ IsPrefix(slots[i], Written(i))
       /\ slots[i] # Written(i) => \A j \in i + 1 .. Len(slots) : slots[j] = <<>>
  /\ parsed = "end of data" => ~Whole
=============================================================================
