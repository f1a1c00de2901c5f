----------------------------- MODULE XvaStream -----------------------------
(***************************************************************************)
(* XVAStream of xva.py with _iter_block_files: a disk is members of a tar  *)
(* file, numbered blocks of which empty ones take a number and no place,   *)
(* and blocks of zeros may be left out.                                    *)
(*                                                                         *)
(* Offsets and sizes are in blocks.  A block is known by its number.       *)
(***************************************************************************)
EXTENDS Integers, SequencesExt

CONSTANT Disks  (* the tar files looked at, each with the disk to be read: *)
                (*   numbers  what the writer did with each number:        *)
                (*            "data", "empty" or "absent"                  *)
                (*   members  of the tar: their ref, number, kind          *)
                (*            ("block", "checksum", "xxhash"), size, and   *)
                (*            whether the checksum is right                *)
                (*   ref      of this disk, a sequence of digits           *)
                (*   size     of this disk                                 *)

VARIABLES
  disk,
  verify,
  request,         (* the offset and length _read is called with           *)
  place,           (* the member looked at                                 *)
  member_index, block_member, checksum_member,
  index,           (* the number of the block yielded last                 *)
  offset,          (* of the next block, and then of the read              *)
  lookup, members, (* an offset and its members, for each block yielded    *)
  result,
  pc               (* "scanning", "reading", "done", or the error raised    *)

scan == <<place, member_index, block_member, checksum_member, index, lookup, members>>
vars == <<disk, verify, request, scan, offset, result, pc>>

None == -1 \* no number yet
NoMember == [kind |-> "none", number |-> None, size |-> 0, ref |-> <<>>, right |-> FALSE]
Zero == None

Init ==
  /\ disk \in Disks
  /\ verify \in BOOLEAN
  /\ request \in [offset : 0 .. disk.size - 1, length : 1 .. 3]
  /\ place = 1
  /\ member_index = None /\ block_member = NoMember /\ checksum_member = NoMember
  /\ index = 0
  /\ offset = 0
  /\ lookup = <<>> /\ members = <<>>
  /\ result = <<>>
  /\ pc = "scanning"

-----------------------------------------------------------------------------

Scanning == pc = "scanning" /\ place <= Len(disk.members)

Member == disk.members[place]

\* A name starts with the ref also if the ref of another disk does.
OfDisk(m) == IsPrefix(disk.ref, m.ref)

PassOver ==
  /\ Scanning
  /\ ~OfDisk(Member)
  /\ place' = place + 1
  /\ UNCHANGED <<disk, verify, request, member_index, block_member, checksum_member, index,
                 offset, lookup, members, result, pc>>

\* A member is kept until one with another number comes.
Keep ==
  /\ place' = place + 1
  /\ member_index' = Member.number
  /\ IF Member.kind = "block"
     THEN block_member' = Member /\ UNCHANGED checksum_member
     ELSE checksum_member' = Member /\ UNCHANGED block_member
  /\ UNCHANGED <<disk, verify, request, result, pc>>

SameNumber ==
  /\ Scanning
  /\ OfDisk(Member)
  /\ member_index \in {None, Member.number}
  /\ Keep
  /\ UNCHANGED <<index, offset, lookup, members>>

\* The numbers that were left out since the last one.
Skipped == IF member_index > index + 1 THEN member_index - (index + 1) ELSE 0

\* The block before is complete and is entered in the lookup.
NextNumber ==
  /\ Scanning
  /\ OfDisk(Member)
  /\ member_index \notin {None, Member.number}
  /\ LET at == offset + Skipped
     IN  IF block_member.size = 0
         THEN offset' = at /\ UNCHANGED <<lookup, members>>
         ELSE /\ offset' = at + block_member.size
              /\ lookup' = Append(lookup, at)
              /\ members' = Append(members, <<block_member, checksum_member>>)
  /\ index' = member_index
  /\ Keep

\* After the last member nothing is entered any more.
EndOfTar ==
  /\ pc = "scanning"
  /\ place > Len(disk.members)
  /\ offset' = request.offset
  /\ pc' = "reading"
  /\ UNCHANGED <<disk, verify, request, scan, result>>

-----------------------------------------------------------------------------

Reading == pc = "reading" /\ offset < request.offset + request.length

\* Mutation of BlockIdx: of blocks at this offset none is counted.
BlockIdxLeft == Cardinality({i \in DOMAIN lookup : lookup[i] < offset})

\* The bisection, and an index of -1 is the last entry.
BlockIdx == Cardinality({i \in DOMAIN lookup : lookup[i] <= offset})
Nearest == IF BlockIdx = 0 THEN Len(lookup) ELSE BlockIdx

Fail(error) ==
  /\ pc' = error
  /\ UNCHANGED <<disk, verify, request, scan, offset, result>>

NothingToLookUp == Reading /\ lookup = <<>> /\ Fail("nothing to look up")

Give(block) ==
  /\ result' = Append(result, block)
  /\ offset' = offset + 1
  /\ UNCHANGED <<disk, verify, request, scan, pc>>

AfterBlock ==
  /\ Reading
  /\ lookup # <<>>
  /\ offset >= lookup[Nearest] + 1
  /\ Give(Zero)

InBlock == Reading /\ lookup # <<>> /\ offset < lookup[Nearest] + 1

ReadBlock ==
  /\ InBlock
  /\ ~verify
  /\ Give(members[Nearest][1].number)

Checksum == members[Nearest][2]

\* The checksum is that of the block, which is as it was.
Matches == Checksum.right /\ Checksum.number = members[Nearest][1].number

NoChecksum == InBlock /\ verify /\ Checksum = NoMember /\ Fail("no checksum")

InvalidChecksum ==
  /\ InBlock /\ verify
  /\ Checksum.kind = "checksum" /\ ~Matches
  /\ Fail("invalid checksum")

\* Also raised once a checksum was found to be right.
UnsupportedChecksum ==
  /\ InBlock /\ verify
  /\ Checksum.kind = "xxhash" \/ (Checksum.kind = "checksum" /\ Matches)
  /\ Fail("unsupported checksum")

Return ==
  /\ pc = "reading"
  /\ offset >= request.offset + request.length
  /\ pc' = "done"
  /\ UNCHANGED <<disk, verify, request, scan, offset, result>>

Ended == pc \notin {"scanning", "reading"} /\ UNCHANGED vars

Next ==
  \/ PassOver
  \/ SameNumber
  \/ NextNumber
  \/ EndOfTar
  \/ NothingToLookUp
  \/ AfterBlock
  \/ ReadBlock
  \/ NoChecksum
  \/ InvalidChecksum
  \/ UnsupportedChecksum
  \/ Return
  \/ Ended

\* A stream is set up and read until it returns or fails.
Spec == Init /\ [][Next]_vars /\ WF_vars(Next)

-----------------------------------------------------------------------------

\* Every variable has its type, and blocks are entered in the order of their offsets.
TypeOK ==
  /\ place \in 1 .. Len(disk.members) + 1
  /\ Len(lookup) = Len(members)
  /\ \A i \in 1 .. Len(lookup) - 1 : lookup[i] < lookup[i + 1]
  /\ \A i \in DOMAIN members : members[i][1].size > 0
  /\ pc \in {"scanning", "reading", "done", "nothing to look up", "no checksum",
             "invalid checksum", "unsupported checksum"}

\* What the disk holds: the blocks that take a place, in the order of their numbers.
Image ==
  SelectSeq([n \in DOMAIN disk.numbers |->
               CASE disk.numbers[n] = "data" -> n - 1
                 [] disk.numbers[n] = "absent" -> Zero
                 [] OTHER -> -2],
            LAMBDA block : block # -2)

ImageAt(i) == IF i < Len(Image) THEN Image[i + 1] ELSE Zero

LastStored ==
  LET stored == {n \in DOMAIN disk.numbers : disk.numbers[n] # "absent"}
  IN  Max(stored) - 1

\* The refs of other disks in the file do not begin with this one's.
RefIsOwn ==
  \A i \in DOMAIN disk.members : OfDisk(disk.members[i]) => disk.members[i].ref = disk.ref

\* The disk starts with a block that is stored.
StartsWithBlock == disk.numbers[1] = "data"

\* A read of a disk gives every block at its place, however numbers are skipped and taken
\* by empty blocks, except for the last block that is stored.
ReadsImage ==
  RefIsOwn /\ StartsWithBlock =>
    \A i \in 1 .. Len(result) :
      ImageAt(request.offset + i - 1) # LastStored => result[i] = ImageAt(request.offset + i - 1)

\* Every block that is stored is part of the stream, the last one as well.
ReadsLastBlock ==
  RefIsOwn /\ StartsWithBlock =>
    \A i \in 1 .. Len(result) : result[i] = ImageAt(request.offset + i - 1)
=============================================================================
