---------------------------- MODULE VolumeImage ----------------------------
(***************************************************************************)
(* What a TIBX volume promises its readers: one read answers with the      *)
(* bytes the most recent extents put there, zeros where there is none or   *)
(* where the most recent one discards the range, and an error only if one  *)
(* of the segments it needs is gone.                                       *)
(*                                                                         *)
(* The archive's contents are the constants: where the writer placed each  *)
(* extent in its segment (Placement) and how much of each segment that the *)
(* segment map knows can be read (SegmentLength).  A byte of a segment is  *)
(* <<segment id, offset>>.                                                 *)
(***************************************************************************)
EXTENDS Extents

CONSTANTS
  Placement,     (* <<segment, index>> :> the offset of that extent in it *)
  SegmentLength, (* segment :> the length of its plaintext                *)
  Requests,      (* the <<offset, length>> that are read                  *)
  NoRequest,
  NoAnswer,
  Corrupt        (* CorruptArchiveError                                   *)

VARIABLES table, request, answer

imageVars == <<table, request, answer>>

Zero == <<0, 0>>

SegmentByte(s, p) == IF p < SegmentLength[s] THEN <<s, p>> ELSE Zero

Source(b) == CHOOSE r \in 1 .. Len(table) : Decides(table, r, b)

\* Byte b holds data: it is covered, and not by a discard marker.
HasData(b) == Covered(table, b) /\ table[Source(b)].segment # 0

ImageByte(b) ==
  IF HasData(b)
  THEN LET x == table[Source(b)]
       IN  SegmentByte(x.segment, Placement[<<x.segment, x.index>>] + (b - x.offset))
  ELSE Zero

RequestedBytes(q) == q[1] .. q[1] + q[2] - 1

Readable(q) ==
  \A b \in RequestedBytes(q) :
    HasData(b) => table[Source(b)].segment \in DOMAIN SegmentLength

Image(q) == [i \in 1 .. q[2] |-> ImageByte(q[1] + i - 1)]

Init ==
  /\ table \in Tables
  /\ request = NoRequest
  /\ answer = NoAnswer

Call ==
  /\ request = NoRequest
  /\ request' \in Requests
  /\ UNCHANGED <<table, answer>>

Answer ==
  /\ request # NoRequest
  /\ answer = NoAnswer
  /\ answer' = IF Readable(request) THEN Image(request) ELSE Corrupt
  /\ UNCHANGED <<table, request>>

Next == Call \/ Answer

Spec == Init /\ [][Next]_imageVars /\ WF_imageVars(Answer)
=============================================================================
