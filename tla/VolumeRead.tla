----------------------------- MODULE VolumeRead -----------------------------
(***************************************************************************)
(* TibxVolume of tibx/tibx.py: a volume is resolved into intervals         *)
(* (ExtentResolve), and read() walks them.                                 *)
(*                                                                         *)
(* The offset of an extent in its segment is not recorded: _extent_base    *)
(* adds it up from the lengths of the extents that share the segment,      *)
(* taken from every extent of the archive -- the volume's own rows and the *)
(* rows of other volumes and recovery points (Elsewhere).                  *)
(***************************************************************************)
EXTENDS ExtentResolve, FiniteSetsExt

CONSTANTS
  Elsewhere,     (* extents of the archive that are not this volume's      *)
  Alignment,     (* EXTENT_ALIGNMENT                                       *)
  WholeSegment,  (* EXTENT_INDEX_WHOLE_SEGMENT                             *)
  SegmentLength, (* segment :> plaintext length, for each id in the        *)
                 (* segment map                                            *)
  Requests, NoRequest, NoAnswer, Corrupt

ASSUME ArchiveAssumption ==
  /\ IsFiniteSet(Elsewhere)
  /\ \A x \in Elsewhere : x.length \in Nat /\ x.segment \in Nat /\ x.index \in Nat
  /\ Alignment \in Nat \ {0}

ASSUME RequestsAssumption == Requests \subseteq Nat \X Nat

VARIABLES
  request,  (* the <<offset, length>> asked for                            *)
  next,     (* the interval read() looks at next                           *)
  cursor,   (* the volume offset up to which parts reaches                 *)
  parts,    (* the bytes gathered so far                                   *)
  answer

readVars == <<request, next, cursor, parts, answer>>
allVars == <<vars, readVars>>

Zero == <<0, 0>>
Zeros(n) == [i \in 1 .. n |-> Zero]

-----------------------------------------------------------------------------
\* _extent_base

\* Every extent of the archive that the volume of table t is in.
Recorded(t) == Elsewhere \cup {t[r] : r \in 1 .. Len(t)}

\* Mutation of SharedRows: only the extents of the volume itself.
OwnRows(t) == {x \in {t[r] : r \in 1 .. Len(t)} : x.index # WholeSegment}

SharedRows(t) == {x \in Recorded(t) : x.index # WholeSegment}

IndexesOf(t, s) == {x.index : x \in {y \in SharedRows(t) : y.segment = s}}

\* An extent that several slices record counts once.
LengthAt(t, s, i) ==
  (CHOOSE x \in SharedRows(t) : x.segment = s /\ x.index = i).length

AlignUp(n) == ((n + Alignment - 1) \div Alignment) * Alignment

ExtentBase(s, i) ==
  IF i = WholeSegment
  THEN 0
  ELSE SumFunctionOnSet([j \in IndexesOf(table, s) |-> AlignUp(LengthAt(table, s, j))],
                        {j \in IndexesOf(table, s) : j < i})

-----------------------------------------------------------------------------
\* read

EndOfRequest == request[1] + request[2]

\* bisect_right(starts, offset) - 1, and one on if that interval ends before.
FirstInterval(offset) ==
  LET k == Cardinality({i \in 1 .. Len(intervals) : intervals[i].start <= offset})
  IN  IF k = 0 \/ intervals[k].stop <= offset THEN k + 1 ELSE k

Idle == request = NoRequest /\ answer = NoAnswer
Reading == request # NoRequest /\ answer = NoAnswer

ReadCall ==
  /\ pc = "done"
  /\ Idle
  /\ \E q \in Requests :
       /\ request' = q
       /\ next' = FirstInterval(q[1])
       /\ cursor' = q[1]
  /\ UNCHANGED <<vars, parts, answer>>

\* A read of nothing returns at once.
InRange ==
  /\ request[2] > 0
  /\ next <= Len(intervals)
  /\ intervals[next].start < EndOfRequest

Row == table[intervals[next].row]

\* Mutation of SkipDiscard: the next turn looks at the same interval.
SkipDiscardInPlace ==
  /\ Reading
  /\ InRange
  /\ Row.segment = 0
  /\ UNCHANGED allVars

\* A discarded range: nothing is added, the zeros come with what follows it.
SkipDiscard ==
  /\ Reading
  /\ InRange
  /\ Row.segment = 0
  /\ next' = next + 1
  /\ UNCHANGED <<vars, request, cursor, parts, answer>>

SegmentMissing ==
  /\ Reading
  /\ InRange
  /\ Row.segment # 0
  /\ Row.segment \notin DOMAIN SegmentLength
  /\ answer' = Corrupt
  /\ UNCHANGED <<vars, request, next, cursor, parts>>

\* The bytes of segment s from offset p on, as far as the segment reaches, and
\* zeros up to n bytes.
Chunk(s, p, n) ==
  [i \in 1 .. n |-> IF p + i - 1 < SegmentLength[s] THEN <<s, p + i - 1>> ELSE Zero]

Larger(m, n) == IF m >= n THEN m ELSE n
Smaller(m, n) == IF m <= n THEN m ELSE n

ReadInterval ==
  /\ Reading
  /\ InRange
  /\ Row.segment # 0
  /\ Row.segment \in DOMAIN SegmentLength
  /\ LET begin  == Larger(intervals[next].start, request[1])
         finish == Smaller(intervals[next].stop, EndOfRequest)
         base   == ExtentBase(Row.segment, Row.index)
     IN  /\ parts' = parts \o Zeros(begin - cursor)
                           \o Chunk(Row.segment, base + (begin - Row.offset), finish - begin)
         /\ cursor' = finish
  /\ next' = next + 1
  /\ UNCHANGED <<vars, request, answer>>

ReadReturn ==
  /\ Reading
  /\ ~InRange
  /\ answer' = parts \o Zeros(EndOfRequest - cursor)
  /\ UNCHANGED <<vars, request, next, cursor, parts>>

ReadStep ==
  \/ SkipDiscard
  \/ SegmentMissing
  \/ ReadInterval
  \/ ReadReturn

Answered == answer # NoAnswer /\ UNCHANGED allVars

ReadInit ==
  /\ Init
  /\ request = NoRequest
  /\ next = 0
  /\ cursor = 0
  /\ parts = <<>>
  /\ answer = NoAnswer

ReadNext ==
  \/ Step /\ UNCHANGED readVars
  \/ ReadCall
  \/ ReadStep
  \/ Answered

\* Resolving and reading run to their end once called.
ReadSpec ==
  /\ ReadInit
  /\ [][ReadNext]_allVars
  /\ WF_allVars(Step /\ UNCHANGED readVars)
  /\ WF_allVars(ReadStep)

-----------------------------------------------------------------------------

CONSTANT Placement \* where the writer put each extent, see VolumeImage

\* An extent that is recorded twice has one length.  The extents that share a segment follow
\* one another in the order of their indexes, aligned, and one that has its segment for
\* itself is at the start of it.
LaidOut(x, E) ==
  LET shared == {y \in E : y.segment = x.segment /\ y.index # WholeSegment}
      lower == {y \in shared : y.index < x.index}
  IN  IF x.index = WholeSegment
      THEN Placement[<<x.segment, x.index>>] = 0
      ELSE /\ \A y \in shared : y.index = x.index => y.length = x.length
           /\ lower = {} => Placement[<<x.segment, x.index>>] = 0
           /\ \A y \in lower :
                (\A z \in lower : z.index <= y.index) =>
                  Placement[<<x.segment, x.index>>] =
                    Placement[<<y.segment, y.index>>] + AlignUp(y.length)

ASSUME PlacementAssumption ==
  \A t \in Tables :
    \A x \in Recorded(t) : x.segment \in DOMAIN SegmentLength => LaidOut(x, Recorded(t))

Promise == INSTANCE VolumeImage

\* A read answers with what the most recent extents put there, byte for byte, and raises
\* only if a segment it needs is gone.
KeepsPromise == Promise!Init /\ [][Promise!Next]_(Promise!imageVars)

\* Every read answers eventually: each turn of the loop of read() leaves an interval behind.
AlwaysAnswers == WF_(Promise!imageVars)(Promise!Answer)
=============================================================================
