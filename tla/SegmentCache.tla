---------------------------- MODULE SegmentCache ----------------------------
(***************************************************************************)
(* TIBX.read_segment of tibx/tibx.py: the plaintexts of the segments read  *)
(* last, kept as far as SEGMENT_CACHE_BUDGET bytes hold them, over the     *)
(* reading of segments from an archive that can be damaged.                *)
(***************************************************************************)
EXTENDS SegmentRead

CONSTANTS
  Archives,             (* the archives looked at, with their segments     *)
  SEGMENT_CACHE_BUDGET

VARIABLES
  segment_cache,       (* the items of the ordered dict, in its order      *)
  segment_cache_bytes,
  answer,              (* the segment asked for last, and what it gave     *)
  uses                 (* the segments returned, by their last use         *)

vars == <<archive, data_key, segment_cache, segment_cache_bytes, answer, uses>>

Segments == DOMAIN archive.segments

Item(x, plain) == [segment |-> x, plain |-> plain]

Bytes(s) == SumFunction([i \in DOMAIN s |-> Len(s[i].plain)])

Init ==
  /\ archive \in Archives
  /\ data_key = FALSE
  /\ segment_cache = <<>>
  /\ segment_cache_bytes = 0
  /\ answer = <<>>
  /\ uses = <<>>

MoveToEnd(s, x) == Append(RemoveFirst(s, x), x)

Answer(x, outcome) == answer' = <<x, outcome>>

\* Mutation of Hit: a segment found keeps its place.
HitInPlace ==
  /\ \E item \in ToSet(segment_cache) :
       /\ uses' = MoveToEnd(uses, item.segment)
       /\ Answer(item.segment, Plain(item.plain))
  /\ UNCHANGED <<archive, data_key, segment_cache, segment_cache_bytes>>

Hit ==
  /\ \E item \in ToSet(segment_cache) :
       /\ segment_cache' = MoveToEnd(segment_cache, item)
       /\ uses' = MoveToEnd(uses, item.segment)
       /\ Answer(item.segment, Plain(item.plain))
  /\ UNCHANGED <<archive, data_key, segment_cache_bytes>>

\* Once the i oldest of s are gone the cache is small enough, or down to one segment.
Enough(s, bytes, i) ==
  \/ bytes - Bytes(SubSeq(s, 1, i)) <= SEGMENT_CACHE_BUDGET
  \/ i = Len(s) - 1

\* How many of s are evicted, from the oldest on.
Evicted(s, bytes) ==
  CHOOSE i \in 0 .. Len(s) - 1 :
    Enough(s, bytes, i) /\ \A j \in 0 .. i - 1 : ~Enough(s, bytes, j)

NotCached(x) == \A item \in ToSet(segment_cache) : item.segment # x

\* What the segment map knows of a segment leads to it.
Located(x) == ReadPlaintext(archive.segment_map[x].page, archive.segment_map[x].pages)

Miss ==
  /\ \E x \in Segments :
       /\ NotCached(x)
       /\ Located(x).error = ""
       /\ LET item  == Item(x, Located(x).plain)
              grown == Append(segment_cache, item)
              bytes == segment_cache_bytes + Len(item.plain)
              gone  == Evicted(grown, bytes)
          IN  /\ segment_cache' = SubSeq(grown, gone + 1, Len(grown))
              /\ segment_cache_bytes' = bytes - Bytes(SubSeq(grown, 1, gone))
       /\ uses' = MoveToEnd(uses, x)
       /\ Answer(x, Located(x))
  /\ UNCHANGED <<archive, data_key>>

\* A segment that cannot be read raises before anything is cached.
Fail ==
  /\ \E x \in Segments :
       /\ NotCached(x)
       /\ Located(x).error # ""
       /\ Answer(x, Located(x))
  /\ UNCHANGED <<archive, data_key, segment_cache, segment_cache_bytes, uses>>

\* _clear_segment_cache
Clear ==
  /\ segment_cache' = <<>>
  /\ segment_cache_bytes' = 0
  /\ uses' = <<>>
  /\ UNCHANGED <<archive, answer>>

Unlock == data_key' = TRUE /\ Clear

\* The archive keeps its key.
Close == Clear /\ UNCHANGED data_key

Next ==
  \/ Hit
  \/ Miss
  \/ Fail
  \/ Unlock
  \/ Close

Spec == Init /\ [][Next]_vars

-----------------------------------------------------------------------------

Keys(s) == [i \in DOMAIN s |-> s[i].segment]

\* The bytes counted are those of the segments kept, however they come and go.
TypeOK ==
  /\ Keys(segment_cache) \in Seq(Segments)
  /\ uses \in Seq(Segments)
  /\ segment_cache_bytes = Bytes(segment_cache)

\* What damage leaves of a segment that can still be read.  Nothing checks the checksums of its
\* pages: other bytes, also those of another segment, are taken as its own if they are as
\* many, unless a GCM tag tells; and where another segment starts in its place that one is.
MayStand(outcome, segment) ==
  LET tagged == segment.encrypted /\ archive.gcm
  IN  CASE segment.damage \in {"altered", "foreign"} ->
             ~tagged /\ Len(outcome.plain) = Len(segment.plain)
        [] segment.damage = "swapped" ->
             \E x \in Segments :
               LET plain == archive.segments[x].plain
               IN  Len(outcome.plain) = Len(plain) /\ (tagged => outcome.plain = plain)
        [] OTHER -> FALSE

\* A read of a segment gives the whole of what was backed up, or it fails, whatever page count
\* the segment map gives, from the cache or not: of one that is cut off, whose header tells of
\* too much or too little, or that a page of another type stands in, never less and never
\* something else.  Only where bytes or pages of data were replaced by others can something
\* else come out (MayStand).  It only fails if the segment is damaged, or encrypted and there
\* was no key.
ReadsWholeSegments ==
  answer # <<>> =>
    LET segment == archive.segments[answer[1]]
        outcome == answer[2]
    IN  /\ outcome.error = "" => outcome.plain = segment.plain \/ MayStand(outcome, segment)
        /\ outcome.error = "no key" => segment.encrypted
        /\ outcome.error = "corrupt" => segment.damage # "none"

LastUsed(n) == SubSeq(uses, Len(uses) - n + 1, Len(uses))

Size(s) == SumFunction([i \in DOMAIN s |-> Len(Located(s[i]).plain)])

\* The cache holds the segments used last, as many as the budget holds and one at
\* least: nothing is evicted before a segment used longer ago, and nothing needlessly.
HoldsLastUsed ==
  LET n == Len(segment_cache)
  IN  /\ Keys(segment_cache) = LastUsed(n)
      /\ n = 0 => uses = <<>>
      /\ n <= 1 \/ Size(LastUsed(n)) <= SEGMENT_CACHE_BUDGET
      /\ n = Len(uses) \/ Size(LastUsed(n + 1)) > SEGMENT_CACHE_BUDGET
=============================================================================
