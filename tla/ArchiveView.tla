---------------------------- MODULE ArchiveView ----------------------------
(***************************************************************************)
(* The TIBX object of tibx/tibx.py: what it lists depends on the selected  *)
(* recovery point and on whether it is unlocked, and each part of it is    *)
(* kept until one of the two changes.                                      *)
(*                                                                         *)
(* A cache holds Unset or what was computed; computing one fills the ones  *)
(* it is computed from.  The extent tables are named by the recovery point *)
(* they are cut off at.  One volume the caller has taken from a listing    *)
(* (held) stays with it while the archive goes on.                         *)
(***************************************************************************)
EXTENDS Integers, FiniteSets

CONSTANTS
  Slices,        (* the slices of the recovery points                      *)
  ExtentSlices,  (* data_map stream :> the slices its extents have         *)
  Items,         (* the stream records of the imap: of a slice, an item    *)
                 (* name, the stream id, its size and two flags            *)
  OwnSize,       (* the size a volume's boot sector or extents give        *)
  ImapEncrypted, (* then so is what is backed up                           *)
  Latest,        (* no slice limit                                         *)
  Unset,
  Locked         (* InvalidPasswordError                                   *)

VARIABLES
  slice_limit,
  data_key,      (* TRUE once there is one                                 *)
  extents,       (* _extents: the limit they are selected by               *)
  item_streams,  (* _item_streams_cache                                    *)
  streams,       (* _streams: the ids                                      *)
  volumes,       (* _volumes: the ids, of those without extents too        *)
  stream_sizes,  (* _stream_sizes                                          *)
  held           (* a volume: its id, the limit of its extents, its _size  *)

caches == <<extents, item_streams, streams, volumes, stream_sizes>>
vars == <<slice_limit, data_key, caches, held>>

InView(slice, limit) == limit = Latest \/ slice <= limit

-----------------------------------------------------------------------------
\* What each part is computed as.

StreamsAt(limit) ==
  {id \in DOMAIN ExtentSlices : \E s \in ExtentSlices[id] : InView(s, limit)}

ReadItems(key) == IF ImapEncrypted /\ ~key THEN Locked ELSE Items

\* The newest record of each item in view.
Versions(items, limit) ==
  {x \in items :
     /\ InView(x.slice, limit)
     /\ \A y \in items : y.name = x.name /\ InView(y.slice, limit) => y.slice <= x.slice}

\* Partitions without a data_map stream.
EmptyPartitions(items, limit) ==
  IF items = Locked
  THEN {}
  ELSE {x.id : x \in {y \in Versions(items, limit) : y.complete /\ ~y.deleted}}
         \ StreamsAt(limit)

\* The ids of the records in view that are not deleted, with the size the newest gives.
SizesAt(items, limit) ==
  LET alive == {x \in items : InView(x.slice, limit) /\ ~x.deleted}
      newest(id) == CHOOSE x \in alive :
                      x.id = id /\ \A y \in alive : y.id = id => y.slice <= x.slice
  IN  [id \in {x.id : x \in alive} |-> newest(id).size]

-----------------------------------------------------------------------------

NoVolume == [id |-> Unset, limit |-> Latest, size |-> Unset]

Init ==
  /\ slice_limit = Latest
  /\ data_key = FALSE
  /\ extents = Unset
  /\ item_streams = Unset
  /\ streams = Unset
  /\ volumes = Unset
  /\ stream_sizes = Unset
  /\ held = NoVolume

ResetViewCaches ==
  /\ extents' = Unset
  /\ streams' = Unset
  /\ volumes' = Unset
  /\ stream_sizes' = Unset

\* Mutation of ResetImapCaches: what was computed from the imap stays.
ResetImapOnly == item_streams' = Unset /\ UNCHANGED <<extents, streams, volumes, stream_sizes>>

ResetImapCaches == item_streams' = Unset /\ ResetViewCaches

\* use_recovery_point; an index that is out of range raises before anything changes.
UseRecoveryPoint ==
  /\ slice_limit' \in Slices \cup {Latest}
  /\ ResetViewCaches
  /\ UNCHANGED <<data_key, item_streams, held>>

\* unlock with the right password; a wrong one raises before anything changes.
Unlock ==
  /\ ImapEncrypted
  /\ data_key' = TRUE
  /\ ResetImapCaches
  /\ UNCHANGED <<slice_limit, held>>

\* close() keeps what was selected: an archive opened from a file object goes on.
Close ==
  /\ ResetImapCaches
  /\ UNCHANGED <<slice_limit, data_key, held>>

\* The extents and the streams made from them, computed once.
FillStreams ==
  /\ extents' = IF extents = Unset THEN slice_limit ELSE extents
  /\ streams' = IF streams = Unset THEN StreamsAt(extents') ELSE streams

\* Mutation of FillItems: that the imap cannot be read is kept too.
FillItemsOnce ==
  item_streams' = IF item_streams = Unset THEN ReadItems(data_key) ELSE item_streams

\* An imap that cannot be read is tried again the next time.
FillItems ==
  item_streams' =
    IF item_streams = Unset /\ ReadItems(data_key) # Locked
    THEN ReadItems(data_key)
    ELSE item_streams

ListStreams ==
  /\ FillStreams
  /\ UNCHANGED <<slice_limit, data_key, item_streams, volumes, stream_sizes, held>>

\* Every stream here counts as a volume; the partitions without data come from the imap.
ListVolumes ==
  /\ FillStreams
  /\ IF volumes = Unset
     THEN /\ FillItems
          /\ volumes' =
               streams' \cup EmptyPartitions(
                 IF item_streams' = Unset THEN Locked ELSE item_streams', slice_limit)
     ELSE UNCHANGED <<item_streams, volumes>>
  /\ UNCHANGED <<slice_limit, data_key, stream_sizes, held>>

\* The caller keeps a volume from the listing, with the extents then selected.
Hold ==
  /\ volumes # Unset
  /\ \E id \in volumes : held' = [id |-> id, limit |-> extents, size |-> Unset]
  /\ UNCHANGED <<slice_limit, data_key, caches>>

\* _stream_size, which needs the imap only if it has no sizes yet.
FillSizes ==
  IF stream_sizes = Unset
  THEN /\ FillItems
       /\ stream_sizes' = IF item_streams' = Unset
                          THEN Unset
                          ELSE SizesAt(item_streams', slice_limit)
  ELSE UNCHANGED <<item_streams, stream_sizes>>

\* TibxVolume.size: what the imap says, and without it what the volume itself says.
\* While the archive is locked that cannot be read, unless it lies in a hole.
AskSize ==
  /\ held # NoVolume
  /\ held.size = Unset
  /\ FillSizes
  /\ IF stream_sizes' # Unset /\ held.id \in DOMAIN stream_sizes'
     THEN held' = [held EXCEPT !.size = stream_sizes'[held.id]]
     ELSE \/ held' = [held EXCEPT !.size = OwnSize]
          \/ ImapEncrypted /\ ~data_key /\ UNCHANGED held
  /\ UNCHANGED <<slice_limit, data_key, extents, streams, volumes>>

Next ==
  \/ UseRecoveryPoint
  \/ Unlock
  \/ Close
  \/ ListStreams
  \/ ListVolumes
  \/ Hold
  \/ AskSize

Spec == Init /\ [][Next]_vars

-----------------------------------------------------------------------------

Ids == DOMAIN ExtentSlices \cup {x.id : x \in Items}
Sizes == {x.size : x \in Items}

\* No cache ever holds an error in place of a value.
TypeOK ==
  /\ slice_limit \in Slices \cup {Latest}
  /\ data_key \in BOOLEAN
  /\ extents \in Slices \cup {Latest, Unset}
  /\ item_streams \in {Items, Unset}
  /\ streams = Unset \/ streams \subseteq Ids
  /\ volumes = Unset \/ volumes \subseteq Ids
  /\ stream_sizes = Unset \/ stream_sizes \in UNION {[D -> Sizes] : D \in SUBSET Ids}
  /\ held \in [id : Ids, limit : Slices \cup {Latest}, size : Sizes \cup {OwnSize, Unset}]
               \cup {NoVolume}

\* Whatever was listed, selected and unlocked before, and in whichever order: what the
\* archive lists is what a newly opened archive lists, of that recovery point and with
\* that key.
ListsAsNew ==
  LET items == ReadItems(data_key)
  IN  /\ extents # Unset => extents = slice_limit
      /\ item_streams # Unset => item_streams = items
      /\ streams # Unset => streams = StreamsAt(slice_limit)
      /\ volumes # Unset =>
           volumes = StreamsAt(slice_limit) \cup EmptyPartitions(items, slice_limit)
      /\ stream_sizes # Unset => stream_sizes = SizesAt(items, slice_limit)

\* A volume goes on showing the recovery point it was opened at, its size included.
HeldVolumeKeepsItsSize ==
  LET sizes == SizesAt(Items, held.limit)
  IN  held.id \in DOMAIN sizes /\ held.size \in Sizes => held.size = sizes[held.id]
=============================================================================
