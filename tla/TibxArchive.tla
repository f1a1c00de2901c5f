---------------------------- MODULE TibxArchive ----------------------------
(***************************************************************************)
(* Parts of a TIBX archive object that have no state in common: the LSM    *)
(* trees it reads (LsmTree), what it lists of them (ArchiveView), the      *)
(* segments it keeps (SegmentCache), and the keymap that its key is taken  *)
(* from (Keymap).  One of them is looked at, and the others stay as they   *)
(* are at the start.                                                       *)
(***************************************************************************)
EXTENDS LsmTree

CONSTANTS
  Slices, ExtentSlices, Items, OwnSize, ImapEncrypted, Latest, Unset, Locked,
  FirstPayload, PageBody, MAX_PREFETCH_PAGES, CipherBlock, Archives, SEGMENT_CACHE_BUDGET,
  Keymaps, WrappedKeys, Passwords, KEY_LENGTH, MIN_ITER_LOG2, MAX_ITER_LOG2,
  MAX_KEYMAP_BLOB, KeymapSlack, AesBlock

ASSUME RecoveryPointsAssumption == Slices \subseteq Nat

ASSUME SegmentsAssumption ==
  /\ MAX_PREFETCH_PAGES \in Nat /\ SEGMENT_CACHE_BUDGET \in Nat
  /\ \A a \in Archives :
       /\ \A i \in DOMAIN a.pages : a.pages[i].type = "data" => a.pages[i].header.length \in Nat
       /\ DOMAIN a.pages = 1 .. Len(a.pages) /\ Len(a.pages) \in Nat
       /\ \A x \in DOMAIN a.segments :
            a.segment_map[x].page \in Nat /\ a.segment_map[x].pages \in Nat

VARIABLES
  part, (* "trees", "view", "segments" or "keymap" *)
  slice_limit, data_key, extents, item_streams, streams, volumes, stream_sizes, held,
  archive, segment_cache, segment_cache_bytes, answer, uses,
  keymap, password, offset, key, unlocking

View == INSTANCE ArchiveView
Cache == INSTANCE SegmentCache
KeyReader == INSTANCE Keymap

viewVars == <<slice_limit, extents, item_streams, streams, volumes, stream_sizes, held>>
cacheVars == <<archive, segment_cache, segment_cache_bytes, answer, uses>>
keymapVars == <<keymap, password, offset, key, unlocking>>
archiveVars == <<part, vars, viewVars, data_key, cacheVars, keymapVars>>

NotRead == "not read"

NoKeymap ==
  /\ keymap = NotRead /\ password = NotRead /\ offset = NotRead /\ key = NotRead
  /\ unlocking = NotRead

NoSegments ==
  /\ archive = NotRead /\ segment_cache = NotRead /\ segment_cache_bytes = NotRead
  /\ answer = NotRead /\ uses = NotRead

ArchiveInit ==
  /\ part \in {"trees", "view", "segments", "keymap"}
  /\ Init
  /\ View!Init
  /\ IF part = "segments" THEN Cache!Init ELSE NoSegments
  /\ IF part = "keymap" THEN KeyReader!Init ELSE NoKeymap

ArchiveNext ==
  \/ /\ part = "trees"
     /\ Next
     /\ UNCHANGED <<part, viewVars, data_key, cacheVars, keymapVars>>
  \/ /\ part = "view"
     /\ View!Next
     /\ UNCHANGED <<part, vars, cacheVars, keymapVars>>
  \/ /\ part = "segments"
     /\ Cache!Next
     /\ UNCHANGED <<part, vars, viewVars, keymapVars>>
  \/ /\ part = "keymap"
     /\ KeyReader!Next
     /\ UNCHANGED <<part, vars, viewVars, data_key, cacheVars>>

ArchiveSpec == ArchiveInit /\ [][ArchiveNext]_archiveVars

-----------------------------------------------------------------------------

\* Every variable has its type; no cache holds an error in place of a value, and the bytes
\* counted are those of the segments kept.
ArchiveTypeOK ==
  CASE part = "trees" -> TypeOK
    [] part = "view" -> View!TypeOK
    [] part = "segments" -> Cache!TypeOK
    [] part = "keymap" -> KeyReader!TypeOK

\* Whatever was listed, selected and unlocked before: the archive lists what a newly opened
\* one lists, of that recovery point and with that key.
ListsAsNew == part = "view" => View!ListsAsNew

\* A volume goes on showing the recovery point it was opened at, its size included.
HeldVolumeKeepsItsSize == part = "view" => View!HeldVolumeKeepsItsSize

\* A read of a segment gives the whole of what was backed up, or it fails, unless bytes of it
\* were replaced by others and no tag tells.
ReadsWholeSegments == part = "segments" => Cache!ReadsWholeSegments

\* The cache holds the segments used last, as many as the budget holds and one at least.
HoldsLastUsed == part = "segments" => Cache!HoldsLastUsed

\* The password unlocks the archive with the key that is wrapped with it, and no other does,
\* whatever stands before it in the keymap.
KeyUnlocks == part = "keymap" => KeyReader!KeyUnlocks
=============================================================================
