----------------------------- MODULE VmaExtract -----------------------------
(***************************************************************************)
(* extract_vma of tools/backup.py: every extent is read from its start to  *)
(* its end, and each cluster written to its place in the file of its       *)
(* device.  Where the blocks of a cluster are is not looked up: they are   *)
(* what is read next.                                                      *)
(***************************************************************************)
EXTENDS VmaFile

CONSTANT Devices \* the devices of the header, for each of which a file is written

VARIABLES
  place,    (* the entry that is extracted next                            *)
  at,       (* the position of the handle, in blocks after the header      *)
  written,  (* device :> cluster :> the blocks written                     *)
  pc        (* "extracting", "failed", "done"                              *)

vars == <<file, place, at, written, pc>>

Init ==
  /\ file \in Files
  /\ place = <<1, 0>>
  /\ at = 0
  /\ written = [d \in Devices |-> [c \in {} |-> <<>>]]
  /\ pc = "extracting"

Following(x) ==
  IF x[2] < Len(file[x[1]]) THEN <<x[1], x[2] + 1>> ELSE <<x[1] + 1, 0>>

Extracting == pc = "extracting" /\ place[1] <= Len(file)

\* The handle is put where the blocks of the extent start.
EnterExtent ==
  /\ Extracting
  /\ place[2] = 0
  /\ at' = 0
  /\ place' = Following(place)
  /\ UNCHANGED <<file, written, pc>>

Unused ==
  /\ Extracting
  /\ place[2] > 0
  /\ Entry(place).dev = 0
  /\ place' = Following(place)
  /\ UNCHANGED <<file, at, written, pc>>

\* The error is logged and ends the extraction.
UnknownDevice ==
  /\ Extracting
  /\ place[2] > 0
  /\ Entry(place).dev \notin Devices \cup {0}
  /\ pc' = "failed"
  /\ UNCHANGED <<file, place, at, written>>

\* Mutation of ClusterRead: as many blocks are read as the cluster has.
ClusterReadUnmasked ==
  IF Entry(place).mask = {} THEN [i \in 1 .. ClusterBlocks |-> Zero]
  ELSE Read(place[1], at, ClusterBlocks)

\* A cluster of which nothing is stored is written as zeros.
ClusterRead ==
  LET mask == Entry(place).mask
  IN  IF mask = FullMask THEN Read(place[1], at, ClusterBlocks)
      ELSE IF mask = {} THEN [i \in 1 .. ClusterBlocks |-> Zero]
      ELSE ReadMasked(place[1], at, mask, ClusterBlocks)

\* Where in the file of its device a cluster is written.
Target(x) == x.cluster

WriteCluster ==
  /\ Extracting
  /\ place[2] > 0
  /\ Entry(place).dev \in Devices
  /\ LET x == Entry(place)
     IN  /\ written' = [written EXCEPT ![x.dev] =
                          [c \in DOMAIN @ \cup {Target(x)} |->
                             IF c = Target(x) THEN ClusterRead ELSE @[c]]]
         /\ at' = at + Cardinality(x.mask)
  /\ place' = Following(place)
  /\ UNCHANGED <<file, pc>>

Finish ==
  /\ pc = "extracting"
  /\ place[1] > Len(file)
  /\ pc' = "done"
  /\ UNCHANGED <<file, place, at, written>>

Ended == pc # "extracting" /\ UNCHANGED vars

Next ==
  \/ EnterExtent
  \/ Unused
  \/ UnknownDevice
  \/ WriteCluster
  \/ Finish
  \/ Ended

\* The tool runs until it is done.
Spec == Init /\ [][Next]_vars /\ WF_vars(Next)

-----------------------------------------------------------------------------

\* Every variable has its type.
TypeOK ==
  /\ place[1] \in 1 .. Len(file) + 1
  /\ at \in Nat
  /\ DOMAIN written = Devices
  /\ \A d \in Devices : DOMAIN written[d] \subseteq {Entry(x).cluster : x \in Entries}
  /\ pc \in {"extracting", "failed", "done"}

\* Every cluster is written once and with the blocks a read of the device gives, and once
\* the extraction is done none is missing.
ExtractsDevices ==
  /\ \A d \in Devices : \A c \in DOMAIN written[d] :
       written[d][c] = DeviceBlocks(d, c, ClusterBlocks)
  /\ pc = "done" => \A x \in Entries :
       Entry(x).dev # 0 => Entry(x).cluster \in DOMAIN written[Entry(x).dev]
=============================================================================
