------------------------------ MODULE VmaRead ------------------------------
(***************************************************************************)
(* DeviceDataStream._read of vma.py with the generator it takes clusters   *)
(* from, _iter_clusters: a file holds the clusters of a device in any      *)
(* order, and a read puts them back in theirs.                             *)
(***************************************************************************)
EXTENDS VmaFile

CONSTANT Requests \* what is read: a device, its first cluster, a number of blocks

VARIABLES
  request,
  place,        (* the entry of the file the generator looks at            *)
  cluster,      (* the cluster to be yielded next                          *)
  temp,         (* cluster :> its entry, of clusters that came early       *)
  block_count,  (* the blocks still to be read                             *)
  result,
  pc            (* "scan", "temp" the loop over temp after a match, "rest" *)
                (* the one at the end, "done"                              *)

vars == <<file, request, place, cluster, temp, block_count, result, pc>>

ClusterCount(blocks) == (blocks + ClusterBlocks - 1) \div ClusterBlocks

end == request.cluster + ClusterCount(request.blocks)

Init ==
  /\ file \in Files
  /\ request \in Requests
  /\ place = <<1, 0>>
  /\ cluster = request.cluster
  /\ temp = [c \in {} |-> <<0, 0>>]
  /\ block_count = request.blocks
  /\ result = <<>>
  /\ pc = "scan"

-----------------------------------------------------------------------------

ClustersIn(e) == {x.cluster : x \in {y \in ToSet(file[e]) : y.dev = request.dev}}

\* Mutation of Overlaps: with the lowest and the highest cluster mistaken for each other.
OverlapsWhole(e) ==
  /\ ClustersIn(e) # {}
  /\ \A c \in ClustersIn(e) : end >= c
  /\ \A c \in ClustersIn(e) : cluster <= c

\* An extent is passed over if what it holds of the device lies elsewhere.
Overlaps(e) ==
  /\ ClustersIn(e) # {}
  /\ \E c \in ClustersIn(e) : end >= c
  /\ \E c \in ClustersIn(e) : cluster <= c

\* Mutation of Following: this extent again after its last entry.
FollowingHere ==
  IF place[2] < Len(file[place[1]])
  THEN <<place[1], place[2] + 1>>
  ELSE <<place[1], 0>>

\* The next entry of this extent, or else the head of the next extent.
Following ==
  IF place[2] < Len(file[place[1]])
  THEN <<place[1], place[2] + 1>>
  ELSE <<place[1] + 1, 0>>

AtExtent == place[1] <= Len(file) /\ place[2] = 0

EnterExtent ==
  /\ pc = "scan"
  /\ AtExtent
  /\ place' = IF Overlaps(place[1]) THEN Following ELSE <<place[1] + 1, 0>>
  /\ UNCHANGED <<file, request, cluster, temp, block_count, result, pc>>

\* The consumer reads the cluster it is handed, and stops once it has all it wants.
Consume(x, then) ==
  LET count == IF block_count < ClusterBlocks THEN block_count ELSE ClusterBlocks
      mask  == Entry(x).mask
      read  == IF mask = FullMask THEN Read(x[1], BlockOffset(x), count)
               ELSE IF mask = {} THEN [i \in 1 .. count |-> Zero]
               ELSE ReadMasked(x[1], BlockOffset(x), mask, count)
  IN  /\ result' = result \o read
      /\ block_count' = block_count - count
      /\ pc' = IF block_count' = 0 THEN "done" ELSE then

AtEntry == place[1] <= Len(file) /\ place[2] > 0

Wanted(x) == Entry(x).dev = request.dev

\* The cluster that is next.
Match ==
  /\ pc = "scan"
  /\ AtEntry
  /\ Wanted(place)
  /\ Entry(place).cluster = cluster
  /\ Consume(place, "temp")
  /\ cluster' = cluster + 1
  /\ UNCHANGED <<file, request, place, temp>>

FromTemp ==
  /\ pc \in {"temp", "rest"}
  /\ cluster \in DOMAIN temp
  /\ Consume(temp[cluster], pc)
  /\ temp' = [c \in DOMAIN temp \ {cluster} |-> temp[c]]
  /\ cluster' = cluster + 1
  /\ UNCHANGED <<file, request, place>>

\* Having come to the end the generator leaves both loops.
OnFrom(c) == IF c = end THEN "rest" ELSE "scan"

TempExhausted ==
  /\ pc = "temp"
  /\ cluster \notin DOMAIN temp
  /\ pc' = OnFrom(cluster)
  /\ place' = Following
  /\ UNCHANGED <<file, request, cluster, temp, block_count, result>>

\* Mutation of Early: every cluster that comes early is kept.
EarlyUnbounded(c) == cluster < c

\* A cluster that comes early is kept, as is the one after the last.
Early(c) == cluster < c /\ c <= end

Keep ==
  /\ pc = "scan"
  /\ AtEntry
  /\ Wanted(place)
  /\ Early(Entry(place).cluster)
  /\ temp' = [c \in DOMAIN temp \cup {Entry(place).cluster} |->
                IF c = Entry(place).cluster THEN place ELSE temp[c]]
  /\ place' = Following
  /\ UNCHANGED <<file, request, cluster, block_count, result, pc>>

PassOver ==
  /\ pc = "scan"
  /\ AtEntry
  /\ Wanted(place) => Entry(place).cluster # cluster /\ ~Early(Entry(place).cluster)
  /\ place' = Following
  /\ UNCHANGED <<file, request, cluster, temp, block_count, result, pc>>

EndOfFile ==
  /\ pc = "scan"
  /\ place[1] > Len(file)
  /\ pc' = "rest"
  /\ UNCHANGED <<file, request, place, cluster, temp, block_count, result>>

RestExhausted ==
  /\ pc = "rest"
  /\ cluster \notin DOMAIN temp
  /\ pc' = "done"
  /\ UNCHANGED <<file, request, place, cluster, temp, block_count, result>>

Done == pc = "done" /\ UNCHANGED vars

Next ==
  \/ EnterExtent
  \/ Match
  \/ FromTemp
  \/ TempExhausted
  \/ Keep
  \/ PassOver
  \/ EndOfFile
  \/ RestExhausted
  \/ Done

\* A read runs until it returns.
Spec == Init /\ [][Next]_vars /\ WF_vars(Next)

-----------------------------------------------------------------------------

\* Every variable has its type, and what is kept was found early and is still to come:
\* no more than the clusters that are asked for, and one.
TypeOK ==
  /\ request \in Requests
  /\ place[1] \in 1 .. Len(file) + 1
  /\ cluster \in request.cluster .. end + 1
  /\ \A c \in DOMAIN temp : c \in cluster .. end /\ Entry(temp[c]).cluster = c
  /\ block_count \in 0 .. request.blocks
  /\ pc \in {"scan", "temp", "rest", "done"}

Holds(c) == \E x \in Entries : Entry(x).dev = request.dev /\ Entry(x).cluster = c

\* Wherever in the file the clusters are, a read gives the blocks of the device in their
\* order, each from the cluster and extent that stores it.  It comes short only before a
\* cluster that the file does not hold.
ReadsDevice ==
  /\ Len(result) = request.blocks - block_count
  /\ result = DeviceBlocks(request.dev, request.cluster, Len(result))
  /\ pc = "done" /\ block_count > 0 =>
       ~Holds(request.cluster + Len(result) \div ClusterBlocks)
=============================================================================
