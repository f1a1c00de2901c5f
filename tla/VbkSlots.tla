------------------------------ MODULE VbkSlots ------------------------------
(***************************************************************************)
(* VBK.__init__ and SnapshotSlot of vbk.py: which of the two snapshot      *)
(* slots of a file is the active one, of a file its writer was still       *)
(* changing or crashed on.                                                 *)
(*                                                                         *)
(* The writer is not part of the repository: it puts each snapshot into    *)
(* the slot that is not active, in place, so a slot can be torn, of which  *)
(* any part is old and any part new.  How many banks a slot has room for   *)
(* is settled with the file.                                               *)
(***************************************************************************)
EXTENDS Integers

CONSTANTS
  MaxCommits, (* bounds the writer                                         *)
  MaxCrashes  (* bounds the crashes                                        *)

VARIABLES
  slots,     (* 1 and 2 :> whether it contains a snapshot, the version it  *)
             (* shows, and whether it is whole: its checksum is right      *)
  writing,   (* the slot being written, or None                            *)
  crashes

vars == <<slots, writing, crashes>>

None == 0

Empty == [contains |-> FALSE, version |-> 0, whole |-> TRUE]
Whole(n) == [contains |-> TRUE, version |-> n, whole |-> TRUE]

-----------------------------------------------------------------------------
\* vbk.py

\* The second slot is where the size of the first one leads: only a slot that contains a
\* snapshot says how many banks there is room for.
Found == IF slots[1].contains THEN {1, 2} ELSE {1}

Populated == {s \in Found : slots[s].contains}

Verifies(s) == slots[s].contains /\ slots[s].whole

Newest(S) == IF S = {} THEN None ELSE CHOOSE s \in S : \A o \in S : slots[o].version <= slots[s].version

\* Mutation of active_slot: the slots are not verified.
ActiveUnverified == Newest(Populated)

active_slot == Newest({s \in Populated : Verifies(s)})

ActiveVersion == slots[active_slot].version

-----------------------------------------------------------------------------
\* The writer.

Init ==
  /\ slots = <<Whole(1), Empty>>
  /\ writing = None
  /\ crashes = 0

Other(s) == 3 - s

\* What is left of a slot that is partly written: parts of what it was and of what it is
\* to be.
Torn(s, n) ==
  [contains : {slots[s].contains, TRUE}, version : {slots[s].version, n}, whole : {FALSE}]

Begin ==
  /\ writing = None
  /\ ActiveVersion < MaxCommits
  /\ LET s == Other(active_slot)
     IN  /\ writing' = s
         /\ \E torn \in Torn(s, ActiveVersion + 1) : slots' = [slots EXCEPT ![s] = torn]
  /\ UNCHANGED crashes

\* The last part is written.
Finish ==
  /\ writing # None
  /\ slots' = [slots EXCEPT ![writing] = Whole(slots[Other(writing)].version + 1)]
  /\ writing' = None
  /\ UNCHANGED crashes

Crash ==
  /\ writing # None
  /\ crashes < MaxCrashes
  /\ crashes' = crashes + 1
  /\ writing' = None
  /\ UNCHANGED slots

Next == Begin \/ Finish \/ Crash

Spec == Init /\ [][Next]_vars

-----------------------------------------------------------------------------

\* Every variable has its type, and a file that had a snapshot can be opened.
TypeOK ==
  /\ slots \in [1 .. 2 -> [contains : BOOLEAN, version : 0 .. MaxCommits, whole : BOOLEAN]]
  /\ writing \in {None, 1, 2}
  /\ crashes \in 0 .. MaxCrashes
  /\ active_slot # None

\* A snapshot is taken whole or not at all: whoever opens the file finds the last one that
\* was completed, wherever the writer is and wherever it crashed.  A torn slot holds none.
Opened == IF slots[active_slot].whole THEN ActiveVersion ELSE 0
Log == INSTANCE CommitLog WITH live <- Opened
SnapshotsAtomic == Log!Spec
=============================================================================
