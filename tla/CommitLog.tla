----------------------------- MODULE CommitLog -----------------------------
(***************************************************************************)
(* What a transactional archive promises whoever opens it: it is always at *)
(* one commit, and only ever moves on to the next one, whole.              *)
(***************************************************************************)
EXTENDS Naturals

CONSTANT MaxCommits \* bounds the model

VARIABLE live \* the commit the archive is at

Init == live = 1

Commit == live < MaxCommits /\ live' = live + 1

Spec == Init /\ [][Commit]_live
=============================================================================
