---------------------------- MODULE MCFastCommit ----------------------------
(* Instances of FastCommit for TLC.                                        *)
EXTENDS FastCommit, TLC

CONSTANTS w1, w2, p1, p2, q1, c1, c2, c3

(* One committer in each of two worktrees, one pusher in the first.        *)
LaneWt == (p1 :> w1) @@ (p2 :> w2) @@ (q1 :> w1)

(* One committer and the pusher in the same worktree.                      *)
SoloWt == (p1 :> w1) @@ (q1 :> w1)

Symmetry == Permutations(Commits)
=============================================================================
