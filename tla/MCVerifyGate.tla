---------------------------- MODULE MCVerifyGate ----------------------------
(* Instances of VerifyGate for TLC.                                        *)
EXTENDS VerifyGate, TLC

CONSTANTS c1, c2, m1, v1, v2

(* Two `git commit` and a manual gate of either kind.                      *)
CommitOrManual ==
  [g \in Gates |-> IF g = m1 THEN {"changed", "full"} ELSE {"precommit"}]

(* Two contents, and one diff that leads from either to the other.         *)
Flip == [b \in Contents |-> [c \in Contents |-> b # c]]

(* Hands off from the first check of a gate to the commit.                 *)
Always == Phases \ {"idle", "done"}

Symmetry == Permutations({c1, c2}) \cup Permutations({v1, v2})
=============================================================================
