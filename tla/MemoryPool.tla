----------------------------- MODULE MemoryPool -----------------------------
(* What memory-budget.sh promises to the launchers that share it: the slots  *)
(* in use never expect more memory together than there is.                   *)
EXTENDS Integers, FiniteSetsExt

CONSTANTS Slots, Peak, Cap, Solo
VARIABLE using

PeakOf(S) == MapThenSumSet(LAMBDA s : Peak[s], S)

Init == using = {}

Admit(s) ==
  /\ s \notin using
  /\ PeakOf(using \cup {s}) <= Cap \/ (Solo /\ using = {})
  /\ using' = using \cup {s}

(* A step ends; or a launcher dies and leaves the pool with all its slots.   *)
Leave(S) == using' = using \ S

Next == (\E s \in Slots : Admit(s)) \/ (\E S \in SUBSET using : Leave(S))

Spec == Init /\ [][Next]_using
=============================================================================
