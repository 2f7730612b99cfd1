----------------------------- MODULE VerifyGate -----------------------------
(***************************************************************************)
(* The verify gate of one worktree: what a passing gate says about the     *)
(* content that is committed.                                              *)
(*                                                                         *)
(*   musi_verify_run_gate  lock, admission, marker, bridge, slots, marker  *)
(*   .husky/pre-commit     its policy for `git commit`                     *)
(*   scripts/verify.sh     its policy for `verify:changed` and `verify`    *)
(*                                                                         *)
(* Content stands for the source-relevant files only.  People and agents   *)
(* go on editing, staging and moving HEAD while the gates run.             *)
(***************************************************************************)
EXTENDS Naturals, FiniteSets

CONSTANTS
  Gates,      \* processes that run a gate in the worktree, once each
  Modes,      \* the kinds of gate each may run as
  Contents,   \* versions of the source files
  Diff,       \* the text git diff prints between two contents
  Heads,      \* commit ids; bounds how many commits are ever made
  First,      \* the commit the worktree starts from
  HandsOff,   \* phases of a gate in which a change of the worktree counts
              \* as a disturbance
  Fresh,      \* MUSI_GATE_MARKER_FRESHNESS_SECONDS
  Nothing, Nobody

Kinds == {"precommit", "changed", "full"}

Phases == {"idle", "waiting", "locked", "admit", "look", "bridge", "stamp",
           "prepare", "slots", "passed", "done"}

(* A diff determines the new content only together with the old one.       *)
ASSUME GateAssumption ==
  /\ Modes \in [Gates -> SUBSET Kinds]
  /\ Nobody \notin Gates
  /\ Nothing \notin Contents \cup Heads
  /\ \A b, c, d \in Contents : Diff[b][c] = Diff[b][d] => c = d
  /\ First \in Heads
  /\ HandsOff \subseteq Phases \ {"idle", "done"}
  /\ Fresh \in Nat \ {0}

VARIABLES
  head,      \* HEAD of the worktree
  content,   \* the files of each commit, Nothing before it is made
  idx,       \* the staged files
  tree,      \* the files in the worktree
  toggle,    \* the musi-fast-commit file exists
  lock,      \* holder of the worktree's verify lock
  marker,    \* the success marker of each kind of gate
  pc,        \* where each gate is
  run        \* what each gate holds in memory, with its history

repoVars == <<head, content, idx, tree>>
vars == <<repoVars, toggle, lock, marker, pc, run>>

(* History of a run that passed: the content its slots read, Nothing when
   somebody disturbed it; how old the run is; whether it ran every slot.   *)
NoProof == [tested |-> Nothing, age |-> 0, full |-> FALSE]

NoKey == [head |-> Nothing, staged |-> Nothing, files |-> Nothing,
          fast |-> FALSE]
NoMarker == [age |-> 0, key |-> NoKey, proof |-> NoProof]

NoRun == [kind |-> "none", force |-> FALSE, fast |-> FALSE, key |-> NoKey,
          disturbed |-> FALSE, record |-> FALSE, proof |-> NoProof]

Init ==
  /\ head = First
  /\ \E c \in Contents :
       /\ content = [h \in Heads |-> IF h = First THEN c ELSE Nothing]
       /\ idx = c
       /\ tree = c
  /\ toggle \in BOOLEAN
  /\ lock = Nobody
  /\ marker = [k \in Kinds |-> NoMarker]
  /\ pc = [g \in Gates |-> "idle"]
  /\ run = [g \in Gates |-> NoRun]

-----------------------------------------------------------------------------
(* Keys and markers.                                                       *)

Base == content[head]

(* Mutant: a pre-commit pass with fast-commit mode on counts without.      *)
KeyIgnoresFast(k, fast) ==
  CASE k = "precommit" -> [head |-> head, staged |-> Diff[Base][idx],
                           files |-> tree, fast |-> FALSE]
    [] k = "changed" -> [head |-> head, staged |-> Diff[Base][idx],
                         files |-> Nothing, fast |-> FALSE]
    [] k = "full" -> [head |-> head, staged |-> Nothing,
                      files |-> Diff[Base][tree], fast |-> FALSE]

(* HEAD with ai_precommit_fingerprint, ai_staged_fingerprint or
   ai_worktree_fingerprint: the staged diff, the hashes of the changed
   files, or the diff of the worktree.                                     *)
KeyNow(k, fast) ==
  CASE k = "precommit" -> [head |-> head, staged |-> Diff[Base][idx],
                           files |-> tree, fast |-> fast]
    [] k = "changed" -> [head |-> head, staged |-> Diff[Base][idx],
                         files |-> Nothing, fast |-> FALSE]
    [] k = "full" -> [head |-> head, staged |-> Nothing,
                      files |-> Diff[Base][tree], fast |-> FALSE]

RunKey(g) == KeyNow(run[g].kind, run[g].fast)

(* musi_success_marker_matches; a marker that is too old is NoMarker.      *)
Matches(k, key) == marker[k] # NoMarker /\ marker[k].key = key

(* musi_write_success_marker.                                              *)
Stamp(k, key, proof) ==
  marker' = [marker EXCEPT ![k] = [age |-> 0, key |-> key, proof |-> proof]]

-----------------------------------------------------------------------------
(* A gate up to its decision.                                              *)

(* Mutant: the gates for staged content do not look for unstaged changes.  *)
StartUnchecked(g) ==
  /\ pc[g] = "idle"
  /\ \E k \in Modes[g], f \in BOOLEAN :
       /\ k = "precommit" => idx # Base
       /\ run' = [run EXCEPT ![g] = [@ EXCEPT !.kind = k, !.force = f]]
  /\ pc' = [pc EXCEPT ![g] = "waiting"]
  /\ UNCHANGED <<repoVars, toggle, lock, marker>>

(* The checks before the lock: musi_changed_gate_fail_if_unstaged, and
   pre-commit goes on only with source changes staged.  FORCE_VERIFY is
   given or not.                                                           *)
Start(g) ==
  /\ pc[g] = "idle"
  /\ \E k \in Modes[g], f \in BOOLEAN :
       /\ k # "full" => tree = idx
       /\ k = "precommit" => idx # Base
       /\ run' = [run EXCEPT ![g] = [@ EXCEPT !.kind = k, !.force = f]]
  /\ pc' = [pc EXCEPT ![g] = "waiting"]
  /\ UNCHANGED <<repoVars, toggle, lock, marker>>

Lock(g) ==
  /\ pc[g] = "waiting"
  /\ lock = Nobody
  /\ lock' = g
  /\ pc' = [pc EXCEPT ![g] = "locked"]
  /\ UNCHANGED <<repoVars, toggle, marker, run>>

(* The process is gone.  pre-commit finds the lock taken, or a wait times
   out; later a provider, the admission, a slot or a marker of the bridge
   fails, or a signal ends the gate.                                       *)
Stop(g) ==
  /\ pc' = [pc EXCEPT ![g] = "done"]
  /\ run' = [run EXCEPT ![g] = NoRun]

Unlock(g) == lock' = IF lock = g THEN Nobody ELSE lock

GiveUp(g) ==
  /\ pc[g] \notin {"idle", "passed", "done"}
  /\ Stop(g)
  /\ Unlock(g)
  /\ UNCHANGED <<repoVars, toggle, marker>>

(* After pre-commit's wait for the commit queue: musi_precommit_snapshot_
   fast_mode; with fast-commit mode on, registration admission takes the
   identity of the run first.                                              *)
Snapshot(g) ==
  LET fast == run[g].kind = "precommit" /\ toggle
  IN /\ pc[g] = "locked"
     /\ pc' = [pc EXCEPT ![g] = IF fast THEN "admit" ELSE "look"]
     /\ run' = [run EXCEPT ![g] = [@ EXCEPT !.fast = fast,
           !.key = IF fast THEN KeyNow("precommit", TRUE) ELSE run[g].key]]
     /\ UNCHANGED <<repoVars, toggle, lock, marker>>

(* Admission passed, and its inputs did not change meanwhile; the identity
   it took is not asked for again.                                         *)
Admitted(g) ==
  /\ pc[g] = "admit"
  /\ run[g].key = RunKey(g)
  /\ pc' = [pc EXCEPT ![g] = "look"]
  /\ run' = [run EXCEPT ![g] = [@ EXCEPT !.key = NoKey]]
  /\ UNCHANGED <<repoVars, toggle, lock, marker>>

(* The gate returns 0; pre-commit's exit lets git go on.                   *)
Pass(g, proof, record) ==
  /\ Unlock(g)
  /\ IF run[g].kind = "precommit"
     THEN /\ pc' = [pc EXCEPT ![g] = "passed"]
          /\ run' = [run EXCEPT ![g] = [@ EXCEPT !.proof = proof,
                         !.record = record, !.key = NoKey, !.fast = FALSE]]
     ELSE Stop(g)

(* The gate's own marker is fresh and matches.                             *)
MarkerHit(g) ==
  LET k == run[g].kind
  IN /\ pc[g] = "look"
     /\ ~run[g].force /\ Matches(k, RunKey(g))
     /\ Pass(g, marker[k].proof, run[g].fast)
     /\ UNCHANGED <<repoVars, toggle, marker>>

MarkerMiss(g) ==
  /\ pc[g] = "look"
  /\ run[g].force \/ ~Matches(run[g].kind, RunKey(g))
  /\ pc' = [pc EXCEPT ![g] = IF run[g].kind = "precommit" /\ ~run[g].force
                             THEN "bridge" ELSE "prepare"]
  /\ run' = [run EXCEPT ![g] = [@ EXCEPT !.force = FALSE]]
  /\ UNCHANGED <<repoVars, toggle, lock, marker>>

(* musi_try_verify_marker_bridge: a marker of verify:changed or else of
   verify stands in for pre-commit's ...                                   *)
Bridges(k) == Matches(k, KeyNow(k, FALSE))

BridgeMatch(g) ==
  /\ pc[g] = "bridge"
  /\ \E k \in {"changed", "full"} :
       /\ Bridges(k)
       /\ k = "full" => ~Bridges("changed")
       /\ run' = [run EXCEPT ![g] = [@ EXCEPT !.proof = marker[k].proof,
                                              !.key = KeyNow(k, FALSE)]]
  /\ pc' = [pc EXCEPT ![g] = "stamp"]
  /\ UNCHANGED <<repoVars, toggle, lock, marker>>

(* ... which is written with the HEAD of then and a fingerprint taken now:
   when they disagree, the marker will never match.                        *)
BridgeStamp(g) ==
  LET proof == IF run[g].disturbed
               THEN [run[g].proof EXCEPT !.tested = Nothing]
               ELSE run[g].proof
  IN /\ pc[g] = "stamp"
     /\ IF run[g].key.head = head
        THEN Stamp("precommit", RunKey(g), proof)
        ELSE marker' = [marker EXCEPT !["precommit"] = NoMarker]
     /\ Pass(g, proof, FALSE)
     /\ UNCHANGED <<repoVars, toggle>>

BridgeMiss(g) ==
  /\ pc[g] = "bridge"
  /\ ~Bridges("changed") /\ ~Bridges("full")
  /\ pc' = [pc EXCEPT ![g] = "prepare"]
  /\ UNCHANGED <<repoVars, toggle, lock, marker, run>>

-----------------------------------------------------------------------------
(* Slots.                                                                  *)

(* musi_verify_gate_activate_runtime; the slots start to read the worktree.
   The manual gates keep the identity of this moment for their marker.     *)
PrepareSlots(g) ==
  /\ pc[g] = "prepare"
  /\ pc' = [pc EXCEPT ![g] = "slots"]
  /\ run' = [run EXCEPT ![g] =
               IF run[g].kind = "precommit" THEN @
               ELSE [@ EXCEPT !.key = RunKey(g)]]
  /\ UNCHANGED <<repoVars, toggle, lock, marker>>

(* Every slot passes.  The marker gets pre-commit's fingerprint of now, or
   the manual gates' of the start; pre-commit skips the slow slots in
   fast-commit mode.  A marker that cannot be written is only warned about. *)
SlotsPass(g) ==
  LET key == IF run[g].kind = "precommit" THEN RunKey(g) ELSE run[g].key
      proof == [tested |-> IF run[g].disturbed THEN Nothing ELSE tree,
                age |-> 0, full |-> ~run[g].fast]
  IN /\ pc[g] = "slots"
     /\ Stamp(run[g].kind, key, proof) \/ UNCHANGED marker
     /\ Pass(g, proof, run[g].fast)
     /\ UNCHANGED <<repoVars, toggle>>

-----------------------------------------------------------------------------
(* Git, and everybody who works in the worktree.                           *)

Disturb(g) == [run[g] EXCEPT !.disturbed = @ \/ pc[g] \in HandsOff]

(* The files change.                                                       *)
Edit(c) ==
  /\ c \in Contents \ {tree}
  /\ tree' = c
  /\ run' = [g \in Gates |-> Disturb(g)]
  /\ UNCHANGED <<head, content, idx, toggle, lock, marker, pc>>

(* git add -A, or git reset.                                               *)
Stage ==
  /\ idx' \in {tree, Base} \ {idx}
  /\ run' = [g \in Gates |-> Disturb(g)]
  /\ UNCHANGED <<head, content, tree, toggle, lock, marker, pc>>

(* git reset --soft to a commit made before.                               *)
MoveHead(h) ==
  /\ h # head /\ content[h] # Nothing
  /\ head' = h
  /\ run' = [g \in Gates |-> Disturb(g)]
  /\ UNCHANGED <<content, idx, tree, toggle, lock, marker, pc>>

FlipToggle ==
  /\ toggle' = ~toggle
  /\ UNCHANGED <<repoVars, lock, marker, pc, run>>

(* git commits what is staged now.                                         *)
Commit(g, h) ==
  /\ pc[g] = "passed"
  /\ content[h] = Nothing
  /\ content' = [content EXCEPT ![h] = idx]
  /\ head' = h
  /\ pc' = [pc EXCEPT ![g] = "done"]
  /\ run' = [f \in Gates |-> IF f = g THEN NoRun ELSE Disturb(f)]
  /\ UNCHANGED <<idx, tree, toggle, lock, marker>>

(* commit-msg or the author says no.                                       *)
CommitRejected(g) ==
  /\ pc[g] = "passed"
  /\ Stop(g)
  /\ UNCHANGED <<repoVars, toggle, lock, marker>>

Aged(m) ==
  [m EXCEPT !.age = m.age + 1,
            !.proof = [m.proof EXCEPT !.age = m.proof.age + 1]]

(* Mutant: the age of a marker is not looked at.                           *)
OlderForever(m) ==
  IF m = NoMarker THEN NoMarker
  ELSE Aged(m)

(* Mutant: a marker exactly as old as the window still counts.             *)
OlderInclusive(m) ==
  IF m = NoMarker \/ m.age = Fresh THEN NoMarker
  ELSE Aged(m)

(* The markers get a second older, up to the window they count in.         *)
Older(m) ==
  IF m = NoMarker \/ m.age + 1 = Fresh THEN NoMarker
  ELSE Aged(m)

(* Matching and stamping a bridge are taken to be within one second.       *)
Tick ==
  /\ \A g \in Gates : pc[g] # "stamp"
  /\ marker' = [k \in Kinds |-> Older(marker[k])]
  /\ UNCHANGED <<repoVars, toggle, lock, pc, run>>

-----------------------------------------------------------------------------
GateStep(g) ==
  \/ Start(g) \/ Lock(g) \/ GiveUp(g) \/ Snapshot(g) \/ Admitted(g)
  \/ MarkerHit(g) \/ MarkerMiss(g)
  \/ BridgeMatch(g) \/ BridgeStamp(g) \/ BridgeMiss(g)
  \/ PrepareSlots(g) \/ SlotsPass(g)
  \/ (\E h \in Heads : Commit(g, h)) \/ CommitRejected(g)

WorkStep ==
  \/ \E c \in Contents : Edit(c)
  \/ Stage
  \/ \E h \in Heads : MoveHead(h)
  \/ FlipToggle
  \/ Tick

Next == (\E g \in Gates : GateStep(g)) \/ WorkStep

Spec == Init /\ [][Next]_vars

-----------------------------------------------------------------------------
Diffs == UNION {{Diff[b][c] : c \in Contents} : b \in Contents}

Keys == [head : Heads \cup {Nothing},
         staged : Diffs \cup {Nothing},
         files : Contents \cup Diffs \cup {Nothing},
         fast : BOOLEAN]

Proofs == [tested : Contents \cup {Nothing}, age : Nat, full : BOOLEAN]

Markers == [age : 0 .. Fresh, key : Keys, proof : Proofs]

Runs == [kind : Kinds \cup {"none"}, force : BOOLEAN, fast : BOOLEAN,
         key : Keys, disturbed : BOOLEAN, record : BOOLEAN, proof : Proofs]

TypeOK ==
  /\ head \in Heads /\ content \in [Heads -> Contents \cup {Nothing}]
  /\ idx \in Contents /\ tree \in Contents
  /\ toggle \in BOOLEAN
  /\ lock \in Gates \cup {Nobody}
  /\ marker \in [Kinds -> Markers]
  /\ pc \in [Gates -> Phases]
  /\ run \in [Gates -> Runs]

Passed(g) == pc[g] = "passed"

(* What a commit records has been tested: when nobody has touched the
   worktree under the gate, nor under the run its pass rests on - its own,
   an earlier one with a fresh marker, or one bridged from a manual gate -
   then what the slots have read is exactly what is staged
   (verify-markers.sh: a marker is honoured for the current state only).   *)
CommitTested ==
  \A g \in Gates :
    Passed(g) /\ ~run[g].disturbed /\ run[g].proof.tested # Nothing
      => run[g].proof.tested = idx

(* A commit that is not recorded as fast rests on a run of every slot, by
   whatever marker it passed, and however the toggle flips (pre-commit:
   FAST_COMMIT_RECORD_PENDING; verify-path-policy.sh folds the toggle in).  *)
FullRestsOnFull ==
  \A g \in Gates : Passed(g) /\ ~run[g].record => run[g].proof.full

(* Bridging stamps old evidence anew, once: what a commit rests on is less
   than twice the freshness window old.                                    *)
EvidenceFresh ==
  \A g \in Gates : Passed(g) => run[g].proof.age <= 2 * (Fresh - 1)
=============================================================================
