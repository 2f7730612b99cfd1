-------------------------- MODULE VerifyGateProofs --------------------------
(* Theorems about VerifyGate, for any number of gates, contents, commits and *)
(* any freshness window.                                                     *)
EXTENDS VerifyGate, TLAPS

Active == Phases \ {"idle", "done"}

(* What the types of a step rest on: HEAD is a commit that exists, markers in
   use are younger than the window, and a gate on its way has a kind.        *)
Basic ==
  /\ content[head] # Nothing
  /\ \A k \in Kinds : marker[k].age < Fresh
  /\ \A g \in Gates :
       /\ pc[g] \in Active => run[g].kind \in Kinds
       /\ pc[g] \in {"bridge", "stamp", "passed"} => run[g].kind = "precommit"
       /\ run[g].fast => run[g].kind = "precommit"
       /\ pc[g] \in {"idle", "waiting", "locked"} => ~run[g].fast

LEMMA KeyTyped ==
  ASSUME TypeOK, Basic, NEW k \in Kinds, NEW fast \in BOOLEAN
  PROVE  KeyNow(k, fast) \in Keys
<1>1. Base \in Contents
  BY DEF TypeOK, Basic, Base
<1>2. Diff[Base][idx] \in Diffs /\ Diff[Base][tree] \in Diffs
  BY <1>1 DEF TypeOK, Diffs
<1>3. CASE k = "precommit"
  BY <1>2, <1>3 DEF KeyNow, Keys, TypeOK
<1>4. CASE k = "changed"
  BY <1>2, <1>4 DEF KeyNow, Keys, TypeOK
<1>5. CASE k = "full"
  BY <1>2, <1>5 DEF KeyNow, Keys, TypeOK
<1>. QED BY <1>3, <1>4, <1>5 DEF Kinds

LEMMA RunKeyTyped ==
  ASSUME TypeOK, Basic, NEW g \in Gates, pc[g] \in Active
  PROVE  RunKey(g) \in Keys
<1>1. run[g].kind \in Kinds /\ run[g].fast \in BOOLEAN
  BY DEF TypeOK, Basic, Runs
<1>. QED BY <1>1, KeyTyped DEF RunKey

LEMMA ConstantsTyped ==
  /\ NoKey \in Keys
  /\ NoProof \in Proofs
  /\ NoRun \in Runs
  /\ NoMarker \in Markers
  /\ NoMarker.age < Fresh /\ NoRun.fast = FALSE
<1>1. NoKey \in Keys
  BY DEF NoKey, Keys
<1>2. NoProof \in Proofs
  BY DEF NoProof, Proofs
<1>. QED BY <1>1, <1>2, GateAssumption DEF NoRun, NoMarker, Runs, Markers

LEMMA StopTyped ==
  ASSUME TypeOK, NEW g \in Gates, Stop(g)
  PROVE  pc' \in [Gates -> Phases] /\ run' \in [Gates -> Runs]
BY ConstantsTyped DEF Stop, TypeOK, Phases

LEMMA PassTyped ==
  ASSUME TypeOK, NEW g \in Gates, NEW proof \in Proofs, NEW record \in BOOLEAN,
         Pass(g, proof, record)
  PROVE  /\ pc' \in [Gates -> Phases] /\ run' \in [Gates -> Runs]
         /\ lock' \in Gates \cup {Nobody}
<1>1. lock' \in Gates \cup {Nobody}
  BY DEF Pass, Unlock, TypeOK
<1>2. CASE run[g].kind = "precommit"
  <2>1. run' = [run EXCEPT ![g] = [@ EXCEPT !.proof = proof,
                  !.record = record, !.key = NoKey, !.fast = FALSE]]
        /\ pc' = [pc EXCEPT ![g] = "passed"]
    BY <1>2 DEF Pass
  <2>2. [run[g] EXCEPT !.proof = proof, !.record = record, !.key = NoKey,
                       !.fast = FALSE] \in Runs
    BY ConstantsTyped DEF TypeOK, Runs
  <2>. QED BY <1>1, <2>1, <2>2 DEF TypeOK, Phases
<1>3. CASE run[g].kind # "precommit"
  BY <1>1, <1>3, StopTyped DEF Pass
<1>. QED BY <1>2, <1>3

LEMMA StampTyped ==
  ASSUME TypeOK, NEW k \in Kinds, NEW key \in Keys, NEW proof \in Proofs,
         Stamp(k, key, proof)
  PROVE  marker' \in [Kinds -> Markers]
BY GateAssumption DEF Stamp, TypeOK, Markers

LEMMA DisturbTyped ==
  ASSUME TypeOK, NEW g \in Gates
  PROVE  /\ Disturb(g) \in Runs
         /\ Disturb(g).kind = run[g].kind /\ Disturb(g).fast = run[g].fast
BY DEF Disturb, TypeOK, Runs

LEMMA OlderTyped ==
  ASSUME NEW m \in Markers, m.age < Fresh
  PROVE  Older(m) \in Markers /\ Older(m).age < Fresh
<1>1. CASE m = NoMarker \/ m.age + 1 = Fresh
  BY <1>1, ConstantsTyped DEF Older
<1>2. CASE ~(m = NoMarker \/ m.age + 1 = Fresh)
  <2>1. m.age \in Nat /\ m.proof \in Proofs /\ m.proof.age \in Nat
    BY GateAssumption DEF Markers, Proofs
  <2>2. [m.proof EXCEPT !.age = m.proof.age + 1] \in Proofs
    BY <2>1 DEF Proofs
  <2>3. m.age + 1 \in 0 .. Fresh /\ m.age + 1 < Fresh
    BY <1>2, <2>1, GateAssumption DEF Markers
  <2>4. Older(m) = Aged(m)
    BY <1>2 DEF Older
  <2>. QED BY <2>1, <2>2, <2>3, <2>4 DEF Aged, Markers
<1>. QED BY <1>1, <1>2

-----------------------------------------------------------------------------
(* Types.                                                                    *)

TypeInv == TypeOK /\ Basic

LEMMA TypeInit == Init => TypeInv
<1>. SUFFICES ASSUME Init PROVE TypeInv
  OBVIOUS
<1>. PICK c \in Contents :
       /\ content = [h \in Heads |-> IF h = First THEN c ELSE Nothing]
       /\ idx = c /\ tree = c
  BY DEF Init
<1>1. TypeOK
  BY ConstantsTyped, GateAssumption DEF Init, TypeOK, Phases
<1>2. Basic
  BY ConstantsTyped, GateAssumption DEF Init, Basic, Active, NoRun
<1>. QED BY <1>1, <1>2 DEF TypeInv

(* A step that rewrites what one gate holds.                                 *)
LEMMA RunTyped ==
  ASSUME TypeInv, NEW g \in Gates, NEW r \in Runs, NEW p \in Phases,
         run' = [run EXCEPT ![g] = r], pc' = [pc EXCEPT ![g] = p],
         p \in Active => r.kind \in Kinds,
         p \in {"bridge", "stamp", "passed"} => r.kind = "precommit",
         r.fast => r.kind = "precommit",
         p \in {"idle", "waiting", "locked"} => ~r.fast,
         UNCHANGED repoVars, toggle' \in BOOLEAN,
         lock' \in Gates \cup {Nobody},
         marker' \in [Kinds -> Markers],
         \A k \in Kinds : marker'[k].age < Fresh
  PROVE  TypeInv'
BY DEF TypeInv, TypeOK, Basic, repoVars

LEMMA StopTypeInv ==
  ASSUME TypeInv, NEW g \in Gates, Stop(g), UNCHANGED <<repoVars, toggle>>,
         lock' \in Gates \cup {Nobody},
         marker' \in [Kinds -> Markers],
         \A k \in Kinds : marker'[k].age < Fresh
  PROVE  TypeInv'
<1>1. "done" \in Phases /\ "done" \notin Active /\ toggle' \in BOOLEAN
  BY DEF Phases, Active, TypeInv, TypeOK
<1>. QED BY <1>1, ConstantsTyped, RunTyped DEF Stop, NoRun

LEMMA PassTypeInv ==
  ASSUME TypeInv, NEW g \in Gates, NEW proof \in Proofs,
         NEW record \in BOOLEAN, Pass(g, proof, record),
         UNCHANGED <<repoVars, toggle>>,
         marker' \in [Kinds -> Markers],
         \A k \in Kinds : marker'[k].age < Fresh
  PROVE  TypeInv'
<1>1. lock' \in Gates \cup {Nobody} /\ toggle' \in BOOLEAN
  BY PassTyped DEF TypeInv, TypeOK
<1>2. CASE run[g].kind = "precommit"
  <2>. DEFINE r == [run[g] EXCEPT !.proof = proof, !.record = record,
                                  !.key = NoKey, !.fast = FALSE]
  <2>1. run' = [run EXCEPT ![g] = r] /\ pc' = [pc EXCEPT ![g] = "passed"]
    BY <1>2 DEF Pass
  <2>2. r \in Runs /\ r.kind = "precommit" /\ ~r.fast
    BY <1>2, ConstantsTyped DEF TypeInv, TypeOK, Runs
  <2>3. "passed" \in Phases /\ "precommit" \in Kinds
    BY DEF Phases, Kinds
  <2>. QED BY <1>1, <2>1, <2>2, <2>3, RunTyped
<1>3. CASE run[g].kind # "precommit"
  BY <1>1, <1>3, StopTypeInv DEF Pass
<1>. QED BY <1>2, <1>3

(* Somebody works in the worktree while the gates run.                       *)
LEMMA WorkTypeInv ==
  ASSUME TypeInv, \/ \E c \in Contents : Edit(c)
                  \/ Stage
                  \/ \E h \in Heads : MoveHead(h)
  PROVE  TypeInv'
<1>1. /\ head' \in Heads /\ UNCHANGED content /\ content[head'] # Nothing
      /\ idx' \in Contents /\ tree' \in Contents
  BY DEF Edit, Stage, MoveHead, TypeInv, TypeOK, Basic, Base
<1>2. run' = [g \in Gates |-> Disturb(g)] /\ UNCHANGED <<toggle, lock, marker, pc>>
  BY DEF Edit, Stage, MoveHead
<1>. QED BY <1>1, <1>2, DisturbTyped DEF TypeInv, TypeOK, Basic

LEMMA CommitTypeInv ==
  ASSUME TypeInv, NEW f \in Gates, NEW h \in Heads, Commit(f, h)
  PROVE  TypeInv'
<1>1. /\ head' \in Heads /\ UNCHANGED <<idx, tree>>
      /\ content' \in [Heads -> Contents \cup {Nothing}]
      /\ content'[head'] # Nothing
  BY GateAssumption DEF Commit, TypeInv, TypeOK
<1>2. /\ run' = [g \in Gates |-> IF g = f THEN NoRun ELSE Disturb(g)]
      /\ pc' = [pc EXCEPT ![f] = "done"] /\ UNCHANGED <<toggle, lock, marker>>
  BY DEF Commit
<1>3. "done" \in Phases /\ "done" \notin Active /\ NoRun.fast = FALSE
  BY ConstantsTyped DEF Phases, Active
<1>4. pc' \in [Gates -> Phases] /\ run' \in [Gates -> Runs]
  BY <1>2, <1>3, DisturbTyped, ConstantsTyped DEF TypeInv, TypeOK
<1>5. TypeOK'
  BY <1>1, <1>2, <1>4 DEF TypeInv, TypeOK
<1>6. ASSUME NEW g \in Gates
      PROVE  /\ pc'[g] \in Active => run'[g].kind \in Kinds
             /\ pc'[g] \in {"bridge", "stamp", "passed"}
                  => run'[g].kind = "precommit"
             /\ run'[g].fast => run'[g].kind = "precommit"
             /\ pc'[g] \in {"idle", "waiting", "locked"} => ~run'[g].fast
  BY <1>2, <1>3, DisturbTyped DEF TypeInv, TypeOK, Basic
<1>7. Basic'
  BY <1>1, <1>2, <1>6 DEF TypeInv, Basic
<1>. QED BY <1>5, <1>7 DEF TypeInv

LEMMA TickTypeInv ==
  ASSUME TypeInv, Tick
  PROVE  TypeInv'
<1>1. marker' = [k \in Kinds |-> Older(marker[k])]
      /\ UNCHANGED <<head, content, idx, tree, toggle, lock, pc, run>>
  BY DEF Tick, repoVars
<1>2. ASSUME NEW k \in Kinds
      PROVE  Older(marker[k]) \in Markers /\ Older(marker[k]).age < Fresh
  BY OlderTyped DEF TypeInv, TypeOK, Basic
<1>. QED BY <1>1, <1>2 DEF TypeInv, TypeOK, Basic

LEMMA GateTypeInv ==
  ASSUME TypeInv, NEW g \in Gates, GateStep(g)
  PROVE  TypeInv'
<1>0. /\ run[g] \in Runs /\ lock \in Gates \cup {Nobody} /\ toggle \in BOOLEAN
      /\ marker \in [Kinds -> Markers] /\ \A k \in Kinds : marker[k].age < Fresh
      /\ run[g].proof \in Proofs
      /\ (pc[g] \in Active => run[g].kind \in Kinds)
      /\ (pc[g] \in {"bridge", "stamp", "passed"} => run[g].kind = "precommit")
      /\ (run[g].fast => run[g].kind = "precommit")
      /\ (pc[g] \in {"idle", "waiting", "locked"} => ~run[g].fast)
  BY DEF TypeInv, TypeOK, Basic, Runs
<1>. USE DEF Active, Phases
<1>1. CASE Start(g)
  <2>. PICK k \in Modes[g], f \in BOOLEAN :
         run' = [run EXCEPT ![g] = [@ EXCEPT !.kind = k, !.force = f]]
    BY <1>1 DEF Start
  <2>. DEFINE r == [run[g] EXCEPT !.kind = k, !.force = f]
  <2>1. k \in Kinds
    BY GateAssumption
  <2>2. r \in Runs /\ r.kind = k /\ r.fast = run[g].fast
    BY <1>0, <2>1 DEF Runs
  <2>3. ~run[g].fast
    BY <1>0, <1>1 DEF Start
  <2>. HIDE DEF r
  <2>4. run' = [run EXCEPT ![g] = r] /\ pc' = [pc EXCEPT ![g] = "waiting"]
        /\ UNCHANGED <<repoVars, toggle, lock, marker>>
    BY <1>1 DEF Start, r
  <2>. QED BY <1>0, <2>1, <2>2, <2>3, <2>4, RunTyped
<1>2. CASE Lock(g)
  <2>1. run' = [run EXCEPT ![g] = run[g]]
    BY <1>2 DEF Lock, TypeInv, TypeOK
  <2>. QED BY <1>0, <1>2, <2>1, RunTyped DEF Lock
<1>3. CASE GiveUp(g)
  BY <1>0, <1>3, StopTypeInv DEF GiveUp, Unlock
<1>4. CASE Snapshot(g)
  <2>. DEFINE fast == run[g].kind = "precommit" /\ toggle
              p == IF fast THEN "admit" ELSE "look"
              key == IF fast THEN KeyNow("precommit", TRUE) ELSE run[g].key
              r == [run[g] EXCEPT !.fast = fast, !.key = key]
  <2>1. KeyNow("precommit", TRUE) \in Keys
    BY KeyTyped DEF TypeInv, Kinds
  <2>2. key \in Keys /\ fast \in BOOLEAN
    BY <1>0, <2>1 DEF Runs
  <2>3. run' = [run EXCEPT ![g] = r]
    BY <1>0, <1>4, Zenon DEF Snapshot
  <2>4. pc' = [pc EXCEPT ![g] = p] /\ UNCHANGED <<repoVars, toggle, lock, marker>>
        /\ p \in {"admit", "look"} /\ (fast => run[g].kind = "precommit")
        /\ run[g].kind \in Kinds
    BY <1>0, <1>4 DEF Snapshot
  <2>. HIDE DEF fast, p, key
  <2>5. r \in Runs /\ r.kind = run[g].kind /\ r.fast = fast
    BY <1>0, <2>2 DEF Runs
  <2>. HIDE DEF r
  <2>. QED BY <1>0, <2>3, <2>4, <2>5, RunTyped
<1>5. CASE Admitted(g)
  <2>. DEFINE r == [run[g] EXCEPT !.key = NoKey]
  <2>1. r \in Runs /\ r.kind = run[g].kind /\ r.fast = run[g].fast
    BY <1>0, ConstantsTyped DEF Runs
  <2>2. run' = [run EXCEPT ![g] = r] /\ pc' = [pc EXCEPT ![g] = "look"]
        /\ UNCHANGED <<repoVars, toggle, lock, marker>> /\ pc[g] = "admit"
    BY <1>5 DEF Admitted
  <2>. HIDE DEF r
  <2>. QED BY <1>0, <2>1, <2>2, RunTyped
<1>6. CASE MarkerHit(g)
  <2>1. marker[run[g].kind].proof \in Proofs /\ run[g].fast \in BOOLEAN
    BY <1>0, <1>6 DEF MarkerHit, Markers, Runs
  <2>. QED BY <1>0, <1>6, <2>1, PassTypeInv DEF MarkerHit
<1>7. CASE MarkerMiss(g)
  <2>. DEFINE p == IF run[g].kind = "precommit" /\ ~run[g].force
                   THEN "bridge" ELSE "prepare"
              r == [run[g] EXCEPT !.force = FALSE]
  <2>1. r \in Runs /\ r.kind = run[g].kind /\ r.fast = run[g].fast
    BY <1>0 DEF Runs
  <2>2. p \in Phases /\ p \in Active /\ run[g].kind \in Kinds
        /\ (p = "bridge" => run[g].kind = "precommit")
        /\ p \notin {"idle", "waiting", "locked", "stamp", "passed"}
    BY <1>0, <1>7 DEF MarkerMiss
  <2>3. run' = [run EXCEPT ![g] = r] /\ pc' = [pc EXCEPT ![g] = p]
        /\ UNCHANGED <<repoVars, toggle, lock, marker>>
    BY <1>7 DEF MarkerMiss
  <2>. HIDE DEF r, p
  <2>. QED BY <1>0, <2>1, <2>2, <2>3, RunTyped
<1>8. CASE BridgeMatch(g)
  <2>. PICK k \in {"changed", "full"} :
         run' = [run EXCEPT ![g] = [@ EXCEPT !.proof = marker[k].proof,
                                              !.key = KeyNow(k, FALSE)]]
    BY <1>8 DEF BridgeMatch
  <2>. DEFINE r == [run[g] EXCEPT !.proof = marker[k].proof,
                                  !.key = KeyNow(k, FALSE)]
  <2>1. marker[k].proof \in Proofs /\ KeyNow(k, FALSE) \in Keys
    BY <1>0, KeyTyped DEF TypeInv, Kinds, Markers
  <2>2. r \in Runs /\ r.kind = run[g].kind /\ r.fast = run[g].fast
    BY <1>0, <2>1 DEF Runs
  <2>3. run' = [run EXCEPT ![g] = r] /\ pc' = [pc EXCEPT ![g] = "stamp"]
        /\ UNCHANGED <<repoVars, toggle, lock, marker>>
        /\ run[g].kind = "precommit"
    BY <1>0, <1>8 DEF BridgeMatch
  <2>. HIDE DEF r
  <2>. QED BY <1>0, <2>2, <2>3, RunTyped DEF Kinds
<1>9. CASE BridgeStamp(g)
  <2>. DEFINE proof == IF run[g].disturbed
                       THEN [run[g].proof EXCEPT !.tested = Nothing]
                       ELSE run[g].proof
  <2>1. proof \in Proofs
    BY <1>0 DEF Proofs
  <2>2. /\ \/ Stamp("precommit", RunKey(g), proof)
           \/ marker' = [marker EXCEPT !["precommit"] = NoMarker]
        /\ Pass(g, proof, FALSE)
        /\ UNCHANGED <<repoVars, toggle>> /\ pc[g] = "stamp"
    BY <1>9 DEF BridgeStamp
  <2>. HIDE DEF proof
  <2>3. RunKey(g) \in Keys
    BY <2>2, RunKeyTyped DEF TypeInv
  <2>4. marker' \in [Kinds -> Markers]
    BY <1>0, <2>1, <2>2, <2>3, StampTyped, ConstantsTyped DEF TypeInv, Kinds
  <2>5. \A k \in Kinds : marker'[k].age < Fresh
    BY <1>0, <2>2, ConstantsTyped, GateAssumption DEF Stamp
  <2>. QED BY <2>1, <2>2, <2>4, <2>5, PassTypeInv
<1>10. CASE BridgeMiss(g)
  <2>1. run' = [run EXCEPT ![g] = run[g]]
    BY <1>10 DEF BridgeMiss, TypeInv, TypeOK
  <2>. QED BY <1>0, <1>10, <2>1, RunTyped DEF BridgeMiss
<1>11. CASE PrepareSlots(g)
  <2>. DEFINE r == IF run[g].kind = "precommit" THEN run[g]
                   ELSE [run[g] EXCEPT !.key = RunKey(g)]
  <2>1. RunKey(g) \in Keys
    BY <1>11, RunKeyTyped DEF TypeInv, PrepareSlots
  <2>2. r \in Runs /\ r.kind = run[g].kind /\ r.fast = run[g].fast
    BY <1>0, <2>1 DEF Runs
  <2>3. run' = [run EXCEPT ![g] = r] /\ pc' = [pc EXCEPT ![g] = "slots"]
        /\ UNCHANGED <<repoVars, toggle, lock, marker>> /\ pc[g] = "prepare"
    BY <1>11 DEF PrepareSlots
  <2>. HIDE DEF r
  <2>. QED BY <1>0, <2>2, <2>3, RunTyped
<1>12. CASE SlotsPass(g)
  <2>. DEFINE key == IF run[g].kind = "precommit" THEN RunKey(g)
                     ELSE run[g].key
              proof == [tested |-> IF run[g].disturbed THEN Nothing ELSE tree,
                        age |-> 0, full |-> ~run[g].fast]
  <2>1. /\ Stamp(run[g].kind, key, proof) \/ UNCHANGED marker
        /\ Pass(g, proof, run[g].fast)
        /\ UNCHANGED <<repoVars, toggle>> /\ pc[g] = "slots"
        /\ run[g].kind \in Kinds
    BY <1>0, <1>12 DEF SlotsPass
  <2>2. key \in Keys
    BY <1>0, <2>1, RunKeyTyped DEF TypeInv, Runs
  <2>3. proof \in Proofs /\ run[g].fast \in BOOLEAN
    BY <1>0 DEF Proofs, Runs, TypeInv, TypeOK
  <2>. HIDE DEF key, proof
  <2>4. marker' \in [Kinds -> Markers]
    BY <1>0, <2>1, <2>2, <2>3, StampTyped DEF TypeInv
  <2>5. \A k \in Kinds : marker'[k].age < Fresh
    BY <1>0, <2>1, GateAssumption DEF Stamp
  <2>. QED BY <2>1, <2>3, <2>4, <2>5, PassTypeInv
<1>13. ASSUME NEW h \in Heads, Commit(g, h) PROVE TypeInv'
  BY <1>13, CommitTypeInv
<1>14. CASE CommitRejected(g)
  BY <1>0, <1>14, StopTypeInv DEF CommitRejected
<1>. QED BY <1>1, <1>2, <1>3, <1>4, <1>5, <1>6, <1>7, <1>8, <1>9, <1>10,
            <1>11, <1>12, <1>13, <1>14 DEF GateStep

LEMMA TypeStep == TypeInv /\ [Next]_vars => TypeInv'
<1>. SUFFICES ASSUME TypeInv, [Next]_vars PROVE TypeInv'
  OBVIOUS
<1>1. CASE \E g \in Gates : GateStep(g)
  BY <1>1, GateTypeInv
<1>2. CASE WorkStep
  <2>1. CASE FlipToggle
    BY <2>1 DEF FlipToggle, repoVars, TypeInv, TypeOK, Basic
  <2>. QED BY <1>2, <2>1, WorkTypeInv, TickTypeInv DEF WorkStep
<1>3. CASE UNCHANGED vars
  BY <1>3 DEF vars, repoVars, TypeInv, TypeOK, Basic
<1>. QED BY <1>1, <1>2, <1>3 DEF Next

(* Every state has the types the model means it to have.                     *)
THEOREM TypeSafety == Spec => []TypeOK
<1>1. TypeInv => TypeOK
  BY DEF TypeInv
<1>. QED BY <1>1, TypeInit, TypeStep, PTL DEF Spec

-----------------------------------------------------------------------------
(* How old evidence may be, and how complete it is.                          *)

MarkersAged ==
  /\ marker["changed"].proof.age = marker["changed"].age
  /\ marker["full"].proof.age = marker["full"].age
  /\ marker["precommit"].proof.age <= marker["precommit"].age + (Fresh - 1)

RunAged(g) ==
  /\ pc[g] = "stamp" => run[g].proof.age <= Fresh - 1
  /\ pc[g] = "passed" => run[g].proof.age <= 2 * (Fresh - 1)

MarkersFull ==
  /\ \A k \in {"changed", "full"} : marker[k] # NoMarker => marker[k].proof.full
  /\ marker["precommit"] # NoMarker /\ ~marker["precommit"].key.fast
       => marker["precommit"].proof.full

RunFull(g) ==
  /\ pc[g] = "stamp" => run[g].proof.full
  /\ pc[g] = "passed" /\ ~run[g].record => run[g].proof.full

Evidence == /\ MarkersAged /\ MarkersFull
            /\ \A g \in Gates : RunAged(g) /\ RunFull(g)

LEMMA EvidenceInit == Init => Evidence
BY GateAssumption
   DEF Init, Evidence, MarkersAged, MarkersFull, RunAged, RunFull, NoMarker,
       NoProof, Kinds

(* A gate that has neither matched a bridge nor passed says nothing yet.     *)
LEMMA OnTheWayEvidence ==
  ASSUME Evidence, NEW g \in Gates, UNCHANGED marker,
         \A f \in Gates \ {g} : pc'[f] = pc[f] /\ run'[f] = run[f],
         pc'[g] \notin {"stamp", "passed"}
  PROVE  Evidence'
BY DEF Evidence, MarkersAged, MarkersFull, RunAged, RunFull

(* Somebody works in the worktree: gates note it, and nothing else changes.  *)
LEMMA WorkEvidence ==
  ASSUME TypeInv, Evidence, UNCHANGED marker,
         \A g \in Gates : \/ pc'[g] = "done"
                          \/ pc'[g] = pc[g] /\ run'[g] = Disturb(g)
  PROVE  Evidence'
<1>1. ASSUME NEW g \in Gates
      PROVE  /\ Disturb(g).proof = run[g].proof
             /\ Disturb(g).record = run[g].record
  BY DEF Disturb, TypeInv, TypeOK, Runs
<1>2. ASSUME NEW g \in Gates PROVE (RunAged(g) /\ RunFull(g))'
  BY <1>1 DEF Evidence, RunAged, RunFull
<1>. QED BY <1>2 DEF Evidence, MarkersAged, MarkersFull

LEMMA TickEvidence ==
  ASSUME TypeInv, Evidence, Tick
  PROVE  Evidence'
<1>1. ASSUME NEW k \in Kinds
      PROVE  /\ marker'[k] = Older(marker[k]) /\ marker[k] \in Markers
             /\ \/ marker'[k] = NoMarker
                \/ /\ marker[k] # NoMarker
                   /\ marker'[k].age = marker[k].age + 1
                   /\ marker'[k].proof.age = marker[k].proof.age + 1
                   /\ marker'[k].proof.full = marker[k].proof.full
                   /\ marker'[k].key = marker[k].key
  <2>1. marker'[k] = Older(marker[k]) /\ marker[k] \in Markers
    BY DEF Tick, TypeInv, TypeOK
  <2>2. CASE Older(marker[k]) = NoMarker
    BY <2>1, <2>2
  <2>3. CASE Older(marker[k]) # NoMarker
    <3>1. Older(marker[k]) = Aged(marker[k]) /\ marker[k] # NoMarker
      BY <2>3 DEF Older
    <3>2. marker[k].proof \in Proofs
      BY <2>1 DEF Markers
    <3>. QED BY <2>1, <3>1, <3>2 DEF Aged, Markers, Proofs
  <2>. QED BY <2>2, <2>3
<1>2. \A k \in Kinds : marker[k].age \in Nat /\ marker[k].proof.age \in Nat
  BY <1>1, GateAssumption DEF Markers, Proofs
<1>3. MarkersAged'
  BY <1>1, <1>2, GateAssumption
     DEF Evidence, MarkersAged, NoMarker, NoProof, Kinds
<1>4. MarkersFull'
  BY <1>1 DEF Evidence, MarkersFull, Kinds
<1>. QED BY <1>3, <1>4 DEF Evidence, RunAged, RunFull, Tick

LEMMA StampEvidence ==
  ASSUME TypeInv, Evidence, NEW k \in Kinds, NEW key \in Keys,
         NEW proof \in Proofs, Stamp(k, key, proof),
         proof.age <= Fresh - 1, k # "precommit" => proof.age = 0,
         proof.full \/ (k = "precommit" /\ key.fast)
  PROVE  MarkersAged' /\ MarkersFull'
<1>1. /\ marker'[k] = [age |-> 0, key |-> key, proof |-> proof]
      /\ \A j \in Kinds \ {k} : marker'[j] = marker[j]
  BY DEF Stamp, TypeInv, TypeOK
<1>2. MarkersAged'
  BY <1>1, GateAssumption DEF Evidence, MarkersAged, Kinds, Proofs
<1>3. MarkersFull'
  BY <1>1 DEF Evidence, MarkersFull, Kinds
<1>. QED BY <1>2, <1>3

(* A marker that can never match is no marker.                               *)
LEMMA ForgottenEvidence ==
  ASSUME TypeInv, Evidence,
         marker' = [marker EXCEPT !["precommit"] = NoMarker]
  PROVE  MarkersAged' /\ MarkersFull'
<1>1. /\ marker'["precommit"] = NoMarker
      /\ \A k \in {"changed", "full"} : marker'[k] = marker[k]
  BY DEF TypeInv, TypeOK, Kinds
<1>. QED BY <1>1, GateAssumption
         DEF Evidence, MarkersAged, MarkersFull, NoMarker, NoProof

LEMMA PassEvidence ==
  ASSUME TypeInv, Evidence, NEW g \in Gates, NEW proof \in Proofs,
         NEW record \in BOOLEAN, Pass(g, proof, record),
         MarkersAged', MarkersFull',
         run[g].kind = "precommit" => /\ proof.age <= 2 * (Fresh - 1)
                                      /\ ~record => proof.full
  PROVE  Evidence'
<1>1. \A f \in Gates \ {g} : pc'[f] = pc[f] /\ run'[f] = run[f]
  BY DEF Pass, Stop, TypeInv, TypeOK
<1>2. CASE run[g].kind = "precommit"
  <2>1. /\ run' = [run EXCEPT ![g] = [@ EXCEPT !.proof = proof,
                     !.record = record, !.key = NoKey, !.fast = FALSE]]
        /\ pc' = [pc EXCEPT ![g] = "passed"]
    BY <1>2 DEF Pass
  <2>2. pc'[g] = "passed" /\ run'[g].proof = proof /\ run'[g].record = record
    BY <2>1 DEF TypeInv, TypeOK, Runs
  <2>. QED BY <1>1, <1>2, <2>2 DEF Evidence, RunAged, RunFull
<1>3. CASE run[g].kind # "precommit"
  <2>1. pc'[g] = "done"
    BY <1>3 DEF Pass, Stop, TypeInv, TypeOK
  <2>. QED BY <1>1, <2>1 DEF Evidence, RunAged, RunFull
<1>. QED BY <1>2, <1>3

(* A marker of a manual gate is of this run alone, and of every slot.        *)
LEMMA BridgeEvidence ==
  ASSUME TypeInv, Evidence, NEW k \in {"changed", "full"}, Bridges(k)
  PROVE  /\ marker[k].proof \in Proofs
         /\ marker[k].proof.age <= Fresh - 1 /\ marker[k].proof.full
<1>1. marker[k] \in Markers /\ marker[k].age < Fresh
  BY DEF TypeInv, TypeOK, Basic, Kinds
<1>. QED BY <1>1, GateAssumption
         DEF Bridges, Matches, Evidence, MarkersAged, MarkersFull, Markers

LEMMA GateEvidence ==
  ASSUME TypeInv, Evidence, NEW g \in Gates, GateStep(g)
  PROVE  Evidence'
<1>0. /\ run[g] \in Runs /\ run[g].fast \in BOOLEAN /\ run[g].proof \in Proofs
      /\ (pc[g] \in Active => run[g].kind \in Kinds)
      /\ (pc[g] \in {"bridge", "stamp", "passed"} => run[g].kind = "precommit")
      /\ (run[g].fast => run[g].kind = "precommit")
  BY DEF TypeInv, TypeOK, Basic, Runs
<1>1. CASE \/ Start(g) \/ Lock(g) \/ GiveUp(g) \/ Snapshot(g) \/ Admitted(g)
           \/ MarkerMiss(g) \/ BridgeMiss(g) \/ PrepareSlots(g)
           \/ CommitRejected(g)
  <2>1. /\ UNCHANGED marker
        /\ \A f \in Gates \ {g} : pc'[f] = pc[f] /\ run'[f] = run[f]
        /\ pc'[g] \in {"waiting", "locked", "done", "admit", "look", "bridge",
                       "prepare", "slots"}
    <3>1. CASE \/ Start(g) \/ Lock(g) \/ GiveUp(g) \/ CommitRejected(g)
      BY <3>1 DEF Start, Lock, GiveUp, CommitRejected, Stop, TypeInv, TypeOK
    <3>2. CASE \/ Admitted(g) \/ BridgeMiss(g) \/ MarkerMiss(g)
      BY <3>2 DEF Admitted, BridgeMiss, MarkerMiss, TypeInv, TypeOK
    <3>3. CASE Snapshot(g)
      BY <3>3 DEF Snapshot, TypeInv, TypeOK
    <3>4. CASE PrepareSlots(g)
      BY <3>4 DEF PrepareSlots, TypeInv, TypeOK
    <3>. QED BY <1>1, <3>1, <3>2, <3>3, <3>4
  <2>. QED BY <2>1, OnTheWayEvidence
<1>2. CASE MarkerHit(g)
  <2>. DEFINE k == run[g].kind
  <2>1. /\ k \in Kinds /\ marker[k] # NoMarker /\ marker[k].key = RunKey(g)
        /\ Pass(g, marker[k].proof, run[g].fast) /\ UNCHANGED marker
    BY <1>0, <1>2 DEF MarkerHit, Matches, Active, Phases
  <2>2. marker[k].proof \in Proofs
    BY <2>1 DEF TypeInv, TypeOK, Markers
  <2>3. MarkersAged' /\ MarkersFull'
    BY <2>1 DEF Evidence, MarkersAged, MarkersFull
  <2>4. ASSUME k = "precommit"
        PROVE  /\ marker[k].proof.age <= 2 * (Fresh - 1)
               /\ ~run[g].fast => marker[k].proof.full
    <3>1. marker[k].key.fast = run[g].fast
      BY <2>1, <2>4 DEF RunKey, KeyNow
    <3>2. marker[k].age \in Nat /\ marker[k].age < Fresh
          /\ marker[k].proof.age \in Nat
      BY <2>1, <2>2, GateAssumption DEF TypeInv, TypeOK, Basic, Markers, Proofs
    <3>3. marker[k].proof.age <= marker[k].age + (Fresh - 1)
      BY <2>4 DEF Evidence, MarkersAged
    <3>4. marker[k].proof.age <= 2 * (Fresh - 1)
      BY <3>2, <3>3, GateAssumption
    <3>. QED BY <2>1, <2>4, <3>1, <3>4 DEF Evidence, MarkersFull
  <2>. QED BY <1>0, <2>1, <2>2, <2>3, <2>4, PassEvidence
<1>3. CASE BridgeMatch(g)
  <2>. PICK k \in {"changed", "full"} :
         /\ Bridges(k)
         /\ run' = [run EXCEPT ![g] = [@ EXCEPT !.proof = marker[k].proof,
                                                !.key = KeyNow(k, FALSE)]]
    BY <1>3 DEF BridgeMatch
  <2>1. marker[k].proof.age <= Fresh - 1 /\ marker[k].proof.full
    BY BridgeEvidence
  <2>2. pc' = [pc EXCEPT ![g] = "stamp"] /\ UNCHANGED marker
    BY <1>3 DEF BridgeMatch
  <2>3. run'[g].proof = marker[k].proof /\ pc'[g] = "stamp"
        /\ \A f \in Gates \ {g} : pc'[f] = pc[f] /\ run'[f] = run[f]
    BY <2>2 DEF TypeInv, TypeOK, Runs
  <2>. QED BY <2>1, <2>2, <2>3
           DEF Evidence, MarkersAged, MarkersFull, RunAged, RunFull
<1>4. CASE BridgeStamp(g)
  <2>. DEFINE proof == IF run[g].disturbed
                       THEN [run[g].proof EXCEPT !.tested = Nothing]
                       ELSE run[g].proof
  <2>1. /\ \/ Stamp("precommit", RunKey(g), proof)
           \/ marker' = [marker EXCEPT !["precommit"] = NoMarker]
        /\ Pass(g, proof, FALSE) /\ pc[g] = "stamp"
    BY <1>4 DEF BridgeStamp
  <2>2. proof \in Proofs /\ proof.age = run[g].proof.age
        /\ proof.full = run[g].proof.full
    BY <1>0 DEF Proofs
  <2>. HIDE DEF proof
  <2>3. proof.age <= Fresh - 1 /\ proof.full
    BY <2>1, <2>2 DEF Evidence, RunAged, RunFull
  <2>4. RunKey(g) \in Keys
    BY <2>1, RunKeyTyped DEF TypeInv, Active, Phases
  <2>5. MarkersAged' /\ MarkersFull'
    <3>1. CASE Stamp("precommit", RunKey(g), proof)
      BY <2>2, <2>3, <2>4, <3>1, StampEvidence DEF Kinds
    <3>2. CASE marker' = [marker EXCEPT !["precommit"] = NoMarker]
      BY <3>2, ForgottenEvidence
    <3>. QED BY <2>1, <3>1, <3>2
  <2>6. proof.age <= 2 * (Fresh - 1)
    BY <2>2, <2>3, GateAssumption DEF Proofs
  <2>. QED BY <2>1, <2>2, <2>3, <2>5, <2>6, PassEvidence
<1>5. CASE SlotsPass(g)
  <2>. DEFINE key == IF run[g].kind = "precommit" THEN RunKey(g)
                     ELSE run[g].key
              proof == [tested |-> IF run[g].disturbed THEN Nothing ELSE tree,
                        age |-> 0, full |-> ~run[g].fast]
  <2>1. /\ Stamp(run[g].kind, key, proof) \/ UNCHANGED marker
        /\ Pass(g, proof, run[g].fast) /\ pc[g] = "slots"
        /\ run[g].kind \in Kinds
    BY <1>0, <1>5 DEF SlotsPass, Active, Phases
  <2>2. key \in Keys
    BY <1>0, <2>1, RunKeyTyped DEF TypeInv, Runs, Active, Phases
  <2>3. /\ proof \in Proofs /\ proof.age = 0 /\ proof.age <= Fresh - 1
        /\ ~run[g].fast => proof.full
    <3>1. proof \in Proofs /\ proof.age = 0 /\ proof.full = ~run[g].fast
      BY <1>0 DEF Proofs, TypeInv, TypeOK
    <3>2. 0 <= Fresh - 1
      BY GateAssumption
    <3>. HIDE DEF proof
    <3>. QED BY <3>1, <3>2
  <2>4. ASSUME run[g].fast PROVE key.fast
    <3>1. run[g].kind = "precommit" /\ run[g].fast = TRUE
      BY <1>0, <2>4
    <3>2. RunKey(g).fast = TRUE
      BY <3>1 DEF RunKey, KeyNow
    <3>. QED BY <3>1, <3>2
  <2>. HIDE DEF key, proof
  <2>5. MarkersAged' /\ MarkersFull'
    <3>1. CASE Stamp(run[g].kind, key, proof)
      BY <1>0, <2>1, <2>2, <2>3, <2>4, <3>1, StampEvidence
    <3>2. CASE UNCHANGED marker
      BY <3>2 DEF Evidence, MarkersAged, MarkersFull
    <3>. QED BY <2>1, <3>1, <3>2
  <2>6. 0 <= 2 * (Fresh - 1)
    BY GateAssumption
  <2>. QED BY <1>0, <2>1, <2>3, <2>5, <2>6, PassEvidence
<1>6. ASSUME NEW h \in Heads, Commit(g, h) PROVE Evidence'
  <2>1. /\ UNCHANGED marker /\ pc' = [pc EXCEPT ![g] = "done"]
        /\ run' = [f \in Gates |-> IF f = g THEN NoRun ELSE Disturb(f)]
    BY <1>6 DEF Commit
  <2>2. ASSUME NEW f \in Gates
        PROVE  \/ pc'[f] = "done"
               \/ pc'[f] = pc[f] /\ run'[f] = Disturb(f)
    BY <2>1 DEF TypeInv, TypeOK
  <2>. QED BY <2>1, <2>2, WorkEvidence
<1>. QED BY <1>1, <1>2, <1>3, <1>4, <1>5, <1>6 DEF GateStep

LEMMA EvidenceStep == TypeInv /\ Evidence /\ [Next]_vars => Evidence'
<1>. SUFFICES ASSUME TypeInv, Evidence, [Next]_vars PROVE Evidence'
  OBVIOUS
<1>1. CASE \E g \in Gates : GateStep(g)
  BY <1>1, GateEvidence
<1>2. CASE WorkStep
  <2>1. CASE FlipToggle \/ UNCHANGED vars
    BY <2>1 DEF FlipToggle, vars, Evidence, MarkersAged, MarkersFull, RunAged,
                RunFull
  <2>2. ASSUME \/ \E c \in Contents : Edit(c)
               \/ Stage
               \/ \E h \in Heads : MoveHead(h)
        PROVE  Evidence'
    <3>1. /\ UNCHANGED marker
          /\ \A g \in Gates : pc'[g] = pc[g] /\ run'[g] = Disturb(g)
      BY <2>2 DEF Edit, Stage, MoveHead
    <3>. QED BY <3>1, WorkEvidence
  <2>. QED BY <1>2, <2>1, <2>2, TickEvidence DEF WorkStep
<1>3. CASE UNCHANGED vars
  BY <1>3 DEF vars, Evidence, MarkersAged, MarkersFull, RunAged, RunFull
<1>. QED BY <1>1, <1>2, <1>3 DEF Next

(* A commit not recorded as fast rests on a run of every slot, however often
   the toggle flips and whichever marker it passed by.                       *)
THEOREM FullRests == Spec => []FullRestsOnFull
<1>1. Evidence => FullRestsOnFull
  BY DEF Evidence, RunFull, FullRestsOnFull, Passed
<1>. QED BY <1>1, TypeInit, TypeStep, EvidenceInit, EvidenceStep, PTL DEF Spec

(* Evidence is stamped anew once at most: what a commit rests on is less than
   twice the window old, for every window.                                   *)
THEOREM Freshness == Spec => []EvidenceFresh
<1>1. Evidence => EvidenceFresh
  BY DEF Evidence, RunAged, EvidenceFresh, Passed
<1>. QED BY <1>1, TypeInit, TypeStep, EvidenceInit, EvidenceStep, PTL DEF Spec

-----------------------------------------------------------------------------
(* What markers and passes say about the content.                            *)

(* A key of kind k stands for content t: for the worktree where a whole gate
   ran, for the staged files otherwise.                                      *)
SoundKey(k, key, t) ==
  /\ key.head \in Heads /\ content[key.head] # Nothing
  /\ k = "full" => key.files = Diff[content[key.head]][t]
  /\ k # "full" => key.staged = Diff[content[key.head]][t]

MarkersSound ==
  \A k \in Kinds :
    marker[k].proof.tested # Nothing
      => SoundKey(k, marker[k].key, marker[k].proof.tested)

Calm(g) == pc[g] \in Active /\ ~run[g].disturbed

RunSound(g) ==
  Calm(g) =>
    /\ run[g].kind # "full" => tree = idx
    /\ pc[g] = "slots" /\ run[g].kind # "precommit" => run[g].key = RunKey(g)
    /\ pc[g] \in {"stamp", "passed"} /\ run[g].proof.tested # Nothing
         => run[g].proof.tested = idx

Sound == MarkersSound /\ \A g \in Gates : RunSound(g)

LEMMA SoundInit == Init => Sound
BY DEF Init, Sound, MarkersSound, RunSound, Calm, Active, NoMarker, NoProof

(* The key of now stands for what is there now, and for nothing else.        *)
LEMMA KeySound ==
  ASSUME TypeInv, NEW k \in Kinds, NEW fast \in BOOLEAN
  PROVE  /\ SoundKey(k, KeyNow(k, fast), IF k = "full" THEN tree ELSE idx)
         /\ \A t \in Contents : SoundKey(k, KeyNow(k, fast), t)
                                => t = IF k = "full" THEN tree ELSE idx
<1>1. head \in Heads /\ Base \in Contents /\ Base = content[head]
      /\ tree \in Contents /\ idx \in Contents /\ content[head] # Nothing
  BY DEF TypeInv, TypeOK, Basic, Base
<1>2. CASE k = "precommit"
  BY <1>1, <1>2, GateAssumption DEF KeyNow, SoundKey
<1>3. CASE k = "changed"
  BY <1>1, <1>3, GateAssumption DEF KeyNow, SoundKey
<1>4. CASE k = "full"
  BY <1>1, <1>4, GateAssumption DEF KeyNow, SoundKey
<1>. QED BY <1>2, <1>3, <1>4 DEF Kinds

(* A marker that matches now was earned by what is there now.                *)
LEMMA MatchSound ==
  ASSUME TypeInv, Sound, NEW k \in Kinds, NEW fast \in BOOLEAN,
         Matches(k, KeyNow(k, fast)), marker[k].proof.tested # Nothing
  PROVE  marker[k].proof.tested = IF k = "full" THEN tree ELSE idx
<1>1. marker[k].proof.tested \in Contents
  BY DEF TypeInv, TypeOK, Markers, Proofs
<1>. QED BY <1>1, KeySound DEF Sound, MarkersSound, Matches

(* A step of one gate.                                                       *)
LEMMA QuietSound ==
  ASSUME TypeInv, Sound, NEW g \in Gates, UNCHANGED repoVars, MarkersSound',
         \A f \in Gates \ {g} : pc'[f] = pc[f] /\ run'[f] = run[f],
         RunSound(g)'
  PROVE  Sound'
<1>1. ASSUME NEW f \in Gates \ {g} PROVE RunSound(f)'
  BY <1>1 DEF Sound, RunSound, Calm, RunKey, KeyNow, Base, repoVars
<1>. QED BY <1>1 DEF Sound

LEMMA MarkersStay ==
  ASSUME Sound, UNCHANGED <<content, marker>>
  PROVE  MarkersSound'
BY DEF Sound, MarkersSound, SoundKey

LEMMA StampSound ==
  ASSUME TypeInv, Sound, NEW k \in Kinds, NEW key \in Keys,
         NEW proof \in Proofs, Stamp(k, key, proof), UNCHANGED content,
         proof.tested # Nothing => SoundKey(k, key, proof.tested)
  PROVE  MarkersSound'
<1>1. /\ marker'[k] = [age |-> 0, key |-> key, proof |-> proof]
      /\ \A j \in Kinds \ {k} : marker'[j] = marker[j]
  BY DEF Stamp, TypeInv, TypeOK
<1>. QED BY <1>1 DEF Sound, MarkersSound, SoundKey

LEMMA PassSound ==
  ASSUME TypeInv, Sound, NEW g \in Gates, NEW proof \in Proofs,
         NEW record \in BOOLEAN, Pass(g, proof, record), MarkersSound',
         UNCHANGED repoVars, pc[g] \in Active,
         run[g].kind = "precommit" /\ ~run[g].disturbed
           /\ proof.tested # Nothing => proof.tested = idx
  PROVE  Sound'
<1>1. \A f \in Gates \ {g} : pc'[f] = pc[f] /\ run'[f] = run[f]
  BY DEF Pass, Stop, TypeInv, TypeOK
<1>2. CASE run[g].kind = "precommit"
  <2>1. /\ run' = [run EXCEPT ![g] = [@ EXCEPT !.proof = proof,
                     !.record = record, !.key = NoKey, !.fast = FALSE]]
        /\ pc' = [pc EXCEPT ![g] = "passed"]
    BY <1>2 DEF Pass
  <2>2. pc'[g] = "passed" /\ run'[g].proof = proof
        /\ run'[g].disturbed = run[g].disturbed /\ run'[g].kind = run[g].kind
    BY <2>1 DEF TypeInv, TypeOK, Runs
  <2>3. ~run[g].disturbed => tree = idx
    BY <1>2 DEF Sound, RunSound, Calm
  <2>4. tree' = tree /\ idx' = idx
    BY DEF repoVars
  <2>5. RunSound(g)'
    BY <1>2, <2>2, <2>3, <2>4 DEF RunSound, Calm
  <2>. QED BY <1>1, <2>5, QuietSound
<1>3. CASE run[g].kind # "precommit"
  <2>1. pc'[g] = "done"
    BY <1>3 DEF Pass, Stop, TypeInv, TypeOK
  <2>2. RunSound(g)'
    BY <2>1 DEF RunSound, Calm, Active
  <2>. QED BY <1>1, <2>2, QuietSound
<1>. QED BY <1>2, <1>3

(* Whoever touches the worktree under a gate disturbs it, and commits that
   exist stay what they are.                                                 *)
LEMMA WorkSound ==
  ASSUME TypeInv, Sound, Active \subseteq HandsOff, UNCHANGED marker,
         \A h \in Heads : content[h] # Nothing => content'[h] = content[h],
         \A g \in Gates : \/ pc'[g] = "done"
                          \/ pc'[g] = pc[g] /\ run'[g] = Disturb(g)
  PROVE  Sound'
<1>1. ASSUME NEW g \in Gates PROVE RunSound(g)'
  <2>1. CASE pc'[g] = "done"
    BY <2>1 DEF RunSound, Calm, Active
  <2>2. CASE pc'[g] = pc[g] /\ run'[g] = Disturb(g)
    <3>1. ASSUME pc[g] \in Active PROVE Disturb(g).disturbed
      <4>. DEFINE d == run[g].disturbed \/ pc[g] \in HandsOff
      <4>1. d = TRUE
        BY <3>1
      <4>2. Disturb(g) = [run[g] EXCEPT !.disturbed = d]
        BY DEF Disturb
      <4>. HIDE DEF d
      <4>. QED BY <4>1, <4>2 DEF TypeInv, TypeOK, Runs
    <3>. QED BY <2>2, <3>1 DEF RunSound, Calm
  <2>. QED BY <2>1, <2>2
<1>2. MarkersSound'
  BY DEF Sound, MarkersSound, SoundKey
<1>. QED BY <1>1, <1>2 DEF Sound

LEMMA TickSound ==
  ASSUME TypeInv, Sound, Tick
  PROVE  Sound'
<1>1. ASSUME NEW k \in Kinds
      PROVE  \/ marker'[k] = NoMarker
             \/ /\ marker'[k].key = marker[k].key
                /\ marker'[k].proof.tested = marker[k].proof.tested
  <2>1. marker'[k] = Older(marker[k]) /\ marker[k] \in Markers
    BY DEF Tick, TypeInv, TypeOK
  <2>2. CASE Older(marker[k]) = NoMarker
    BY <2>1, <2>2
  <2>3. CASE Older(marker[k]) = Aged(marker[k])
    BY <2>1, <2>3 DEF Aged, Markers, Proofs
  <2>. QED BY <2>2, <2>3 DEF Older
<1>2. UNCHANGED <<head, content, idx, tree, pc, run>>
  BY DEF Tick, repoVars
<1>3. MarkersSound'
  BY SMTT(30), <1>1, <1>2 DEF Sound, MarkersSound, SoundKey, NoMarker, NoProof
<1>4. ASSUME NEW g \in Gates PROVE RunSound(g)'
  BY <1>2 DEF Sound, RunSound, Calm, RunKey, KeyNow, Base
<1>. QED BY <1>3, <1>4 DEF Sound

LEMMA GateSound ==
  ASSUME TypeInv, Sound, Active \subseteq HandsOff,
         NEW g \in Gates, GateStep(g)
  PROVE  Sound'
<1>0. /\ run[g] \in Runs /\ run[g].fast \in BOOLEAN /\ run[g].proof \in Proofs
      /\ (pc[g] \in Active => run[g].kind \in Kinds)
      /\ (pc[g] \in {"bridge", "stamp", "passed"} => run[g].kind = "precommit")
      /\ (run[g].fast => run[g].kind = "precommit")
      /\ \A f \in Gates : RunSound(f)
  BY DEF TypeInv, TypeOK, Basic, Runs, Sound
<1>1. CASE GiveUp(g) \/ CommitRejected(g)
  <2>1. /\ UNCHANGED <<repoVars, marker>> /\ pc'[g] = "done"
        /\ \A f \in Gates \ {g} : pc'[f] = pc[f] /\ run'[f] = run[f]
    BY <1>1 DEF GiveUp, CommitRejected, Stop, TypeInv, TypeOK
  <2>2. RunSound(g)'
    BY <2>1 DEF RunSound, Calm, Active
  <2>. QED BY <2>1, <2>2, MarkersStay, QuietSound DEF repoVars
<1>2. CASE Start(g)
  <2>. PICK k \in Modes[g], f \in BOOLEAN :
         /\ k # "full" => tree = idx
         /\ run' = [run EXCEPT ![g] = [@ EXCEPT !.kind = k, !.force = f]]
    BY <1>2 DEF Start
  <2>1. /\ UNCHANGED <<repoVars, marker>> /\ pc' = [pc EXCEPT ![g] = "waiting"]
    BY <1>2 DEF Start
  <2>2. /\ pc'[g] = "waiting" /\ run'[g].kind = k
        /\ \A e \in Gates \ {g} : pc'[e] = pc[e] /\ run'[e] = run[e]
    BY <2>1 DEF TypeInv, TypeOK, Runs
  <2>3. RunSound(g)'
    BY <2>1, <2>2 DEF RunSound, Calm, repoVars
  <2>. QED BY <2>1, <2>2, <2>3, MarkersStay, QuietSound DEF repoVars
<1>3. CASE \/ Lock(g) \/ Snapshot(g) \/ Admitted(g) \/ MarkerMiss(g)
           \/ BridgeMiss(g)
  <2>1. /\ UNCHANGED <<repoVars, marker>>
        /\ \A f \in Gates \ {g} : pc'[f] = pc[f] /\ run'[f] = run[f]
        /\ run'[g].kind = run[g].kind /\ run'[g].disturbed = run[g].disturbed
        /\ pc[g] \in Active
        /\ pc'[g] \notin {"slots", "stamp", "passed"}
    <3>1. CASE Lock(g) \/ BridgeMiss(g)
      BY <3>1 DEF Lock, BridgeMiss, TypeInv, TypeOK, Active, Phases
    <3>2. CASE Snapshot(g)
      BY <3>2 DEF Snapshot, TypeInv, TypeOK, Runs, Active, Phases
    <3>3. CASE MarkerMiss(g)
      BY <3>3 DEF MarkerMiss, TypeInv, TypeOK, Runs, Active, Phases
    <3>4. CASE Admitted(g)
      BY <3>4 DEF Admitted, TypeInv, TypeOK, Runs, Active, Phases
    <3>. QED BY <1>3, <3>1, <3>2, <3>3, <3>4
  <2>2. RunSound(g)'
    BY <1>0, <2>1 DEF RunSound, Calm, repoVars
  <2>. QED BY <2>1, <2>2, MarkersStay, QuietSound DEF repoVars
<1>4. CASE PrepareSlots(g)
  <2>1. /\ UNCHANGED <<repoVars, marker>> /\ pc' = [pc EXCEPT ![g] = "slots"]
        /\ run' = [run EXCEPT ![g] = IF run[g].kind = "precommit" THEN @
                                     ELSE [@ EXCEPT !.key = RunKey(g)]]
        /\ pc[g] \in Active
    BY <1>4 DEF PrepareSlots, Active, Phases
  <2>2. /\ run'[g].kind = run[g].kind /\ run'[g].disturbed = run[g].disturbed
        /\ run'[g].fast = run[g].fast
        /\ run[g].kind # "precommit" => run'[g].key = RunKey(g)
    BY <1>0, <2>1 DEF TypeInv, TypeOK, Runs
  <2>3. RunKey(g)' = RunKey(g)
    BY <2>1, <2>2 DEF RunKey, KeyNow, Base, repoVars
  <2>4. pc'[g] = "slots"
        /\ \A f \in Gates \ {g} : pc'[f] = pc[f] /\ run'[f] = run[f]
    BY <2>1 DEF TypeInv, TypeOK
  <2>5. RunSound(g)'
    BY <1>0, <2>1, <2>2, <2>3, <2>4 DEF RunSound, Calm, repoVars
  <2>. QED BY <2>1, <2>4, <2>5, MarkersStay, QuietSound DEF repoVars
<1>5. CASE MarkerHit(g)
  <2>. DEFINE k == run[g].kind
  <2>1. /\ k \in Kinds /\ Matches(k, KeyNow(k, run[g].fast))
        /\ Pass(g, marker[k].proof, run[g].fast)
        /\ UNCHANGED <<repoVars, marker>> /\ pc[g] \in Active
    BY <1>0, <1>5 DEF MarkerHit, RunKey, Active, Phases
  <2>2. marker[k].proof \in Proofs
    BY <2>1 DEF TypeInv, TypeOK, Markers
  <2>3. k = "precommit" /\ marker[k].proof.tested # Nothing
          => marker[k].proof.tested = idx
    BY <1>0, <2>1, MatchSound
  <2>4. MarkersSound'
    BY <2>1, MarkersStay DEF repoVars
  <2>. QED BY <1>0, <2>1, <2>2, <2>3, <2>4, PassSound
<1>6. CASE BridgeMatch(g)
  <2>. PICK k \in {"changed", "full"} :
         /\ Bridges(k)
         /\ run' = [run EXCEPT ![g] = [@ EXCEPT !.proof = marker[k].proof,
                                                !.key = KeyNow(k, FALSE)]]
    BY <1>6 DEF BridgeMatch
  <2>1. /\ UNCHANGED <<repoVars, marker>> /\ pc' = [pc EXCEPT ![g] = "stamp"]
        /\ pc[g] = "bridge"
    BY <1>6 DEF BridgeMatch
  <2>2. /\ pc'[g] = "stamp" /\ run'[g].proof = marker[k].proof
        /\ run'[g].kind = run[g].kind /\ run'[g].disturbed = run[g].disturbed
        /\ \A f \in Gates \ {g} : pc'[f] = pc[f] /\ run'[f] = run[f]
    BY <2>1 DEF TypeInv, TypeOK, Runs
  <2>3. marker[k].proof.tested # Nothing
          => marker[k].proof.tested = IF k = "full" THEN tree ELSE idx
    BY MatchSound DEF Bridges, Kinds
  <2>4. Calm(g) => tree = idx
    BY <1>0, <2>1 DEF RunSound
  <2>5. Calm(g)' => Calm(g)
    BY <2>1, <2>2 DEF Calm, Active, Phases
  <2>6. RunSound(g)'
    BY <1>0, <2>1, <2>2, <2>3, <2>4, <2>5 DEF RunSound, repoVars
  <2>. QED BY <2>1, <2>2, <2>6, MarkersStay, QuietSound DEF repoVars
<1>7. CASE BridgeStamp(g)
  <2>. DEFINE proof == IF run[g].disturbed
                       THEN [run[g].proof EXCEPT !.tested = Nothing]
                       ELSE run[g].proof
  <2>1. /\ \/ Stamp("precommit", RunKey(g), proof)
           \/ marker' = [marker EXCEPT !["precommit"] = NoMarker]
        /\ Pass(g, proof, FALSE)
        /\ UNCHANGED repoVars /\ pc[g] = "stamp" /\ pc[g] \in Active
        /\ run[g].kind = "precommit"
    BY <1>0, <1>7 DEF BridgeStamp, Active, Phases
  <2>2. proof \in Proofs /\ (run[g].disturbed => proof.tested = Nothing)
    BY <1>0 DEF Proofs
  <2>3. ~run[g].disturbed => proof = run[g].proof
    OBVIOUS
  <2>. HIDE DEF proof
  <2>4. proof.tested # Nothing => proof.tested = idx
    BY <1>0, <2>1, <2>2, <2>3 DEF RunSound, Calm
  <2>5. RunKey(g) \in Keys /\ UNCHANGED content
    BY <2>1, RunKeyTyped DEF TypeInv, repoVars
  <2>6. SoundKey("precommit", RunKey(g), idx)
    BY <1>0, <2>1, KeySound DEF RunKey, Kinds
  <2>7. MarkersSound'
    <3>1. CASE Stamp("precommit", RunKey(g), proof)
      BY <2>2, <2>4, <2>5, <2>6, <3>1, StampSound DEF Kinds
    <3>2. CASE marker' = [marker EXCEPT !["precommit"] = NoMarker]
      <4>1. \A k \in Kinds : marker'[k] = marker[k] \/ marker'[k] = NoMarker
        BY <3>2 DEF TypeInv, TypeOK
      <4>. QED BY <2>5, <4>1 DEF Sound, MarkersSound, SoundKey, NoMarker, NoProof
    <3>. QED BY <2>1, <3>1, <3>2
  <2>. QED BY <2>1, <2>2, <2>4, <2>7, PassSound
<1>8. CASE SlotsPass(g)
  <2>. DEFINE k == run[g].kind
              key == IF k = "precommit" THEN RunKey(g) ELSE run[g].key
              proof == [tested |-> IF run[g].disturbed THEN Nothing ELSE tree,
                        age |-> 0, full |-> ~run[g].fast]
  <2>1. /\ Stamp(k, key, proof) \/ UNCHANGED marker
        /\ Pass(g, proof, run[g].fast) /\ UNCHANGED repoVars
        /\ pc[g] = "slots" /\ pc[g] \in Active /\ k \in Kinds
    BY <1>0, <1>8 DEF SlotsPass, Active, Phases
  <2>2. key \in Keys
    BY <1>0, <2>1, RunKeyTyped DEF TypeInv, Runs
  <2>3. proof \in Proofs
        /\ proof.tested = IF run[g].disturbed THEN Nothing ELSE tree
    BY <1>0 DEF Proofs, TypeInv, TypeOK
  <2>4. ~run[g].disturbed => /\ key = RunKey(g)
                             /\ k # "full" => tree = idx
    BY <1>0, <2>1 DEF RunSound, Calm
  <2>5. SoundKey(k, RunKey(g), IF k = "full" THEN tree ELSE idx)
    BY <1>0, <2>1, KeySound DEF RunKey
  <2>6. UNCHANGED content
    BY <2>1 DEF repoVars
  <2>. HIDE DEF key, proof
  <2>7. proof.tested # Nothing => SoundKey(k, key, proof.tested)
    BY <2>3, <2>4, <2>5
  <2>8. MarkersSound'
    <3>1. CASE Stamp(k, key, proof)
      BY <2>1, <2>2, <2>3, <2>6, <2>7, <3>1, StampSound
    <3>2. CASE UNCHANGED marker
      BY <2>6, <3>2, MarkersStay
    <3>. QED BY <2>1, <3>1, <3>2
  <2>9. k = "precommit" /\ ~run[g].disturbed => proof.tested = idx
    BY <2>3, <2>4
  <2>. QED BY <1>0, <2>1, <2>3, <2>8, <2>9, PassSound
<1>9. ASSUME NEW h \in Heads, Commit(g, h) PROVE Sound'
  <2>1. /\ UNCHANGED marker /\ pc' = [pc EXCEPT ![g] = "done"]
        /\ run' = [f \in Gates |-> IF f = g THEN NoRun ELSE Disturb(f)]
        /\ content[h] = Nothing /\ content' = [content EXCEPT ![h] = idx]
    BY <1>9 DEF Commit
  <2>2. ASSUME NEW f \in Gates
        PROVE  \/ pc'[f] = "done"
               \/ pc'[f] = pc[f] /\ run'[f] = Disturb(f)
    BY <2>1 DEF TypeInv, TypeOK
  <2>3. \A d \in Heads : content[d] # Nothing => content'[d] = content[d]
    BY <2>1 DEF TypeInv, TypeOK
  <2>. QED BY <2>1, <2>2, <2>3, WorkSound
<1>. QED BY <1>1, <1>2, <1>3, <1>4, <1>5, <1>6, <1>7, <1>8, <1>9 DEF GateStep

LEMMA SoundStep ==
  ASSUME Active \subseteq HandsOff
  PROVE  TypeInv /\ Sound /\ [Next]_vars => Sound'
<1>. SUFFICES ASSUME TypeInv, Sound, [Next]_vars PROVE Sound'
  OBVIOUS
<1>1. CASE \E g \in Gates : GateStep(g)
  BY <1>1, GateSound
<1>2. CASE FlipToggle \/ UNCHANGED vars
  <2>1. UNCHANGED <<head, content, idx, tree, marker, pc, run>>
    BY <1>2 DEF FlipToggle, vars, repoVars
  <2>2. ASSUME NEW g \in Gates PROVE RunSound(g)'
    BY <2>1 DEF Sound, RunSound, Calm, RunKey, KeyNow, Base
  <2>. QED BY <2>1, <2>2, MarkersStay DEF Sound
<1>3. ASSUME \/ \E c \in Contents : Edit(c)
             \/ Stage
             \/ \E h \in Heads : MoveHead(h)
      PROVE  Sound'
  <2>1. /\ UNCHANGED <<content, marker>>
        /\ \A g \in Gates : pc'[g] = pc[g] /\ run'[g] = Disturb(g)
    BY <1>3 DEF Edit, Stage, MoveHead
  <2>. QED BY <2>1, WorkSound
<1>. QED BY <1>1, <1>2, <1>3, TickSound DEF Next, WorkStep

(* With the worktree left alone from a gate's first check to its commit, what
   is committed is what slots have read, for any number of gates, commits and
   contents.  Without the hypothesis an edit made while a gate waits for its
   locks refutes it.                                                         *)
THEOREM Tested ==
  ASSUME Active \subseteq HandsOff
  PROVE  Spec => []CommitTested
<1>1. Sound => CommitTested
  BY DEF Sound, RunSound, Calm, CommitTested, Passed, Active, Phases
<1>. QED BY <1>1, TypeInit, TypeStep, SoundInit, SoundStep, PTL DEF Spec

=============================================================================
