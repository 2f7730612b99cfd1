-------------------------- MODULE FastCommitProofs --------------------------
(* Theorems about FastCommit for every set of worktrees, processes and       *)
(* commits: debt is cleared under evidence only, is never lost, and is paid  *)
(* before it is published.                                                   *)
EXTENDS FastCommit, TLAPS

(* The part of TypeOK that types the committers' own variables.            *)
RunType ==
  /\ pc \in [Committers -> CommitPhases]
  /\ base \in [Committers -> Refs]
  /\ snap \in [Committers -> BOOLEAN]
  /\ skips \in [Committers -> BOOLEAN]
  /\ todo \in [Committers -> SUBSET Commits]

LEMMA InitTypeOK == Init => TypeOK
  BY FastCommitAssumption, SMTT(60)
     DEF Init, TypeOK, Refs, NoPending, NoMarker, CommitPhases, PushPhases

LEMMA StopType ==
  ASSUME TypeOK, NEW p \in Committers, Stop(p)
  PROVE  RunType'
  BY DEF TypeOK, RunType, Stop, Refs, CommitPhases

LEMMA ExitHookType ==
  ASSUME TypeOK, NEW p \in Committers, NEW r \in BOOLEAN, ExitHook(p, r)
  PROVE  pending' \in [Worktrees -> [parent : Refs \cup {Nobody},
                                     heads : SUBSET Commits]]
  BY FastCommitAssumption DEF TypeOK, RunType, ExitHook, Refs, Pending, NoPending

LEMMA PassType ==
  ASSUME TypeOK, NEW p \in Committers, NEW r \in BOOLEAN, NEW s \in BOOLEAN,
         Pass(p, r, s)
  PROVE  /\ RunType'
         /\ pending' \in [Worktrees -> [parent : Refs \cup {Nobody},
                                        heads : SUBSET Commits]]
<1>1. pending' \in [Worktrees -> [parent : Refs \cup {Nobody},
                                  heads : SUBSET Commits]]
  BY ExitHookType DEF TypeOK, RunType, Pass
<1>. QED BY <1>1 DEF TypeOK, RunType, Pass, CommitPhases

LEMMA StepTypeOK == TypeOK /\ [Next]_vars => TypeOK'
<1>. SUFFICES ASSUME TypeOK, [Next]_vars PROVE TypeOK'
  OBVIOUS
<1>. USE FastCommitAssumption
<1>c. ASSUME NEW p \in Committers, CommitterStep(p) PROVE TypeOK'
  <2>1. CASE StartCommit(p)
    BY <2>1 DEF TypeOK, RunType, StartCommit, repoVars, logVars, gateVars, awayVars, pushVars, CommitPhases
  <2>2. CASE PreflightInterrupted(p)
    BY <2>2, StopType, ExitHookType DEF TypeOK, RunType, PreflightInterrupted, repoVars, logVars, gateVars, awayVars, pushVars
  <2>3. CASE Recover(p)
    <3>1. pending' \in [Worktrees -> [parent : Refs \cup {Nobody},
                                      heads : SUBSET Commits]]
      BY <2>3 DEF TypeOK, RunType, Recover, NoPending
    <3>2. pending[Wt[p]].heads \in SUBSET Commits
      BY DEF TypeOK, RunType
    <3>3. head[Wt[p]] # Root => head[Wt[p]] \in Commits
      BY DEF TypeOK, RunType, Refs
    <3>5. \/ Stop(p)
          \/ /\ \/ pc' = [pc EXCEPT ![p] = "gate"]
                \/ pc' = [pc EXCEPT ![p] = "replay"]
             /\ \/ UNCHANGED todo
                \/ \E shas \in SUBSET Commits : todo' = [todo EXCEPT ![p] = shas]
             /\ UNCHANGED <<base, snap, skips>>
      BY <2>3, <3>2, <3>3 DEF Recover
    <3>4. RunType'
      <4>1. CASE Stop(p)
        BY <4>1, StopType
      <4>2. CASE ~Stop(p)
        <5>1. /\ pc' \in [Committers -> CommitPhases]
              /\ UNCHANGED <<base, snap, skips>>
          BY <4>2, <3>5 DEF TypeOK, CommitPhases
        <5>2. CASE UNCHANGED todo
          BY <5>1, <5>2 DEF TypeOK, RunType
        <5>3. CASE \E shas \in SUBSET Commits : todo' = [todo EXCEPT ![p] = shas]
          <6>1. PICK shas \in SUBSET Commits : todo' = [todo EXCEPT ![p] = shas]
            BY <5>3
          <6>2. todo' \in [Committers -> SUBSET Commits]
            BY <6>1 DEF TypeOK
          <6>. QED BY <5>1, <6>2 DEF TypeOK, RunType
        <5>. QED BY <4>2, <3>5, <5>2, <5>3
      <4>. QED BY <4>1, <4>2
    <3>. QED
      BY <2>3, <3>1, <3>4
         DEF TypeOK, RunType, Recover, repoVars, logVars, gateVars, awayVars, pushVars
  <2>4. CASE AppendHead(p)
    BY <2>4 DEF TypeOK, RunType, AppendHead, repoVars, gateVars, awayVars, pushVars
  <2>5. CASE AppendFails(p)
    BY <2>5, StopType DEF TypeOK, RunType, AppendFails, repoVars, logVars, gateVars, awayVars, pushVars
  <2>6. CASE ConsumePending(p)
    <3>1. pending' \in [Worktrees -> [parent : Refs \cup {Nobody},
                                      heads : SUBSET Commits]]
      BY <2>6 DEF TypeOK, RunType, ConsumePending, NoPending
    <3>2. RunType'
      BY <2>6, StopType DEF TypeOK, RunType, ConsumePending, CommitPhases
    <3>. QED
      BY <2>6, <3>1, <3>2
         DEF TypeOK, RunType, ConsumePending, repoVars, logVars, gateVars, awayVars, pushVars
  <2>7. CASE SkipDocsOnly(p)
    BY <2>7, PassType DEF TypeOK, RunType, SkipDocsOnly, repoVars, logVars, gateVars, awayVars, pushVars
  <2>8. CASE EnterGate(p)
    BY <2>8 DEF TypeOK, RunType, EnterGate, repoVars, logVars, awayVars, pushVars, CommitPhases
  <2>9. CASE GateFails(p)
    BY <2>9, StopType, ExitHookType DEF TypeOK, RunType, GateFails, Leave, repoVars, logVars, awayVars, pushVars
  <2>10. CASE MarkerHit(p)
    BY <2>10, PassType DEF TypeOK, RunType, MarkerHit, Leave, repoVars, logVars, awayVars, pushVars
  <2>11. CASE Bridge(p)
    BY <2>11, PassType DEF TypeOK, RunType, Bridge, Stamp, Leave, repoVars, logVars, awayVars, pushVars
  <2>12. CASE SlotsPass(p)
    <3>1. PICK s \in BOOLEAN : Pass(p, s, s) /\ Stamp(p, s)
      BY ZenonT(60), <2>12 DEF SlotsPass, TypeOK
    <3>2. marker' \in [Worktrees -> [head : Refs \cup {Nobody}, fast : BOOLEAN,
                                     skipped : BOOLEAN]]
      BY <3>1 DEF TypeOK, RunType, Stamp
    <3>3. gateLock' \in [Worktrees -> Committers \cup {Nobody}]
      BY <2>12 DEF TypeOK, RunType, SlotsPass, Leave
    <3>4. Pass(p, s, s)
      BY <3>1
    <3>5. /\ RunType'
          /\ pending' \in [Worktrees -> [parent : Refs \cup {Nobody},
                                         heads : SUBSET Commits]]
      BY <3>4, PassType, Zenon
    <3>. QED
      BY <2>12, <3>2, <3>3, <3>5
         DEF TypeOK, RunType, SlotsPass, repoVars, logVars, awayVars, pushVars
  <2>13. CASE CommitNotMade(p)
    BY <2>13, StopType DEF TypeOK, RunType, CommitNotMade, repoVars, logVars, gateVars, awayVars, pushVars
  <2>14. ASSUME NEW c \in Commits, CreateCommit(p, c) PROVE TypeOK'
    BY <2>14 DEF TypeOK, RunType, CreateCommit, History, logVars, gateVars, awayVars, pushVars, CommitPhases, Refs
  <2>15. CASE PostCommit(p)
    <3>3. pending[Wt[p]].heads \in SUBSET Commits
      BY DEF TypeOK, RunType
    <3>4. head[Wt[p]] # Root => head[Wt[p]] \in Commits
      BY DEF TypeOK, RunType, Refs
    <3>5. \/ Stop(p) /\ UNCHANGED pending
          \/ /\ pc' = [pc EXCEPT ![p] = "finalize"]
             /\ UNCHANGED <<base, snap, skips>>
             /\ \E shas \in SUBSET Commits :
                  /\ todo' = [todo EXCEPT ![p] = shas]
                  /\ \/ pending' = [pending EXCEPT ![Wt[p]].heads = shas]
                     \/ UNCHANGED pending
      BY SMTT(30), <2>15, <3>3, <3>4 DEF PostCommit
    <3>1. pending' \in [Worktrees -> [parent : Refs \cup {Nobody},
                                      heads : SUBSET Commits]]
      <4>1. CASE UNCHANGED pending
        BY <4>1 DEF TypeOK, RunType
      <4>2. CASE ~UNCHANGED pending
        <5>1. PICK shas \in SUBSET Commits :
                pending' = [pending EXCEPT ![Wt[p]].heads = shas]
          BY <4>2, <3>5
        <5>2. pending[Wt[p]] \in [parent : Refs \cup {Nobody},
                                  heads : SUBSET Commits]
          BY DEF TypeOK
        <5>3. [pending[Wt[p]] EXCEPT !.heads = shas]
                \in [parent : Refs \cup {Nobody}, heads : SUBSET Commits]
          BY <5>2
        <5>4. pending' = [pending EXCEPT ![Wt[p]] =
                                    [pending[Wt[p]] EXCEPT !.heads = shas]]
          BY <5>1
        <5>. QED BY <5>3, <5>4 DEF TypeOK
      <4>. QED BY <4>1, <4>2
    <3>2. RunType'
      <4>1. CASE Stop(p)
        BY <4>1, StopType
      <4>2. CASE ~Stop(p)
        <5>1. /\ pc' \in [Committers -> CommitPhases]
              /\ UNCHANGED <<base, snap, skips>>
          BY <4>2, <3>5 DEF TypeOK, CommitPhases
        <5>2. CASE UNCHANGED todo
          BY <5>1, <5>2 DEF TypeOK, RunType
        <5>3. CASE \E shas \in SUBSET Commits : todo' = [todo EXCEPT ![p] = shas]
          <6>1. PICK shas \in SUBSET Commits : todo' = [todo EXCEPT ![p] = shas]
            BY <5>3
          <6>2. todo' \in [Committers -> SUBSET Commits]
            BY <6>1 DEF TypeOK
          <6>. QED BY <5>1, <6>2 DEF TypeOK, RunType
        <5>. QED BY <4>2, <3>5, <5>2, <5>3
      <4>. QED BY <4>1, <4>2
    <3>. QED
      BY <2>15, <3>1, <3>2
         DEF TypeOK, RunType, PostCommit, repoVars, logVars, gateVars, awayVars, pushVars
  <2>16. CASE KillCommitter(p)
    BY <2>16, StopType DEF TypeOK, RunType, KillCommitter, Leave, repoVars, logVars, awayVars, pushVars
  <2>. QED BY <1>c, <2>1, <2>2, <2>3, <2>4, <2>5, <2>6, <2>7, <2>8, <2>9, <2>10, <2>11, <2>12, <2>13, <2>14, <2>15, <2>16 DEF CommitterStep
<1>w. ASSUME NEW w \in Worktrees, WorktreeStep(w) PROVE TypeOK'
  <2>1. CASE MarkerLapses(w)
    BY <2>1 DEF TypeOK, RunType, MarkerLapses, NoMarker, repoVars, logVars, runVars, awayVars, pushVars
  <2>2. CASE FullVerify(w)
    BY <2>2 DEF TypeOK, RunType, FullVerify, History, Refs, repoVars, logVars, gateVars, runVars, pushVars
  <2>3. CASE EvidenceLapses(w)
    BY <2>3 DEF TypeOK, RunType, EvidenceLapses, repoVars, logVars, gateVars, runVars, pushVars
  <2>4. ASSUME NEW t \in Commits, NEW c \in Commits, MergeBranch(w, t, c)
        PROVE  TypeOK'
    BY <2>4 DEF TypeOK, RunType, MergeBranch, Refs, logVars, gateVars, runVars, awayVars, pushVars
  <2>5. ASSUME NEW t \in Commits, FastForward(w, t) PROVE TypeOK'
    BY <2>5 DEF TypeOK, RunType, FastForward, Refs, logVars, gateVars, runVars, awayVars, pushVars
  <2>. QED BY <1>w, <2>1, <2>2, <2>3, <2>4, <2>5 DEF WorktreeStep
<1>q. ASSUME NEW q \in Pushers, PusherStep(q) PROVE TypeOK'
  <2>. USE DEF committerVars, repoVars, gateVars, runVars
  <2>1. ASSUME NEW t \in Commits, NEW r \in Refs, PushReadsLog(q, t, r)
        PROVE  TypeOK'
    BY <2>1 DEF TypeOK, RunType, PushReadsLog, PushStep, LoggedIn, PushPhases, Refs, logVars
  <2>2. CASE PushChecksTip(q)
    BY ZenonT(60), <2>2 DEF TypeOK, RunType, PushChecksTip, PushStep, PushStops, PushPhases, Refs, logVars
  <2>3. CASE PushChecksEvidence(q)
    BY ZenonT(60), <2>3 DEF TypeOK, RunType, PushChecksEvidence, PushStep, PushStops, PushPhases, Refs, logVars
  <2>4. CASE ClearFilters(q)
    BY <2>4 DEF TypeOK, RunType, ClearFilters, PushStep, PushPhases
  <2>5. CASE ClearRenames(q)
    BY <2>5 DEF TypeOK, RunType, ClearRenames, Unlock, PushStep, PushPhases
  <2>6. CASE PushEnds(q)
    BY <2>6 DEF TypeOK, RunType, PushEnds, PushStops, History, PushPhases, Refs, logVars
  <2>7. CASE KillPusher(q)
    BY <2>7 DEF TypeOK, RunType, KillPusher, PushStops, Unlock, PushPhases, Refs
  <2>. QED BY <1>q, <2>1, <2>2, <2>3, <2>4, <2>5, <2>6, <2>7 DEF PusherStep
<1>t. CASE FlipToggle
  BY <1>t DEF TypeOK, RunType, FlipToggle, repoVars, logVars, gateVars, runVars, pushVars
<1>u. CASE UNCHANGED vars
  BY <1>u DEF TypeOK, RunType, vars, repoVars, logVars, gateVars, runVars, awayVars, pushVars
<1>. QED BY <1>c, <1>w, <1>q, <1>t, <1>u DEF Next

(***************************************************************************)
(* Every value the hooks keep has its type, whatever happens around them.  *)
(***************************************************************************)
THEOREM TypeSafety == Spec => []TypeOK
  BY InitTypeOK, StepTypeOK, PTL DEF Spec

-----------------------------------------------------------------------------
(* What a push carries from one step of pre-push to the next.               *)
PushInv(q) ==
  /\ ppc[q] = "checkTip" =>
       /\ tip[q] \in Made
       /\ rem[q] \in Made \cup {Root}
       /\ req[q] \subseteq hist[tip[q]] \ History(rem[q])
       /\ req[q] \subseteq log \cup paid
  /\ ppc[q] = "evidence" => req[q] \subseteq paid \cup History(head[Wt[q]])
  /\ ppc[q] \in {"clear", "rename"} => req[q] \subseteq paid
  /\ ppc[q] = "rename" => logLock = q /\ tmp[q] = log \ req[q]

(* Histories are closed, evidence is honest, pushes are as PushInv says.    *)
HistoryInv ==
  /\ \A c \in Commits : hist[c] \subseteq Made
  /\ \A w \in Worktrees : head[w] \in Made \cup {Root}
  /\ published \subseteq Made

EvidenceInv ==
  \A w \in Worktrees : evidence[w] # Nobody =>
    evidence[w] \in Made /\ hist[evidence[w]] \subseteq paid

ClearInv == HistoryInv /\ EvidenceInv /\ \A q \in Pushers : PushInv(q)

LEMMA InitClearInv == Init => ClearInv
  BY FastCommitAssumption
     DEF Init, ClearInv, HistoryInv, EvidenceInv, PushInv, Made

clearVars == <<head, hist, log, logLock, pushVars, evidence, paid, published>>

(* Most steps touch nothing that ClearInv speaks of.                        *)
LEMMA QuietStep == ClearInv /\ UNCHANGED clearVars => ClearInv'
  BY DEF ClearInv, HistoryInv, EvidenceInv, PushInv, Made, History, clearVars,
         pushVars

LEMMA CommitterQuiet ==
  ASSUME NEW p \in Committers, CommitterStep(p), ~AppendHead(p),
         \A c \in Commits : ~CreateCommit(p, c)
  PROVE  UNCHANGED clearVars
<1>. USE DEF clearVars, repoVars, logVars, awayVars
<1>1. CASE StartCommit(p) BY <1>1 DEF StartCommit
<1>2. CASE PreflightInterrupted(p) BY <1>2 DEF PreflightInterrupted
<1>3. CASE Recover(p) BY <1>3 DEF Recover
<1>4. CASE AppendFails(p) BY <1>4 DEF AppendFails
<1>5. CASE ConsumePending(p) BY <1>5 DEF ConsumePending
<1>6. CASE SkipDocsOnly(p) BY <1>6 DEF SkipDocsOnly
<1>7. CASE EnterGate(p) BY <1>7 DEF EnterGate
<1>8. CASE GateFails(p) BY <1>8 DEF GateFails
<1>9. CASE MarkerHit(p) BY <1>9 DEF MarkerHit
<1>10. CASE Bridge(p) BY <1>10 DEF Bridge
<1>11. CASE SlotsPass(p) BY <1>11 DEF SlotsPass
<1>12. CASE CommitNotMade(p) BY <1>12 DEF CommitNotMade
<1>13. CASE PostCommit(p) BY <1>13 DEF PostCommit
<1>14. CASE KillCommitter(p) BY <1>14 DEF KillCommitter
<1>. QED
  BY <1>1, <1>2, <1>3, <1>4, <1>5, <1>6, <1>7, <1>8, <1>9, <1>10, <1>11,
     <1>12, <1>13, <1>14
     DEF CommitterStep

(* A new commit or a moved HEAD: histories of made commits stand, and every
   HEAD contains what it contained before.                                  *)
LEMMA HistoryGrows ==
  ASSUME TypeOK, ClearInv,
         \A c \in Commits : hist'[c] \subseteq Made',
         \A c \in Made : hist'[c] = hist[c],
         \A w \in Worktrees : /\ head'[w] \in Made' \cup {Root}
                              /\ History(head[w]) \subseteq History(head[w])',
         UNCHANGED <<logVars, pushVars, evidence, paid, published>>
  PROVE  ClearInv'
<1>1. Made \subseteq Made'
  BY DEF Made
<1>2. HistoryInv'
  BY <1>1 DEF ClearInv, HistoryInv
<1>3. EvidenceInv'
  BY <1>1 DEF ClearInv, EvidenceInv
<1>4. ASSUME NEW q \in Pushers PROVE PushInv(q)'
  <2>1. Wt[q] \in Worktrees
    BY FastCommitAssumption
  <2>2. \A r \in Made \cup {Root} : History(r)' = History(r)
    BY DEF History, Made
  <2>3. PushInv(q)
    BY DEF ClearInv
  <2>. QED
    BY <1>1, <2>1, <2>2, <2>3 DEF PushInv, logVars, pushVars
<1>. QED BY <1>2, <1>3, <1>4 DEF ClearInv

(* Steps of git commit.                                                     *)
LEMMA CommitterClearInv ==
  ASSUME TypeOK, ClearInv, NEW p \in Committers, CommitterStep(p)
  PROVE  ClearInv'
<1>1. CASE AppendHead(p)
  <2>1. /\ logLock = Nobody /\ log \subseteq log'
        /\ UNCHANGED <<head, hist, logLock, pushVars, evidence, paid, published>>
    BY <1>1 DEF AppendHead, repoVars, awayVars
  <2>2. \A q \in Pushers : ppc[q] # "rename"
    BY <2>1, FastCommitAssumption DEF ClearInv, PushInv
  <2>. QED
    BY <2>1, <2>2
       DEF ClearInv, HistoryInv, EvidenceInv, PushInv, Made, History, pushVars
<1>2. ASSUME NEW c \in Commits, CreateCommit(p, c) PROVE ClearInv'
  <2>1. Wt[p] \in Worktrees
    BY FastCommitAssumption
  <2>2. /\ c \notin Made
        /\ hist' = [hist EXCEPT ![c] = History(head[Wt[p]]) \cup {c}]
        /\ head' = [head EXCEPT ![Wt[p]] = c]
        /\ UNCHANGED <<logVars, pushVars, evidence, paid, published>>
    BY <1>2 DEF CreateCommit, awayVars
  <2>3. Made' = Made \cup {c}
    <3>1. /\ hist'[c] # {}
          /\ \A d \in Commits \ {c} : hist'[d] = hist[d]
      BY <2>2 DEF TypeOK
    <3>. QED BY <3>1 DEF Made
  <2>4. History(head[Wt[p]]) \subseteq Made
    BY <2>1 DEF ClearInv, HistoryInv, History, Made
  <2>5. \A d \in Commits : hist'[d] \subseteq Made'
    BY <2>2, <2>3, <2>4 DEF TypeOK, ClearInv, HistoryInv
  <2>6. \A d \in Made : hist'[d] = hist[d]
    BY <2>2 DEF TypeOK, Made
  <2>7. \A w \in Worktrees : /\ head'[w] \in Made' \cup {Root}
                             /\ History(head[w]) \subseteq History(head[w])'
    BY <2>1, <2>2, <2>3, <2>6, FastCommitAssumption
       DEF TypeOK, ClearInv, HistoryInv, History, Made
  <2>. QED BY <2>2, <2>5, <2>6, <2>7, HistoryGrows
<1>. QED BY <1>1, <1>2, CommitterQuiet, QuietStep

(* Full verifies, lapses and merges.                                        *)
LEMMA WorktreeClearInv ==
  ASSUME TypeOK, ClearInv, NEW w \in Worktrees, WorktreeStep(w)
  PROVE  ClearInv'
<1>1. CASE MarkerLapses(w)
  BY <1>1, QuietStep DEF MarkerLapses, clearVars, repoVars, logVars, awayVars
<1>2. CASE FullVerify(w)
  BY <1>2 DEF FullVerify, TypeOK, ClearInv, HistoryInv, EvidenceInv, PushInv,
              Made, History, repoVars, logVars, pushVars
<1>3. CASE EvidenceLapses(w)
  BY <1>3, FastCommitAssumption
     DEF EvidenceLapses, TypeOK, ClearInv, HistoryInv, EvidenceInv, PushInv,
         Made, History, repoVars, logVars, pushVars
<1>4. ASSUME NEW t \in Commits, NEW c \in Commits, MergeBranch(w, t, c)
      PROVE  ClearInv'
  <2>1. /\ c \notin Made /\ t \in Made /\ head[w] # Root
        /\ hist' = [hist EXCEPT ![c] = hist[head[w]] \cup hist[t] \cup {c}]
        /\ head' = [head EXCEPT ![w] = c]
        /\ UNCHANGED <<logVars, pushVars, evidence, paid, published>>
    BY <1>4 DEF MergeBranch, awayVars
  <2>2. head[w] \in Made
    BY <2>1 DEF ClearInv, HistoryInv
  <2>3. Made' = Made \cup {c}
    BY <2>1 DEF TypeOK, Made
  <2>4. \A d \in Commits : hist'[d] \subseteq Made'
    BY <2>1, <2>2, <2>3 DEF TypeOK, ClearInv, HistoryInv, Made
  <2>5. \A d \in Made : hist'[d] = hist[d]
    BY <2>1 DEF TypeOK, Made
  <2>6. \A v \in Worktrees : /\ head'[v] \in Made' \cup {Root}
                             /\ History(head[v]) \subseteq History(head[v])'
    BY <2>1, <2>2, <2>3, <2>5, FastCommitAssumption
       DEF TypeOK, ClearInv, HistoryInv, History, Made
  <2>. QED BY <2>1, <2>4, <2>5, <2>6, HistoryGrows
<1>5. ASSUME NEW t \in Commits, FastForward(w, t) PROVE ClearInv'
  <2>1. /\ t \in Made /\ History(head[w]) \subseteq hist[t]
        /\ head' = [head EXCEPT ![w] = t]
        /\ hist' = hist
        /\ UNCHANGED <<logVars, pushVars, evidence, paid, published>>
    BY <1>5 DEF FastForward, awayVars
  <2>2. Made' = Made
    BY <2>1 DEF Made
  <2>3. \A v \in Worktrees : /\ head'[v] \in Made' \cup {Root}
                             /\ History(head[v]) \subseteq History(head[v])'
    BY <2>1, <2>2, FastCommitAssumption
       DEF TypeOK, ClearInv, HistoryInv, History, Made
  <2>. QED BY <2>1, <2>2, <2>3, HistoryGrows DEF ClearInv, HistoryInv
<1>. QED BY <1>1, <1>2, <1>3, <1>4, <1>5 DEF WorktreeStep

(* A clear installs what its filter has written, whatever that is; a filter   *)
(* that stops short drops commits no verify covers.                           *)
FiltersComplete == "short" \notin Events

(* Steps of git push.  The lock keeps every other push out of "rename".     *)
LEMMA PusherClearInv ==
  ASSUME TypeOK, ClearInv, FiltersComplete, NEW q \in Pushers, PusherStep(q)
  PROVE  ClearInv'
<1>. USE DEF committerVars, repoVars, logVars, PushStep, PushStops
<1>. DEFINE w == Wt[q]
<1>w. w \in Worktrees
  BY FastCommitAssumption
<1>1. ASSUME NEW t \in Commits, NEW r \in Refs, PushReadsLog(q, t, r)
      PROVE  ClearInv'
  BY <1>1 DEF PushReadsLog, LoggedIn, TypeOK, ClearInv, HistoryInv, EvidenceInv,
              PushInv, Made, History
<1>2. CASE PushChecksTip(q)
  <2>1. HistoryInv' /\ EvidenceInv'
    BY <1>2 DEF PushChecksTip, ClearInv, HistoryInv, EvidenceInv, Made
  <2>2. ASSUME NEW k \in Pushers, k # q PROVE PushInv(k)'
    BY <1>2, <2>2 DEF PushChecksTip, TypeOK, ClearInv, PushInv, Made, History
  <2>3. PushInv(q)'
    <3>1. CASE ppc'[q] # "evidence"
      BY <1>2, <3>1 DEF PushChecksTip, TypeOK, PushInv
    <3>2. CASE ppc'[q] = "evidence"
      <4>1. /\ ppc[q] = "checkTip"
            /\ LoggedIn(tip[q], rem[q]) = {} \/ tip[q] = head[w]
            /\ UNCHANGED <<req, head, hist, paid>>
        BY <1>2, <3>2 DEF PushChecksTip, TypeOK
      <4>2. PushInv(q)
        BY DEF ClearInv
      <4>3. req[q] \subseteq paid \cup History(head[w])
        BY <4>1, <4>2, FastCommitAssumption
           DEF PushInv, LoggedIn, History, Made
      <4>. QED BY <3>2, <4>1, <4>3 DEF PushInv, History
    <3>. QED BY <3>1, <3>2
  <2>. QED BY <2>1, <2>2, <2>3 DEF ClearInv
<1>3. CASE PushChecksEvidence(q)
  <2>1. HistoryInv' /\ EvidenceInv'
    BY <1>3 DEF PushChecksEvidence, ClearInv, HistoryInv, EvidenceInv, Made
  <2>2. ASSUME NEW k \in Pushers, k # q PROVE PushInv(k)'
    BY <1>3, <2>2 DEF PushChecksEvidence, TypeOK, ClearInv, PushInv, Made, History
  <2>3. PushInv(q)'
    <3>1. head[w] \in Refs
      BY <1>w DEF TypeOK
    <3>2. evidence[w] = head[w] => History(head[w]) \subseteq paid
      BY <1>w, <3>1, FastCommitAssumption DEF ClearInv, EvidenceInv, History, Refs
    <3>. QED
      BY <1>3, <3>2 DEF PushChecksEvidence, TypeOK, ClearInv, PushInv
  <2>. QED BY <2>1, <2>2, <2>3 DEF ClearInv
<1>4. CASE ClearFilters(q)
  BY <1>4, FastCommitAssumption
     DEF ClearFilters, FiltersComplete, TypeOK, ClearInv, HistoryInv,
         EvidenceInv, PushInv, Made, History
<1>5. CASE ClearRenames(q)
  <2>1. /\ logLock = q /\ log \ log' \subseteq paid
        /\ UNCHANGED <<head, hist, evidence, paid, published, tip, rem, req>>
    BY <1>5 DEF ClearRenames, ClearInv, PushInv
  <2>2. HistoryInv' /\ EvidenceInv'
    BY <2>1 DEF ClearInv, HistoryInv, EvidenceInv, Made
  <2>3. ASSUME NEW k \in Pushers, k # q PROVE PushInv(k)'
    <3>1. ppc[k] # "rename"
      BY <2>1, <2>3 DEF ClearInv, PushInv
    <3>2. ppc'[k] = ppc[k]
      BY <1>5, <2>3 DEF ClearRenames, TypeOK
    <3>. QED
      BY <2>1, <3>1, <3>2 DEF ClearInv, PushInv, Made, History
  <2>4. PushInv(q)'
    BY <1>5 DEF ClearRenames, TypeOK, PushInv
  <2>. QED BY <2>2, <2>3, <2>4 DEF ClearInv
<1>6. CASE PushEnds(q)
  <2>1. History(tip[q]) \subseteq Made
    BY DEF TypeOK, ClearInv, HistoryInv, History, Refs
  <2>. QED
    BY <1>6, <2>1
       DEF PushEnds, TypeOK, ClearInv, HistoryInv, EvidenceInv, PushInv, Made,
           History
<1>7. CASE KillPusher(q)
  BY <1>7
     DEF KillPusher, Unlock, TypeOK, ClearInv, HistoryInv, EvidenceInv, PushInv,
         Made, History
<1>. QED
  BY <1>1, <1>2, <1>3, <1>4, <1>5, <1>6, <1>7 DEF PusherStep

LEMMA StepClearInv ==
  ASSUME FiltersComplete
  PROVE  TypeOK /\ ClearInv /\ [Next]_vars => ClearInv'
<1>. SUFFICES ASSUME TypeOK, ClearInv, [Next]_vars PROVE ClearInv'
  OBVIOUS
<1>1. CASE FlipToggle
  BY <1>1, QuietStep DEF FlipToggle, clearVars, repoVars, logVars
<1>2. CASE UNCHANGED vars
  BY <1>2, QuietStep DEF vars, clearVars, repoVars, logVars, awayVars
<1>. QED
  BY <1>1, <1>2, CommitterClearInv, WorktreeClearInv, PusherClearInv DEF Next

(* Only a rename takes commits out of the log.                              *)
LEMMA LogShrinks == TypeOK /\ ClearInv /\ [Next]_vars => log \ log' \subseteq paid
<1>. SUFFICES ASSUME TypeOK, ClearInv, [Next]_vars
              PROVE  log \ log' \subseteq paid
  OBVIOUS
<1>1. ASSUME NEW p \in Committers, CommitterStep(p) PROVE log \subseteq log'
  <2>1. CASE AppendHead(p)
    BY <2>1 DEF AppendHead
  <2>2. ASSUME NEW c \in Commits, CreateCommit(p, c) PROVE log' = log
    BY <2>2 DEF CreateCommit, logVars
  <2>. QED BY <1>1, <2>1, <2>2, CommitterQuiet DEF clearVars
<1>2. ASSUME NEW w \in Worktrees, WorktreeStep(w) PROVE log' = log
  BY <1>2 DEF WorktreeStep, MarkerLapses, FullVerify, EvidenceLapses,
              MergeBranch, FastForward, logVars
<1>3. ASSUME NEW q \in Pushers, PusherStep(q) PROVE log \ log' \subseteq paid
  <2>1. CASE ClearRenames(q)
    BY <2>1 DEF ClearRenames, PushStep, ClearInv, PushInv
  <2>2. CASE ~ClearRenames(q)
    BY <1>3, <2>2
       DEF PusherStep, PushReadsLog, PushChecksTip, PushChecksEvidence,
           ClearFilters, PushEnds, KillPusher, logVars
  <2>. QED BY <2>1, <2>2
<1>4. CASE FlipToggle
  BY <1>4 DEF FlipToggle, logVars
<1>5. CASE UNCHANGED vars
  BY <1>5 DEF vars, logVars
<1>. QED BY <1>1, <1>2, <1>3, <1>4, <1>5 DEF Next

(***************************************************************************)
(* As long as the filter of musi_fast_commit_log_clear writes what it      *)
(* should, and whatever else fails or is killed, a commit is dropped from  *)
(* the provenance log only after a full verify passed on a HEAD that       *)
(* contains it, however pushes and commits interleave.                     *)
(***************************************************************************)
THEOREM ClearingIsSound ==
  ASSUME FiltersComplete
  PROVE  Spec => ClearedUnderEvidence
<1>1. TypeOK /\ ClearInv /\ [Next]_vars => [log \ log' \subseteq paid]_vars
  BY LogShrinks
<1>. QED
  BY <1>1, InitTypeOK, StepTypeOK, InitClearInv, StepClearInv, PTL
     DEF Spec, ClearedUnderEvidence
-----------------------------------------------------------------------------
(* Test debt.  Three things make it leak, and are excluded: two commits at
   once in one worktree, a signal before the gate's traps are set, and a
   clear whose filter stops short.  HEAD moves by commits alone.            *)
Sheltered ==
  /\ \A p, k \in Committers : Wt[p] = Wt[k] => p = k
  /\ "interrupt" \notin Events /\ "merge" \notin Events
  /\ FiltersComplete

(* c is logged or verified, or its worktree's marker leads back to it: by
   its SHA, or, as long as it is HEAD, as the child of the recorded parent. *)
Owed(c) ==
  LET w == madeIn[c]
      m == pending[w]
  IN  \/ c \in log \cup paid
      \/ c \in m.heads
      \/ /\ m # NoPending /\ m.heads = {}
         /\ c = head[w] /\ m.parent = parent[c]

FastInv ==
  \A c \in fast : /\ c \in Made /\ madeIn[c] \in Worktrees /\ parent[c] # c
                  /\ Owed(c)

MarkerInv == \A w \in Worktrees : marker[w].skipped => marker[w].fast

(* What a `git commit` may rely on from one step to the next.               *)
RunInv(p) ==
  LET w == Wt[p]
      done == todo[p] \cup log \cup paid
  IN  /\ pc[p] \in {"preflight", "replay", "gate", "locked", "passed"} =>
           base[p] = head[w]
      /\ pc[p] \in {"gate", "locked"} => pending[w] = NoPending
      /\ pc[p] = "passed" =>
           /\ pending[w] \in {NoPending, Pending(head[w])}
           /\ skips[p] => pending[w] = Pending(head[w])
      /\ pc[p] \in {"replay", "finalize"} =>
           /\ pending[w].heads \subseteq done
           /\ pending[w].heads = {} => head[w] \in done

DebtInv == FastInv /\ MarkerInv /\ \A p \in Committers : RunInv(p)

LEMMA InitDebtInv == Init => DebtInv
  BY FastCommitAssumption
     DEF Init, DebtInv, FastInv, MarkerInv, RunInv, NoMarker

LEMMA DebtInvTracks == DebtInv => DebtTracked
  BY DEF DebtInv, FastInv, Owed, DebtTracked, MarkedPending

debtVars == <<head, parent, hist, madeIn, fast, pending, marker, runVars>>

(* Steps of pushes and verifies: the log loses verified commits only.       *)
LEMMA AwayStep ==
  ASSUME TypeOK, DebtInv, UNCHANGED debtVars,
         log \subseteq log' \cup paid', paid \subseteq paid'
  PROVE  DebtInv'
<1>1. FastInv'
  BY DEF DebtInv, FastInv, Owed, Made, debtVars
<1>2. MarkerInv'
  BY DEF DebtInv, MarkerInv, debtVars
<1>3. ASSUME NEW p \in Committers PROVE RunInv(p)'
  BY DEF DebtInv, RunInv, debtVars, runVars
<1>. QED BY <1>1, <1>2, <1>3 DEF DebtInv

(* A step of committer p that leaves the repository alone.                  *)
LEMMA LocalStep ==
  ASSUME TypeOK, DebtInv, Sheltered, NEW p \in Committers,
         UNCHANGED <<head, parent, hist, madeIn, fast, paid>>,
         log \subseteq log',
         \A v \in Worktrees : v # Wt[p] => pending'[v] = pending[v],
         \A k \in Committers : k # p =>
           /\ pc'[k] = pc[k] /\ base'[k] = base[k]
           /\ skips'[k] = skips[k] /\ todo'[k] = todo[k],
         MarkerInv', RunInv(p)',
         \A c \in fast : madeIn[c] = Wt[p] => Owed(c)'
  PROVE  DebtInv'
<1>1. FastInv'
  BY DEF DebtInv, FastInv, Owed, Made
<1>2. ASSUME NEW k \in Committers, k # p PROVE RunInv(k)'
  <2>1. Wt[k] \in Worktrees /\ Wt[k] # Wt[p]
    BY <1>2, FastCommitAssumption DEF Sheltered
  <2>. QED BY <1>2, <2>1 DEF DebtInv, RunInv
<1>. QED BY <1>1, <1>2 DEF DebtInv

(* While p is between recovery and commit, its worktree owes nothing.       *)
LEMMA NothingOwed ==
  ASSUME TypeOK, DebtInv, NEW p \in Committers,
         pc[p] \in {"gate", "locked", "passed"},
         NEW c \in fast, madeIn[c] = Wt[p]
  PROVE  c \in log \cup paid
<1>1. Wt[p] \in Worktrees
  BY FastCommitAssumption
<1>2. pending[Wt[p]] \in {NoPending, Pending(head[Wt[p]])}
  BY DEF DebtInv, RunInv
<1>3. Owed(c) /\ parent[c] # c
  BY DEF DebtInv, FastInv
<1>4. CASE pending[Wt[p]] = NoPending
  BY <1>3, <1>4 DEF Owed, NoPending
<1>5. CASE pending[Wt[p]] = Pending(head[Wt[p]])
  BY <1>3, <1>5 DEF Owed, Pending
<1>. QED BY <1>2, <1>4, <1>5

(* Steps that end the process and keep its marker.                          *)
LEMMA StopStep ==
  ASSUME TypeOK, DebtInv, Sheltered, NEW p \in Committers, Stop(p),
         UNCHANGED <<repoVars, logVars, pending, marker, awayVars>>
  PROVE  DebtInv'
<1>1. RunInv(p)'
  BY DEF Stop, TypeOK, RunInv
<1>2. \A c \in fast : madeIn[c] = Wt[p] => Owed(c)'
  BY DEF DebtInv, FastInv, Owed, repoVars, logVars, awayVars
<1>3. MarkerInv'
  BY DEF DebtInv, MarkerInv
<1>. QED
  BY <1>1, <1>2, <1>3, LocalStep DEF Stop, TypeOK, repoVars, logVars, awayVars

(* Either the outcome is recorded, or pre-commit has warned.                 *)
LEMMA PassOutcome ==
  ASSUME TypeOK, NEW p \in Committers, NEW r \in BOOLEAN, NEW s \in BOOLEAN, Pass(p, r, s)
  PROVE  /\ \A w \in Worktrees : w # Wt[p] => pending'[w] = pending[w]
         /\ \/ /\ pending'[Wt[p]] = pending[Wt[p]]
               /\ skips'[p] = FALSE
            \/ /\ pending'[Wt[p]] = IF r THEN Pending(head[Wt[p]]) ELSE NoPending
               /\ skips'[p] = s
<1>w. Wt[p] \in Worktrees
  BY FastCommitAssumption
<1>1. CASE ExitHook(p, r) /\ skips' = [skips EXCEPT ![p] = s]
  <2>1. skips'[p] = s
    BY <1>1 DEF TypeOK
  <2>2. pending'[Wt[p]] = IF r THEN Pending(head[Wt[p]]) ELSE NoPending
    BY <1>1, <1>w DEF ExitHook, TypeOK
  <2>3. \A w \in Worktrees : w # Wt[p] => pending'[w] = pending[w]
    BY <1>1, <1>w DEF ExitHook, TypeOK
  <2>. QED BY <2>1, <2>2, <2>3
<1>2. CASE UNCHANGED pending /\ skips' = [skips EXCEPT ![p] = FALSE]
  BY <1>2 DEF TypeOK
<1>. QED BY <1>1, <1>2 DEF Pass

(* Every way out of the gate with status 0.                                 *)
LEMMA PassStep ==
  ASSUME TypeOK, DebtInv, Sheltered, NEW p \in Committers,
         pc[p] \in {"gate", "locked"},
         NEW r \in BOOLEAN, NEW s \in BOOLEAN, s => r, Pass(p, r, s),
         MarkerInv', UNCHANGED <<repoVars, logVars, awayVars>>
  PROVE  DebtInv'
<1>w. Wt[p] \in Worktrees
  BY FastCommitAssumption
<1>1. pc'[p] = "passed" /\ base'[p] = base[p] /\ base[p] = head[Wt[p]]
  BY DEF Pass, TypeOK, DebtInv, RunInv
<1>2. pending[Wt[p]] = NoPending
  BY DEF DebtInv, RunInv
<1>3. /\ pending'[Wt[p]] \in {NoPending, Pending(head[Wt[p]])}
      /\ skips'[p] => pending'[Wt[p]] = Pending(head[Wt[p]])
  BY <1>2, PassOutcome
<1>4. RunInv(p)'
  BY <1>1, <1>3 DEF RunInv, repoVars
<1>5. \A c \in fast : madeIn[c] = Wt[p] => Owed(c)'
  BY NothingOwed DEF Owed, repoVars, logVars, awayVars
<1>. QED
  BY <1>4, <1>5, PassOutcome, LocalStep DEF Pass, TypeOK, repoVars, logVars, awayVars

LEMMA CreateStep ==
  ASSUME TypeOK, HistoryInv, DebtInv, Sheltered, NEW p \in Committers, NEW c \in Commits,
         CreateCommit(p, c)
  PROVE  DebtInv'
<1>. DEFINE w == Wt[p]
<1>w. w \in Worktrees
  BY FastCommitAssumption
<1>0. /\ pc[p] = "passed" /\ head[w] = base[p] /\ c \notin Made
      /\ parent' = [parent EXCEPT ![c] = head[w]]
      /\ hist' = [hist EXCEPT ![c] = History(head[w]) \cup {c}]
      /\ madeIn' = [madeIn EXCEPT ![c] = w]
      /\ head' = [head EXCEPT ![w] = c]
      /\ fast' = IF skips[p] THEN fast \cup {c} ELSE fast
      /\ pc' = [pc EXCEPT ![p] = "made"]
      /\ base' = [base EXCEPT ![p] = Root]
      /\ skips' = [skips EXCEPT ![p] = FALSE]
      /\ UNCHANGED <<log, pending, marker, todo, paid>>
  BY DEF CreateCommit, logVars, gateVars, awayVars
<1>1. FastInv'
  <2>1. ASSUME NEW d \in fast
        PROVE  /\ d \in Made' /\ madeIn'[d] \in Worktrees /\ parent'[d] # d
               /\ Owed(d)'
    <3>1. d \in Made /\ d # c /\ madeIn[d] \in Worktrees /\ parent[d] # d
      BY <1>0 DEF DebtInv, FastInv
    <3>2. hist'[d] = hist[d] /\ madeIn'[d] = madeIn[d] /\ parent'[d] = parent[d]
      BY <1>0, <3>1 DEF TypeOK
    <3>3. CASE madeIn[d] = w
      BY <1>0, <3>1, <3>2, <3>3, NothingOwed DEF Owed, Made
    <3>4. CASE madeIn[d] # w
      <4>1. head'[madeIn[d]] = head[madeIn[d]]
        BY <1>0, <3>1, <3>4 DEF TypeOK
      <4>. QED BY <1>0, <3>1, <3>2, <4>1 DEF DebtInv, FastInv, Owed, Made
    <3>. QED BY <3>3, <3>4
  <2>2. ASSUME skips[p]
        PROVE  /\ c \in Made' /\ madeIn'[c] \in Worktrees /\ parent'[c] # c
               /\ Owed(c)'
    <3>1. pending[w] = Pending(head[w])
      BY <1>0, <2>2 DEF DebtInv, RunInv
    <3>2. hist'[c] # {} /\ madeIn'[c] = w /\ parent'[c] = head[w] /\ head'[w] = c
      BY <1>0, <1>w DEF TypeOK
    <3>3. head[w] # c /\ head[w] # Nobody
      BY <1>0, <1>w, FastCommitAssumption DEF HistoryInv, Made
    <3>. QED
      BY <1>0, <1>w, <3>1, <3>2, <3>3 DEF Owed, Made, Pending, NoPending
  <2>. QED BY <1>0, <2>1, <2>2 DEF FastInv
<1>2. MarkerInv'
  BY <1>0 DEF DebtInv, MarkerInv
<1>3. ASSUME NEW k \in Committers PROVE RunInv(k)'
  <2>1. CASE k = p
    BY <1>0, <2>1 DEF RunInv, TypeOK
  <2>2. CASE k # p
    <3>1. Wt[k] \in Worktrees /\ Wt[k] # w
      BY <2>2, FastCommitAssumption DEF Sheltered
    <3>2. head'[Wt[k]] = head[Wt[k]]
      BY <1>0, <3>1 DEF TypeOK
    <3>3. pc'[k] = pc[k] /\ base'[k] = base[k] /\ skips'[k] = skips[k]
      BY <1>0, <2>2 DEF TypeOK
    <3>. QED BY <1>0, <3>2, <3>3 DEF DebtInv, RunInv
  <2>. QED BY <2>1, <2>2
<1>. QED BY <1>1, <1>2, <1>3 DEF DebtInv

(* Recovery: an open question is replayed, kept, or was never a commit.     *)
LEMMA RecoverStep ==
  ASSUME TypeOK, DebtInv, Sheltered, NEW p \in Committers, Recover(p)
  PROVE  DebtInv'
<1>. DEFINE w == Wt[p]
            m == pending[w]
<1>w. w \in Worktrees
  BY FastCommitAssumption
<1>u. UNCHANGED <<repoVars, logVars, marker, awayVars>>
  BY DEF Recover, gateVars
<1>m. MarkerInv'
  BY <1>u DEF DebtInv, MarkerInv
<1>1. CASE Stop(p) /\ UNCHANGED pending
  BY <1>1, <1>u, StopStep
<1>2. CASE /\ pc' = [pc EXCEPT ![p] = "gate"]
           /\ pending' = [pending EXCEPT ![w] = NoPending]
           /\ UNCHANGED <<base, skips, todo>>
           /\ m = NoPending \/ (m.heads = {} /\ m.parent = head[w])
  <2>1. RunInv(p)'
    <3>1. pc[p] = "preflight" /\ base[p] = head[w]
      BY DEF Recover, DebtInv, RunInv
    <3>2. pc'[p] = "gate" /\ pending'[w] = NoPending
      BY <1>2, <1>w DEF TypeOK
    <3>. QED BY <1>2, <1>u, <3>1, <3>2 DEF RunInv, repoVars
  <2>2. ASSUME NEW c \in fast, madeIn[c] = w PROVE Owed(c)'
    <3>1. Owed(c) /\ parent[c] # c
      BY DEF DebtInv, FastInv
    <3>2. c \in log \cup paid
      BY <1>2, <2>2, <3>1 DEF Owed, NoPending
    <3>. QED BY <1>u, <3>2 DEF Owed, logVars, awayVars
  <2>. QED
    BY <1>2, <1>u, <1>m, <2>1, <2>2, LocalStep
       DEF TypeOK, repoVars, logVars, awayVars
<1>3. CASE /\ pc' = [pc EXCEPT ![p] = "replay"]
           /\ UNCHANGED <<pending, base, skips>>
           /\ \/ m.heads # {} /\ todo' = [todo EXCEPT ![p] = m.heads]
              \/ m.heads = {} /\ todo' = [todo EXCEPT ![p] = {head[w]}]
  <2>1. RunInv(p)'
    <3>1. pc[p] = "preflight" /\ base[p] = head[w]
      BY DEF Recover, DebtInv, RunInv
    <3>2. pc'[p] = "replay" /\ pending' = pending /\ base' = base
      BY <1>3 DEF TypeOK
    <3>3. \/ m.heads # {} /\ todo'[p] = m.heads
          \/ m.heads = {} /\ todo'[p] = {head[w]}
      BY <1>3 DEF TypeOK
    <3>. QED BY <1>u, <3>1, <3>2, <3>3 DEF RunInv, repoVars
  <2>2. ASSUME NEW c \in fast, madeIn[c] = w PROVE Owed(c)'
    BY <1>3, <1>u DEF DebtInv, FastInv, Owed, repoVars, logVars, awayVars
  <2>. QED
    BY <1>3, <1>u, <1>m, <2>1, <2>2, LocalStep
       DEF TypeOK, repoVars, logVars, awayVars
<1>. QED BY <1>1, <1>2, <1>3 DEF Recover, NoPending

(* Appending, and consuming the marker once everything in it is logged.     *)
LEMMA ReplaySteps ==
  ASSUME TypeOK, DebtInv, Sheltered, NEW p \in Committers,
         AppendHead(p) \/ ConsumePending(p)
  PROVE  DebtInv'
<1>. DEFINE w == Wt[p]
<1>w. w \in Worktrees
  BY FastCommitAssumption
<1>m. MarkerInv'
  BY DEF AppendHead, ConsumePending, gateVars, DebtInv, MarkerInv
<1>1. CASE AppendHead(p)
  <2>1. PICK c \in todo[p] : /\ log' = log \cup {c}
                             /\ todo' = [todo EXCEPT ![p] = @ \ {c}]
    BY <1>1 DEF AppendHead
  <2>2. UNCHANGED <<repoVars, pending, pc, base, skips, awayVars>>
    BY <1>1 DEF AppendHead
  <2>3. todo'[p] = todo[p] \ {c}
    BY <2>1 DEF TypeOK
  <2>4. RunInv(p)'
    BY <2>1, <2>2, <2>3 DEF DebtInv, RunInv, repoVars, awayVars
  <2>5. ASSUME NEW d \in fast, madeIn[d] = w PROVE Owed(d)'
    BY <2>1, <2>2 DEF DebtInv, FastInv, Owed, repoVars, awayVars
  <2>. QED
    BY <1>m, <2>1, <2>2, <2>4, <2>5, LocalStep DEF TypeOK, repoVars, awayVars
<1>2. CASE ConsumePending(p)
  <2>u. UNCHANGED <<repoVars, logVars, marker, awayVars>>
    BY <1>2 DEF ConsumePending, gateVars
  <2>1. CASE Stop(p) /\ UNCHANGED pending
    BY <2>1, <2>u, StopStep
  <2>2. CASE pending' = [pending EXCEPT ![w] = NoPending]
    <3>1. /\ pending[w].heads \subseteq log \cup paid
          /\ pending[w].heads = {} => head[w] \in log \cup paid
      BY <1>2, <2>2 DEF ConsumePending, DebtInv, RunInv, Stop
    <3>2. ASSUME NEW c \in fast, madeIn[c] = w PROVE Owed(c)'
      <4>1. c \in log \cup paid
        BY <3>1, <3>2 DEF DebtInv, FastInv, Owed
      <4>. QED BY <2>u, <4>1 DEF Owed, logVars, awayVars
    <3>3. pending'[w] = NoPending
      BY <1>w, <2>2 DEF TypeOK
    <3>4. RunInv(p)'
      <4>1. CASE Stop(p)
        BY <4>1 DEF Stop, TypeOK, RunInv
      <4>2. CASE ~Stop(p)
        <5>1. /\ pc[p] = "replay" /\ pc' = [pc EXCEPT ![p] = "gate"]
              /\ UNCHANGED base
          BY <1>2, <4>2, <2>2 DEF ConsumePending
        <5>2. base[p] = head[w] /\ pc'[p] = "gate"
          BY <5>1 DEF DebtInv, RunInv, TypeOK
        <5>. QED BY <5>1, <5>2, <3>3, <2>u DEF RunInv, repoVars
      <4>. QED BY <4>1, <4>2
    <3>. QED
      BY <1>2, <2>2, <2>u, <1>m, <3>2, <3>4, LocalStep
         DEF ConsumePending, Stop, TypeOK, repoVars, logVars, awayVars
  <2>. QED BY <1>2, <2>1, <2>2 DEF ConsumePending
<1>. QED BY <1>1, <1>2

(* post-commit: the new HEAD joins the heads to replay.                     *)
LEMMA PostCommitStep ==
  ASSUME TypeOK, DebtInv, Sheltered, NEW p \in Committers, PostCommit(p)
  PROVE  DebtInv'
<1>. DEFINE w == Wt[p]
            shas == pending[w].heads \cup {head[w]}
<1>w. w \in Worktrees
  BY FastCommitAssumption
<1>u. UNCHANGED <<repoVars, logVars, marker, awayVars>>
  BY DEF PostCommit, gateVars
<1>m. MarkerInv'
  BY <1>u DEF DebtInv, MarkerInv
<1>1. CASE Stop(p) /\ UNCHANGED pending
  BY <1>1, <1>u, StopStep
<1>2. CASE /\ pc' = [pc EXCEPT ![p] = "finalize"]
           /\ todo' = [todo EXCEPT ![p] = shas]
           /\ UNCHANGED <<base, skips>>
           /\ \/ pending' = [pending EXCEPT ![w].heads = shas]
              \/ UNCHANGED pending
           /\ pending[w] # NoPending
  <2>1. pc'[p] = "finalize" /\ todo'[p] = shas
    BY <1>2 DEF TypeOK
  <2>2. \/ pending'[w] = [pending[w] EXCEPT !.heads = shas]
        \/ pending'[w] = pending[w]
    BY <1>2, <1>w DEF TypeOK
  <2>3. pending'[w].heads \subseteq shas /\ pending[w].heads \subseteq pending'[w].heads
    BY <2>2, <1>w DEF TypeOK
  <2>4. RunInv(p)'
    BY <1>u, <2>1, <2>3 DEF RunInv, repoVars
  <2>5. ASSUME NEW c \in fast, madeIn[c] = w PROVE Owed(c)'
    <3>1. Owed(c)
      BY DEF DebtInv, FastInv
    <3>2. CASE pending'[w] = pending[w]
      BY <1>u, <2>5, <3>1, <3>2 DEF Owed, repoVars, logVars, awayVars
    <3>3. CASE pending'[w] = [pending[w] EXCEPT !.heads = shas]
      <4>1. pending'[w].heads = shas
        BY <1>w, <3>3 DEF TypeOK
      <4>. QED
        BY <1>u, <2>5, <3>1, <4>1 DEF Owed, repoVars, logVars, awayVars
    <3>. QED BY <2>2, <3>2, <3>3
  <2>. QED
    BY <1>2, <1>u, <1>m, <2>4, <2>5, LocalStep
       DEF TypeOK, repoVars, logVars, awayVars
<1>. QED BY <1>1, <1>2 DEF PostCommit

(* Starting, entering the gate, and failing in it.                          *)
LEMMA GateSteps ==
  ASSUME TypeOK, DebtInv, Sheltered, NEW p \in Committers,
         StartCommit(p) \/ EnterGate(p) \/ GateFails(p)
  PROVE  DebtInv'
<1>w. Wt[p] \in Worktrees
  BY FastCommitAssumption
<1>m. MarkerInv'
  BY DEF StartCommit, EnterGate, GateFails, gateVars, DebtInv, MarkerInv
<1>1. CASE StartCommit(p)
  <2>1. RunInv(p)'
    BY <1>1 DEF StartCommit, TypeOK, RunInv, repoVars
  <2>2. \A c \in fast : madeIn[c] = Wt[p] => Owed(c)'
    BY <1>1 DEF StartCommit, DebtInv, FastInv, Owed, repoVars, logVars, awayVars
  <2>. QED
    BY <1>1, <1>m, <2>1, <2>2, LocalStep
       DEF StartCommit, TypeOK, repoVars, logVars, awayVars
<1>2. CASE EnterGate(p)
  <2>1. RunInv(p)'
    BY <1>2 DEF EnterGate, TypeOK, DebtInv, RunInv, repoVars
  <2>2. \A c \in fast : madeIn[c] = Wt[p] => Owed(c)'
    BY <1>2 DEF EnterGate, DebtInv, FastInv, Owed, repoVars, logVars, awayVars
  <2>. QED
    BY <1>2, <1>m, <2>1, <2>2, LocalStep
       DEF EnterGate, TypeOK, repoVars, logVars, awayVars
<1>3. CASE GateFails(p)
  <2>1. pending[Wt[p]] = NoPending
    BY <1>3 DEF GateFails, DebtInv, RunInv
  <2>2. pending' = pending
    BY <1>3, <1>w, <2>1 DEF GateFails, ExitHook, TypeOK
  <2>. QED BY <1>3, <2>2, StopStep DEF GateFails
<1>. QED BY <1>1, <1>2, <1>3

LEMMA PassSteps ==
  ASSUME TypeOK, DebtInv, Sheltered, NEW p \in Committers,
         SkipDocsOnly(p) \/ MarkerHit(p) \/ Bridge(p) \/ SlotsPass(p)
  PROVE  DebtInv'
<1>w. Wt[p] \in Worktrees /\ snap[p] \in BOOLEAN
  BY FastCommitAssumption DEF TypeOK
<1>1. CASE SkipDocsOnly(p)
  <2>1. MarkerInv'
    BY <1>1 DEF SkipDocsOnly, gateVars, DebtInv, MarkerInv
  <2>. QED BY <1>1, <2>1, PassStep DEF SkipDocsOnly
<1>2. CASE MarkerHit(p)
  <2>1. MarkerInv'
    BY <1>2 DEF MarkerHit, DebtInv, MarkerInv
  <2>2. /\ marker[Wt[p]].skipped \in BOOLEAN
        /\ marker[Wt[p]].skipped => snap[p]
    BY <1>2, <1>w DEF MarkerHit, TypeOK, DebtInv, MarkerInv
  <2>. QED BY <1>2, <1>w, <2>1, <2>2, PassStep DEF MarkerHit
<1>3. CASE Bridge(p)
  <2>1. MarkerInv'
    BY <1>3, <1>w DEF Bridge, Stamp, TypeOK, DebtInv, MarkerInv
  <2>. QED BY <1>3, <2>1, PassStep DEF Bridge
<1>4. CASE SlotsPass(p)
  <2>1. PICK s \in {FALSE, snap[p]} : Pass(p, s, s) /\ Stamp(p, s)
    BY <1>4 DEF SlotsPass
  <2>2. MarkerInv'
    BY <1>w, <2>1 DEF Stamp, TypeOK, DebtInv, MarkerInv
  <2>. QED BY <1>4, <1>w, <2>1, <2>2, PassStep DEF SlotsPass
<1>. QED BY <1>1, <1>2, <1>3, <1>4

LEMMA StepDebtInv ==
  ASSUME Sheltered
  PROVE  TypeOK /\ ClearInv /\ DebtInv /\ [Next]_vars => DebtInv'
<1>. SUFFICES ASSUME TypeOK, ClearInv, DebtInv, [Next]_vars PROVE DebtInv'
  OBVIOUS
<1>1. ASSUME NEW p \in Committers, CommitterStep(p) PROVE DebtInv'
  <2>1. CASE Recover(p) BY <2>1, RecoverStep
  <2>2. CASE AppendHead(p) \/ ConsumePending(p) BY <2>2, ReplaySteps
  <2>3. CASE AppendFails(p)
    BY <2>3, StopStep DEF AppendFails, gateVars
  <2>4. CASE StartCommit(p) \/ EnterGate(p) \/ GateFails(p)
    BY <2>4, GateSteps
  <2>5. CASE SkipDocsOnly(p) \/ MarkerHit(p) \/ Bridge(p) \/ SlotsPass(p)
    BY <2>5, PassSteps
  <2>6. CASE CommitNotMade(p)
    BY <2>6, StopStep DEF CommitNotMade, gateVars
  <2>7. ASSUME NEW c \in Commits, CreateCommit(p, c) PROVE DebtInv'
    BY <2>7, CreateStep DEF ClearInv
  <2>8. CASE PostCommit(p) BY <2>8, PostCommitStep
  <2>9. CASE KillCommitter(p)
    BY <2>9, StopStep DEF KillCommitter
  <2>. QED
    BY <1>1, <2>1, <2>2, <2>3, <2>4, <2>5, <2>6, <2>7, <2>8, <2>9
       DEF CommitterStep, PreflightInterrupted, Sheltered
<1>2. ASSUME NEW w \in Worktrees, WorktreeStep(w) PROVE DebtInv'
  <2>1. CASE MarkerLapses(w)
    <3>1. MarkerInv'
      BY <2>1 DEF MarkerLapses, TypeOK, DebtInv, MarkerInv, NoMarker
    <3>2. FastInv' /\ \A p \in Committers : RunInv(p)'
      BY <2>1 DEF MarkerLapses, DebtInv, FastInv, Owed, RunInv, Made,
                  repoVars, logVars, runVars, awayVars
    <3>. QED BY <3>1, <3>2 DEF DebtInv
  <2>2. CASE FullVerify(w)
    BY <2>2, AwayStep DEF FullVerify, debtVars, repoVars, logVars, gateVars
  <2>3. CASE EvidenceLapses(w)
    BY <2>3, AwayStep DEF EvidenceLapses, debtVars, repoVars, logVars, gateVars
  <2>. QED
    BY <1>2, <2>1, <2>2, <2>3
       DEF WorktreeStep, MergeBranch, FastForward, Sheltered
<1>3. ASSUME NEW q \in Pushers, PusherStep(q) PROVE DebtInv'
  <2>1. UNCHANGED committerVars
    BY <1>3 DEF PusherStep, PushReadsLog, PushChecksTip, PushChecksEvidence,
                ClearFilters, ClearRenames, PushEnds, KillPusher
  <2>. QED
    BY <2>1, LogShrinks, AwayStep DEF committerVars, debtVars, repoVars, gateVars
<1>4. CASE FlipToggle
  BY <1>4, AwayStep DEF FlipToggle, debtVars, repoVars, logVars, gateVars
<1>5. CASE UNCHANGED vars
  BY <1>5, AwayStep DEF vars, debtVars, repoVars, logVars, gateVars, awayVars
<1>. QED BY <1>1, <1>2, <1>3, <1>4, <1>5 DEF Next

(***************************************************************************)
(* Outside the four leaks, no test debt is ever lost: through failed       *)
(* appends, kills at any point, retries, pushes and other lanes, a commit   *)
(* made with slots skipped stays in the log or in its worktree's marker    *)
(* until a full verify has passed on a HEAD that contains it.              *)
(***************************************************************************)
THEOREM DebtIsNeverLost ==
  ASSUME Sheltered
  PROVE  Spec => []DebtTracked
<1>1. Init => TypeOK /\ ClearInv /\ DebtInv
  BY InitTypeOK, InitClearInv, InitDebtInv
<1>2. TypeOK /\ ClearInv /\ DebtInv /\ [Next]_vars
        => (TypeOK /\ ClearInv /\ DebtInv)'
  BY StepTypeOK, StepClearInv, StepDebtInv DEF Sheltered
<1>. QED
  BY <1>1, <1>2, DebtInvTracks, PTL DEF Spec

-----------------------------------------------------------------------------
(* What reaches the remote.  Pre-push looks at the log alone, so a commit    *)
(* must be in it when a push begins and stay: no append fails, no filter      *)
(* stops short, no process is killed, one commit at a time runs in a          *)
(* worktree, and no push begins while the hooks of a commit run.  Everything *)
(* else may happen.                                                          *)
Undisturbed ==
  /\ \A p, k \in Committers : Wt[p] = Wt[k] => p = k
  /\ Events \cap {"io", "short", "kill", "latepush"} = {}

LEMMA NoShortFilter == Undisturbed => FiltersComplete
  BY DEF Undisturbed, FiltersComplete

(* c is logged or verified, or post-commit is about to log it and the marker  *)
(* names it.                                                                   *)
Listing(p, c) ==
  /\ madeIn[c] = Wt[p]
  /\ \/ pc[p] = "made" /\ head[Wt[p]] = c /\ pending[Wt[p]] = Pending(parent[c])
     \/ pc[p] = "finalize" /\ c \in todo[p] /\ c \in pending[Wt[p]].heads
Listed(c) == c \in log \cup paid \/ \E p \in Committers : Listing(p, c)

Promised(p) == pc[p] = "passed" /\ skips[p] => pending[Wt[p]] = Pending(head[Wt[p]])

ListInv ==
  /\ \A c \in fast : c \in Made /\ Listed(c)
  /\ MarkerInv
  /\ \A p \in Committers : Promised(p)

LEMMA InitListInv == Init => ListInv
  BY DEF Init, ListInv, MarkerInv, NoMarker, Promised

LEMMA ListedTracks == TypeOK /\ ListInv => DebtTracked
<1>. SUFFICES ASSUME TypeOK, ListInv, NEW c \in fast, c \notin log \cup paid
              PROVE  MarkedPending(c)
  BY DEF DebtTracked
<1>1. PICK p \in Committers : Listing(p, c)
  BY DEF ListInv, Listed
<1>2. CASE c \in pending[Wt[p]].heads
  BY <1>1, <1>2 DEF Listing, MarkedPending
<1>3. CASE pending[Wt[p]] = Pending(parent[c])
  <2>1. parent[c] # Nobody
    BY FastCommitAssumption DEF TypeOK, Refs
  <2>. QED BY <1>1, <1>3, <2>1 DEF Listing, MarkedPending, Pending, NoPending
<1>. QED BY <1>1, <1>2, <1>3 DEF Listing

(* A step of committer p that leaves the repository alone.                  *)
LEMMA LocalListStep ==
  ASSUME TypeOK, ListInv, Undisturbed, NEW p \in Committers,
         UNCHANGED <<head, parent, hist, madeIn, fast, paid>>, log \subseteq log',
         \A v \in Worktrees : v # Wt[p] => pending'[v] = pending[v],
         \A k \in Committers : k # p =>
           pc'[k] = pc[k] /\ skips'[k] = skips[k] /\ todo'[k] = todo[k],
         MarkerInv', Promised(p)',
         \A c \in fast : Listing(p, c) => c \in log' \/ Listing(p, c)'
  PROVE  ListInv'
<1>1. ASSUME NEW k \in Committers, k # p
      PROVE  Promised(k)' /\ \A c : Listing(k, c) => Listing(k, c)'
  <2>1. Wt[k] \in Worktrees /\ Wt[k] # Wt[p]
    BY <1>1, FastCommitAssumption DEF Undisturbed
  <2>2. Promised(k)
    BY DEF ListInv
  <2>. QED BY <1>1, <2>1, <2>2 DEF Promised, Listing
<1>2. ASSUME NEW c \in fast PROVE c \in Made' /\ Listed(c)'
  <2>1. c \in Made /\ Listed(c)
    BY DEF ListInv
  <2>2. c \in Made'
    BY <2>1 DEF Made
  <2>3. CASE c \in log \cup paid
    BY <2>2, <2>3 DEF Listed
  <2>4. ASSUME NEW k \in Committers, Listing(k, c) PROVE Listed(c)'
    <3>1. CASE k = p
      BY <2>4, <3>1 DEF Listed
    <3>2. CASE k # p
      BY <1>1, <2>4, <3>2 DEF Listed
    <3>. QED BY <3>1, <3>2
  <2>. QED BY <2>1, <2>2, <2>3, <2>4 DEF Listed
<1>. QED BY <1>1, <1>2 DEF ListInv

(* Steps before the commit is made, and those of the replay.                 *)
LEMMA QuietListStep ==
  ASSUME TypeOK, ListInv, Undisturbed, NEW p \in Committers, pc[p] \notin {"made", "finalize"},
         UNCHANGED <<repoVars, awayVars>>, log \subseteq log',
         \A v \in Worktrees : v # Wt[p] => pending'[v] = pending[v],
         \A k \in Committers : k # p =>
           pc'[k] = pc[k] /\ skips'[k] = skips[k] /\ todo'[k] = todo[k],
         MarkerInv', Promised(p)'
  PROVE  ListInv'
  BY LocalListStep DEF Listing, repoVars, awayVars

LEMMA PassListStep ==
  ASSUME TypeOK, ListInv, Undisturbed, NEW p \in Committers, pc[p] \in {"gate", "locked"},
         NEW r \in BOOLEAN, NEW s \in BOOLEAN, s => r, Pass(p, r, s),
         MarkerInv', UNCHANGED <<repoVars, logVars, awayVars>>
  PROVE  ListInv'
<1>w. Wt[p] \in Worktrees
  BY FastCommitAssumption
<1>0. \/ skips'[p] = FALSE
      \/ /\ pending'[Wt[p]] = IF r THEN Pending(head[Wt[p]]) ELSE NoPending
         /\ skips'[p] = s
  BY ZenonT(60), PassOutcome
<1>1. skips'[p] => pending'[Wt[p]] = Pending(head[Wt[p]])
  BY <1>0
<1>2. Promised(p)'
  BY <1>1 DEF Promised, repoVars
<1>. QED
  BY <1>2, PassOutcome, QuietListStep DEF Pass, TypeOK, logVars

LEMMA PassListSteps ==
  ASSUME TypeOK, ListInv, Undisturbed, NEW p \in Committers,
         SkipDocsOnly(p) \/ MarkerHit(p) \/ Bridge(p) \/ SlotsPass(p)
  PROVE  ListInv'
<1>w. Wt[p] \in Worktrees /\ snap[p] \in BOOLEAN
  BY FastCommitAssumption DEF TypeOK
<1>1. CASE SkipDocsOnly(p)
  <2>1. MarkerInv'
    BY <1>1 DEF SkipDocsOnly, gateVars, ListInv, MarkerInv
  <2>. QED BY <1>1, <2>1, PassListStep DEF SkipDocsOnly
<1>2. CASE MarkerHit(p)
  <2>1. MarkerInv'
    BY <1>2 DEF MarkerHit, ListInv, MarkerInv
  <2>2. /\ marker[Wt[p]].skipped \in BOOLEAN
        /\ marker[Wt[p]].skipped => snap[p]
    BY <1>2, <1>w DEF MarkerHit, TypeOK, ListInv, MarkerInv
  <2>. QED BY <1>2, <1>w, <2>1, <2>2, PassListStep DEF MarkerHit
<1>3. CASE Bridge(p)
  <2>1. MarkerInv'
    BY <1>3, <1>w DEF Bridge, Stamp, TypeOK, ListInv, MarkerInv
  <2>. QED BY <1>3, <2>1, PassListStep DEF Bridge
<1>4. CASE SlotsPass(p)
  <2>1. PICK s \in {FALSE, snap[p]} : Pass(p, s, s) /\ Stamp(p, s)
    BY <1>4 DEF SlotsPass
  <2>2. MarkerInv'
    BY <1>w, <2>1 DEF Stamp, TypeOK, ListInv, MarkerInv
  <2>. QED BY <1>4, <1>w, <2>1, <2>2, PassListStep DEF SlotsPass
<1>. QED BY <1>1, <1>2, <1>3, <1>4

(* The commit is made while its marker stands.                              *)
LEMMA CreateListStep ==
  ASSUME TypeOK, ListInv, Undisturbed, NEW p \in Committers, NEW c \in Commits, CreateCommit(p, c)
  PROVE  ListInv'
<1>. DEFINE w == Wt[p]
<1>w. w \in Worktrees
  BY FastCommitAssumption
<1>0. /\ pc[p] = "passed" /\ c \notin Made
      /\ parent' = [parent EXCEPT ![c] = head[w]]
      /\ hist' = [hist EXCEPT ![c] = History(head[w]) \cup {c}]
      /\ madeIn' = [madeIn EXCEPT ![c] = w]
      /\ head' = [head EXCEPT ![w] = c]
      /\ fast' = IF skips[p] THEN fast \cup {c} ELSE fast
      /\ pc' = [pc EXCEPT ![p] = "made"]
      /\ skips' = [skips EXCEPT ![p] = FALSE]
      /\ UNCHANGED <<log, pending, marker, todo, paid>>
  BY DEF CreateCommit, logVars, gateVars, awayVars
<1>1. ASSUME NEW k \in Committers
      PROVE  Promised(k)' /\ \A d \in Commits \ {c} : Listing(k, d) => Listing(k, d)'
  <2>1. CASE k = p
    BY <1>0, <2>1 DEF TypeOK, Promised, Listing
  <2>2. CASE k # p
    <3>1. Wt[k] \in Worktrees /\ Wt[k] # w
      BY <2>2, FastCommitAssumption DEF Undisturbed
    <3>2. head'[Wt[k]] = head[Wt[k]] /\ pc'[k] = pc[k] /\ skips'[k] = skips[k]
      BY <1>0, <2>2, <3>1 DEF TypeOK
    <3>3. Promised(k)
      BY DEF ListInv
    <3>4. \A d \in Commits \ {c} : parent'[d] = parent[d] /\ madeIn'[d] = madeIn[d]
      BY <1>0 DEF TypeOK
    <3>. QED BY <1>0, <3>2, <3>3, <3>4 DEF Promised, Listing
  <2>. QED BY <2>1, <2>2
<1>2. ASSUME NEW d \in fast PROVE d \in Made' /\ Listed(d)'
  <2>1. d \in Made /\ Listed(d) /\ d \in Commits \ {c}
    BY <1>0 DEF ListInv, Made
  <2>2. d \in Made'
    BY <1>0, <2>1 DEF TypeOK, Made
  <2>. QED BY <1>0, <1>1, <2>1, <2>2 DEF Listed
<1>3. ASSUME skips[p] PROVE c \in Made' /\ Listed(c)'
  <2>1. hist'[c] # {} /\ head'[w] = c /\ pc'[p] = "made" /\ parent'[c] = head[w] /\ madeIn'[c] = w
    BY <1>0, <1>w DEF TypeOK
  <2>2. pending[w] = Pending(head[w])
    BY <1>0, <1>3 DEF ListInv, Promised
  <2>. QED BY <1>0, <2>1, <2>2 DEF Made, Listed, Listing
<1>4. MarkerInv'
  BY <1>0 DEF ListInv, MarkerInv
<1>. QED BY <1>0, <1>1, <1>2, <1>3, <1>4 DEF ListInv

(* Post-commit lists HEAD and appends all it listed.                        *)
LEMMA PostListSteps ==
  ASSUME TypeOK, ListInv, Undisturbed, NEW p \in Committers,
         PostCommit(p) \/ AppendHead(p) \/ ConsumePending(p)
  PROVE  ListInv'
<1>w. Wt[p] \in Worktrees
  BY FastCommitAssumption
<1>m. MarkerInv'
  BY DEF PostCommit, AppendHead, ConsumePending, gateVars, ListInv, MarkerInv
<1>r. UNCHANGED <<head, parent, hist, madeIn, fast, paid>> /\ log \subseteq log'
  BY DEF PostCommit, AppendHead, ConsumePending, repoVars, logVars, awayVars
<1>1. CASE PostCommit(p)
  <2>1. CASE Stop(p) /\ UNCHANGED pending /\ (pending[Wt[p]] = NoPending \/ head[Wt[p]] = Root)
    <3>1. pc[p] = "made"
      BY <1>1 DEF PostCommit
    <3>2. \A c \in fast : ~Listing(p, c)
      BY <2>1, <3>1, FastCommitAssumption DEF Listing, TypeOK, Pending, NoPending, Refs
    <3>3. Promised(p)'
      BY <2>1 DEF Stop, TypeOK, Promised
    <3>. QED BY <1>m, <1>r, <2>1, <3>2, <3>3, LocalListStep DEF Stop, TypeOK
  <2>2. CASE /\ pc' = [pc EXCEPT ![p] = "finalize"]
             /\ todo' = [todo EXCEPT ![p] = pending[Wt[p]].heads \cup {head[Wt[p]]}]
             /\ pending' = [pending EXCEPT ![Wt[p]].heads = pending[Wt[p]].heads \cup {head[Wt[p]]}]
             /\ UNCHANGED <<base, snap, skips>>
    <3>1. pc[p] = "made"
      BY <1>1 DEF PostCommit
    <3>2. pc'[p] = "finalize" /\ head[Wt[p]] \in todo'[p] /\ head[Wt[p]] \in pending'[Wt[p]].heads
      BY <1>w, <2>2 DEF TypeOK
    <3>3. \A c \in fast : Listing(p, c) => Listing(p, c)'
      BY <1>r, <3>1, <3>2 DEF Listing
    <3>4. Promised(p)'
      BY <3>2 DEF Promised
    <3>5. \A v \in Worktrees : v # Wt[p] => pending'[v] = pending[v]
      BY <2>2 DEF TypeOK
    <3>. QED BY <1>m, <1>r, <2>2, <3>3, <3>4, <3>5, LocalListStep DEF TypeOK
  <2>. QED BY <1>1, <2>1, <2>2 DEF PostCommit, Undisturbed
<1>2. CASE AppendHead(p)
  <2>1. PICK c \in todo[p] : /\ log' = log \cup {c}
                             /\ todo' = [todo EXCEPT ![p] = @ \ {c}]
    BY <1>2 DEF AppendHead
  <2>2. UNCHANGED <<pending, pc, skips>> /\ pc[p] \in {"replay", "finalize"}
    BY <1>2 DEF AppendHead
  <2>3. todo'[p] = todo[p] \ {c} /\ \A k \in Committers : k # p => todo'[k] = todo[k]
    BY <2>1 DEF TypeOK
  <2>4. \A d \in fast : Listing(p, d) => d \in log' \/ Listing(p, d)'
    BY <1>r, <2>1, <2>2, <2>3 DEF Listing
  <2>5. Promised(p)'
    BY <2>2 DEF Promised
  <2>. QED BY <1>m, <1>r, <2>2, <2>3, <2>4, <2>5, LocalListStep
<1>3. CASE ConsumePending(p)
  <2>1. \A d \in fast : ~Listing(p, d)
    BY <1>3 DEF ConsumePending, Listing
  <2>2. \A v \in Worktrees : v # Wt[p] => pending'[v] = pending[v]
    BY <1>3 DEF ConsumePending, TypeOK
  <2>3. pc'[p] # "passed" /\ \A k \in Committers : k # p =>
          pc'[k] = pc[k] /\ skips'[k] = skips[k] /\ todo'[k] = todo[k]
    BY <1>3 DEF ConsumePending, Stop, TypeOK
  <2>4. Promised(p)'
    BY <2>3 DEF Promised
  <2>. QED BY <1>m, <1>r, <2>1, <2>2, <2>3, <2>4, LocalListStep
<1>. QED BY <1>1, <1>2, <1>3

(* Every other step of a `git commit` comes before the commit.              *)
LEMMA EarlyListSteps ==
  ASSUME TypeOK, ListInv, Undisturbed, NEW p \in Committers,
         \/ StartCommit(p) \/ PreflightInterrupted(p) \/ Recover(p)
         \/ EnterGate(p) \/ GateFails(p) \/ CommitNotMade(p)
  PROVE  ListInv'
<1>. USE DEF StartCommit, PreflightInterrupted, Recover, EnterGate, GateFails, CommitNotMade
<1>1. MarkerInv'
  BY DEF gateVars, ListInv, MarkerInv
<1>2. UNCHANGED <<repoVars, log, awayVars>>
  BY DEF logVars
<1>3. pc[p] \notin {"made", "finalize"}
  OBVIOUS
<1>4. \A v \in Worktrees : v # Wt[p] => pending'[v] = pending[v]
  BY DEF ExitHook, TypeOK
<1>5. pc'[p] # "passed"
  BY DEF Stop, TypeOK
<1>6. \A k \in Committers : k # p =>
        pc'[k] = pc[k] /\ skips'[k] = skips[k] /\ todo'[k] = todo[k]
  BY DEF Stop, TypeOK
<1>7. Promised(p)'
  BY <1>5 DEF Promised
<1>. QED BY <1>1, <1>2, <1>3, <1>4, <1>6, <1>7, QuietListStep

listVars == <<head, parent, hist, madeIn, fast, pending, marker, pc, skips, todo>>

LEMMA AwayListStep ==
  ASSUME ListInv, UNCHANGED listVars, log \subseteq log' \cup paid', paid \subseteq paid'
  PROVE  ListInv'
  BY DEF ListInv, Listed, Listing, Promised, MarkerInv, Made, listVars

(* HEAD moves by a merge only where no commit is under way.                 *)
LEMMA MergeListStep ==
  ASSUME TypeOK, ListInv, NEW w \in Worktrees, ~Busy(w),
         \A d \in Made : hist'[d] # {} /\ parent'[d] = parent[d] /\ madeIn'[d] = madeIn[d],
         \A v \in Worktrees : v # w => head'[v] = head[v],
         UNCHANGED <<fast, log, pending, marker, pc, skips, todo, paid>>
  PROVE  ListInv'
<1>1. ASSUME NEW p \in Committers, pc[p] # "idle" PROVE head'[Wt[p]] = head[Wt[p]]
  BY <1>1, FastCommitAssumption DEF Busy
<1>2. \A c \in fast : c \in Made' /\ Listed(c)'
  BY <1>1 DEF ListInv, Listed, Listing, Made
<1>3. MarkerInv'
  BY DEF ListInv, MarkerInv
<1>4. ASSUME NEW p \in Committers PROVE Promised(p)'
  <2>1. CASE pc[p] = "passed"
    <3>1. head'[Wt[p]] = head[Wt[p]]
      BY <1>1, <2>1
    <3>. QED BY <3>1 DEF ListInv, Promised, Pending
  <2>2. CASE pc[p] # "passed"
    BY <2>2 DEF Promised
  <2>. QED BY <2>1, <2>2
<1>. QED BY <1>2, <1>3, <1>4 DEF ListInv

LEMMA StepListInv ==
  ASSUME Undisturbed
  PROVE  TypeOK /\ ClearInv /\ ListInv /\ [Next]_vars => ListInv'
<1>. SUFFICES ASSUME TypeOK, ClearInv, ListInv, [Next]_vars PROVE ListInv'
  OBVIOUS
<1>1. ASSUME NEW p \in Committers, CommitterStep(p) PROVE ListInv'
  <2>1. ~AppendFails(p) /\ ~KillCommitter(p)
    BY DEF AppendFails, KillCommitter, Undisturbed
  <2>2. ASSUME NEW c \in Commits, CreateCommit(p, c) PROVE ListInv'
    BY <2>2, CreateListStep
  <2>. QED
    BY <1>1, <2>1, <2>2, EarlyListSteps, PostListSteps, PassListSteps DEF CommitterStep
<1>2. ASSUME NEW w \in Worktrees, WorktreeStep(w) PROVE ListInv'
  <2>1. CASE MarkerLapses(w)
    <3>1. MarkerInv'
      BY <2>1 DEF MarkerLapses, TypeOK, ListInv, MarkerInv, NoMarker
    <3>. QED
      BY <2>1, <3>1 DEF MarkerLapses, ListInv, Listed, Listing, Promised, Made,
                        repoVars, logVars, runVars, awayVars
  <2>2. CASE FullVerify(w)
    BY <2>2, AwayListStep DEF FullVerify, listVars, repoVars, logVars, gateVars, runVars
  <2>3. CASE EvidenceLapses(w)
    BY <2>3, AwayListStep DEF EvidenceLapses, listVars, repoVars, logVars, gateVars, runVars
  <2>4. ASSUME NEW t \in Commits, NEW c \in Commits, MergeBranch(w, t, c) PROVE ListInv'
    <3>1. /\ ~Busy(w) /\ c \notin Made /\ head' = [head EXCEPT ![w] = c]
          /\ parent' = [parent EXCEPT ![c] = head[w]] /\ madeIn' = [madeIn EXCEPT ![c] = w]
          /\ hist' = [hist EXCEPT ![c] = hist[head[w]] \cup hist[t] \cup {c}]
          /\ UNCHANGED <<fast, log, pending, marker, pc, skips, todo, paid>>
      BY <2>4 DEF MergeBranch, logVars, gateVars, runVars, awayVars
    <3>2. \A d \in Made : hist'[d] # {} /\ parent'[d] = parent[d] /\ madeIn'[d] = madeIn[d]
      BY <3>1 DEF TypeOK, Made
    <3>3. \A v \in Worktrees : v # w => head'[v] = head[v]
      BY <3>1 DEF TypeOK
    <3>. QED BY <3>1, <3>2, <3>3, MergeListStep
  <2>5. ASSUME NEW t \in Commits, FastForward(w, t) PROVE ListInv'
    <3>1. /\ ~Busy(w) /\ head' = [head EXCEPT ![w] = t]
          /\ UNCHANGED <<parent, hist, madeIn, fast, log, pending, marker, pc, skips, todo, paid>>
      BY <2>5 DEF FastForward, logVars, gateVars, runVars, awayVars
    <3>2. \A d \in Made : hist'[d] # {} /\ parent'[d] = parent[d] /\ madeIn'[d] = madeIn[d]
      BY <3>1 DEF Made
    <3>3. \A v \in Worktrees : v # w => head'[v] = head[v]
      BY <3>1 DEF TypeOK
    <3>. QED BY <3>1, <3>2, <3>3, MergeListStep
  <2>. QED BY <1>2, <2>1, <2>2, <2>3, <2>4, <2>5 DEF WorktreeStep
<1>3. ASSUME NEW q \in Pushers, PusherStep(q) PROVE ListInv'
  <2>1. UNCHANGED committerVars
    BY <1>3 DEF PusherStep, PushReadsLog, PushChecksTip, PushChecksEvidence,
                ClearFilters, ClearRenames, PushEnds, KillPusher
  <2>. QED
    BY <2>1, LogShrinks, AwayListStep DEF committerVars, listVars, repoVars, gateVars, runVars
<1>4. CASE FlipToggle
  BY <1>4, AwayListStep DEF FlipToggle, listVars, repoVars, logVars, gateVars, runVars
<1>5. CASE UNCHANGED vars
  BY <1>5, AwayListStep DEF vars, listVars, repoVars, logVars, gateVars, runVars, awayVars
<1>. QED BY <1>1, <1>2, <1>3, <1>4, <1>5 DEF Next

(***************************************************************************)
(* Where nothing fails and no process is killed, debt is tracked across      *)
(* merges and fast-forwards too, and through interrupted preflights: a       *)
(* commit made with slots skipped is in the log, or post-commit still has it  *)
(* in hand and the marker names it.                                            *)
(***************************************************************************)
THEOREM DebtSurvivesMerges ==
  ASSUME Undisturbed
  PROVE  Spec => []DebtTracked
<1>1. Init => TypeOK /\ ClearInv /\ ListInv
  BY InitTypeOK, InitClearInv, InitListInv
<1>2. TypeOK /\ ClearInv /\ ListInv /\ [Next]_vars => (TypeOK /\ ClearInv /\ ListInv)'
  BY StepTypeOK, StepClearInv, StepListInv, NoShortFilter
<1>. QED BY <1>1, <1>2, ListedTracks, PTL DEF Spec

(* Histories are closed, and so is what the remote has.                     *)
ClosedInv ==
  /\ \A c \in Commits : \A d \in hist[c] : hist[d] \subseteq hist[c]
  /\ \A d \in published : hist[d] \subseteq published

(* The debt a push is about to publish is verified, or among the commits it
   asks evidence for.                                                       *)
Covered(q) ==
  LET debt == fast \cap hist[tip[q]]
  IN  /\ ppc[q] # "idle" => tip[q] \in Made
      /\ ppc[q] \in {"checkTip", "evidence"} => debt \subseteq paid \cup req[q]
      /\ ppc[q] \in {"clear", "rename", "send"} => debt \subseteq paid

PublishInv == ClosedInv /\ PublishedPaid /\ \A q \in Pushers : Covered(q)

LEMMA InitPublishInv == Init => PublishInv
  BY DEF Init, PublishInv, ClosedInv, PublishedPaid, Covered

(* New commits are in no history and on no remote yet.                      *)
LEMMA GrowPublishInv ==
  ASSUME TypeOK, ClearInv, PublishInv, NEW c \in Commits, c \notin Made, NEW H \in SUBSET Made,
         \A d \in H : hist[d] \subseteq H,
         hist' = [hist EXCEPT ![c] = H \cup {c}],
         fast' \subseteq fast \cup {c}, UNCHANGED <<pushVars, paid, published>>
  PROVE  PublishInv'
<1>0. \A d \in Made : hist'[d] = hist[d] /\ hist[d] \subseteq Made /\ d # c
  BY DEF TypeOK, ClearInv, HistoryInv, Made
<1>1. hist'[c] = H \cup {c} /\ \A d \in Commits : d # c => hist'[d] = hist[d]
  BY DEF TypeOK
<1>2. published \subseteq Made
  BY DEF ClearInv, HistoryInv
<1>3. ClosedInv'
  <2>1. \A d \in published' : hist'[d] \subseteq published'
    BY <1>0, <1>2 DEF PublishInv, ClosedInv
  <2>2. ASSUME NEW a \in Commits, NEW d \in hist'[a] PROVE hist'[d] \subseteq hist'[a]
    <3>1. CASE a = c
      BY <1>0, <1>1, <2>2, <3>1
    <3>2. CASE a # c
      <4>1. hist'[a] = hist[a] /\ d \in hist[a] /\ d \in Made
        BY <1>1, <2>2, <3>2 DEF ClearInv, HistoryInv
      <4>. QED BY <1>0, <4>1 DEF PublishInv, ClosedInv
    <3>. QED BY <3>1, <3>2
  <2>. QED BY <2>1, <2>2 DEF ClosedInv
<1>4. PublishedPaid'
  BY <1>0, <1>2 DEF PublishInv, PublishedPaid
<1>5. ASSUME NEW q \in Pushers PROVE Covered(q)'
  <2>1. Covered(q)
    BY DEF PublishInv
  <2>2. tip[q] \in Made => /\ hist'[tip[q]] = hist[tip[q]] /\ tip[q] \in Made'
                           /\ fast' \cap hist[tip[q]] \subseteq fast
    BY <1>0 DEF Made
  <2>. QED BY <2>1, <2>2 DEF Covered, pushVars
<1>. QED BY <1>3, <1>4, <1>5 DEF PublishInv

LEMMA QuietPublishInv ==
  ASSUME PublishInv, UNCHANGED <<hist, fast, pushVars, published>>, paid \subseteq paid'
  PROVE  PublishInv'
  BY DEF PublishInv, ClosedInv, PublishedPaid, Covered, Made, pushVars

(* Pushes: at the first reading of the log all debt is in it.               *)
LEMMA PusherPublishInv ==
  ASSUME TypeOK, ClearInv, ListInv, PublishInv, Undisturbed, NEW q \in Pushers, PusherStep(q)
  PROVE  PublishInv'
<1>. USE DEF committerVars, repoVars, PushStep, PushStops
<1>0. UNCHANGED <<hist, fast, paid>>
  BY DEF PusherStep, PushReadsLog, PushChecksTip, PushChecksEvidence,
         ClearFilters, ClearRenames, PushEnds, KillPusher
<1>1. ASSUME published' = published,
             \A k \in Pushers : k # q => /\ ppc'[k] = ppc[k] /\ tip'[k] = tip[k]
                                         /\ req'[k] = req[k],
             Covered(q)'
      PROVE  PublishInv'
  <2>1. ASSUME NEW k \in Pushers, k # q PROVE Covered(k)'
    <3>1. Covered(k)
      BY DEF PublishInv
    <3>. QED BY <1>0, <1>1, <2>1, <3>1 DEF Covered, Made
  <2>2. ClosedInv' /\ PublishedPaid'
    BY <1>0, <1>1 DEF PublishInv, ClosedInv, PublishedPaid
  <2>. QED BY <1>1, <2>1, <2>2 DEF PublishInv
<1>2. Covered(q)
  BY DEF PublishInv
<1>3. ASSUME NEW t \in Commits, NEW r \in Refs, PushReadsLog(q, t, r) PROVE PublishInv'
  <2>1. /\ t \in Made /\ r \in published \cup {Root} /\ \A w \in Worktrees : ~Busy(w)
        /\ ppc' = [ppc EXCEPT ![q] = "checkTip"] /\ tip' = [tip EXCEPT ![q] = t]
        /\ req' = [req EXCEPT ![q] = LoggedIn(t, r)] /\ published' = published
    BY <1>3 DEF PushReadsLog, Undisturbed
  <2>2. fast \subseteq log \cup paid
    <3>1. \A p \in Committers : pc[p] = "idle"
      BY <2>1, FastCommitAssumption DEF Busy
    <3>. QED BY <3>1 DEF ListInv, Listed, Listing
  <2>3. History(r) \subseteq published
    BY <2>1 DEF History, PublishInv, ClosedInv
  <2>4. fast \cap hist[t] \subseteq paid \cup LoggedIn(t, r)
    BY <2>2, <2>3 DEF LoggedIn, PublishInv, PublishedPaid
  <2>5. ppc'[q] = "checkTip" /\ tip'[q] = t /\ req'[q] = LoggedIn(t, r)
    BY <2>1 DEF TypeOK
  <2>6. Covered(q)'
    BY <1>0, <2>1, <2>4, <2>5 DEF Covered, Made
  <2>. QED BY <1>1, <2>1, <2>6 DEF TypeOK
<1>4. CASE PushChecksTip(q)
  <2>1. Covered(q)'
    BY <1>0, <1>2, <1>4 DEF PushChecksTip, Covered, TypeOK, Made
  <2>. QED BY <1>1, <1>4, <2>1 DEF PushChecksTip, TypeOK
<1>5. CASE PushChecksEvidence(q)
  <2>1. PushInv(q)'
    BY PusherClearInv, NoShortFilter DEF ClearInv
  <2>2. Covered(q)'
    BY <1>0, <1>2, <1>5, <2>1 DEF PushChecksEvidence, Covered, PushInv, TypeOK, Made
  <2>. QED BY <1>1, <1>5, <2>2 DEF PushChecksEvidence, TypeOK
<1>6. CASE ClearFilters(q)
  <2>1. Covered(q)'
    BY <1>0, <1>2, <1>6 DEF ClearFilters, Covered, TypeOK, Made
  <2>. QED BY <1>1, <1>6, <2>1 DEF ClearFilters, TypeOK
<1>7. CASE ClearRenames(q)
  <2>1. Covered(q)'
    BY <1>0, <1>2, <1>7 DEF ClearRenames, Covered, TypeOK, Made
  <2>. QED BY <1>1, <1>7, <2>1 DEF ClearRenames, TypeOK
<1>8. CASE PushEnds(q)
  <2>1. /\ ppc[q] = "send" /\ ppc' = [ppc EXCEPT ![q] = "idle"]
        /\ tip' = [tip EXCEPT ![q] = Root] /\ req' = [req EXCEPT ![q] = {}]
        /\ published' \in {published, published \cup History(tip[q])}
    BY <1>8 DEF PushEnds
  <2>2. ppc'[q] = "idle" /\ \A k \in Pushers : k # q =>
          ppc'[k] = ppc[k] /\ tip'[k] = tip[k] /\ req'[k] = req[k]
    BY <2>1 DEF TypeOK
  <2>3. tip[q] \in Made /\ fast \cap hist[tip[q]] \subseteq paid
    BY <1>2, <2>1 DEF Covered
  <2>4. History(tip[q]) = hist[tip[q]]
    BY <2>3, FastCommitAssumption DEF History, Made
  <2>5. PublishedPaid'
    BY <1>0, <2>1, <2>3, <2>4 DEF PublishInv, PublishedPaid
  <2>6. ClosedInv'
    BY <1>0, <2>1, <2>3, <2>4 DEF PublishInv, ClosedInv, Made
  <2>7. ASSUME NEW k \in Pushers PROVE Covered(k)'
    <3>1. Covered(k)
      BY DEF PublishInv
    <3>. QED BY <1>0, <2>2, <3>1 DEF Covered, Made
  <2>. QED BY <2>5, <2>6, <2>7 DEF PublishInv
<1>9. ~KillPusher(q)
  BY DEF KillPusher, Undisturbed
<1>. QED BY <1>3, <1>4, <1>5, <1>6, <1>7, <1>8, <1>9 DEF PusherStep

LEMMA StepPublishInv ==
  ASSUME Undisturbed
  PROVE  TypeOK /\ ClearInv /\ ListInv /\ PublishInv /\ [Next]_vars => PublishInv'
<1>. SUFFICES ASSUME TypeOK, ClearInv, ListInv, PublishInv, [Next]_vars PROVE PublishInv'
  OBVIOUS
<1>0. \A r \in Made \cup {Root} : /\ History(r) \subseteq Made
                                  /\ \A d \in History(r) : hist[d] \subseteq History(r)
  BY DEF ClearInv, HistoryInv, PublishInv, ClosedInv, History, Made
<1>1. ASSUME NEW p \in Committers, CommitterStep(p) PROVE PublishInv'
  <2>1. ASSUME NEW c \in Commits, CreateCommit(p, c) PROVE PublishInv'
    <3>1. Wt[p] \in Worktrees
      BY FastCommitAssumption
    <3>2. head[Wt[p]] \in Made \cup {Root}
      BY <3>1 DEF ClearInv, HistoryInv
    <3> DEFINE H == History(head[Wt[p]])
    <3>3. H \in SUBSET Made /\ \A d \in H : hist[d] \subseteq H
      BY <1>0, <3>2
    <3>4. /\ c \notin Made /\ hist' = [hist EXCEPT ![c] = H \cup {c}]
          /\ fast' \subseteq fast \cup {c} /\ UNCHANGED <<pushVars, paid, published>>
      BY <2>1 DEF CreateCommit, awayVars
    <3> HIDE DEF H
    <3>. QED BY <3>3, <3>4, GrowPublishInv
  <2>2. ASSUME \A c \in Commits : ~CreateCommit(p, c) PROVE PublishInv'
    <3>1. UNCHANGED <<hist, fast, pushVars, paid, published>>
      BY <1>1, <2>2
         DEF CommitterStep, StartCommit, PreflightInterrupted, Recover, AppendHead, AppendFails,
             ConsumePending, SkipDocsOnly, EnterGate, GateFails, MarkerHit, Bridge, SlotsPass,
             CommitNotMade, PostCommit, KillCommitter, repoVars, awayVars
    <3>. QED BY <3>1, QuietPublishInv
  <2>. QED BY <2>1, <2>2
<1>2. ASSUME NEW w \in Worktrees, WorktreeStep(w) PROVE PublishInv'
  <2>1. ASSUME NEW t \in Commits, NEW c \in Commits, MergeBranch(w, t, c) PROVE PublishInv'
    <3>1. /\ c \notin Made /\ t \in Made /\ head[w] # Root
          /\ hist' = [hist EXCEPT ![c] = (hist[head[w]] \cup hist[t]) \cup {c}]
          /\ fast' = fast /\ UNCHANGED <<pushVars, paid, published>>
      BY <2>1 DEF MergeBranch, awayVars
    <3>2. head[w] \in Made
      BY <3>1 DEF ClearInv, HistoryInv
    <3> DEFINE H == hist[head[w]] \cup hist[t]
    <3>3. H \in SUBSET Made /\ \A d \in H : hist[d] \subseteq H
      BY <3>1, <3>2 DEF ClearInv, HistoryInv, PublishInv, ClosedInv, Made
    <3>4. hist' = [hist EXCEPT ![c] = H \cup {c}]
      BY <3>1
    <3> HIDE DEF H
    <3>. QED BY <3>1, <3>3, <3>4, GrowPublishInv
  <2>2. CASE MarkerLapses(w) \/ FullVerify(w) \/ EvidenceLapses(w)
             \/ \E t \in Commits : FastForward(w, t)
    BY <2>2, QuietPublishInv DEF MarkerLapses, FullVerify, EvidenceLapses, FastForward, repoVars, awayVars
  <2>. QED BY <1>2, <2>1, <2>2 DEF WorktreeStep
<1>3. CASE FlipToggle
  BY <1>3, QuietPublishInv DEF FlipToggle, repoVars
<1>4. CASE UNCHANGED vars
  BY <1>4, QuietPublishInv DEF vars, repoVars, awayVars
<1>. QED BY <1>1, <1>2, <1>3, <1>4, PusherPublishInv DEF Next

(***************************************************************************)
(* Under the same condition no commit made with slots skipped reaches the   *)
(* remote before a full verify has passed on a HEAD that contains it,        *)
(* through any number of concurrent pushes, lanes, merges and fast-forwards   *)
(* (pre-push asks evidence for every logged commit the remote lacks).          *)
(***************************************************************************)
THEOREM PublishedDebtIsPaid ==
  ASSUME Undisturbed
  PROVE  Spec => []PublishedPaid
<1>. DEFINE Inv == TypeOK /\ ClearInv /\ ListInv /\ PublishInv
<1>1. Init => Inv
  BY InitTypeOK, InitClearInv, InitListInv, InitPublishInv
<1>2. Inv /\ [Next]_vars => Inv'
  BY StepTypeOK, StepClearInv, StepListInv, StepPublishInv, NoShortFilter
<1>3. Inv => PublishedPaid
  BY DEF PublishInv
<1>. HIDE DEF Inv
<1>. QED BY <1>1, <1>2, <1>3, PTL DEF Spec
=============================================================================
