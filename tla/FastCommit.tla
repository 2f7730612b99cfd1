----------------------------- MODULE FastCommit -----------------------------
(***************************************************************************)
(* Fast-commit provenance: how pre-commit, post-commit and pre-push keep   *)
(* track of the commits made while the slow verify slots were skipped.     *)
(*                                                                         *)
(*   .husky/pre-commit    recovers a left-over pending marker, runs the    *)
(*                        gate, and on exit writes or removes the marker   *)
(*   git                  runs commit-msg, creates the commit              *)
(*   .husky/post-commit   turns the marker into a line of the shared log   *)
(*   .husky/pre-push      asks for full-verify evidence for logged commits *)
(*                        and clears the ones it covers                    *)
(*                                                                         *)
(* The pending marker belongs to one worktree; the log, its lock and the   *)
(* toggle live in the Git common dir and are shared by every worktree.     *)
(***************************************************************************)
EXTENDS Naturals, FiniteSets

CONSTANTS
  Worktrees,    \* linked worktrees of one repository
  Committers,   \* `git commit` processes
  Pushers,      \* `git push` processes
  Wt,           \* the worktree each committer and pusher runs in
  Commits,      \* commit ids; bounds how many commits are ever made
  Root,         \* the unborn HEAD ("none" in the hooks)
  Nobody,       \* no process holds the lock
  Events        \* what else may happen, a subset of EventKinds

(***************************************************************************)
(*  "io"         an append, removal, rename or marker write fails          *)
(*  "short"      the filter of a clear stops short (disk full, grep killed) *)
(*  "kill"       SIGKILL or power loss of one process                      *)
(*  "interrupt"  a signal reaches pre-commit before its gate traps are set *)
(*  "unrecorded" pre-commit cannot write the pending marker (it only warns) *)
(*  "toggle"     musi-fast-commit is touched or removed along the way      *)
(*  "merge"      HEAD also moves by git merge, which runs neither hook     *)
(*  "lapse"      success markers and verify evidence stop counting         *)
(*  "latepush"   a push starts while some commit's hooks are running       *)
(***************************************************************************)
EventKinds == {"io", "short", "kill", "interrupt", "unrecorded", "toggle",
               "merge", "lapse", "latepush"}

ASSUME FastCommitAssumption ==
  /\ Wt \in [Committers \cup Pushers -> Worktrees]
  /\ Root \notin Commits
  /\ Nobody \notin Committers \cup Pushers \cup Commits \cup Worktrees
  /\ Nobody # Root
  /\ Events \subseteq EventKinds

Refs == Commits \cup {Root}

VARIABLES
  head,       \* HEAD of each worktree
  parent,     \* first parent of each commit
  hist,       \* each commit with its ancestors; {} until the commit is made
  madeIn,     \* the worktree a commit was made in
  fast,       \* history: commits whose content only ever saw a skipping gate,
              \* which recorded that it skipped
  toggle,     \* the musi-fast-commit file exists
  log,        \* musi-fast-commit-log
  logLock,    \* holder of musi-fast-commit-log.lock
  pending,    \* musi-fast-commit-pending.<worktree key>
  marker,     \* the worktree's fresh pre-commit success marker
  gateLock,   \* holder of the worktree's verify lock
  pc,         \* phase of each `git commit`
  base,       \* the HEAD it started from
  snap,       \* MUSI_FAST_COMMIT_ENABLED_SNAPSHOT and the pending record
  skips,      \* history: the run it rests on skipped a slow slot, unwarned
  todo,       \* recorded heads it has still to append
  ppc,        \* phase of each `git push`
  tip, rem,   \* the commit it pushes and the remote tip it replaces
  req,        \* the logged commits it publishes
  tmp,        \* the filtered copy of the log
  evidence,   \* HEAD for which the worktree holds fresh full-verify evidence
  paid,       \* history: commits contained in a HEAD a full verify passed on
  published   \* commits reachable from the remote

repoVars == <<head, parent, hist, madeIn, fast>>
logVars == <<log, logLock>>
gateVars == <<marker, gateLock>>
runVars == <<pc, base, snap, skips, todo>>
pushVars == <<ppc, tip, rem, req, tmp>>
awayVars == <<toggle, pushVars, evidence, paid, published>>
vars == <<repoVars, logVars, pending, gateVars, runVars, awayVars>>

NoPending == [parent |-> Nobody, heads |-> {}]
Pending(r) == [parent |-> r, heads |-> {}]
NoMarker == [head |-> Nobody, fast |-> FALSE, skipped |-> FALSE]

CommitPhases == {"idle", "preflight", "replay", "gate", "locked", "passed",
                 "made", "finalize"}
PushPhases == {"idle", "checkTip", "evidence", "clear", "rename", "send"}

Made == {c \in Commits : hist[c] # {}}

(* git rev-parse HEAD^1, "none" when HEAD has no parent *)
HeadParent(w) == IF head[w] = Root THEN Root ELSE parent[head[w]]

History(r) == IF r = Root THEN {} ELSE hist[r]

Busy(w) == \E p \in Committers : Wt[p] = w /\ pc[p] # "idle"

-----------------------------------------------------------------------------
Init ==
  /\ head = [w \in Worktrees |-> Root]
  /\ parent = [c \in Commits |-> Root]
  /\ hist = [c \in Commits |-> {}]
  /\ madeIn = [c \in Commits |-> Nobody]
  /\ fast = {}
  /\ toggle \in BOOLEAN
  /\ log = {}
  /\ logLock = Nobody
  /\ pending = [w \in Worktrees |-> NoPending]
  /\ marker = [w \in Worktrees |-> NoMarker]
  /\ gateLock = [w \in Worktrees |-> Nobody]
  /\ pc = [p \in Committers |-> "idle"]
  /\ base = [p \in Committers |-> Root]
  /\ snap = [p \in Committers |-> FALSE]
  /\ skips = [p \in Committers |-> FALSE]
  /\ todo = [p \in Committers |-> {}]
  /\ ppc = [q \in Pushers |-> "idle"]
  /\ tip = [q \in Pushers |-> Root]
  /\ rem = [q \in Pushers |-> Root]
  /\ req = [q \in Pushers |-> {}]
  /\ tmp = [q \in Pushers |-> {}]
  /\ evidence = [w \in Worktrees |-> Nobody]
  /\ paid = {}
  /\ published = {}

-----------------------------------------------------------------------------
(* The git process that runs the hooks.                                    *)

(* `git commit` starts, as long as Commits are left; pre-commit installs its
   exit hook.                                                              *)
StartCommit(p) ==
  /\ pc[p] = "idle"
  /\ Made # Commits
  /\ pc' = [pc EXCEPT ![p] = "preflight"]
  /\ base' = [base EXCEPT ![p] = head[Wt[p]]]
  /\ UNCHANGED <<repoVars, logVars, pending, gateVars, snap, skips, todo,
                 awayVars>>

(* The process is gone, with all it held in memory.                        *)
Stop(p) ==
  /\ pc' = [pc EXCEPT ![p] = "idle"]
  /\ base' = [base EXCEPT ![p] = Root]
  /\ snap' = [snap EXCEPT ![p] = FALSE]
  /\ skips' = [skips EXCEPT ![p] = FALSE]
  /\ todo' = [todo EXCEPT ![p] = {}]

(* Mutant: one pending marker for every worktree.                          *)
ExitHookUnkeyed(p, record) ==
  pending' = [w \in Worktrees |->
                IF record /\ w = Wt[p] THEN Pending(head[w]) ELSE NoPending]

(* musi_precommit_fast_provenance_on_exit with FAST_COMMIT_PENDING_PRESERVE=0:
   an exit that does not record a fast commit removes the marker.          *)
ExitHook(p, record) ==
  LET w == Wt[p]
  IN  pending' = [pending EXCEPT ![w] =
                    IF record THEN Pending(head[w]) ELSE NoPending]

(* A signal during the advisories or the recovery: only the EXIT dispatcher
   is installed, and it runs the exit hook.                                *)
PreflightInterrupted(p) ==
  /\ "interrupt" \in Events
  /\ pc[p] \in {"preflight", "replay"}
  /\ Stop(p)
  /\ ExitHook(p, FALSE)
  /\ UNCHANGED <<repoVars, logVars, gateVars, awayVars>>

(* musi_precommit_recover_fast_provenance up to its replay loop.           *)
Recover(p) ==
  LET w == Wt[p]
      heads == pending[w].heads
      from == pending[w].parent
      Replay(shas) == /\ pc' = [pc EXCEPT ![p] = "replay"]
                      /\ todo' = [todo EXCEPT ![p] = shas]
                      /\ UNCHANGED <<pending, base, snap, skips>>
      Enter == /\ pc' = [pc EXCEPT ![p] = "gate"]
               /\ pending' = [pending EXCEPT ![w] = NoPending]
               /\ UNCHANGED <<base, snap, skips, todo>>
      Refuse == Stop(p) /\ UNCHANGED pending
  IN /\ pc[p] = "preflight"
     /\ \/ pending[w] = NoPending /\ Enter
        \/ heads # {} /\ Replay(heads)
        \/ /\ pending[w] # NoPending /\ heads = {} /\ from = head[w]
           /\ Enter \/ ("io" \in Events /\ Refuse)
        \/ /\ pending[w] # NoPending /\ heads = {} /\ from # head[w]
           /\ \/ head[w] # Root /\ from = HeadParent(w) /\ Replay({head[w]})
              \/ (head[w] = Root \/ from # HeadParent(w)) /\ Refuse
     /\ UNCHANGED <<repoVars, logVars, gateVars, awayVars>>

(* Mutant: the append does not take the log lock.                          *)
AppendUnlocked(p) ==
  /\ pc[p] \in {"replay", "finalize"}
  /\ \E c \in todo[p] :
       /\ log' = log \cup {c}
       /\ todo' = [todo EXCEPT ![p] = @ \ {c}]
  /\ UNCHANGED <<repoVars, logLock, pending, gateVars, pc, base, snap, skips,
                 awayVars>>

(* musi_fast_commit_log_append of one recorded head, under the log lock:
   the replay loops of pre-commit and of post-commit.                      *)
AppendHead(p) ==
  /\ pc[p] \in {"replay", "finalize"}
  /\ logLock = Nobody
  /\ \E c \in todo[p] :
       /\ log' = log \cup {c}
       /\ todo' = [todo EXCEPT ![p] = @ \ {c}]
  /\ UNCHANGED <<repoVars, logLock, pending, gateVars, pc, base, snap, skips,
                 awayVars>>

(* An append fails: pre-commit refuses the commit and preserves the marker,
   post-commit returns and keeps it.                                       *)
AppendFails(p) ==
  /\ "io" \in Events
  /\ pc[p] \in {"replay", "finalize"}
  /\ todo[p] # {}
  /\ Stop(p)
  /\ UNCHANGED <<repoVars, logVars, pending, gateVars, awayVars>>

(* Every recorded head is logged: consume the marker.  Only pre-commit
   looks at the status of the removal.                                     *)
ConsumePending(p) ==
  /\ todo[p] = {}
  /\ \/ /\ pc[p] = "replay"
        /\ pc' = [pc EXCEPT ![p] = "gate"]
        /\ pending' = [pending EXCEPT ![Wt[p]] = NoPending]
        /\ UNCHANGED <<base, snap, skips, todo>>
     \/ /\ pc[p] = "finalize"
        /\ Stop(p)
        /\ pending' = [pending EXCEPT ![Wt[p]] = NoPending]
     \/ /\ "io" \in Events /\ pc[p] \in {"replay", "finalize"}
        /\ Stop(p)
        /\ UNCHANGED pending
  /\ UNCHANGED <<repoVars, logVars, gateVars, awayVars>>

(* pre-commit ends with status 0 and git goes on with the commit; where it
   could not write the marker it has warned of the debt.                   *)
Pass(p, recorded, skipped) ==
  /\ pc' = [pc EXCEPT ![p] = "passed"]
  /\ snap' = [snap EXCEPT ![p] = FALSE]
  /\ \/ ExitHook(p, recorded) /\ skips' = [skips EXCEPT ![p] = skipped]
     \/ /\ "unrecorded" \in Events /\ recorded
        /\ UNCHANGED pending /\ skips' = [skips EXCEPT ![p] = FALSE]
  /\ UNCHANGED <<base, todo>>

(* Nothing source-relevant is staged: the gate is not entered.             *)
SkipDocsOnly(p) ==
  /\ pc[p] = "gate"
  /\ Pass(p, FALSE, FALSE)
  /\ UNCHANGED <<repoVars, logVars, gateVars, awayVars>>

(* flock -n on the worktree's verify lock, then
   musi_precommit_snapshot_fast_mode.                                      *)
EnterGate(p) ==
  LET w == Wt[p]
  IN /\ pc[p] = "gate"
     /\ gateLock[w] = Nobody
     /\ gateLock' = [gateLock EXCEPT ![w] = p]
     /\ pc' = [pc EXCEPT ![p] = "locked"]
     /\ snap' = [snap EXCEPT ![p] = toggle]
     /\ UNCHANGED <<repoVars, logVars, pending, marker, base, skips, todo,
                    awayVars>>

Leave(p) == gateLock' = [gateLock EXCEPT ![Wt[p]] =
                           IF @ = p THEN Nobody ELSE @]

(* The lock is taken, a preflight check or a slot fails, or the gate is
   interrupted: pre-commit exits with a failing status.                    *)
GateFails(p) ==
  /\ pc[p] \in {"gate", "locked"}
  /\ Stop(p)
  /\ Leave(p)
  /\ ExitHook(p, FALSE)
  /\ UNCHANGED <<repoVars, logVars, marker, awayVars>>

(* Mutant: a marker hit is taken to skip nothing, so it records nothing.   *)
MarkerHitForgets(p) ==
  LET w == Wt[p]
  IN /\ pc[p] = "locked"
     /\ marker[w].head = head[w] /\ marker[w].fast = snap[p]
     /\ Pass(p, FALSE, marker[w].skipped)
     /\ Leave(p)
     /\ UNCHANGED <<repoVars, logVars, marker, awayVars>>

(* A fresh marker for this HEAD and this content, fast bit included in its
   fingerprint: FAST_COMMIT_RECORD_PENDING keeps its snapshot value.       *)
MarkerHit(p) ==
  LET w == Wt[p]
  IN /\ pc[p] = "locked"
     /\ marker[w].head = head[w] /\ marker[w].fast = snap[p]
     /\ Pass(p, snap[p], marker[w].skipped)
     /\ Leave(p)
     /\ UNCHANGED <<repoVars, logVars, marker, awayVars>>

Stamp(p, skipped) ==
  marker' = [marker EXCEPT ![Wt[p]] =
               [head |-> head[Wt[p]], fast |-> snap[p], skipped |-> skipped]]

(* A fresh manual verify covers this content: bridged, nothing skipped.    *)
Bridge(p) ==
  /\ pc[p] = "locked"
  /\ Pass(p, FALSE, FALSE)
  /\ Stamp(p, FALSE)
  /\ Leave(p)
  /\ UNCHANGED <<repoVars, logVars, awayVars>>

(* Every slot that ran passed; in fast mode slow slots may have been
   skipped, and musi_precommit_after_slots records exactly that.           *)
SlotsPass(p) ==
  /\ pc[p] = "locked"
  /\ \E skipped \in {FALSE, snap[p]} : Pass(p, skipped, skipped)
                                       /\ Stamp(p, skipped)
  /\ Leave(p)
  /\ UNCHANGED <<repoVars, logVars, awayVars>>

(* commit-msg refuses, the editor is left empty, or HEAD has moved under
   git: there is no commit.                                                *)
CommitNotMade(p) ==
  /\ pc[p] = "passed"
  /\ Stop(p)
  /\ UNCHANGED <<repoVars, logVars, pending, gateVars, awayVars>>

(* git creates commit c on top of the HEAD it started from.                *)
CreateCommit(p, c) ==
  LET w == Wt[p]
  IN /\ pc[p] = "passed"
     /\ head[w] = base[p]
     /\ c \notin Made
     /\ parent' = [parent EXCEPT ![c] = head[w]]
     /\ hist' = [hist EXCEPT ![c] = History(head[w]) \cup {c}]
     /\ madeIn' = [madeIn EXCEPT ![c] = w]
     /\ head' = [head EXCEPT ![w] = c]
     /\ fast' = IF skips[p] THEN fast \cup {c} ELSE fast
     /\ pc' = [pc EXCEPT ![p] = "made"]
     /\ base' = [base EXCEPT ![p] = Root]
     /\ skips' = [skips EXCEPT ![p] = FALSE]
     /\ UNCHANGED <<logVars, pending, gateVars, snap, todo, awayVars>>

(* post-commit: record HEAD in the marker, then replay every head in it.   *)
PostCommit(p) ==
  LET w == Wt[p]
      shas == pending[w].heads \cup {head[w]}
  IN /\ pc[p] = "made"
     /\ \/ /\ pending[w] = NoPending \/ head[w] = Root
           /\ Stop(p)
           /\ UNCHANGED pending
        \/ /\ pending[w] # NoPending /\ head[w] # Root
           /\ pc' = [pc EXCEPT ![p] = "finalize"]
           /\ todo' = [todo EXCEPT ![p] = shas]
           /\ \/ pending' = [pending EXCEPT ![w].heads = shas]
              \/ "io" \in Events /\ UNCHANGED pending
           /\ UNCHANGED <<base, snap, skips>>
     /\ UNCHANGED <<repoVars, logVars, gateVars, awayVars>>

(* The git process and its hook are killed; flock releases its locks.      *)
KillCommitter(p) ==
  /\ "kill" \in Events
  /\ pc[p] # "idle"
  /\ Stop(p)
  /\ Leave(p)
  /\ UNCHANGED <<repoVars, logVars, pending, marker, awayVars>>

-----------------------------------------------------------------------------
(* What else moves a worktree's state.                                     *)

(* touch / rm of musi-fast-commit by hand.                                 *)
FlipToggle ==
  /\ "toggle" \in Events
  /\ toggle' = ~toggle
  /\ UNCHANGED <<repoVars, logVars, pending, gateVars, runVars, pushVars,
                 evidence, paid, published>>

(* Other content is staged or the marker outlives its freshness.           *)
MarkerLapses(w) ==
  /\ "lapse" \in Events
  /\ marker[w] # NoMarker
  /\ marker' = [marker EXCEPT ![w] = NoMarker]
  /\ UNCHANGED <<repoVars, logVars, pending, gateLock, runVars, awayVars>>

(* Mutant: a full verify of an unborn HEAD leaves evidence.                *)
FullVerifyUnborn(w) ==
  /\ evidence[w] # head[w]
  /\ ~Busy(w)
  /\ evidence' = [evidence EXCEPT ![w] = head[w]]
  /\ paid' = paid \cup History(head[w])
  /\ UNCHANGED <<repoVars, logVars, pending, gateVars, runVars, toggle,
                 pushVars, published>>

(* A full verify passes on the worktree's HEAD.                            *)
FullVerify(w) ==
  /\ head[w] # Root
  /\ evidence[w] # head[w]
  /\ ~Busy(w)
  /\ evidence' = [evidence EXCEPT ![w] = head[w]]
  /\ paid' = paid \cup History(head[w])
  /\ UNCHANGED <<repoVars, logVars, pending, gateVars, runVars, toggle,
                 pushVars, published>>

(* An edit or the pre-push freshness window ends the evidence.             *)
EvidenceLapses(w) ==
  /\ "lapse" \in Events
  /\ evidence[w] # Nobody
  /\ evidence' = [evidence EXCEPT ![w] = Nobody]
  /\ UNCHANGED <<repoVars, logVars, pending, gateVars, runVars, toggle,
                 pushVars, paid, published>>

(* git merge --no-ff of another branch: a commit that runs neither pre-commit
   nor post-commit.                                                        *)
MergeBranch(w, t, c) ==
  /\ "merge" \in Events
  /\ ~Busy(w)
  /\ head[w] # Root /\ t \in Made /\ t \notin hist[head[w]]
  /\ c \notin Made
  /\ parent' = [parent EXCEPT ![c] = head[w]]
  /\ hist' = [hist EXCEPT ![c] = hist[head[w]] \cup hist[t] \cup {c}]
  /\ madeIn' = [madeIn EXCEPT ![c] = w]
  /\ head' = [head EXCEPT ![w] = c]
  /\ UNCHANGED <<fast, logVars, pending, gateVars, runVars, awayVars>>

(* git merge --ff-only of a branch that contains HEAD.                     *)
FastForward(w, t) ==
  /\ "merge" \in Events
  /\ ~Busy(w)
  /\ t \in Made /\ t # head[w] /\ History(head[w]) \subseteq hist[t]
  /\ head' = [head EXCEPT ![w] = t]
  /\ UNCHANGED <<parent, hist, madeIn, fast, logVars, pending, gateVars,
                 runVars, awayVars>>

-----------------------------------------------------------------------------
(* git push and .husky/pre-push.                                           *)

committerVars == <<repoVars, pending, gateVars, runVars, toggle, evidence, paid>>

PushStep(q, from, to) ==
  /\ ppc[q] = from
  /\ ppc' = [ppc EXCEPT ![q] = to]

(* The push ends, with all it held in memory.                              *)
PushStops(q) ==
  /\ ppc' = [ppc EXCEPT ![q] = "idle"]
  /\ tip' = [tip EXCEPT ![q] = Root]
  /\ rem' = [rem EXCEPT ![q] = Root]
  /\ req' = [req EXCEPT ![q] = {}]
  /\ tmp' = [tmp EXCEPT ![q] = {}]

(* Mutant: only the tip itself is looked up in the log.                    *)
LoggedTip(t, r) == (log \cap {t}) \ History(r)

(* musi_pre_push_fast_commits_for_update: logged commits new to the remote *)
LoggedIn(t, r) == (log \cap hist[t]) \ History(r)

(* Push t over remote tip r: musi_pre_push_required_fast_commits.          *)
PushReadsLog(q, t, r) ==
  /\ PushStep(q, "idle", "checkTip")
  /\ "latepush" \in Events \/ \A w \in Worktrees : ~Busy(w)
  /\ t \in Made \ published
  /\ r \in published \cup {Root}
  /\ tip' = [tip EXCEPT ![q] = t]
  /\ rem' = [rem EXCEPT ![q] = r]
  /\ req' = [req EXCEPT ![q] = LoggedIn(t, r)]
  /\ UNCHANGED <<committerVars, logVars, tmp, published>>

(* Nothing is required; or the log is read again, and a tip that publishes
   logged commits must be this worktree's HEAD.                            *)
PushChecksTip(q) ==
  LET foreign == LoggedIn(tip[q], rem[q]) # {} /\ tip[q] # head[Wt[q]]
  IN /\ ppc[q] = "checkTip"
     /\ \/ req[q] = {} /\ PushStep(q, "checkTip", "send")
           /\ UNCHANGED <<tip, rem, req, tmp>>
        \/ req[q] # {} /\ ~foreign /\ PushStep(q, "checkTip", "evidence")
           /\ UNCHANGED <<tip, rem, req, tmp>>
        \/ req[q] # {} /\ foreign /\ PushStops(q)
     /\ UNCHANGED <<committerVars, logVars, published>>

(* musi_pre_push_has_full_verify_evidence reads HEAD again.                *)
PushChecksEvidence(q) ==
  LET w == Wt[q]
  IN /\ ppc[q] = "evidence"
     /\ \/ evidence[w] = head[w] /\ PushStep(q, "evidence", "clear")
           /\ UNCHANGED <<tip, rem, req, tmp>>
        \/ evidence[w] # head[w] /\ PushStops(q)
     /\ UNCHANGED <<committerVars, logVars, published>>

(* musi_fast_commit_log_clear: filter into a temporary file.  The status of
   grep is discarded, so a filter that stops short leaves what it wrote ... *)
ClearFilters(q) ==
  /\ PushStep(q, "clear", "rename")
  /\ logLock = Nobody
  /\ logLock' = q
  /\ \E kept \in SUBSET (log \ req[q]) :
       /\ kept = log \ req[q] \/ "short" \in Events
       /\ tmp' = [tmp EXCEPT ![q] = kept]
  /\ UNCHANGED <<committerVars, log, tip, rem, req, published>>

Unlock(q) == logLock' = IF logLock = q THEN Nobody ELSE logLock

(* ... and rename it over the log, whatever it holds.  A clear that fails
   (mktemp, mv) leaves the log alone, and the caller ignores its status.    *)
ClearRenames(q) ==
  /\ PushStep(q, "rename", "send")
  /\ log' = tmp[q] \/ ("io" \in Events /\ UNCHANGED log)
  /\ Unlock(q)
  /\ tmp' = [tmp EXCEPT ![q] = {}]
  /\ UNCHANGED <<committerVars, tip, rem, req, published>>

(* The transfer succeeds, or a later check or the network refuses it.      *)
PushEnds(q) ==
  /\ ppc[q] = "send"
  /\ PushStops(q)
  /\ published' = published \cup History(tip[q]) \/ UNCHANGED published
  /\ UNCHANGED <<committerVars, logVars>>

KillPusher(q) ==
  /\ "kill" \in Events
  /\ ppc[q] # "idle"
  /\ PushStops(q)
  /\ Unlock(q)
  /\ UNCHANGED <<committerVars, log, published>>

-----------------------------------------------------------------------------
CommitterStep(p) ==
  \/ StartCommit(p) \/ PreflightInterrupted(p) \/ Recover(p)
  \/ AppendHead(p) \/ AppendFails(p) \/ ConsumePending(p)
  \/ SkipDocsOnly(p) \/ EnterGate(p) \/ GateFails(p)
  \/ MarkerHit(p) \/ Bridge(p) \/ SlotsPass(p)
  \/ CommitNotMade(p) \/ (\E c \in Commits : CreateCommit(p, c))
  \/ PostCommit(p) \/ KillCommitter(p)

WorktreeStep(w) ==
  \/ MarkerLapses(w) \/ FullVerify(w) \/ EvidenceLapses(w)
  \/ \E t, c \in Commits : MergeBranch(w, t, c)
  \/ \E t \in Commits : FastForward(w, t)

PusherStep(q) ==
  \/ \E t \in Commits, r \in Refs : PushReadsLog(q, t, r)
  \/ PushChecksTip(q) \/ PushChecksEvidence(q)
  \/ ClearFilters(q) \/ ClearRenames(q) \/ PushEnds(q) \/ KillPusher(q)

Next ==
  \/ FlipToggle
  \/ \E p \in Committers : CommitterStep(p)
  \/ \E w \in Worktrees : WorktreeStep(w)
  \/ \E q \in Pushers : PusherStep(q)

Spec == Init /\ [][Next]_vars

-----------------------------------------------------------------------------
TypeOK ==
  /\ head \in [Worktrees -> Refs]
  /\ parent \in [Commits -> Refs]
  /\ hist \in [Commits -> SUBSET Commits]
  /\ madeIn \in [Commits -> Worktrees \cup {Nobody}]
  /\ fast \subseteq Commits
  /\ toggle \in BOOLEAN
  /\ log \subseteq Commits
  /\ logLock \in Pushers \cup {Nobody}
  /\ pending \in [Worktrees -> [parent : Refs \cup {Nobody},
                                heads : SUBSET Commits]]
  /\ marker \in [Worktrees -> [head : Refs \cup {Nobody}, fast : BOOLEAN,
                               skipped : BOOLEAN]]
  /\ gateLock \in [Worktrees -> Committers \cup {Nobody}]
  /\ pc \in [Committers -> CommitPhases]
  /\ base \in [Committers -> Refs]
  /\ snap \in [Committers -> BOOLEAN]
  /\ skips \in [Committers -> BOOLEAN]
  /\ todo \in [Committers -> SUBSET Commits]
  /\ ppc \in [Pushers -> PushPhases]
  /\ tip \in [Pushers -> Refs]
  /\ rem \in [Pushers -> Refs]
  /\ req \in [Pushers -> SUBSET Commits]
  /\ tmp \in [Pushers -> SUBSET Commits]
  /\ evidence \in [Worktrees -> Commits \cup {Nobody}]
  /\ paid \subseteq Commits
  /\ published \subseteq Commits

-----------------------------------------------------------------------------
(* The worktree's pending marker still names c: by its SHA, or, before
   post-commit has stored one, as the commit made on the recorded parent.  *)
MarkedPending(c) ==
  LET m == pending[madeIn[c]]
  IN  \/ c \in m.heads
      \/ m # NoPending /\ m.heads = {} /\ m.parent = parent[c]

(* Test debt is never forgotten: a commit that was let through with slow
   slots skipped is in the shared log, or named by the pending marker of the
   worktree that made it, until some full verify covers it - through failed
   appends, killed hooks, retried commits and concurrent clears (post-commit
   "fail-safe ordering", verify-fast-commit.sh log lock, pre-commit's marker
   reuse rule).                                                            *)
DebtTracked == \A c \in fast : c \in log \cup paid \/ MarkedPending(c)

(* A commit leaves the provenance log only once a full verify has passed on
   a HEAD that contains it (musi_pre_push_main clears after the evidence
   check, and musi_fast_commit_log_clear removes nothing else).            *)
ClearedUnderEvidence == [][log \ log' \subseteq paid]_vars

(* What pre-push is for: no fast commit reaches the remote before a full
   verify has covered it.                                                  *)
PublishedPaid == fast \cap published \subseteq paid
=============================================================================
