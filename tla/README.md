# The gates, ledgers and daemon of ai_devx_stuff in TLA+

The repository is a development environment: Git hooks, a verification gate that
every commit and push goes through, wrappers that keep coding agents inside it,
and the tools it runs (ratchets, sensors, code-intel). Most of it is shell and
TypeScript that reads sources and prints reports. What is hard to get right, and
hard to test, is the part where several `git commit`, `git push`, verify and tool
processes share files, locks and memory, may be killed at any line, and must not
let an untested commit through. That part is modelled here, together with the two
TypeScript tools that keep state between runs: the lint-ratchet baseline with its
debt log, and the code-intel daemon.

## 1. The system

### 1.1 Components, their state and their operations

| Component (source) | State it keeps | Operations | Correct when |
|---|---|---|---|
| Fast-commit provenance (`.husky/pre-commit`, `post-commit`, `pre-push`, `scripts/lib/verify-fast-commit.sh`) | toggle file, shared log and its flock in the Git common dir; a pending marker per worktree | recover and replay a left-over marker, record or remove it at exit, append after the commit, check evidence at push, clear the log | a commit that skipped slow slots is remembered until a full verify covers it, and not published before |
| Live-evidence transaction (`scripts/lib/verify-evidence-transaction.sh`, `verify-lifecycle.sh`) | log directory, its backup, a staging and a displaced tree, a dozen shell variables, INT/TERM/EXIT traps | back up, open, capture, restore by two renames with rollback, discard, clean up from main, handler or EXIT | unless slots are run, the prior evidence survives every signal and failing command |
| Memory budget (`scripts/verify/memory-budget.sh`, `scripts/lib/tool-memory-admission.sh`) | a lock and one token file per slot, shared by the host | scan, admit, attach, release (twice), wait, give up | slots in flight fit in memory; nobody waits forever |
| Verify gate engine (`scripts/lib/verify-engine.sh`, `scripts/verify.sh`) | one lock per worktree, budgets, traps | admission, lock wait, marker and bridge reuse, slots, finalization | what passes the gate was tested |
| Success markers (`scripts/lib/verify-markers.sh`) | `.ok` files keyed by HEAD, index, tree and toggle | write, read with freshness, bridge, restamp | a reused pass is fresh and for this content |
| Slot scheduler (`scripts/verify/steps-lib.sh`, `scripts/lib/parallel-step.sh`) | slot status files, artifact edges | start, wait, reap, kill | edges respected, first failure reported, no orphan |
| Commit wrapper and queue (`scripts/ai-hooks/git-commit-quiet.sh`, `scripts/lib/verify-commit-queue.sh`) | queue lock on an inherited descriptor, tickets | enqueue, poll, commit, prune | one commit at a time, no deadlock with the verify lock |
| Asynchronous verification (`scripts/verify-async.sh`) | run-state files | start, status, wait, stop | a verdict belongs to the run asked for |
| Landing (`scripts/land.sh`) | branch and main refs | rebase checks, restamp, publish | what lands was verified |
| Lint-ratchet baseline (`tools/lint-ratchet/src/kernel`, `governance`, `git-rail`) | a baseline and an append-only debt log on each branch | compare, update, append, write, account, merge both files | a floor rises only with a record that says why; a merge brings no debt back |
| Code-intel daemon (`scripts/code-intel`) | a process, a socket and a metadata file, two caches | stop, restart, probe; query, fall back, time out; hash, rebuild, answer | a command ends daemons only, a live daemon can be found, an answer is not older than its question in what is hashed |
| Bun-run cache, tripwire, worktree databases | a cache, an advisory log, allocation files | see `PROJECT.json` | |
| Hook policy, agent runner, generators, sensors, doctor, application stubs | none over time | batch programs and type surfaces | |

### 1.2 How they interact

`git commit` runs `pre-commit`, which first settles the fast-commit provenance of
the previous commit, then calls the gate engine. The engine may borrow the
evidence of the last run for an admission (the evidence transaction), waits for
the worktree's verify lock, and passes on a fresh success marker, on a bridge from
another gate's marker, or by running slots; each slot asks the memory budget for
room. On its way out `pre-commit` records a fast commit in the pending marker;
`post-commit` moves that record to the log shared by all worktrees. `pre-push`
reads the log, asks for full-verify evidence for the worktree's HEAD and clears
what that evidence covers. Everything is communicated by files, flocks and
signals; no component calls another one back.

The ratchet and the daemon stand apart. `lint:ratchet:update` appends to the debt log
and writes the baseline, two files that Git then merges by different drivers;
`check-debt-accounting` is a slot of the gate that replays the log of a branch against
its merge base. The query CLI asks the daemon through its socket and computes the
answer itself when there is none; the server CLI starts and stops it by the pid in the
metadata file. Nothing locks these files.

### 1.3 What is hard

Interleavings of hooks of several worktrees on one log; a kill between any two
lines; state files whose write, append or rename fails; traps that run clean-up
code in the middle of clean-up code; advisory memory accounting among processes
that die and whose PIDs are reused; checks that are made before a lock is waited
for; two files that are written one after the other and merged by different rules;
two decisions of what "worse" means that have to agree; files of a dead daemon taken
for those of a live one; a cache filled while its sources are edited. `PROJECT.json` lists each hazard at its line, with the properties aimed at
it or the planned module that will take it.

## 2. Plan

In this order, the most important first. Done: 1 to 4, 9 and 10.

| | Module | Composes | Abstract statement | Questions |
|---|---|---|---|---|
| 1 | `FastCommit` | hooks of all worktrees, pushes, the shared log | debt is logged, marked or paid | lost or prematurely cleared debt, unpaid publication |
| 2 | `EvidenceTransaction` | gate, signal handler, EXIT trap | the prior evidence is undone or committed | loss or forging of evidence |
| 3 | `MemoryBudget`, `MemoryPool` | gates and tools on one host | the pool of memory | overcommitment, waiting for ever |
| 4 | `VerifyGate` | gates of one worktree and everybody who edits it | a pass speaks of what is committed | stale evidence, fast passes reused as full ones |
| 5 | `CommitQueue` | wrapper, hook, the queue and the verify lock of each worktree | one commit in the repository at a time | deadlock of the two lock orders, budgets of zero, orphaned holders |
| 6 | `SlotScheduler` | the runner and its slots, over `MemoryPool` | every slot ends with one verdict | artifact edges, abort before the first slot, fail-fast |
| 7 | `VerifyAsync` | start, status, wait, stop and the run | a run has one final state | verdict of another run, stop against finish |
| 8 | `Land` | landing, pre-push, `VerifyGate`'s markers with the re-stamp | what is published has been verified | branches that move between check and publication |
| 9 | `CodeIntelDaemon` | sessions of the server CLI, daemons, clients, the files between them | one live daemon, which can be found | socket of a successor, reused pids, stale caches |
| 10 | `RatchetItems`, `RatchetMerge`, `RatchetUpdate`, `RatchetCases`, `RatchetLedger` | the branch and main, updates, both merge drivers, the accounting | a rise is recorded | debt merged back in, gates that disagree, crash between two files |
| 11 | `WorktreeAlloc`, `BunRunCache`, `ToggleTripwire` | one allocation file, one cache, one log | at most one owner | slots given twice |

Theorems still worth proving: mutual exclusion and lock order of `CommitQueue` and one
verdict per run of `VerifyAsync`, once they are modelled; a condition on complexities
under which the accounting theorems hold for `complexity-severity` too.
New runs will replace or join present ones where one instance can answer two questions.

## 3. The models

`PROJECT.json` maps each definition to its lines. What follows is how to read them.

### 3.1 `FastCommit`

State: `head`, `parent`, `hist`, `madeIn` (Git); `log`, `logLock`, `toggle` (common
directory); `pending`, `marker`, `gateLock`, `evidence` (per worktree); and what each
`git commit` (`pc`, `base`, `snap`, `skips`, `todo`) and each `git push` (`ppc`,
`tip`, `rem`, `req`, `tmp`) holds in shell variables. `fast`, `paid` and `published`
are history; a commit whose marker could not be written is not in `fast`, since pre-commit has
warned of it.

A commit goes `StartCommit`, `Recover` and `AppendHead` for the marker left by its
predecessor, `EnterGate`, one of `MarkerHit`, `Bridge`, `SlotsPass` (or
`SkipDocsOnly`), `CreateCommit`, `PostCommit`, `ConsumePending`. A push goes
`PushReadsLog`, `PushChecksTip`, `PushChecksEvidence`, `ClearFilters`,
`ClearRenames`, `PushEnds`. The rest is what gets in the way: exits through
`ExitHook`, failing appends and writes, kills, a toggle that flips, merges and
fast-forwards, lapsing evidence. `Events` says which of these an instance has. `"io"` is a
failure that the hooks notice: an append, a removal, a rename, a marker write. `"short"` is
one they discard: `musi_fast_commit_log_clear` filters with `grep ... || true` and renames
what there is, so that with it `ClearFilters` may keep any part of what it should.

Abstractions: HEAD only moves forward, and merges, fast-forwards and full verifies
happen in a worktree while no commit runs there. A push updates one ref. Success
markers and evidence keep only what they are asked for (HEAD, fast mode, whether
slots were skipped); `VerifyGate` has the rest.

### 3.2 `EvidenceTransaction`

State: the four directory trees a transaction moves (`live`, `staging`, `displaced`,
`backup`), `saved` (the registration log put aside), `set` (which shell variables are
non-empty), one control point `pc` with `who` runs it, the number of EXIT attempts
`tries`, and history (`past`, `faults`). A tree is whole prior evidence, a part of it,
prior evidence with signal metadata written over, or this run's own. One action is one external
command or one group of assignments a signal cannot separate; each command may fail,
and `cp` and `rm` may fail half-way (`Tears`). `Signal` may come at every boundary; a
trap handler does not return to what it interrupted, so one control point is enough.

Not modelled: SIGKILL, temporary trees that leak, a log directory that is absent at
the start, the loss of the exit hook when a signal interrupts
`musi_verify_dispatch_exit`, and the termination of children and the watchdog.

### 3.3 `MemoryBudget` and `MemoryPool`

State: what the PID in a reservation stands for, the flock, the token file and the
phase of each slot, its RSS, and the launcher's pass over its pending slots with the
scan in progress (`left`, `acct`). `TryReserve` takes the lock, `ScanOne` reads one
token at a time in any order, and one of `Admit`, `Refuse`, `AdmissionFails` closes
the scan; `Launch`, `AttachTest`, `AttachAppend`, `StepEnds`, `TrapRelease`, `Reap`
are the life of a step, with both of its releases. Three kinds of launcher are told
apart by `Parallel` and `Attaching`. Measuring memory is one expression,
`Available`; slots are tried in any order within a pass. On a host where neither
`/proc/meminfo` nor the cgroup can be read the code takes a constant, one default peak and
the safety margin (`memory-budget.sh:191-193`). Running steps do not reduce it, yet the RSS
of their reservations is added to it (380): as they warm up, further slots are admitted.
That branch is left out, and nothing here is claimed of such a host.

`MemoryPool` is what the component promises: the peaks of the slots in use fit in
the pool, unless a slot runs alone under the solo fallback. `MemoryBudget` implements
it with `using` mapped to the slots in flight of live launchers (`PoolSpec`). Steps
whose launcher has been killed are outside the promise: the next scan drops their
reservation. The promise also fails when a running step gives memory back between the
reading of its RSS (`memory-budget.sh:330-363`) and that of available memory (369):
what it frees is then counted in both. Event `"shrink"` shows that, and is left to
the liveness run.

Not modelled: the INT/TERM traps of the direct tool, tokens without a start time, the
OOM score, artifact edges. A one-by-one gate never attaches its step, which is
charged twice; that is conservative.

### 3.4 `VerifyGate`

State: `head`, `content` (of commits), `idx`, `tree`, `toggle`, `lock`, the success
`marker` of each kind of gate, and what each gate holds: its kind, `FORCE_VERIFY`, the
fast-mode snapshot, the identity taken at its start. `proof`, in runs and markers, is
history: the content slots have read, how old that reading is, whether all slots ran.
`disturbed` is history too: somebody touched the worktree under this gate.

A gate goes `Start` (the checks before the lock), `Lock`, `Snapshot` and `Admitted`,
`MarkerHit` or `MarkerMiss`, `BridgeMatch` and `BridgeStamp` or `BridgeMiss`,
`PrepareSlots`, `SlotsPass`; `GiveUp` may end it at any point. Then `Commit` records
the index of that moment, or `CommitRejected`. Meanwhile `Edit`, `Stage`, `MoveHead`
and `FlipToggle` happen as they like, `Tick` ages the markers.

`KeyNow` is the three fingerprints: the staged diff with the hashes of changed files
and the toggle, the staged diff, the worktree diff. `Diff` is an arbitrary function of
two contents that determines the second once the first is known; two commits may well
have equal diffs, which is why the keys hold HEAD.

Abstractions: one worktree; each process runs one gate; content is the
source-relevant files (commits of documents only are in `FastCommit`); a marker that
is too old is no marker, so ages stay below the window; matching and stamping a
bridge take less than a second; fast mode skips at least one slot; a failing run
leaves the older marker alone, as in the code. The providers of one identity (HEAD and
fingerprint) are read in one step, except across a bridge.

### 3.5 The ratchet: `RatchetItems`, `RatchetMerge`, `RatchetUpdate`, `RatchetCases`, `RatchetLedger`

A ratchet records, for each file, how much of one rule's findings is accepted: its
floor. Three modules hold operators only. `RatchetItems` is an item (a count, and by
metric a largest size or the complexities of functions) and `compareItem`.
`RatchetMerge` is the merge driver of the nested baseline and that of the sensors' flat
ones, both over `item-merge.ts`, with the flat gate. `RatchetUpdate` is what an update
admits and records, and how the accounting chains the records of a path
(`CountChain`, `LevelChain`) from the floor at the base to the present one.

`RatchetCases` calls each of them once on every input of its instance: it checks the
algorithms against what they are for, without history. `RatchetLedger` is the system:
`Update` appends, `Write` writes, `Crash` comes between; `HandEdit`; `Commit` gives the
branch a commit of its own; `Land` sets main to the branch after the accounting and pushes
it, `MainLands` is another branch doing so; `FastForward` and `Sync` merge main into a
branch without and with commits of its own, the latter with the baseline by its driver and
the log by Git's union driver. `own`, `parent` and `above` are what `ComparableBase` needs:
the accounting starts from the merge base, or, while the branch has no commit of its own and
the merge base is HEAD, from HEAD's first parent; where there is none it is skipped.
`story` is history: what the branch's baseline went through since the base, and the
batch of an update that was killed and not yet repeated (`torn`).

Abstractions: a finding is a number and a level; text, hashes and rule ids are left out,
and of the message fingerprints only equality and order. Of a function that is too complex
`Place` says at which line and label it is found. Several may share a place, and
`exactComplexityDelta` compares each with the `Highest` of them. The accounting finds
origin's refs: its fallback to HEAD's first parent is not modelled. Timestamps and messages of
records are left out, so two equal records are one; globs are the sets of files they
match. Items are those the collection can produce (`Collected`: `local/max-lines`
reports a file once).

What the properties leave out, and why:

- `HonestAccounted` speaks of a branch that has a commit of its own, or has done nothing;
  before that the accounting looks one commit too far back (section 4, observations).
- It speaks of one update since the base, however often killed and
  repeated, or of several that only raise floors. Two other honest histories fail the
  accounting: a record equal to the last one of the base's log is taken for a repetition
  and not appended (`debt-log-write.ts:141`), and a record left by a crash whose update
  was then given up explains a rise that did not happen. A history that raises a floor,
  lowers it and raises it again may fail as well.
- `HandEditsCaught` is relative to the commit the accounting compares with.
- `ImprovementsLocked` asks for symmetry only where items are not `Blurred`: the same
  complexities, and two functions at one place. There an unchanged file is reported as an
  improvement of the lower function over the higher one.
- `SyncAddsNoDebt` leaves out a ratchet that is new to both sides: each may bring files
  the other lacks, and both are kept.
- `GatesAgree` and `UpdateAccounted` are checked, and with `HandEditsCaught`,
  `HonestAccounted` and `SyncAddsNoDebt` proved, for the metrics of counts and of lines.
  With `complexity-severity` the gates can differ: the comparison goes function by
  function, the accounting by the largest complexity. Functions of levels 2 and 1 that
  become one of level 2 at the second site are worse for the update and unchanged for
  the accounting; levels 2 and 1 that become 3 at the second site are recorded as a
  rise from 1, and the accounting's chain starts at 2. The registry of this repository
  has message counts only.

### 3.6 `CodeIntelDaemon`

State: what each pid is (`proc`), the checkout it runs, a signal it has not handled;
the directory, the metadata file and the socket; the command of each session of the
server CLI and the query of each client, with how far they are; the request a daemon
works on and its two caches; the files' contents and the checkout in use. `Protocol` gives
the protocol version of each checkout, and may return to an earlier one. `outside` is
history: the daemons that somebody other than a command has signalled.

A command goes `Begin`, `ReadState`, `Probe`, `Identify`, `Terminate`, `Poll`, `Clear`,
and for a restart `Spawn` and `Wait`; a daemon goes `Prepare`, `Bind`, `Publish`,
`Close`, `Exit`. A query goes `Ask`, `Connect`, and is answered, disconnected or timed
out, with a scan of its own (`OneShot`) as the fallback. In the daemon, `Accept`,
`ReadFile` for each file in any order, `Hashed`, `Loaded`, `Referenced`, `Answer`, one
request after another. What is hashed are the `Inputs`; the TypeScript projects follow
imports to the other `Files` as well, the import graph does not (`Loads`). `Interrupt` is a
SIGINT or SIGTERM from outside: a ready daemon shuts down, one that is starting or closing
dies and leaves its files. There is no start command: `restart` on a repository without a
daemon is one.

Abstractions: the default probe looks at the socket only and ignores the metadata it is
given (`lifecycle-probe.ts`), and so does `Probe`. `Wait` may give up at any poll: how
slow a start can be is not known. A pid is not given away in the moments between a
command's look at it and its signal. Contents count up, so every edit makes a new one: a
file changed and changed back while the daemon reads it would be cached as it was in between, under a
manifest that matches again.

`Events` keeps `"hasty"` apart, a command given while a daemon still starts. The code
has no lock against it, and with it (and `"crash"`, `"reuse"`) `NoOrphan`,
`ShutdownKeepsOthers`, `StartedServes` and `SignalsDaemonsOnly` are all violated; two
sessions at once violate the first three. What is checked is one person's or agent's
use, one command after another. An upgrade leaves the daemon of the old protocol
running, unreachable to the new tools; `NoOrphan` speaks of the checkout in use.
Nor does the daemon ask who signals it, and `NoOrphan`, `ShutdownKeepsOthers` and
`StartedServes` hold until somebody else does (`Undisturbed`; section 4, observations).
`AnswersCurrent` speaks of the `Inputs`, for the same reason.

## 4. The runs

| Run | Instance | Shows |
|---|---|---|
| `fast_commit_lanes` | 2 worktrees with a committer each, 1 pusher, 2 commits; failing appends, removals, renames and marker writes, kills, a toggle that flips, late pushes | `DebtTracked`, `ClearedUnderEvidence`: two lanes never lose each other's debt |
| `fast_commit_branches` | 2 worktrees, 1 committer, 1 pusher, 3 commits; merges, lapses, early signals, markers that cannot be written | `TypeOK`, `DebtTracked`, `PublishedPaid` with history that branches and joins |
| `append_lost_then_push` | failing appends | finding 1 |
| `evidence` | signals, 3 failing or tearing commands | all five invariants |
| `memory` | a parallel and a one-by-one gate, 2 slots each, of which 2 fit; 7 events | `TypeOK`, `Covered`, the refinement `PoolSpec`, `AdmittedFits` |
| `memory_waits` | a parallel gate with 2 slots, a tool with 1; kills, reused pids, full disk, shrinking | `EventuallyDecided` under `FairSpec` |
| `verify_gate` | 2 commits and a manual gate of either kind, 2 contents, 2 commit ids, window 2 | all four invariants |
| `ratchet_ledger` | 1 ratchet, 1 file, counts up to 2, 2 sets of globs, logs of 2 records, 1 landing; every event | `TypeOK`, `HandEditsCaught`, `HonestAccounted`, `FloorsRecorded`, `SyncAddsNoDebt` |
| `ratchet_cases` | 1 ratchet, 2 files, 3 findings of which 2 share a place, 2 levels, 2 fingerprints; all three metrics for comparison and merge, the first two for updates | the seven properties of the algorithms |
| `code_intel` | 1 session, 1 client that asks for refs, 2 pids, 3 checkouts of protocols 1, 2 and 1; crashes, signals from outside, reused pids, upgrades | `TypeOK`, `NoOrphan`, `SignalsDaemonsOnly`, `ShutdownKeepsOthers`, `StartedServes`, `RefsScannedOnce` |
| `code_intel_queries` | 1 session, 1 client with queries of every kind, 2 pids, 2 files of which 1 is hashed, with 2 contents; crashes | `AnswersCurrent` |
| `union_merge` | the ledger with landings and merges of main only | finding 2 |

Why the bounds are enough for these questions. In `FastCommit` a hazard takes one
fast commit and whatever interferes with it: a second lane, a successor in the same
lane, a push between; a third commit is needed only where histories branch and join.
In `EvidenceTransaction` three faults cover a failing command, a failing rollback or
retry, and one more. In `MemoryBudget` two launchers with two slots each, of which
two fit, give a scan that overlaps every phase of another launcher's slots; to wait, one of
each is enough to be refused by the other, and a second slot to be refused in turn. In
`VerifyGate` two contents are enough for "the wrong one", two commit ids for
a commit under another gate and for the way back; a window of two ticks has an age
inside and one at the edge; three gates give manual run, bridge, and reuse of the
bridged marker. Items of the ratchets are merged and compared one by one, so one
ratchet and two files show what a second file can do to the result of the first; two
places and two levels give "fewer but worse" both ways, and a third function makes two
share a place. One landing gives a branch that has moved past its base and one that has
landed itself. A log of two records holds a
chain and a record that does not belong to it. Two pids are a daemon and its successor,
or a daemon and a stranger with its pid; three checkouts are an upgrade and the way back.
One hashed file is enough for "edited while it is read", since what is claimed of an answer
is claimed file by file, and one beyond the manifest for what a cached project reads
besides. The lifecycle and the contents of files do not touch each other, so they have a
run each.

`CHECK_DEADLOCK FALSE` is said for `FastCommit`, where commit ids run out, for
`RatchetLedger`, where the log is full or main has landed, and for `RatchetCases`,
which makes one call. In
`EvidenceTransaction` and `MemoryBudget` the system ends in a step that says so
(`Ended`, `Finished`), and any other dead end is an error. In `VerifyGate` editing
never ends, nor do commands and queries in `CodeIntelDaemon`, so deadlock cannot occur
and is not a question asked of them.

Symmetry is declared over commit ids in `FastCommit` and over commits and contents in
`VerifyGate`; no liveness property is checked under it.

### Findings

1. A failed append leaves a commit's debt in the pending marker; `pre-push` asks
   only the log, and a push before the next commit publishes it (`.husky/pre-push:191`).
2. `docs/guides/lint-ratchet-merges.md:25-28` says that a union merge of debt logs is
   always correct and that nothing reads the log positionally. When a branch and main
   have both appended and main is merged into the branch, the branch's records come
   before main's, and the append-only check (`baseline-debt-accounting.ts:83`) refuses
   the branch.

Observations. These hold of the models and are not runs; each is the same instance with
one constant changed.

- `DebtTracked` fails when an append fails and the next commit gets a signal between the
  installation of its exit dispatcher and the recovery (`Events` with `"io"` and
  `"interrupt"`): the exit hook removes the marker kept for retry
  (`.husky/pre-commit:186`).
- `DebtTracked` fails when post-commit is killed, or cannot write, and the worktree then
  fast-forwards to a merge of its own commit made elsewhere (`Events` with `"merge"` and
  `"kill"` or `"io"`, and four commits): the merge has the recorded parent for its first
  parent, pre-commit takes it for the commit to recover and consumes the marker
  (`.husky/pre-commit:123`). The merge that is logged contains the lost commit, but a
  branch that ends in the commit can be pushed unverified.
- `DebtTracked` and `ClearedUnderEvidence` fail when the filter of a clear stops short
  (`"short"` added to the instance of `fast_commit_lanes`): `|| true` and the rename
  install what was written (`verify-fast-commit.sh:98-99`), and unpaid debt of any lane is
  gone, although "the log is never observed truncated or partial" (45-46).
- `DebtTracked` fails with two committers in one worktree: the second takes the
  in-flight marker of the first for a commit that never materialized
  (`.husky/pre-commit:113`).
- A signal between the last assignments of a finished restoration writes signal metadata
  over restored evidence (`verify-evidence-transaction.sh:145`).
- `CommitTested` fails when an edit counts as disturbance only under the held locks
  (`HandsOff` without `"waiting"` and `"locked"`): the rejection of unstaged changes
  comes before the waits and is not repeated, and slots may test files other than the
  ones committed (`.husky/pre-commit:286`).
- Before a branch has a commit of its own, `check-debt-accounting` compares with HEAD's
  first parent (`baseline-debt-accounting-git.ts:89`), where
  `docs/guides/lint-ratchet.md:142-143` says the merge base. When main's tip has lowered a
  floor, an honest update is then refused, since its record starts at the lower floor; and a
  hand edit back to the floor before the tip passes until there is a commit. `HonestAccounted`
  without `own \/ Untouched` shows the first.
- `ImprovementsLocked` without `Blurred` fails: two functions at one line and label with
  complexities 12 and 11 make an unchanged file an improvement, since 11 is compared with 12
  (`metrics-complexity.ts:88-121`).
- `ShutdownKeepsOthers` and `NoOrphan` without `Undisturbed` fail: a daemon left by an
  upgrade, or one that a restart is still replacing, gets a SIGTERM or SIGINT from somebody
  else and removes the socket and the directory of its successor without looking
  (`daemon-server.ts:42`, `167-177`). A second signal while it closes ends it at once, with
  its files left.
- `AnswersCurrent` over `Files` instead of `Inputs` fails: a cached project has read files
  beyond the discovery roots (`project-cache.ts:78-104`, `source-project.ts:42-58`;
  `docs/guides/code-intel.md:23-28`), which the manifest does not hash
  (`graph-cache.ts:56-70`). After an edit there the daemon answers from the old content,
  where a one-shot scan would not, and `scripts/code-intel/MODULE.md:101` says that the two
  must not diverge.

## 5. Fairness

Only `MemoryBudget!FairSpec` states fairness, for `EventuallyDecided`. Weak fairness
of every step a live process takes by itself, and of steps ending: gates have
watchdogs that end a step that hangs. Strong fairness of `TryReserve` and
`AttachTest`, the two that wait in `flock`: the kernel wakes a waiter when the lock is
released, and a holder that failed sleeps `MUSI_VERIFY_MEMORY_POLL_SECONDS` before
asking again. Kills, failures and the wait's timeout are not fair. The other modules
are checked and proved for safety only.

## 6. What is proved

TLAPS checks every theorem below for all values of the constants, from the assumption
each module names (`FastCommitAssumption`, `EvidenceAssumption`, `BudgetAssumption`,
`GateAssumption`, `ItemsAssumption`, `MergeAssumption`, `UpdateAssumption`,
`LedgerAssumption`, `CasesAssumption`, `DaemonAssumption`). Each follows from an
inductive invariant, with one lemma or step per action. "Where" marks a theorem with a
hypothesis on the constants; the hypotheses are explained below the table.

| Theorem | Statement | Argument |
|---|---|---|
| `FastCommitProofs!TypeSafety` | `Spec => []TypeOK` | `TypeOK` is inductive |
| `FastCommitProofs!ClearingIsSound` | where `FiltersComplete`, `Spec => ClearedUnderEvidence` | `ClearInv`: history is closed under ancestors, evidence stands for paid commits, what a clearing push has filtered out is paid, and the lock keeps appends out in between |
| `FastCommitProofs!DebtIsNeverLost` | where `Sheltered`, `Spec => []DebtTracked` | `DebtInv`: `FastInv` (each fast commit is owed), `MarkerInv` (a marker by parent names only a commit that is still HEAD) and `RunInv` (what each hook may assume where it stands) |
| `FastCommitProofs!DebtSurvivesMerges` | where `Undisturbed`, `Spec => []DebtTracked` | `ListInv`: a fast commit is logged, paid, or on its way from `CreateCommit` to the log with the marker naming it, since no merge moves a HEAD under a running hook |
| `FastCommitProofs!PublishedDebtIsPaid` | where `Undisturbed`, `Spec => []PublishedPaid` | `PublishInv`: `ClosedInv` (what a commit reaches, its history holds) and `Covered` (from its look at the log on, a push holds paid what it will publish); the commits a push takes were in the log before it looked, by `ListInv` |
| `EvidenceTransactionProofs!TypeSafety` | `Spec => []TypeOK` | with `Control` and `TreeTypes` |
| `EvidenceTransactionProofs!EvidenceSurvives` | `Spec => []Recoverable` | `Settled` and `Guarded`: at each control point, where the whole prior evidence is |
| `EvidenceTransactionProofs!SignalsWriteSettledTrees` | `Spec => []SignedOnlySettled` | the same invariant |
| `EvidenceTransactionProofs!RestoredMeansWhole` | `Spec => []RestoredIsWhole` | with `Busy` and `Honest`: where RESTORED may be set, and over which trees |
| `EvidenceTransactionProofs!ExitRestores` | `Spec => []RestoredAtExit` | with `Recorded`: what one fault can have cost by each control point, and what the EXIT trap has left to do |
| `MemoryBudgetProofs!TypeSafety` | `Spec => []TypeOK` | the sums of a scan stay natural because RSS is capped by the peak |
| `MemoryBudgetProofs!NoSlotUncovered` | where there is no `"nospace"`, `Spec => []Covered` | `CoverInv`: with `OwnSlots`, a scan only drops what is not counted |
| `MemoryBudgetProofs!AdmissionsFit` | where there is no `"nospace"` and no `"shrink"`, `Spec => AdmittedFits` | `BudgetInv`: `Turn` (one scan at a time, for a pending slot) and `Accounted` (what the scan has reserved and not found in use is at least what the slots it has passed may still take). Growth, an end or a kill only makes the latter smaller |
| `MemoryBudgetProofs!ImplementsPool` | where the same, `Spec => PoolSpec` | the refinement: `Admit` is the pool's `Admit`, every other step lets slots leave the pool |
| `VerifyGateProofs!TypeSafety` | `Spec => []TypeOK` | `TypeInv`: with `Basic`, HEAD exists, so that its diffs do |
| `VerifyGateProofs!FullRests` | `Spec => []FullRestsOnFull` | `Evidence`: markers of manual gates, and markers whose key is not fast, come from full runs |
| `VerifyGateProofs!Freshness` | `Spec => []EvidenceFresh` | `Evidence`: only a pre-commit marker may hold evidence older than itself, by less than one window, since bridges start from manual markers only |
| `VerifyGateProofs!Tested` | where `Active \subseteq HandsOff`, `Spec => []CommitTested` | `Sound`: a key stands for the content tested under it, relative to its HEAD, and a gate nobody disturbed still has what it checked at the start. The locks are not needed |
| `RatchetLedgerProofs!TypeCorrect` | `Spec => []TypeOK` | inductive; that a merge of baselines is a baseline is `RatchetMergeProofs` |
| `RatchetLedgerProofs!FloorsAreRecorded` | `Spec => FloorsRecorded` | `PendingRecorded`: what an update is about to write is explained by the log, because `Records` covers every rise that `Allowed` lets through and a batch that is not appended is already the log's end |
| `RatchetLedgerProofs!HandEditsAreCaught` | where counts or lines, `Spec => []HandEditsCaught` | `Sound` (every file is one that updates and merges produce), and what a chain that reaches the present floor must contain |
| `RatchetLedgerProofs!SyncsAddNoDebt` | where counts or lines, `Spec => SyncAddsNoDebt` | `Sound` and `Ahead` (main's log extends the base's); the merged floors are no worse than main's |
| `RatchetLedgerProofs!HonestWorkIsAccounted` | where counts or lines, `Spec => []HonestAccounted` | `Honest`: the batch of a torn update is the end of the log, and what has been appended since the base is a chain from the floors of the base to the present ones, path by path; the base is where the accounting starts once the branch has a commit |
| `RatchetCasesProofs!MergeIsSymmetric` | `Spec => []MergeCommutes` | item by item, then group by group; `Lower`, `Smaller` and the failures commute |
| `RatchetCasesProofs!FloorsMeet` | `Spec => []MergedFloorsMeet` | `ResolveKey` by who has the key |
| `RatchetCasesProofs!QuietIsExact` | `Spec => []QuietMergeExact` | an outcome without truth-up is the item of each side that has it |
| `RatchetCasesProofs!FlatMergeIsSound` | `Spec => []FlatMergeSound` | path by path, over the same resolution |
| `RatchetCasesProofs!LowerFloorsAreLocked` | `Spec => []ImprovementsLocked` | by metric and by axis; where the complexities differ, the sorted ones decide both ways |
| `RatchetCasesProofs!GatesDoAgree` | where counts or lines, `Spec => []GatesAgree` | the regressions of the accounting are those of the comparison, metric by metric |
| `RatchetCasesProofs!UpdatesAreAccounted` | where counts or lines, `Spec => []UpdateAccounted` | each record is one step of the chain that the accounting follows |
| `CodeIntelDaemonProofs!TypeCorrect` | `Spec => []TypeOK` | with the control of daemons and sessions |
| `CodeIntelDaemonProofs!AnswersAreCurrent` | `Spec => []AnswersCurrent` | `Fresh`: what a request has read, and what an entry with the manifest it has hashed contains, is in the `Inputs` at least what its query found |
| `CodeIntelDaemonProofs!RefsAreScannedOnce` | `Spec => RefsScannedOnce` | a query leaves a daemon by `TimeOut`, by an answer, or because the daemon dies, closes or declines it |
| `CodeIntelDaemonProofs!NoneIsOrphaned` | where `OneAtATime`, `Spec => []NoOrphan` | `LifeInv`, as long as `Undisturbed`: a ready daemon owns both files or runs tools gone by, a daemon closes on demand only, and what a command knows at each point is still so |
| `CodeIntelDaemonProofs!StrangersAreSpared` | where `OneAtATime`, `Spec => SignalsDaemonsOnly` | `SparedInv`, whoever else signals: the files never name two processes, nothing starts while a command looks, and what it is about to signal was seen to be a daemon |
| `CodeIntelDaemonProofs!ShutdownIsConfined` | where `OneAtATime`, `Spec => ShutdownKeepsOthers` | `LifeInv` |
| `CodeIntelDaemonProofs!StartedMeansServing` | where `OneAtATime`, `Spec => StartedServes` | `LifeInv` |

The hypotheses leave out what TLC shows to break the property:

- `FiltersComplete` is no `"short"`.
- `Sheltered` is one committer per worktree, no signal before the gate's traps, no merge,
  and filters that complete; it allows failing appends, kills and unwritable markers.
  `Undisturbed` (of `FastCommit`) is one committer per worktree, no failing append, short
  filter, kill or late push; it allows merges, signals and unwritable markers. Debt is lost
  with two committers, with a short filter, with a failed append followed by an early
  signal, and with a failed or killed post-commit followed by certain merges (section 4,
  observations), so neither theorem can take the other's hypothesis. `PublishedPaid` needs
  the second: `pre-push` reads only the log, and each of `"io"`, `"short"`, `"kill"` and
  `"latepush"` alone keeps a fast commit out of it for long enough (finding 1 shows the
  first).
- `"nospace"` leaves a reservation nobody reads, `"shrink"` counts memory twice (3.3).
- `Active \subseteq HandsOff`: nobody edits under a running gate; otherwise see the
  observations in section 4.
- Counts or lines, `"complexity-severity" \notin UsedMetrics`: see 3.5.
- `OneAtATime` is one session, which gives no command while a daemon starts: see 3.6.

Why the properties need their invariants. `DebtTracked` is not inductive: it says nothing
of a commit between `CreateCommit` and `PostCommit`, whose marker names it only by its
parent, nor of a hook that has read the marker and is about to replace it.
`CommitTested` speaks of gates that have passed; what makes it hold is what markers say,
which take part in passes long after. `AdmittedFits` speaks of one moment, and a scan of
many: sizes read early are out of date when available memory is measured, and `Accounted`
is the inequality that every later step keeps.

Sums over the slots and chains over the log are folds. The proofs unfold them once
(`SumStep` in `MemoryBudgetProofs`, `CountFoldExists` and its like in
`RatchetMergeProofs` show that the function a fold takes exists and satisfies its
equation) and reason about all sets and all logs by a smallest counterexample, which
takes the place of induction.

## 7. What is only model-checked

`EventuallyDecided`: liveness is out of the prover's reach, as is ENABLED. Every other
property of a passing run is also a theorem, some under the hypotheses above. No module
uses a recursive operator.

## 8. What is not modelled

Besides the modules planned above and the abstractions named in section 3: of the
ratchet, the registry and its validation, the collection of findings by ESLint,
proposals, trends and summaries, and the installation of the Git drivers; of the daemon,
`status`, malformed metadata, the computation of answers, and requests that a client
which has timed out leaves in a daemon's queue; command
policies and adapters that classify text, generators, sensors and codemods, the agent
runner, metadata rendering, and process-tree helpers, which keep no state over time or
only wrap system calls. The packages of the application are stubs in this repository.
