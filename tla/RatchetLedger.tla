---------------------------- MODULE RatchetLedger ----------------------------
(* The lint-ratchet baseline and its append-only debt log on a branch and on *)
(* main: `lint:ratchet:update` decides an update, appends its records and     *)
(* then writes the baseline; `check-debt-accounting` replays the records       *)
(* appended since the merge base; git merges both files.                       *)
EXTENDS RatchetUpdate

CONSTANTS
  Events,    \* what may happen beside updates, see EventKinds
  MaxLog,    \* bound: records of a log
  MaxLanded  \* bound: landings on main

EventKinds ==
  { "crash",   \* the update is killed between its two writes
    "hand",    \* the baseline is edited by hand
    "land",    \* the branch is landed
    "main",    \* another branch lands an update
    "sync" }   \* main is merged into the branch

ASSUME LedgerAssumption == Events \subseteq EventKinds /\ MaxLog \in Nat /\ MaxLanded \in Nat

VARIABLES
  base,      \* baseline and log at the merge base of HEAD and origin/main
  main,      \* ... at origin/main
  own,       \* the branch has commits of its own: HEAD is not the merge base
  parent,    \* ... at HEAD^ while HEAD is the merge base, {} if absent there
  above,     \* ... at the first parent of origin/main, {} if absent there
  baseline,  \* lint-ratchet.baseline.json of the branch
  log,       \* lint-ratchet.debt-log.jsonl of the branch
  pending,   \* an update that has appended its records: what it will write
  landed,    \* number of landings on main
  story      \* ghost: what the branch's baseline went through since the base

refs == <<base, main, own, parent, above>>
vars == <<refs, baseline, log, pending, landed, story>>

(* comparableBaseRef: the merge base, or the first parent of HEAD when HEAD   *)
(* is the merge base.  Where there is no such commit, or no baseline in it,   *)
(* the check is skipped.                                                       *)
ComparableBase == IF own THEN {base} ELSE parent

(* check-debt-accounting on the branch.                                       *)
Accounted == \A b \in ComparableBase : Accounts(b, baseline, log)

(***************************************************************************)
(* The steps.                                                                *)
(***************************************************************************)
Idle == [baseline |-> [t \in Tests |-> Gone], batch |-> <<>>, on |-> FALSE]

(* How the branch's baseline came about since the merge base: by no update,  *)
(* by one, by several that only raised floors, or otherwise.  "torn" is the   *)
(* batch of an update that was killed and not yet repeated.                    *)
Kinds == {"none", "one", "raises", "mixed", "merged", "hand"}
Fresh == [kind |-> "none", torn |-> <<>>]

OnlyRaises(old, new) ==
  \A t \in Tests :
    \/ old[t] = new[t] \/ old[t] = Gone
    \/ /\ SameMeta(old[t], new[t])
       /\ \A p \in Paths : /\ new[t].items[p].count >= old[t].items[p].count
                           /\ new[t].items[p].level >= old[t].items[p].level

Init ==
  /\ baseline \in Generated
  /\ log = <<>>
  /\ base = [baseline |-> baseline, log |-> log]
  /\ main = base
  /\ own = FALSE /\ parent = {} /\ above = {}
  /\ pending = Idle
  /\ landed = 0
  /\ story = Fresh

(* applyLintRatchetUpdate up to its first write; a baseline that is already   *)
(* as it should be is left alone.                                              *)
Update(new, o) ==
  LET batch == Records(baseline, new, o)
      repeated == story.torn = batch
      reused == batch # <<>> /\ IsSuffix(batch, log)
  IN  /\ ~pending.on /\ new # baseline
      /\ Allowed(baseline, new, o)
      /\ Len(Appended(log, batch)) <= MaxLog
      /\ log' = Appended(log, batch)
      /\ pending' = [baseline |-> new, batch |-> batch, on |-> TRUE]
      /\ story' = IF repeated \/ (story.torn = <<>> /\ ~reused)
                  THEN [story EXCEPT !.torn = <<>>]
                  ELSE [kind |-> "mixed", torn |-> <<>>]
      /\ UNCHANGED <<refs, baseline, landed>>

(* writeFileAtomicallySync.                                                   *)
Write ==
  LET raises == OnlyRaises(baseline, pending.baseline)
  IN  /\ pending.on
      /\ baseline' = pending.baseline
      /\ pending' = Idle
      /\ story' = [story EXCEPT !.kind =
           CASE @ = "none" -> IF raises THEN "raises" ELSE "one"
             [] @ = "raises" /\ raises -> "raises"
             [] @ = "hand" -> "hand"
             [] OTHER -> "mixed"]
      /\ UNCHANGED <<refs, log, landed>>

Crash ==
  /\ "crash" \in Events
  /\ pending.on
  /\ pending' = Idle
  /\ story' = [story EXCEPT !.torn = pending.batch]
  /\ UNCHANGED <<refs, baseline, log, landed>>

HandEdit(new) ==
  /\ "hand" \in Events
  /\ ~pending.on /\ new # baseline
  /\ baseline' = new
  /\ story' = [story EXCEPT !.kind = "hand"]
  /\ UNCHANGED <<refs, log, pending, landed>>

(* A commit of the branch's own.                                              *)
Commit ==
  /\ ~own
  /\ own' = TRUE
  /\ parent' = {}
  /\ UNCHANGED <<base, main, above, baseline, log, pending, landed, story>>

(* The branch contains main and passes the accounting: `git merge --no-ff`    *)
(* sets main to it, main is pushed, and work goes on from main.                *)
Land ==
  /\ "land" \in Events
  /\ landed < MaxLanded
  /\ own /\ ~pending.on /\ main = base
  /\ Accounted
  /\ main' = [baseline |-> baseline, log |-> log]
  /\ base' = main'
  /\ own' = FALSE
  /\ parent' = {main} /\ above' = {main}
  /\ landed' = landed + 1
  /\ story' = Fresh
  /\ UNCHANGED <<baseline, log, pending>>

(* Another branch does the same from where main is, with one update or none.  *)
MainLands(new, o) ==
  LET appended == Appended(main.log, Records(main.baseline, new, o))
  IN  /\ "main" \in Events
      /\ landed < MaxLanded
      /\ Allowed(main.baseline, new, o)
      /\ Accounts(main, new, appended)
      /\ main' = [baseline |-> new, log |-> appended]
      /\ above' = {main}
      /\ landed' = landed + 1
      /\ UNCHANGED <<base, own, parent, baseline, log, pending, story>>

(* git's union driver: what both sides begin with stays once, then come the   *)
(* lines of ours, then those of theirs.                                         *)
Common(a, b) == {n \in 0..Len(b) : n <= Len(a) /\ SubSeq(a, 1, n) = SubSeq(b, 1, n)}
UnionMerges(ancestor, ours, theirs) ==
  LET a == After(ancestor, ours)
      b == After(ancestor, theirs)
  IN  {ancestor \o a \o SubSeq(b, n + 1, Len(b)) :
         n \in {k \in Common(a, b) : \A j \in Common(a, b) : j <= k}}

(* `git merge main` without commits to merge: HEAD moves to main, unless that *)
(* would overwrite local changes.                                              *)
FastForward ==
  /\ "sync" \in Events
  /\ ~own /\ ~pending.on
  /\ baseline = base.baseline /\ log = base.log
  /\ base' = main
  /\ baseline' = main.baseline
  /\ log' = main.log
  /\ parent' = above
  /\ story' = Fresh
  /\ UNCHANGED <<main, own, above, pending, landed>>

(* `git merge main`: the baseline goes through its merge driver, which keeps  *)
(* ours when it cannot resolve; the log through merge=union.                    *)
Sync ==
  LET merged == MergeBaselines(base.baseline, baseline, main.baseline)
  IN  /\ "sync" \in Events
      /\ own /\ ~pending.on /\ main # base
      /\ baseline' = IF merged.failed THEN baseline ELSE merged.baseline
      /\ log' \in {l \in UnionMerges(base.log, log, main.log) : Len(l) <= MaxLog}
      /\ base' = main
      /\ story' = [kind |-> IF story.kind = "hand" THEN "hand" ELSE "merged", torn |-> <<>>]
      /\ UNCHANGED <<main, own, parent, above, pending, landed>>

Next ==
  \/ \E new \in Generated, o \in Options : Update(new, o) \/ MainLands(new, o)
  \/ \E new \in Generated : HandEdit(new)
  \/ Write \/ Crash \/ Commit \/ Land \/ FastForward \/ Sync

Spec == Init /\ [][Next]_vars

(***************************************************************************)
(* Properties.                                                               *)
(***************************************************************************)
Changes ==
  LET AnyItem == UNION {ItemsOf(m) : m \in Metrics}
  IN  UNION {Regression(m, b, c) : m \in Metrics, b \in AnyItem, c \in AnyItem}
Reported == [test : Tests, path : Paths, change : Changes]

Entries ==
  [ kind : {"accepted-debt"}, regressions : SUBSET Reported,
    orphans : SUBSET [test : Tests, snapshot : Groups], reason : Reasons ]
  \cup [kind : {"coverage-shrink"}, ratchet : Tests, removed : SUBSET Paths, reason : Reasons]
  \cup [kind : {"metric-migration"}, ratchet : Tests, from : Metrics, to : Metrics, reason : Reasons]
  \cup [kind : {"retirement"}, ratchet : Tests]

States == [baseline : Baselines, log : Seq(Entries)]

(* Every variable keeps its type.                                             *)
TypeOK ==
  /\ base \in States /\ main \in States
  /\ own \in BOOLEAN /\ parent \subseteq States /\ above \subseteq States
  /\ baseline \in Baselines /\ log \in Seq(Entries)
  /\ pending \in [baseline : Baselines, batch : Seq(Entries), on : BOOLEAN]
  /\ landed \in 0..MaxLanded
  /\ story \in [kind : Kinds, torn : Seq(Entries)]

(* No step but a hand edit and a merge moves the baseline of the branch       *)
(* without the reasons on record, and an update never does, whatever came     *)
(* before it: each regression, dropped ratchet, changed metric and narrowed    *)
(* scope of the step is in the log when it is written (applyLintRatchetUpdate *)
(* appends before it writes).                                                  *)
Recorded(old, new, l) ==
  /\ \A r \in Regressions(old, new) :
       \E e \in Range(l) : e.kind = "accepted-debt" /\ r \in e.regressions
  /\ \A t \in Missing(old, new) :
       \E e \in Range(l) :
         \/ e.kind = "retirement" /\ e.ratchet = t
         \/ e.kind = "accepted-debt" /\ [test |-> t, snapshot |-> old[t]] \in e.orphans
  /\ \A t \in Migrated(old, new) : MigrationAccounted(t, old[t].metric, new[t].metric, l)
  /\ \A t \in Kept(old, new) : ShrinkAccounted(t, RemovedPaths(old, new, t), l)

FloorsRecorded ==
  [][pending.on \/ (base' = base /\ story'.kind # "hand")
       => Recorded(baseline, baseline', log')]_vars

(* What the accounting lets through was accepted: a regression between the    *)
(* commit it compares with and the branch that passes is the end of one that  *)
(* an update accepted on that path since, whatever was edited by hand.         *)
AcceptedSince(b, r) ==
  \E e \in Range(After(b.log, log)) :
    /\ e.kind = "accepted-debt"
    /\ \E x \in e.regressions :
         /\ x.test = r.test /\ x.path = r.path
         /\ x.change.isCount = r.change.isCount
         /\ x.change.isLevel = r.change.isLevel

HandEditsCaught ==
  Accounted =>
    \A b \in ComparableBase :
      \A r \in Regressions(b.baseline, baseline) : AcceptedSince(b, r)

(* On a branch that has a commit of its own the accounting passes what one    *)
(* update, however often killed and repeated, or updates that only raise      *)
(* floors have done since the merge base; before that it passes a branch that *)
(* has done nothing (comparableBaseRef then looks one commit further back, and *)
(* honest work may be refused).                                                *)
Untouched == baseline = base.baseline /\ log = base.log
HonestAccounted ==
  /\ story.kind \in {"none", "one", "raises"} /\ story.torn = <<>> /\ ~pending.on
  /\ own \/ Untouched
  => Accounted

(* A branch that recorded nothing and passes the accounting still passes it   *)
(* when main is merged into it and the merge driver resolves the baseline: the *)
(* driver raises no floor of main's (item-merge.ts), but for a ratchet that is *)
(* new to both sides, where each may bring paths of its own.                    *)
NewToBoth == \E t \in Tests : base.baseline[t] = Gone /\ baseline[t] # Gone /\ main.baseline[t] # Gone
SyncAddsNoDebt ==
  [][ ( /\ base' # base /\ main' = main
        /\ log = base.log /\ Accounted /\ ~NewToBoth
        /\ ~MergeBaselines(base.baseline, baseline, main.baseline).failed )
      => Accounted' ]_vars

(* Merging main into the branch keeps the log acceptable: what is appended     *)
(* comes after what main has.                                                   *)
MergedLogAccepted == AppendOnly(base.log, log)
=============================================================================
