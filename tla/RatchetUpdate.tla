---------------------------- MODULE RatchetUpdate ----------------------------
(* What `lint:ratchet:update` admits and records in the debt log, and how     *)
(* `check-debt-accounting` explains a baseline by those records               *)
(* (baseline-update-apply.ts, lifecycle-diff.ts, baseline-debt-accounting*.ts). *)
EXTENDS RatchetMerge, Sequences, SequencesExt

CONSTANTS
  UsedMetrics,  \* the metrics of this instance's ratchets
  Scopes,       \* the sets of paths that their globs may match
  Reasons       \* texts given with --reason

ASSUME UpdateAssumption == UsedMetrics \subseteq Metrics /\ Scopes \subseteq SUBSET Paths

(* The baselines buildLintRatchetBaseline can generate from a registry and a *)
(* tree: items lie inside the scope.                                           *)
Generated ==
  LET Group(m, sc, i) == [ metric |-> m, scope |-> sc,
                           items  |-> [p \in Paths |-> IF p \in sc THEN i[p] ELSE NoItem] ]
      Of(m, sc) == {Group(m, sc, i) : i \in [sc -> Collected(m)]}
  IN  [Tests -> {Gone} \cup UNION {Of(m, sc) : m \in UsedMetrics, sc \in Scopes}]

(***************************************************************************)
(* The records of the debt log.                                              *)
(***************************************************************************)
AcceptedDebt(regressions, orphans, reason) ==
  [kind |-> "accepted-debt", regressions |-> regressions, orphans |-> orphans, reason |-> reason]
CoverageShrink(t, removed, reason) ==
  [kind |-> "coverage-shrink", ratchet |-> t, removed |-> removed, reason |-> reason]
MetricMigration(t, from, to, reason) ==
  [kind |-> "metric-migration", ratchet |-> t, from |-> from, to |-> to, reason |-> reason]
Retirement(t) == [kind |-> "retirement", ratchet |-> t]

(* lifecycle-diff.ts, shared by the update and the accounting.                *)
Kept(old, new) == {t \in Tests : old[t] # Gone /\ new[t] # Gone}
Missing(old, new) == {t \in Tests : old[t] # Gone /\ new[t] = Gone}
(* Mutant: a dropped ratchet passes for one that changed its metric.        *)
MigratedOrGone(old, new) == {t \in Tests : old[t] # Gone /\ old[t].metric # new[t].metric}
Migrated(old, new) == {t \in Kept(old, new) : old[t].metric # new[t].metric}
RemovedPaths(old, new, t) ==
  IF old[t].scope = new[t].scope THEN {}
  ELSE {p \in Paths \ new[t].scope : old[t].items[p] # NoItem /\ new[t].items[p] = NoItem}
Shrunk(old, new) == {t \in Kept(old, new) : RemovedPaths(old, new, t) # {}}

(* compareCurrentToBaseline with excludeIncomparableMigratedDeltas.           *)
Regressions(old, new) ==
  UNION { { [test |-> t, path |-> p, change |-> r] :
            r \in {x \in Regression(new[t].metric, old[t].items[p], new[t].items[p]) :
                     t \in Migrated(old, new) => x.reason \in CountComparable} } :
          t \in Kept(old, new), p \in Paths }

(***************************************************************************)
(* `lint:ratchet:update [--allow-worse] [--reason r] [--retire-ratchet t]`   *)
(***************************************************************************)
Options == [worse : BOOLEAN, reason : Reasons \cup {"none"}, retire : Tests \cup {"none"}]

Orphans(old, new, o) == Missing(old, new) \ {o.retire}

(* resolveRetire: an orphan without findings; that normal lint reports the    *)
(* rule as an error is for the tree to say.                                     *)
MayRetire(old, new, o) ==
  o.retire # "none" =>
    /\ o.retire \in Missing(old, new)
    /\ \A p \in Paths : old[o.retire].items[p] = NoItem

Allowed(old, new, o) ==
  /\ ~o.worse => /\ Regressions(old, new) = {}
                 /\ Shrunk(old, new) = {}
                 /\ Orphans(old, new, o) = {}
  /\ Migrated(old, new) # {} => o.reason # "none"
  /\ MayRetire(old, new, o)
  /\ o.worse => o.reason # "none"

(* Mutant: an accepted update that drops ratchets and nothing else is not     *)
(* recorded.                                                                   *)
RecordsNoOrphans(old, new, o) ==
  IF o.worse /\ Regressions(old, new) # {}
  THEN <<AcceptedDebt(Regressions(old, new), {}, o.reason)>> ELSE <<>>
(* debtLogEntriesForUpdate, in the order in which they are appended.          *)
Records(old, new, o) ==
  LET worse == Regressions(old, new) # {} \/ Orphans(old, new, o) # {}
      dropped == {[test |-> t, snapshot |-> old[t]] : t \in Orphans(old, new, o)}
      debt == IF o.worse /\ worse
              THEN <<AcceptedDebt(Regressions(old, new), dropped, o.reason)>> ELSE <<>>
      shrinks == IF o.worse
                 THEN {CoverageShrink(t, RemovedPaths(old, new, t), o.reason) : t \in Shrunk(old, new)}
                 ELSE {}
      moves == {MetricMigration(t, old[t].metric, new[t].metric, o.reason) : t \in Migrated(old, new)}
      retired == IF o.retire = "none" THEN <<>> ELSE <<Retirement(o.retire)>>
  IN  debt \o SetToSeq(shrinks) \o SetToSeq(moves) \o retired

(* Mutant: a record that is anywhere in the log is not repeated.              *)
AppendedOnce(l, batch) == IF Range(batch) \subseteq Range(l) THEN l ELSE l \o batch
(* appendValidatedDebtLogEntries: a retry finds its own batch at the tail.    *)
Appended(l, batch) == IF IsSuffix(batch, l) THEN l ELSE l \o batch

(***************************************************************************)
(* `check-debt-accounting`: every increase since the base must be explained   *)
(* by the records appended since.                                             *)
(***************************************************************************)
AppendOnly(old, new) == IsPrefix(old, new)
After(old, new) == SubSeq(new, Len(old) + 1, Len(new))

(* Mutant: records of before the base explain increases again.                *)
SinceEver(old, new) == new
Since(old, new) == After(old, new)

(* matchingRegressions, in the order of the log.                              *)
Matching(entries, t, p) ==
  FlattenSeq([i \in DOMAIN entries |->
    IF entries[i].kind # "accepted-debt" THEN <<>>
    ELSE SetToSeq({r.change : r \in {x \in entries[i].regressions : x.test = t /\ x.path = p}})])

CountChain(from, isNew, rs) ==
  LET step(r, acc) ==
        LET due == IF acc.new THEN "new-path" ELSE "increased-count"
        IN  IF r.reason = due /\ r.wasCount = acc.count /\ r.isCount > r.wasCount
            THEN [count |-> r.isCount, new |-> FALSE] ELSE acc
  IN  FoldLeft(LAMBDA acc, r : step(r, acc), [count |-> from, new |-> isNew], rs)

(* Mutant: levels are chained by the count they were found with.             *)
LevelChainByCount(from, reason, rs) ==
  FoldLeft(LAMBDA acc, r : IF r.reason = reason /\ r.wasCount = acc.count
                           THEN [level |-> r.isLevel, count |-> r.isCount] ELSE acc,
           [level |-> from, count |-> -1], rs)
LevelChain(from, reason, rs) ==
  FoldLeft(LAMBDA acc, r :
             IF r.reason = reason /\ r.wasLevel = acc.level /\ r.isLevel > r.wasLevel
             THEN [level |-> r.isLevel, count |-> r.isCount] ELSE acc,
           [level |-> from, count |-> -1], rs)

(* collectItemIncreasesForMetric and hasAccountingEntry for one path.        *)
(* Mutant: a level may rise by one.                                           *)
LevelIncreasedFar(b, c) == b.level > 0 /\ c.level > b.level + 1
LevelIncreased(b, c) == c.level > 0 /\ c.level > b.level
ItemAccounted(same, metric, b, c, rs) ==
  CASE c = NoItem -> TRUE
    [] c # NoItem /\ b = NoItem ->
         CountChain(0, TRUE, rs) = [count |-> c.count, new |-> FALSE]
    [] c # NoItem /\ b # NoItem /\ same /\ LevelIncreased(b, c) ->
         LevelChain(b.level, IF metric = "effective-line-count" THEN "increased-lines"
                             ELSE "increased-complexity", rs)
           = [level |-> c.level, count |-> c.count]
    [] OTHER -> c.count > b.count => CountChain(b.count, FALSE, rs).count = c.count

MissingAccounted(t, old, entries) ==
  \E e \in Range(entries) :
    \/ e.kind = "retirement" /\ e.ratchet = t /\ \A p \in Paths : old.items[p] = NoItem
    \/ /\ e.kind = "accepted-debt"
       /\ \E x \in e.orphans : /\ x.test = t /\ x.snapshot.metric = old.metric
                               /\ x.snapshot.items = old.items

MigrationAccounted(t, from, to, entries) ==
  \E e \in Range(entries) :
    e.kind = "metric-migration" /\ e.ratchet = t /\ e.from = from /\ e.to = to

ShrinkAccounted(t, removed, entries) ==
  removed \subseteq UNION {e.removed : e \in {x \in Range(entries) :
                                                x.kind = "coverage-shrink" /\ x.ratchet = t}}

(* The ratchets for which check-debt-accounting reports a failure.            *)
Unaccounted(old, new, entries) ==
  {t \in Kept(old, new) :
     \/ \E p \in Paths : ~ItemAccounted(t \notin Migrated(old, new), new[t].metric,
                             old[t].items[p], new[t].items[p], Matching(entries, t, p))
     \/ t \in Migrated(old, new) /\ ~MigrationAccounted(t, old[t].metric, new[t].metric, entries)
     \/ ~ShrinkAccounted(t, RemovedPaths(old, new, t), entries)}
  \cup {t \in Missing(old, new) : ~MissingAccounted(t, old[t], entries)}

Accounts(b, current, l) ==
  AppendOnly(b.log, l) /\ Unaccounted(b.baseline, current, Since(b.log, l)) = {}
=============================================================================
