---------------------------- MODULE RatchetMerge ----------------------------
(* The three-way merges of the baselines that git calls as merge drivers:    *)
(* the nested baseline of the lint ratchets (baseline-merge.ts,               *)
(* group-baseline-operations.ts, baseline-spec.ts) and the flat ones of the   *)
(* sensors (merge.ts, single-group-spec.ts).  Both use item-merge.ts.         *)
EXTENDS RatchetItems

CONSTANTS
  Tests,     \* ids of ratchets
  Paths,     \* tracked files; the keys of a flat baseline
  Payloads   \* the fields of a flat entry other than its count

ASSUME MergeAssumption == IsFiniteSet(Tests) /\ "none" \notin Tests /\ "none" \in Payloads

(* A ratchet's part of a baseline: its metadata and one item for each path.  *)
Groups ==
  UNION {[metric : {m}, scope : SUBSET Paths, items : [Paths -> ItemsOf(m)]] : m \in Metrics}

Gone == [metric |-> "none", scope |-> {}, items |-> [p \in Paths |-> NoItem]]

Baselines == [Tests -> Groups \cup {Gone}]

SameMeta(g, h) == g.metric = h.metric /\ g.scope = h.scope

(* The outcome of merging one item: what is kept (NoItem drops the key),     *)
(* whether it must be merged by hand, and whether the floor kept may no       *)
(* longer be that of the merged tree.                                          *)
Outcome(item, failed, truthUp) == [item |-> item, failed |-> failed, truthUp |-> truthUp]

(* Mutant: the side with more findings wins.                                 *)
Higher(c, o) == IF c.count > o.count THEN c ELSE o
Lower(c, o) == IF c.count < o.count THEN c ELSE o

Smaller(x, y) == IF x <= y THEN x ELSE y

(* Mutant: items with the same count keep ours.                               *)
MeetSameCountOurs(metric, c, o) == Outcome(c, FALSE, metric # "complexity-severity" /\ c # o)
MeetSameCount(metric, c, o) ==
  IF metric = "message-count"
  THEN Outcome([c EXCEPT !.print = Smaller(c.print, o.print)], FALSE, c.print # o.print)
  ELSE IF metric = "effective-line-count"
  THEN Outcome([c EXCEPT !.level = Smaller(c.level, o.level)], FALSE, c.level # o.level)
  ELSE Outcome(c, c # o, FALSE)

(* Mutant: only a different count asks for a truth-up.                        *)
MergeSharedSilent(metric, c, o) ==
  IF c.count # o.count THEN Outcome(Lower(c, o), FALSE, TRUE)
  ELSE Outcome(MeetSameCount(metric, c, o).item, MeetSameCount(metric, c, o).failed, FALSE)
MergeShared(metric, c, o) ==
  IF c.count # o.count THEN Outcome(Lower(c, o), FALSE, TRUE) ELSE MeetSameCount(metric, c, o)

(* Mutant: a path that one side drained comes back.                          *)
MergeOneSidedKeeps(present, base) == Outcome(present, FALSE, base # NoItem)
MergeOneSided(present, base) ==
  IF base = NoItem THEN Outcome(present, FALSE, FALSE) ELSE Outcome(NoItem, FALSE, TRUE)

ResolveKey(metric, b, c, o) ==
  IF c # NoItem /\ o # NoItem THEN MergeShared(metric, c, o)
  ELSE IF c # NoItem THEN MergeOneSided(c, b)
  ELSE IF o # NoItem THEN MergeOneSided(o, b)
  ELSE Outcome(NoItem, FALSE, FALSE)

MergeItems(metric, b, c, o) ==
  LET out == [p \in Paths |-> ResolveKey(metric, b[p], c[p], o[p])]
  IN  [ items   |-> [p \in Paths |-> IF out[p].failed THEN NoItem ELSE out[p].item],
        failed  |-> \E p \in Paths : out[p].failed,
        truthUp |-> \E p \in Paths : out[p].truthUp ]

(* One ratchet: a side that did not change it gives way to the other.         *)
MergeGroup(b, c, o) ==
  LET Take(g) == [group |-> g, failed |-> FALSE, truthUp |-> FALSE]
      merged == MergeItems(c.metric, b.items, c.items, o.items)
  IN  IF c = o \/ o = b THEN Take(c)
      ELSE IF c = b THEN Take(o)
      ELSE IF c = Gone \/ o = Gone \/ ~SameMeta(c, o)
      THEN [group |-> Gone, failed |-> TRUE, truthUp |-> FALSE]
      ELSE [ group   |-> [c EXCEPT !.items = merged.items],
             failed  |-> merged.failed,
             truthUp |-> ~merged.failed /\ merged.truthUp ]

MergeBaselines(b, c, o) ==
  LET merged == [t \in Tests |-> MergeGroup(b[t], c[t], o[t])]
      failed == \E t \in Tests : merged[t].failed
  IN  [ baseline |-> [t \in Tests |-> merged[t].group],
        failed   |-> failed,
        truthUp  |-> ~failed /\ \E t \in Tests : merged[t].truthUp ]

(***************************************************************************)
(* The flat baselines: entries by key.  "intersection" keeps what both      *)
(* sides have (and additions the sensor asks to preserve, known by their     *)
(* payload); "base-aware" keeps every addition.                              *)
(***************************************************************************)
FlatEntries == [count : 1..NumSites, payload : Payloads]
NoEntry == [count |-> 0, payload |-> "none"]
FlatDocs == [Paths -> FlatEntries \cup {NoEntry}]
Strategies == {"intersection", "base-aware"}

MergeSharedEntry(c, o) ==
  IF c = o THEN Outcome(c, FALSE, FALSE)
  ELSE IF c.count # o.count /\ c.payload = o.payload THEN Outcome(Lower(c, o), FALSE, TRUE)
  ELSE Outcome(NoEntry, TRUE, FALSE)

(* Mutant: an entry worth preserving survives its removal.                    *)
MergeOneSidedPreserved(strategy, preserved, present, base) ==
  IF present.payload \in preserved \/ (strategy = "base-aware" /\ base = NoEntry)
  THEN Outcome(present, FALSE, FALSE) ELSE Outcome(NoEntry, FALSE, TRUE)
MergeOneSidedEntry(strategy, preserved, present, base) ==
  IF base = NoEntry /\ (strategy = "base-aware" \/ present.payload \in preserved)
  THEN Outcome(present, FALSE, FALSE)
  ELSE Outcome(NoEntry, FALSE, strategy = "intersection" \/ base # present)

FlatItems(strategy, preserved, b, c, o) ==
  [p \in Paths |->
     IF c[p] # NoEntry /\ o[p] # NoEntry THEN MergeSharedEntry(c[p], o[p])
     ELSE IF c[p] # NoEntry THEN MergeOneSidedEntry(strategy, preserved, c[p], b[p])
     ELSE IF o[p] # NoEntry THEN MergeOneSidedEntry(strategy, preserved, o[p], b[p])
     ELSE Outcome(NoEntry, FALSE, FALSE)]

(* Whole-document fast paths come first; the caller may ask for a truth-up    *)
(* when only one side changed.                                                 *)
MergeFlat(strategy, preserved, fastTruthUp, b, c, o) ==
  LET out == FlatItems(strategy, preserved, b, c, o)
      Take(d, truthUp) == [doc |-> d, failed |-> FALSE, truthUp |-> truthUp]
      failed == \E p \in Paths : out[p].failed
  IN  IF c = o THEN Take(c, FALSE)
      ELSE IF c = b THEN Take(o, fastTruthUp)
      ELSE IF o = b THEN Take(c, fastTruthUp)
      ELSE [ doc     |-> [p \in Paths |-> out[p].item],
             failed  |-> failed,
             truthUp |-> ~failed /\ \E p \in Paths : out[p].truthUp ]

(***************************************************************************)
(* The gates: gate.ts over flat entries, and the grouped comparison           *)
(* (group-baseline-compare.ts) that the sensors' facade uses.                 *)
(***************************************************************************)
GateEntries(b, c) ==
  LET in(d) == {p \in Paths : d[p] # NoEntry}
      sets == [ added     |-> in(c) \ in(b),
                removed   |-> in(b) \ in(c),
                increased |-> {p \in in(c) \cap in(b) : c[p].count > b[p].count},
                decreased |-> {p \in in(c) \cap in(b) : c[p].count < b[p].count} ]
  IN  [ status |-> IF sets.added # {} \/ sets.increased # {} THEN "regressed"
                   ELSE IF sets.removed # {} \/ sets.decreased # {} THEN "improved"
                   ELSE "ok",
        sets   |-> sets ]
=============================================================================
