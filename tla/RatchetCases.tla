---------------------------- MODULE RatchetCases ----------------------------
(* One call of each pure part of the ratchets, on any input of the instance: *)
(* the comparison of two items, the two merge drivers, and an update with the *)
(* accounting that follows it.                                                 *)
EXTENDS RatchetUpdate

CONSTANT MergeDocs  \* the nested baselines to be merged

ASSUME CasesAssumption == MergeDocs \subseteq Baselines

VARIABLE call  \* the call that was made and its input

NoCall == [kind |-> "none"]

Init == call = NoCall

Compare(metric, b, c) ==
  call' = [kind |-> "compare", metric |-> metric, b |-> b, c |-> c]

Merge(b, c, o) ==
  call' = [kind |-> "merge", b |-> b, c |-> c, o |-> o]

(* max-lines merges base-aware; knip and near-duplicates by intersection, the *)
(* latter preserving entries with an admission reason and asking for a truth-  *)
(* up whenever one side changed.                                                *)
Callers ==
  { [strategy |-> "base-aware", preserves |-> {}, fastTruthUp |-> FALSE],
    [strategy |-> "intersection", preserves |-> {}, fastTruthUp |-> FALSE],
    [strategy |-> "intersection", preserves |-> Payloads \ {"none"}, fastTruthUp |-> TRUE] }

FlatMerge(caller, b, c, o) ==
  call' = [kind |-> "flat", caller |-> caller, b |-> b, c |-> c, o |-> o]

Update(old, new, o) ==
  /\ old # new /\ Allowed(old, new, o)
  /\ call' = [kind |-> "update", old |-> old, new |-> new, o |-> o]

Next ==
  /\ call = NoCall
  /\ \/ \E m \in Metrics : \E b, c \in ItemsOf(m) : Compare(m, b, c)
     \/ \E b, c, o \in MergeDocs : Merge(b, c, o)
     \/ \E caller \in Callers, b, c, o \in FlatDocs : FlatMerge(caller, b, c, o)
     \/ \E old, new \in Generated, o \in Options : Update(old, new, o)

Spec == Init /\ [][Next]_call

(* Two items that complexityDelta cannot order: the complexities are the same, *)
(* and functions of one of the files share a line and a label.                   *)
Shared(f) == \E s, u \in Sites : s # u /\ Place[s] = Place[u] /\ f[s] > 0 /\ f[u] > 0
Ranked(i) == [k \in 1..i.count |-> Nth(i.fns, k)]
Blurred(b, c) == Ranked(b) = Ranked(c) /\ (Shared(b.fns) \/ Shared(c.fns))

(* A floor that is lowered is kept: what the comparison calls an improvement    *)
(* is worse on no axis, so it may be locked without --allow-worse, and coming    *)
(* back from it is a regression, unless the two are blurred; a change that       *)
(* passes as neither can be undone without being refused, and, unless blurred,   *)
(* passes that way too (metric-comparison.ts: a level may fall while the count   *)
(* rises, a function may leave its place, and so on).                             *)
ImprovementsLocked ==
  call.kind = "compare" =>
    LET better(b, c) == Improvement(call.metric, b, c) # {}
        worse(b, c)  == Regression(call.metric, b, c) # {}
        blurred      == Blurred(call.b, call.c)
    IN  /\ better(call.b, call.c) => /\ call.c.count <= call.b.count
                                     /\ call.c.level <= call.b.level
                                     /\ worse(call.c, call.b) \/ blurred
        /\ ~better(call.b, call.c) /\ ~worse(call.b, call.c) =>
             ~worse(call.c, call.b) /\ (better(call.c, call.b) => blurred)

Merged == MergeBaselines(call.b, call.c, call.o)
Resolved == call.kind = "merge" /\ ~Merged.failed

(* Which side git calls ours does not matter to the merge driver of the        *)
(* nested baseline, neither for what it writes nor for what it asks for.        *)
MergeCommutes ==
  call.kind = "merge" =>
    LET swapped == MergeBaselines(call.b, call.o, call.c)
    IN  /\ swapped.failed = Merged.failed
        /\ ~Merged.failed => swapped = Merged

(* A merge never lets in what neither side let in: where both changed a        *)
(* ratchet, the merged floor of a path is at most that of each side that has    *)
(* the path, a side without it has never had it, and a path that either side    *)
(* drained is gone (item-merge.ts).                                              *)
MergedFloorsMeet ==
  Resolved =>
    \A t \in Tests, p \in Paths :
      LET b == call.b[t]  c == call.c[t]  o == call.o[t]
          m == Merged.baseline[t].items[p]
      IN  c # Gone /\ o # Gone =>
            /\ c # b /\ o # b /\ m # NoItem =>
                 \A s \in {c, o} : IF s.items[p] = NoItem THEN b = Gone \/ b.items[p] = NoItem
                                   ELSE m.count <= s.items[p].count
            /\ b # Gone /\ b.items[p] # NoItem /\ NoItem \in {c.items[p], o.items[p]} =>
                 m = NoItem

(* A driver that does not ask for `lint:ratchet:update` afterwards has kept     *)
(* every floor of a side that changed the ratchet as that side measured it.      *)
QuietMergeExact ==
  Resolved /\ ~Merged.truthUp =>
    \A t \in Tests :
      LET b == call.b[t]  c == call.c[t]  o == call.o[t]
      IN  \A s \in {c, o} : s # Gone /\ s # b =>
            \A p \in Paths : s.items[p] # NoItem => Merged.baseline[t].items[p] = s.items[p]

FlatMerged(b, c, o) ==
  MergeFlat(call.caller.strategy, call.caller.preserves, call.caller.fastTruthUp, b, c, o)

(* The flat merge is symmetrical too, and its result, gated like a             *)
(* measurement against either side, raises no count of that side and adds only  *)
(* paths that the common ancestor did not have (merge.ts, gate.ts).              *)
FlatMergeSound ==
  call.kind = "flat" =>
    LET m == FlatMerged(call.b, call.c, call.o)
        swapped == FlatMerged(call.b, call.o, call.c)
    IN  /\ swapped.failed = m.failed
        /\ ~m.failed => swapped = m
        /\ ~m.failed /\ call.b \notin {call.c, call.o} =>
             \A s \in {call.c, call.o} :
               /\ GateEntries(s, m.doc).sets.increased = {}
               /\ \A p \in GateEntries(s, m.doc).sets.added : call.b[p] = NoEntry

(* The two implementations of "worse" agree: the accounting lets a change pass *)
(* without a record exactly when the update needs none of --allow-worse,        *)
(* --reason and --retire-ratchet for it (lifecycle-diff.ts is shared, the        *)
(* comparison of items is not).                                                  *)
GatesAgree ==
  call.kind = "update" =>
    ( Unaccounted(call.old, call.new, <<>>) = {} <=>
        /\ Regressions(call.old, call.new) = {}
        /\ Missing(call.old, call.new) = {}
        /\ Shrunk(call.old, call.new) = {}
        /\ Migrated(call.old, call.new) = {} )

(* The records of one accepted update explain everything it did.                *)
UpdateAccounted ==
  call.kind = "update" =>
    Unaccounted(call.old, call.new, Records(call.old, call.new, call.o)) = {}
=============================================================================
