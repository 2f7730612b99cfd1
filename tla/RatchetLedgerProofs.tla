------------------------- MODULE RatchetLedgerProofs -------------------------
(* Proofs about RatchetLedger: its types, that no floor of the branch's       *)
(* baseline is raised without a record, that a hand edit is caught, that       *)
(* merging main adds no debt and that honest work passes the accounting.       *)
EXTENDS RatchetLedger, RatchetMergeProofs

-----------------------------------------------------------------------------
(* Records                                                                   *)

LEMMA RegressionsTyped ==
  ASSUME NEW old \in Baselines, NEW new \in Baselines
  PROVE  Regressions(old, new) \subseteq Reported
<1> DEFINE AnyItem == UNION {ItemsOf(m) : m \in Metrics}
<1>1. ASSUME NEW t \in Kept(old, new), NEW p \in Paths,
             NEW r \in Regression(new[t].metric, old[t].items[p], new[t].items[p])
      PROVE  t \in Tests /\ r \in Changes
  <2>1. t \in Tests /\ old[t] # Gone /\ new[t] # Gone
    BY DEF Kept
  <2>2. old[t].metric \in Metrics /\ old[t].items[p] \in ItemsOf(old[t].metric)
    BY ZenonT(60), <2>1, GroupShape
  <2>3. new[t].metric \in Metrics /\ new[t].items[p] \in ItemsOf(new[t].metric)
    BY ZenonT(60), <2>1, GroupShape
  <2>4. old[t].items[p] \in AnyItem /\ new[t].items[p] \in AnyItem
    BY <2>2, <2>3
  <2> HIDE DEF AnyItem
  <2>5. Regression(new[t].metric, old[t].items[p], new[t].items[p])
          \in {Regression(m, b, c) : m \in Metrics, b \in AnyItem, c \in AnyItem}
    BY <2>3, <2>4
  <2>6. QED BY <2>1, <2>5 DEF Changes, AnyItem
<1>2. ASSUME NEW x \in Regressions(old, new)
      PROVE  x \in Reported
  <2>0. PICK t \in Kept(old, new), p \in Paths :
          \E r \in Regression(new[t].metric, old[t].items[p], new[t].items[p]) :
            x = [test |-> t, path |-> p, change |-> r]
    BY DEF Regressions
  <2>1. PICK r \in Regression(new[t].metric, old[t].items[p], new[t].items[p]) :
          x = [test |-> t, path |-> p, change |-> r]
    BY <2>0
  <2>2. t \in Tests /\ r \in Changes
    BY <1>1
  <2>3. QED BY <2>1, <2>2 DEF Reported
<1>3. QED BY <1>2

(* The records of an admitted update are well-formed and name each of its     *)
(* regressions, dropped ratchets, narrowed scopes and changed metrics.          *)
LEMMA RecordsExplain ==
  ASSUME NEW old \in Baselines, NEW new \in Baselines, NEW o \in Options, Allowed(old, new, o)
  PROVE  /\ Records(old, new, o) \in Seq(Entries)
         /\ \A l : Range(Records(old, new, o)) \subseteq Range(l) => Recorded(old, new, l)
<1> DEFINE worse == Regressions(old, new) # {} \/ Orphans(old, new, o) # {}
<1> DEFINE dropped == {[test |-> t, snapshot |-> old[t]] : t \in Orphans(old, new, o)}
<1> DEFINE entry == AcceptedDebt(Regressions(old, new), dropped, o.reason)
<1> DEFINE debt == IF o.worse /\ worse THEN <<entry>> ELSE <<>>
<1> DEFINE shrink == [t \in Shrunk(old, new) |-> CoverageShrink(t, RemovedPaths(old, new, t), o.reason)]
<1> DEFINE shrinks == IF o.worse
                      THEN {CoverageShrink(t, RemovedPaths(old, new, t), o.reason) : t \in Shrunk(old, new)}
                      ELSE {}
<1> DEFINE move == [t \in Migrated(old, new) |-> MetricMigration(t, old[t].metric, new[t].metric, o.reason)]
<1> DEFINE moves == {MetricMigration(t, old[t].metric, new[t].metric, o.reason) : t \in Migrated(old, new)}
<1> DEFINE retired == IF o.retire = "none" THEN <<>> ELSE <<Retirement(o.retire)>>
<1>1. Records(old, new, o) = debt \o SetToSeq(shrinks) \o SetToSeq(moves) \o retired
  BY DEF Records
<1>2. /\ Kept(old, new) \subseteq Tests /\ Missing(old, new) \subseteq Tests
      /\ Shrunk(old, new) \subseteq Kept(old, new) /\ Migrated(old, new) \subseteq Kept(old, new)
      /\ Orphans(old, new, o) \subseteq Missing(old, new)
  BY DEF Kept, Missing, Shrunk, Migrated, Orphans
<1>3. o.worse \in BOOLEAN /\ (o.worse => o.reason \in Reasons) /\ (Migrated(old, new) # {} => o.reason \in Reasons)
      /\ (o.retire # "none" => o.retire \in Tests)
  BY DEF Allowed, Options
<1>4. debt \in Seq(Entries)
  <2>1. dropped \subseteq [test : Tests, snapshot : Groups]
    BY <1>2 DEF Missing, Baselines
  <2>2. Regressions(old, new) \in SUBSET Reported
    BY RegressionsTyped
  <2>3. o.worse => entry \in Entries
    <3> HIDE DEF dropped
    <3>1. QED BY <2>1, <2>2, <1>3 DEF AcceptedDebt, Entries
  <2>4. QED BY <2>3
<1>5. shrinks \subseteq Entries /\ IsFiniteSet(shrinks)
  <2>1. \A t \in Shrunk(old, new) : o.worse => CoverageShrink(t, RemovedPaths(old, new, t), o.reason) \in Entries
    BY <1>2, <1>3 DEF CoverageShrink, RemovedPaths, Entries
  <2>2. IsFiniteSet(Shrunk(old, new))
    BY <1>2, MergeAssumption, FS_Subset
  <2>3. IsFiniteSet({shrink[t] : t \in Shrunk(old, new)})
    BY <2>2, ImageFinite
  <2>4. {shrink[t] : t \in Shrunk(old, new)} = {CoverageShrink(t, RemovedPaths(old, new, t), o.reason) : t \in Shrunk(old, new)}
    OBVIOUS
  <2>5. IsFiniteSet({})
    BY FS_EmptySet
  <2>6. QED BY <2>1, <2>3, <2>4, <2>5
<1>6. moves \subseteq Entries /\ IsFiniteSet(moves)
  <2>1. \A t \in Migrated(old, new) : old[t].metric \in Metrics /\ new[t].metric \in Metrics
    BY <1>2, GroupShape DEF Kept
  <2>2. \A t \in Migrated(old, new) : MetricMigration(t, old[t].metric, new[t].metric, o.reason) \in Entries
    BY <1>2, <1>3, <2>1 DEF MetricMigration, Entries
  <2>3. IsFiniteSet(Migrated(old, new))
    BY <1>2, MergeAssumption, FS_Subset
  <2>4. IsFiniteSet({move[t] : t \in Migrated(old, new)})
    BY <2>3, ImageFinite
  <2>5. {move[t] : t \in Migrated(old, new)} = moves
    OBVIOUS
  <2>6. QED BY <2>2, <2>4, <2>5
<1>7. retired \in Seq(Entries)
  BY <1>3 DEF Retirement, Entries
<1>8. /\ SetToSeq(shrinks) \in Seq(Entries) /\ shrinks \subseteq Range(SetToSeq(shrinks))
      /\ SetToSeq(moves) \in Seq(Entries) /\ moves \subseteq Range(SetToSeq(moves))
  <2> HIDE DEF shrinks, moves
  <2>1. QED BY <1>5, <1>6, RangeOfListed, SeqMonotonic
<1>9. /\ Records(old, new, o) \in Seq(Entries)
      /\ Range(debt) \subseteq Range(Records(old, new, o))
      /\ shrinks \subseteq Range(Records(old, new, o)) /\ moves \subseteq Range(Records(old, new, o))
      /\ Range(retired) \subseteq Range(Records(old, new, o))
  <2> DEFINE ss == SetToSeq(shrinks)
  <2> DEFINE ms == SetToSeq(moves)
  <2> HIDE DEF shrinks, moves, debt, retired, ss, ms
  <2>0. ss \in Seq(Entries) /\ ms \in Seq(Entries)
    BY <1>8 DEF ss, ms
  <2>1. debt \o ss \in Seq(Entries) /\ Range(debt) \subseteq Range(debt \o ss) /\ Range(ss) \subseteq Range(debt \o ss)
    BY <1>4, <2>0, RangeOfConcat
  <2>2. /\ (debt \o ss) \o ms \in Seq(Entries) /\ Range(debt \o ss) \subseteq Range((debt \o ss) \o ms)
        /\ Range(ms) \subseteq Range((debt \o ss) \o ms)
    BY <2>1, <2>0, RangeOfConcat
  <2>3. /\ ((debt \o ss) \o ms) \o retired \in Seq(Entries)
        /\ Range((debt \o ss) \o ms) \subseteq Range(((debt \o ss) \o ms) \o retired)
        /\ Range(retired) \subseteq Range(((debt \o ss) \o ms) \o retired)
    BY <2>2, <1>7, RangeOfConcat
  <2>4. Records(old, new, o) = ((debt \o ss) \o ms) \o retired
    BY <1>1 DEF ss, ms
  <2>5. QED BY <1>8, <2>1, <2>2, <2>3, <2>4 DEF ss, ms
<1>10. ASSUME NEW l, Range(Records(old, new, o)) \subseteq Range(l)
       PROVE  Recorded(old, new, l)
  <2> HIDE DEF shrinks, moves
  <2>1. Range(debt) \subseteq Range(l) /\ shrinks \subseteq Range(l) /\ moves \subseteq Range(l) /\ Range(retired) \subseteq Range(l)
    BY <1>9, <1>10
  <2>2. o.worse /\ worse => entry \in Range(l)
    <3> HIDE DEF entry, worse
    <3>1. o.worse /\ worse => entry \in Range(debt)
      BY DEF Range
    <3>2. QED BY <2>1, <3>1
  <2>3. o.retire # "none" => Retirement(o.retire) \in Range(l)
    <3>1. o.retire # "none" => Retirement(o.retire) \in Range(retired)
      BY DEF Range
    <3>2. QED BY <2>1, <3>1
  <2>4. entry.kind = "accepted-debt" /\ entry.regressions = Regressions(old, new) /\ entry.orphans = dropped
    BY DEF AcceptedDebt
  <2>5. ASSUME NEW r \in Regressions(old, new)
        PROVE  \E e \in Range(l) : e.kind = "accepted-debt" /\ r \in e.regressions
    <3>1. o.worse /\ worse
      BY DEF Allowed
    <3>2. QED BY <2>2, <2>4, <3>1
  <2>6. ASSUME NEW t \in Missing(old, new)
        PROVE  \E e \in Range(l) :
                 \/ e.kind = "retirement" /\ e.ratchet = t
                 \/ e.kind = "accepted-debt" /\ [test |-> t, snapshot |-> old[t]] \in e.orphans
    <3>1. CASE t = o.retire
      <4>1. o.retire # "none"
        <5>1. CASE t \in Orphans(old, new, o)
          BY <3>1, <5>1 DEF Orphans
        <5>2. CASE t \notin Orphans(old, new, o) /\ o.retire = "none"
          BY <3>1, <5>2, MergeAssumption, <1>2
        <5>3. QED BY <5>1, <5>2
      <4>2. QED BY <2>3, <3>1, <4>1 DEF Retirement
    <3>2. CASE t # o.retire
      <4>1. t \in Orphans(old, new, o)
        BY <3>2 DEF Orphans
      <4>2. o.worse /\ worse
        BY <4>1 DEF Allowed
      <4>3. [test |-> t, snapshot |-> old[t]] \in dropped
        BY <4>1
      <4>4. QED BY <2>2, <2>4, <4>2, <4>3
    <3>3. QED BY <3>1, <3>2
  <2>7. ASSUME NEW t \in Migrated(old, new)
        PROVE  MigrationAccounted(t, old[t].metric, new[t].metric, l)
    <3>1. MetricMigration(t, old[t].metric, new[t].metric, o.reason) \in moves
      BY DEF moves
    <3>2. QED BY <2>1, <3>1 DEF MetricMigration, MigrationAccounted
  <2>8. ASSUME NEW t \in Kept(old, new)
        PROVE  ShrinkAccounted(t, RemovedPaths(old, new, t), l)
    <3>1. CASE RemovedPaths(old, new, t) = {}
      BY <3>1 DEF ShrinkAccounted
    <3>2. CASE RemovedPaths(old, new, t) # {}
      <4>1. t \in Shrunk(old, new) /\ o.worse
        BY <3>2 DEF Shrunk, Allowed
      <4> DEFINE e == CoverageShrink(t, RemovedPaths(old, new, t), o.reason)
      <4>2. e \in Range(l)
        BY <2>1, <4>1 DEF shrinks
      <4>3. e.kind = "coverage-shrink" /\ e.ratchet = t /\ e.removed = RemovedPaths(old, new, t)
        BY DEF CoverageShrink
      <4> HIDE DEF e
      <4>4. QED BY <4>2, <4>3 DEF ShrinkAccounted
    <3>3. QED BY <3>1, <3>2
  <2>9. QED BY <2>5, <2>6, <2>7, <2>8 DEF Recorded
<1>11. QED BY <1>9, <1>10

LEMMA SelfRecorded ==
  ASSUME NEW b \in Baselines, NEW l
  PROVE  Recorded(b, b, l)
<1>1. Missing(b, b) = {} /\ Migrated(b, b) = {}
  BY DEF Missing, Migrated
<1>2. \A t \in Kept(b, b) : ShrinkAccounted(t, RemovedPaths(b, b, t), l)
  BY DEF RemovedPaths, ShrinkAccounted
<1>3. ASSUME NEW t \in Kept(b, b), NEW p \in Paths
      PROVE  Regression(b[t].metric, b[t].items[p], b[t].items[p]) = {}
  <2>1. t \in Tests /\ b[t] # Gone
    BY DEF Kept
  <2>2. b[t].metric \in Metrics /\ b[t].items \in [Paths -> ItemsOf(b[t].metric)]
    BY <2>1, GroupShape
  <2>3. QED BY <2>2, ItemShape, NoRegressionFromItself
<1>4. Regressions(b, b) = {}
  BY <1>3 DEF Regressions
<1>5. QED BY <1>1, <1>2, <1>4 DEF Recorded

LEMMA AfterTyped ==
  ASSUME NEW S, NEW a \in Seq(S), NEW b \in Seq(S)
  PROVE  After(a, b) \in Seq(S)
BY DEF After

LEMMA UnionTyped ==
  ASSUME NEW S, NEW a \in Seq(S), NEW b \in Seq(S), NEW c \in Seq(S)
  PROVE  UnionMerges(a, b, c) \subseteq Seq(S)
<1> DEFINE x == After(a, b)
<1> DEFINE y == After(a, c)
<1>1. x \in Seq(S) /\ y \in Seq(S)
  BY AfterTyped
<1> HIDE DEF x, y
<1>2. \A n \in 0..Len(y) : SubSeq(y, n + 1, Len(y)) \in Seq(S)
  BY <1>1
<1>3. \A n \in Common(x, y) : n \in 0..Len(y)
  BY DEF Common
<1>4. \A n \in Common(x, y) : (a \o x) \o SubSeq(y, n + 1, Len(y)) \in Seq(S)
  <2>1. a \o x \in Seq(S)
    BY <1>1
  <2>2. QED BY <1>2, <1>3, <2>1
<1>5. QED BY <1>4 DEF UnionMerges, x, y

-----------------------------------------------------------------------------
(* Types                                                                     *)

LEMMA StoryTyped ==
  ASSUME NEW K, NEW T, NEW s \in [kind : K, torn : T], NEW x \in T
  PROVE  [s EXCEPT !.torn = x] \in [kind : K, torn : T]
OBVIOUS

LEMMA TypeStep ==
  ASSUME TypeOK, [Next]_vars
  PROVE  TypeOK'
<1> USE DEF TypeOK, States, Kinds, Fresh, Idle, refs
<1>0. [t \in Tests |-> Gone] \in Baselines
  BY DEF Baselines
<1>1. ASSUME NEW new \in Generated, NEW o \in Options, Update(new, o)
      PROVE  TypeOK'
  <2>1. new \in Baselines /\ Records(baseline, new, o) \in Seq(Entries)
    BY <1>1, GeneratedTyped, RecordsExplain DEF Update
  <2>2. Appended(log, Records(baseline, new, o)) \in Seq(Entries)
    BY <2>1, AppendedHas
  <2>3. log' \in Seq(Entries) /\ UNCHANGED <<refs, baseline, landed>>
    BY <1>1, <2>2 DEF Update
  <2>4. pending' \in [baseline : Baselines, batch : Seq(Entries), on : BOOLEAN]
    BY <1>1, <2>1 DEF Update
  <2>5. story' \in {[story EXCEPT !.torn = <<>>], [kind |-> "mixed", torn |-> <<>>]}
    BY <1>1 DEF Update
  <2>6. story' \in [kind : Kinds, torn : Seq(Entries)]
    <3>1. <<>> \in Seq(Entries) /\ story \in [kind : Kinds, torn : Seq(Entries)]
      OBVIOUS
    <3>3. [story EXCEPT !.torn = <<>>] \in [kind : Kinds, torn : Seq(Entries)]
      BY <3>1, StoryTyped
    <3>4. [kind |-> "mixed", torn |-> <<>>] \in [kind : Kinds, torn : Seq(Entries)]
      BY <3>1
    <3>5. QED BY <2>5, <3>3, <3>4
  <2>7. QED BY <2>3, <2>4, <2>6
<1>2. ASSUME NEW new \in Generated, NEW o \in Options, MainLands(new, o)
      PROVE  TypeOK'
  <2>1. new \in Baselines /\ Records(main.baseline, new, o) \in Seq(Entries)
    BY <1>2, GeneratedTyped, RecordsExplain DEF MainLands
  <2>2. Appended(main.log, Records(main.baseline, new, o)) \in Seq(Entries)
    BY <2>1, AppendedHas
  <2>3. QED BY <1>2, <2>1, <2>2, LedgerAssumption DEF MainLands
<1>3. ASSUME NEW new \in Generated, HandEdit(new)
      PROVE  TypeOK'
  BY <1>3, GeneratedTyped DEF HandEdit
<1>4. CASE Write
  <2>1. story' \in [kind : Kinds, torn : Seq(Entries)]
    BY <1>4 DEF Write
  <2>2. /\ baseline' \in Baselines /\ pending' \in [baseline : Baselines, batch : Seq(Entries), on : BOOLEAN]
        /\ UNCHANGED <<refs, log, landed>>
    BY <1>0, <1>4 DEF Write
  <2>3. QED BY <2>1, <2>2
<1>5. CASE Crash
  BY <1>0, <1>5 DEF Crash
<1>6. CASE Land
  <2>1. story' \in [kind : Kinds, torn : Seq(Entries)]
    BY <1>6, EmptySeq DEF Land
  <2>2. landed' \in 0..MaxLanded
    BY <1>6, LedgerAssumption DEF Land
  <2>3. /\ base' \in States /\ main' \in States /\ UNCHANGED <<baseline, log, pending>>
        /\ own' \in BOOLEAN
    BY <1>6 DEF Land
  <2>4. parent' \subseteq States /\ above' \subseteq States
    BY <1>6 DEF Land
  <2>5. QED BY <2>1, <2>2, <2>3, <2>4
<1>7. CASE Sync
  <2>1. UnionMerges(base.log, log, main.log) \subseteq Seq(Entries)
    BY UnionTyped
  <2>2. MergeBaselines(base.baseline, baseline, main.baseline).baseline \in Baselines
    BY MergeTyped
  <2>3. QED BY <1>7, <2>1, <2>2 DEF Sync
<1>8. CASE FastForward
  BY <1>8, EmptySeq DEF FastForward
<1>9. CASE UNCHANGED vars
  BY <1>9 DEF vars
<1>10. CASE Commit
  BY <1>10 DEF Commit
<1>11. QED BY <1>1, <1>2, <1>3, <1>4, <1>5, <1>6, <1>7, <1>8, <1>9, <1>10 DEF Next

(* Every variable keeps its type; in particular every record of every log is  *)
(* well-formed, whichever of update, merge and hand edit came before.           *)
THEOREM TypeCorrect == Spec => []TypeOK
<1>1. Init => TypeOK
  <2>1. [t \in Tests |-> Gone] \in Baselines
    BY DEF Baselines
  <2>2. ASSUME Init PROVE landed \in 0..MaxLanded
    BY <2>2, LedgerAssumption DEF Init
  <2>3. ASSUME Init
        PROVE  /\ base \in States /\ main \in States /\ baseline \in Baselines /\ log \in Seq(Entries)
               /\ own \in BOOLEAN /\ parent \subseteq States /\ above \subseteq States
    <3>1. baseline \in Baselines /\ log \in Seq(Entries)
      BY <2>3, GeneratedTyped DEF Init
    <3>2. [baseline |-> baseline, log |-> log] \in States
      BY <3>1 DEF States
    <3>3. QED BY <2>3, <3>1, <3>2 DEF Init
  <2>4. ASSUME Init
        PROVE  /\ pending \in [baseline : Baselines, batch : Seq(Entries), on : BOOLEAN]
               /\ story \in [kind : Kinds, torn : Seq(Entries)]
    BY <2>1, <2>4 DEF Init, Kinds, Fresh, Idle
  <2>5. QED BY <2>2, <2>3, <2>4 DEF TypeOK
<1>2. TypeOK /\ [Next]_vars => TypeOK'
  BY TypeStep
<1>3. QED BY <1>1, <1>2, PTL DEF Spec

-----------------------------------------------------------------------------
(* Floors are raised on record                                               *)

(* Between its two writes an update has everything on record that it is about *)
(* to write into the baseline.                                                 *)
PendingRecorded == pending.on => Recorded(baseline, pending.baseline, log)

LEMMA PendingStep ==
  ASSUME TypeOK, PendingRecorded, [Next]_vars
  PROVE  PendingRecorded'
<1> USE DEF PendingRecorded
<1>1. ASSUME NEW new \in Generated, NEW o \in Options, Update(new, o)
      PROVE  PendingRecorded'
  <2>1. baseline \in Baselines /\ new \in Baselines /\ log \in Seq(Entries) /\ Allowed(baseline, new, o)
    BY <1>1, GeneratedTyped DEF Update, TypeOK
  <2>2. /\ Records(baseline, new, o) \in Seq(Entries)
        /\ \A l : Range(Records(baseline, new, o)) \subseteq Range(l) => Recorded(baseline, new, l)
    BY <2>1, RecordsExplain
  <2>3. Range(Records(baseline, new, o)) \subseteq Range(Appended(log, Records(baseline, new, o)))
    BY <2>1, <2>2, AppendedHas
  <2>4. Recorded(baseline, new, Appended(log, Records(baseline, new, o)))
    BY <2>2, <2>3
  <2>5. log' = Appended(log, Records(baseline, new, o)) /\ baseline' = baseline /\ pending'.baseline = new
    BY <1>1 DEF Update
  <2>6. Recorded(baseline', pending'.baseline, log')
    BY <2>4, <2>5
  <2>7. QED BY <2>6
<1>2. ASSUME NEW new \in Generated, NEW o \in Options, MainLands(new, o)
      PROVE  PendingRecorded'
  BY <1>2 DEF MainLands
<1>3. ASSUME NEW new \in Generated, HandEdit(new)
      PROVE  PendingRecorded'
  BY <1>3 DEF HandEdit
<1>4. CASE Write \/ Crash
  BY <1>4 DEF Write, Crash, Idle
<1>5. CASE Land \/ Commit
  BY <1>5 DEF Land, Commit
<1>6. CASE Sync \/ FastForward
  BY <1>6 DEF Sync, FastForward
<1>7. CASE UNCHANGED vars
  BY <1>7 DEF vars
<1>8. QED BY <1>1, <1>2, <1>3, <1>4, <1>5, <1>6, <1>7 DEF Next

LEMMA FloorStep ==
  ASSUME TypeOK, PendingRecorded, Next, pending.on \/ (base' = base /\ story'.kind # "hand")
  PROVE  Recorded(baseline, baseline', log')
<1>1. ASSUME NEW new \in Generated
      PROVE  ~HandEdit(new)
  BY <1>1 DEF HandEdit, TypeOK
<1>2. CASE Write
  BY <1>2 DEF Write, PendingRecorded
<1>3. ASSUME baseline' = baseline
      PROVE  Recorded(baseline, baseline', log')
  BY <1>3, SelfRecorded DEF TypeOK
<1>4. ~Sync
  BY DEF Sync
<1>5. CASE FastForward
  <2>1. base' = base /\ base' = main /\ baseline = base.baseline /\ baseline' = main.baseline
    BY <1>5 DEF FastForward
  <2>2. QED BY <1>3, <2>1
<1>6. CASE Crash \/ Commit \/ Land \/ \E new \in Generated, o \in Options : Update(new, o) \/ MainLands(new, o)
  BY <1>3, <1>6 DEF Crash, Commit, Land, Update, MainLands
<1>7. QED BY <1>1, <1>2, <1>4, <1>5, <1>6 DEF Next

(* No step but a hand edit and a merge raises a floor, drops a ratchet,        *)
(* changes its metric or narrows its globs without the record that says so     *)
(* being in the log by then, whatever came before and however updates are      *)
(* killed and repeated (baseline-update-apply.ts appends before it writes).    *)
THEOREM FloorsAreRecorded == Spec => FloorsRecorded
<1>1. Init => PendingRecorded
  BY DEF Init, Idle, PendingRecorded
<1>2. TypeOK /\ PendingRecorded /\ [Next]_vars => PendingRecorded'
  BY PendingStep
<1>3. TypeOK /\ PendingRecorded /\ [Next]_vars =>
        [pending.on \/ (base' = base /\ story'.kind # "hand")
           => Recorded(baseline, baseline', log')]_vars
  BY FloorStep
<1>4. QED BY <1>1, <1>2, <1>3, TypeCorrect, PTL DEF Spec, FloorsRecorded

-----------------------------------------------------------------------------
(* What the accounting lets through                                          *)

(* The entries that updates write: one regression of a path at most.          *)
NeatEntries == {e \in Entries : Neat(Changes, e)}

LEMMA ChangesCounted == \A r \in Changes : r.reason \in CountComparable => r.isLevel = 0
<1>1. ASSUME NEW m, NEW b, NEW c, NEW r \in Regression(m, b, c), r.reason \in CountComparable
      PROVE  r.isLevel = 0
  <2>1. r \notin LevelRegression(m, b, c)
    BY <1>1 DEF LevelRegression, Change, CountComparable
  <2>2. r \in CountRegression(b, c)
    BY <1>1, <2>1 DEF Regression
  <2>3. QED BY <2>2 DEF CountRegression, Change
<1>2. QED BY <1>1 DEF Changes

LEMMA PathChanges ==
  ASSUME NEW old \in PlainDocs, NEW new \in PlainDocs
  PROVE  \A t \in Kept(old, new), p \in Paths : Path(old, new, t, p) \subseteq Changes
<1> SUFFICES ASSUME NEW t \in Kept(old, new), NEW p \in Paths, NEW r \in Path(old, new, t, p)
             PROVE  r \in Changes
  OBVIOUS
<1> DEFINE AnyItem == UNION {ItemsOf(m) : m \in Metrics}
<1> DEFINE b == old[t].items[p]
<1> DEFINE c == new[t].items[p]
<1> DEFINE m == new[t].metric
<1>1. r \in Regression(m, b, c)
  BY DEF Path, Worse
<1>2. old[t].metric \in Metrics /\ m \in Metrics /\ b \in ItemsOf(old[t].metric) /\ c \in ItemsOf(m)
  BY PlainPath DEF Plain, Metrics
<1>3. b \in AnyItem /\ c \in AnyItem
  BY <1>2
<1> HIDE DEF AnyItem, b, c, m
<1>4. Regression(m, b, c) \in {Regression(n, x, y) : n \in Metrics, x \in AnyItem, y \in AnyItem}
  BY <1>2, <1>3
<1>5. Changes = UNION {Regression(n, x, y) : n \in Metrics, x \in AnyItem, y \in AnyItem}
  BY DEF Changes, AnyItem
<1> DEFINE C == {Regression(n, x, y) : n \in Metrics, x \in AnyItem, y \in AnyItem}
<1>6. Regression(m, b, c) \in C /\ Changes = UNION C
  BY <1>4, <1>5
<1> HIDE DEF C
<1>7. QED BY <1>1, <1>6

LEMMA NeatSeq ==
  /\ Seq(NeatEntries) \subseteq Seq(Entries)
  /\ \A l \in Seq(NeatEntries) : AllNeat(Changes, l)
  /\ \A l \in Seq(Entries) : AllNeat(Changes, l) => l \in Seq(NeatEntries)
<1>1. NeatEntries \subseteq Entries
  BY DEF NeatEntries
<1>2. Seq(NeatEntries) \subseteq Seq(Entries)
  BY <1>1, SeqMonotonic
<1>3. ASSUME NEW l \in Seq(NeatEntries) PROVE AllNeat(Changes, l)
  <2>1. l \in Seq(Range(l)) /\ Range(l) \subseteq NeatEntries
    BY SeqOfRange, RangeOfSeq
  <2>2. QED BY <2>1 DEF AllNeat, NeatEntries
<1>4. ASSUME NEW l \in Seq(Entries), AllNeat(Changes, l) PROVE l \in Seq(NeatEntries)
  <2>1. l \in Seq(Range(l)) /\ Range(l) \subseteq Entries
    BY SeqOfRange, RangeOfSeq
  <2>2. Range(l) \subseteq NeatEntries
    BY <1>4, <2>1 DEF AllNeat, NeatEntries
  <2>3. QED BY <2>1, <2>2, SeqMonotonic
<1>5. QED BY <1>2, <1>3, <1>4

LEMMA RecordsNeat ==
  ASSUME NEW old \in PlainDocs, NEW new \in PlainDocs, NEW o \in Options, Allowed(old, new, o)
  PROVE  Records(old, new, o) \in Seq(NeatEntries)
<1>1. AllNeat(Changes, Records(old, new, o))
  BY PathChanges, RecordsMatch
<1>2. old \in Baselines /\ new \in Baselines
  BY DEF PlainDocs
<1>3. Records(old, new, o) \in Seq(Entries)
  BY <1>2, RecordsExplain
<1>4. QED BY <1>1, <1>3, NeatSeq

(* The metrics and the logs of the branch, of main, of the base and of what   *)
(* is below them.                                                              *)
Sound ==
  /\ baseline \in PlainDocs /\ base.baseline \in PlainDocs /\ main.baseline \in PlainDocs
  /\ pending.baseline \in PlainDocs
  /\ log \in Seq(NeatEntries) /\ base.log \in Seq(NeatEntries) /\ main.log \in Seq(NeatEntries)
  /\ \A b \in parent \cup above : b.baseline \in PlainDocs /\ b.log \in Seq(NeatEntries)

LEMMA IdlePlain == Idle.baseline \in PlainDocs
BY DEF Idle, PlainDocs, Baselines

LEMMA SoundStep ==
  ASSUME "complexity-severity" \notin UsedMetrics, TypeOK, Sound, [Next]_vars
  PROVE  Sound'
<1> USE DEF refs
<1>1. ASSUME NEW new \in Generated, NEW o \in Options, Update(new, o)
      PROVE  Sound'
  <2>1. new \in PlainDocs /\ Allowed(baseline, new, o)
    BY <1>1, GeneratedPlain DEF Update
  <2>2. Records(baseline, new, o) \in Seq(NeatEntries)
    BY <2>1, RecordsNeat DEF Sound
  <2>3. Appended(log, Records(baseline, new, o)) \in Seq(NeatEntries)
    BY <2>2, AppendedHas DEF Sound
  <2>4. QED BY <1>1, <2>1, <2>3 DEF Update, Sound
<1>2. ASSUME NEW new \in Generated, NEW o \in Options, MainLands(new, o)
      PROVE  Sound'
  <2>1. new \in PlainDocs /\ Allowed(main.baseline, new, o)
    BY <1>2, GeneratedPlain DEF MainLands
  <2>2. Records(main.baseline, new, o) \in Seq(NeatEntries)
    BY <2>1, RecordsNeat DEF Sound
  <2>3. Appended(main.log, Records(main.baseline, new, o)) \in Seq(NeatEntries)
    BY <2>2, AppendedHas DEF Sound
  <2>4. QED BY <1>2, <2>1, <2>3 DEF MainLands, Sound
<1>3. ASSUME NEW new \in Generated, HandEdit(new)
      PROVE  Sound'
  BY <1>3, GeneratedPlain DEF HandEdit, Sound
<1>4. CASE Write
  BY <1>4, IdlePlain DEF Write, Sound
<1>5. CASE Crash
  BY <1>5, IdlePlain DEF Crash, Sound
<1>6. CASE Land \/ Commit \/ FastForward
  BY <1>6 DEF Land, Commit, FastForward, Sound
<1>7. CASE Sync
  <2>1. UnionMerges(base.log, log, main.log) \subseteq Seq(NeatEntries)
    BY UnionTyped DEF Sound
  <2>2. MergeBaselines(base.baseline, baseline, main.baseline).baseline \in PlainDocs
    BY MergePlain DEF Sound
  <2>3. QED BY <1>7, <2>1, <2>2 DEF Sync, Sound
<1>8. CASE UNCHANGED vars
  BY <1>8 DEF vars, Sound
<1>9. QED BY <1>1, <1>2, <1>3, <1>4, <1>5, <1>6, <1>7, <1>8 DEF Next

LEMMA SoundAlways ==
  ASSUME "complexity-severity" \notin UsedMetrics
  PROVE  Spec => []Sound
<1>1. Init => Sound
  <2>1. <<>> \in Seq(NeatEntries)
    OBVIOUS
  <2>2. QED BY <2>1, GeneratedPlain, IdlePlain DEF Init, Sound
<1>2. TypeOK /\ Sound /\ [Next]_vars => Sound'
  BY SoundStep
<1>3. QED BY <1>1, <1>2, TypeCorrect, PTL DEF Spec

LEMMA AccountedAccepted ==
  ASSUME Sound, Accounted, NEW d \in ComparableBase, NEW r \in Regressions(d.baseline, baseline)
  PROVE  AcceptedSince(d, r)
<1> DEFINE old == d.baseline
<1> DEFINE new == baseline
<1> DEFINE l == After(d.log, log)
<1>0. old \in PlainDocs /\ new \in PlainDocs /\ l \in Seq(NeatEntries)
  <2>1. old \in PlainDocs /\ new \in PlainDocs /\ d.log \in Seq(NeatEntries) /\ log \in Seq(NeatEntries)
    BY DEF Sound, ComparableBase
  <2>2. QED BY <2>1, AfterTyped
<1>1. Unaccounted(old, new, l) = {}
  BY DEF Accounted, Accounts, Since
<1> HIDE DEF old, new, l
<1>2. PICK t \in Kept(old, new), p \in Paths : r.test = t /\ r.path = p /\ r.change \in Path(old, new, t, p)
  <2>1. r \in Regressions(old, new)
    BY DEF old, new
  <2>2. PICK t \in Kept(old, new), p \in Paths :
          \E c \in {y \in Regression(new[t].metric, old[t].items[p], new[t].items[p]) :
                      t \in Migrated(old, new) => y.reason \in CountComparable} :
            r = [test |-> t, path |-> p, change |-> c]
    BY <2>1 DEF Regressions
  <2>3. QED BY <2>2 DEF Path, Worse
<1> DEFINE m == new[t].metric
<1> DEFINE b == old[t].items[p]
<1> DEFINE c == new[t].items[p]
<1> DEFINE k == old[t].metric
<1> DEFINE same == t \notin Migrated(old, new)
<1>3. k \in Plain /\ m \in Plain /\ b \in ItemsOf(k) /\ c \in ItemsOf(m)
      /\ same \in BOOLEAN /\ (same <=> (k = m))
  BY <1>0, PlainPath
<1>4. r.change \in Worse(same, m, b, c)
  BY <1>2 DEF Path
<1>5. ItemAccounted(same, m, b, c, Matching(l, t, p))
  BY <1>1 DEF Unaccounted
<1> HIDE DEF m, b, c, k, same
<1>6. AllNeat(Changes, l)
  BY <1>0, NeatSeq
<1>7. Matching(l, t, p) \in Seq(Changes)
  BY <1>6, MatchingConcat
<1>8. PICK x \in Range(Matching(l, t, p)) : x.isCount = r.change.isCount /\ x.isLevel = r.change.isLevel
  BY <1>3, <1>4, <1>5, <1>7, ChangesCounted, AccountedEnds
<1>9. PICK e \in Range(l) : e.kind = "accepted-debt" /\ x \in Seen(e, t, p)
  BY <1>6, MatchingFrom
<1>10. PICK y \in e.regressions : y.test = t /\ y.path = p /\ y.change = x
  BY <1>9 DEF Seen
<1>11. QED BY <1>2, <1>8, <1>9, <1>10 DEF AcceptedSince, l

(* Where no ratchet measures complexities, a regression since the base that    *)
(* check-debt-accounting lets through ends where one ended that some update      *)
(* accepted on that path since the base, whatever was edited by hand, merged,    *)
(* killed and repeated (matchingRegressions and the chains of                    *)
(* baseline-debt-accounting-chains.ts take nothing else for an explanation).      *)
THEOREM HandEditsAreCaught ==
  ASSUME "complexity-severity" \notin UsedMetrics
  PROVE  Spec => []HandEditsCaught
<1>1. Sound => HandEditsCaught
  BY AccountedAccepted DEF HandEditsCaught
<1>2. QED BY <1>1, SoundAlways, PTL


-----------------------------------------------------------------------------
(* Logs only grow                                                            *)

LEMMA PrefixSelf ==
  ASSUME NEW S, NEW a \in Seq(S)
  PROVE  AppendOnly(a, a) /\ After(a, a) = <<>>
<1>1. AppendOnly(a, a)
  BY DEF AppendOnly, IsPrefix
<1>2. After(a, a) \in Seq(S) /\ Len(After(a, a)) = 0
  BY DEF After
<1>3. QED BY <1>1, <1>2, EmptySeq

(* What stands after a prefix is what it takes to get the whole.              *)
LEMMA PrefixWhole ==
  ASSUME NEW S, NEW a \in Seq(S), NEW b \in Seq(S), AppendOnly(a, b)
  PROVE  a \o After(a, b) = b
<1>1. Len(a) <= Len(b) /\ SubSeq(a, 1, Len(a)) = SubSeq(b, 1, Len(a))
  BY DEF AppendOnly, IsPrefix
<1> DEFINE x == After(a, b)
<1>2. x \in Seq(S) /\ Len(x) = Len(b) - Len(a) /\ \A i \in 1..Len(x) : x[i] = b[Len(a) + i]
  BY <1>1 DEF After
<1>3. \A i \in 1..Len(a) : SubSeq(a, 1, Len(a))[i] = a[i] /\ SubSeq(b, 1, Len(a))[i] = b[i]
  BY <1>1
<1>4. \A i \in 1..Len(a) : a[i] = b[i]
  BY <1>1, <1>3
<1> HIDE DEF x
<1> DEFINE w == a \o x
<1>5. w \in Seq(S) /\ Len(w) = Len(a) + Len(x)
  BY <1>2
<1>6. \A i \in 1..Len(w) : w[i] = IF i <= Len(a) THEN a[i] ELSE x[i - Len(a)]
  BY <1>2
<1> HIDE DEF w
<1>7. Len(w) = Len(b)
  BY <1>1, <1>2, <1>5
<1>8. \A i \in 1..Len(w) : w[i] = b[i]
  <2> SUFFICES ASSUME NEW i \in 1..Len(w) PROVE w[i] = b[i]
    OBVIOUS
  <2>1. CASE i <= Len(a)
    BY <1>4, <1>6, <2>1
  <2>2. CASE ~(i <= Len(a))
    <3>1. i - Len(a) \in 1..Len(x) /\ Len(a) + (i - Len(a)) = i
      BY <1>5, <2>2
    <3>2. w[i] = x[i - Len(a)]
      BY <1>6, <2>2
    <3>3. x[i - Len(a)] = b[Len(a) + (i - Len(a))]
      BY <1>2, <3>1
    <3>4. QED BY <3>1, <3>2, <3>3
  <2>3. QED BY <2>1, <2>2
<1>9. w = b
  BY <1>5, <1>7, <1>8, SeqEqual
<1>10. QED BY <1>9 DEF w, x

(* Appending keeps a prefix and comes after it.                               *)
LEMMA PrefixConcat ==
  ASSUME NEW S, NEW a \in Seq(S), NEW b \in Seq(S), NEW x \in Seq(S), AppendOnly(a, b)
  PROVE  /\ AppendOnly(a, b \o x)
         /\ After(a, b \o x) = After(a, b) \o x
<1> DEFINE w == b \o x
<1>1. Len(a) <= Len(b) /\ SubSeq(a, 1, Len(a)) = SubSeq(b, 1, Len(a))
  BY DEF AppendOnly, IsPrefix
<1>2. w \in Seq(S) /\ Len(w) = Len(b) + Len(x)
  OBVIOUS
<1>3. \A i \in 1..Len(w) : w[i] = IF i <= Len(b) THEN b[i] ELSE x[i - Len(b)]
  OBVIOUS
<1> HIDE DEF w
<1>4. /\ SubSeq(w, 1, Len(a)) \in Seq(S) /\ Len(SubSeq(w, 1, Len(a))) = Len(a)
      /\ \A i \in 1..Len(a) : SubSeq(w, 1, Len(a))[i] = w[i]
  BY <1>1, <1>2
<1>5. /\ SubSeq(b, 1, Len(a)) \in Seq(S) /\ Len(SubSeq(b, 1, Len(a))) = Len(a)
      /\ \A i \in 1..Len(a) : SubSeq(b, 1, Len(a))[i] = b[i]
  BY <1>1
<1>6. \A i \in 1..Len(a) : w[i] = b[i]
  BY <1>1, <1>2, <1>3
<1>7. SubSeq(w, 1, Len(a)) = SubSeq(b, 1, Len(a))
  <2> DEFINE u == SubSeq(w, 1, Len(a))
  <2> DEFINE v == SubSeq(b, 1, Len(a))
  <2>1. u \in Seq(S) /\ v \in Seq(S) /\ Len(u) = Len(v) /\ \A i \in 1..Len(u) : u[i] = v[i]
    BY <1>4, <1>5, <1>6
  <2> HIDE DEF u, v
  <2>2. u = v
    BY <2>1, SeqEqual
  <2>3. QED BY <2>2 DEF u, v
<1>8. AppendOnly(a, w)
  <2>1. Len(a) <= Len(w)
    BY <1>1, <1>2
  <2>2. QED BY <1>1, <1>7, <2>1 DEF AppendOnly, IsPrefix
<1>9. After(a, w) = After(a, b) \o x
  <2> DEFINE u == After(a, w)
  <2> DEFINE y == After(a, b)
  <2>1. u \in Seq(S) /\ Len(u) = Len(w) - Len(a) /\ \A i \in 1..Len(u) : u[i] = w[Len(a) + i]
    BY <1>1, <1>2 DEF After
  <2>2. y \in Seq(S) /\ Len(y) = Len(b) - Len(a) /\ \A i \in 1..Len(y) : y[i] = b[Len(a) + i]
    BY <1>1 DEF After
  <2> HIDE DEF u, y
  <2> DEFINE v == y \o x
  <2>3. /\ v \in Seq(S) /\ Len(v) = Len(y) + Len(x)
        /\ \A i \in 1..Len(v) : v[i] = IF i <= Len(y) THEN y[i] ELSE x[i - Len(y)]
    <3>1. y \in Seq(S)
      BY <2>2
    <3>2. v \in Seq(S) /\ Len(v) = Len(y) + Len(x)
      BY <3>1
    <3>3. QED BY <3>1, <3>2
  <2> HIDE DEF v
  <2>4. Len(u) = Len(v)
    BY <1>2, <2>1, <2>2, <2>3
  <2>5. \A i \in 1..Len(u) : u[i] = v[i]
    <3> SUFFICES ASSUME NEW i \in 1..Len(u) PROVE u[i] = v[i]
      OBVIOUS
    <3>1. u[i] = w[Len(a) + i] /\ Len(a) + i \in 1..Len(w)
      BY <1>1, <1>2, <2>1
    <3>2. CASE i <= Len(y)
      <4>1. Len(a) + i <= Len(b) /\ i \in 1..Len(y)
        BY <1>1, <2>2, <3>2
      <4>2. QED BY <1>3, <2>2, <2>3, <2>4, <3>1, <3>2, <4>1
    <3>3. CASE ~(i <= Len(y))
      <4>1. ~(Len(a) + i <= Len(b)) /\ Len(a) + i - Len(b) = i - Len(y)
        BY <1>1, <2>2, <3>3
      <4>2. w[Len(a) + i] = x[Len(a) + i - Len(b)]
        BY <1>3, <3>1, <4>1
      <4>3. v[i] = x[i - Len(y)]
        BY <2>3, <2>4, <3>3
      <4>4. QED BY <3>1, <4>1, <4>2, <4>3
    <3>4. QED BY <3>2, <3>3
  <2>6. u = v
    BY <2>1, <2>3, <2>4, <2>5, SeqEqual
  <2>7. QED BY <2>6 DEF u, v, y
<1>10. QED BY <1>8, <1>9 DEF w

LEMMA PrefixAppended ==
  ASSUME NEW S, NEW a \in Seq(S), NEW b \in Seq(S), NEW x \in Seq(S), AppendOnly(a, b)
  PROVE  AppendOnly(a, Appended(b, x))
BY PrefixConcat DEF Appended

(* git's union of a log that grew with one that did not.                       *)
LEMMA UnionOfOne ==
  ASSUME NEW S, NEW a \in Seq(S), NEW b \in Seq(S), AppendOnly(a, b), NEW l \in UnionMerges(a, a, b)
  PROVE  l = b
<1> DEFINE x == After(a, a)
<1> DEFINE y == After(a, b)
<1>1. x = <<>> /\ y \in Seq(S) /\ a \o y = b
  BY PrefixSelf, PrefixWhole, AfterTyped
<1> HIDE DEF x, y
<1>2. Len(x) = 0
  BY <1>1
<1>3. \A n \in Common(x, y) : n = 0
  BY <1>1, <1>2 DEF Common
<1>4. PICK n \in Common(x, y) : l = (a \o x) \o SubSeq(y, n + 1, Len(y))
  BY DEF UnionMerges, x, y
<1>5. n = 0
  BY <1>3
<1>6. SubSeq(y, 0 + 1, Len(y)) = y
  <2>1. SubSeq(y, 1, Len(y)) = y
    BY <1>1
  <2>2. QED BY <2>1
<1>7. a \o x = a
  BY <1>1, ConcatEmptySeq
<1>8. QED BY <1>1, <1>4, <1>5, <1>6, <1>7

-----------------------------------------------------------------------------
(* Merging main adds no debt                                                 *)

(* Main has all that the merge base has, the tips of main have passed the      *)
(* accounting, and no file has two findings of its length.                      *)
Ahead ==
  /\ AppendOnly(base.log, main.log)
  /\ own => parent = {}
  /\ \A b \in parent : Accounts(b, base.baseline, base.log)
  /\ \A b \in above : Accounts(b, main.baseline, main.log)
  /\ Once(baseline) /\ Once(base.baseline) /\ Once(main.baseline) /\ Once(pending.baseline)

LEMMA IdleOnce == Once(Idle.baseline)
<1>1. \A t \in Tests : Idle.baseline[t] = Gone
  BY DEF Idle
<1>2. Gone.metric # "effective-line-count"
  BY DEF Gone
<1>3. QED BY <1>1, <1>2 DEF Once

LEMMA AheadStep ==
  ASSUME "complexity-severity" \notin UsedMetrics, Sound, Ahead, [Next]_vars
  PROVE  Ahead'
<1> USE DEF refs
<1>1. ASSUME NEW new \in Generated, NEW o \in Options, Update(new, o)
      PROVE  Ahead'
  BY <1>1, GeneratedOnce DEF Update, Ahead
<1>2. ASSUME NEW new \in Generated, NEW o \in Options, MainLands(new, o)
      PROVE  Ahead'
  <2>1. new \in PlainDocs /\ Allowed(main.baseline, new, o)
    BY <1>2, GeneratedPlain DEF MainLands
  <2>2. Records(main.baseline, new, o) \in Seq(NeatEntries)
    BY <2>1, RecordsNeat DEF Sound
  <2>3. AppendOnly(base.log, Appended(main.log, Records(main.baseline, new, o)))
    BY <2>2, PrefixAppended DEF Sound, Ahead
  <2>4. /\ main' = [baseline |-> new, log |-> Appended(main.log, Records(main.baseline, new, o))]
        /\ above' = {main}
        /\ Accounts(main, new, Appended(main.log, Records(main.baseline, new, o)))
        /\ UNCHANGED <<base, own, parent, baseline, log, pending>>
    BY <1>2 DEF MainLands
  <2>5. \A b \in above' : Accounts(b, main'.baseline, main'.log)
    BY <2>4
  <2>6. QED BY <2>3, <2>4, <2>5, GeneratedOnce DEF Ahead
<1>3. ASSUME NEW new \in Generated, HandEdit(new)
      PROVE  Ahead'
  BY <1>3, GeneratedOnce DEF HandEdit, Ahead
<1>4. CASE Write
  BY <1>4, IdleOnce DEF Write, Ahead
<1>5. CASE Crash
  BY <1>5, IdleOnce DEF Crash, Ahead
<1>6. CASE Land
  <2>1. AppendOnly(log, log)
    BY PrefixSelf DEF Sound
  <2>2. Accounts(main, baseline, log)
    BY <1>6 DEF Land, Accounted, ComparableBase
  <2>3. /\ base' = main' /\ main'.baseline = baseline /\ main'.log = log
        /\ ~own' /\ parent' = {main} /\ above' = {main} /\ UNCHANGED <<baseline, log, pending>>
    BY <1>6 DEF Land
  <2>4. \A b \in {main} : Accounts(b, base'.baseline, base'.log) /\ Accounts(b, main'.baseline, main'.log)
    BY <2>2, <2>3
  <2>5. QED BY <2>1, <2>3, <2>4 DEF Ahead
<1>7. CASE Sync
  <2>1. AppendOnly(main.log, main.log)
    BY PrefixSelf DEF Sound
  <2>2. /\ base' = main /\ main' = main /\ pending' = pending
        /\ baseline' = IF MergeBaselines(base.baseline, baseline, main.baseline).failed THEN baseline
                       ELSE MergeBaselines(base.baseline, baseline, main.baseline).baseline
    BY <1>7 DEF Sync
  <2>3. Once(baseline')
    BY <2>2, MergeOnce DEF Sound, Ahead
  <2>4. own /\ own' = own /\ parent' = parent /\ above' = above
    BY <1>7 DEF Sync
  <2>5. QED BY <2>1, <2>2, <2>3, <2>4 DEF Ahead
<1>8. CASE Commit
  BY <1>8 DEF Commit, Ahead
<1>9. CASE FastForward
  <2>1. AppendOnly(main.log, main.log)
    BY PrefixSelf DEF Sound
  <2>2. /\ ~own' /\ base' = main /\ main' = main /\ baseline' = main.baseline /\ parent' = above
        /\ UNCHANGED <<above, pending>>
    BY <1>9 DEF FastForward
  <2>3. QED BY <2>1, <2>2 DEF Ahead
<1>10. CASE UNCHANGED vars
  BY <1>10 DEF vars, Ahead
<1>11. QED BY <1>1, <1>2, <1>3, <1>4, <1>5, <1>6, <1>7, <1>8, <1>9, <1>10 DEF Next

LEMMA AheadAlways ==
  ASSUME "complexity-severity" \notin UsedMetrics
  PROVE  Spec => []Ahead
<1>1. Init => Ahead
  <2> SUFFICES ASSUME Init PROVE Ahead
    OBVIOUS
  <2>1. <<>> \in Seq({})
    OBVIOUS
  <2>2. AppendOnly(<<>>, <<>>)
    BY <2>1, PrefixSelf
  <2>3. QED BY <2>2, GeneratedOnce, IdleOnce DEF Init, Ahead
<1>2. Sound /\ Ahead /\ [Next]_vars => Ahead'
  BY AheadStep
<1>3. QED BY <1>1, <1>2, SoundAlways, PTL DEF Spec

LEMMA SyncStep ==
  ASSUME Sound, Ahead, Next, base' # base, main' = main, log = base.log, Accounted, ~NewToBoth,
         ~MergeBaselines(base.baseline, baseline, main.baseline).failed
  PROVE  Accounted'
<1>1. CASE Sync
  <2> DEFINE b == base.baseline
  <2> DEFINE o == main.baseline
  <2>1. /\ base' = main /\ log' \in UnionMerges(base.log, log, main.log)
        /\ baseline' = MergeBaselines(b, baseline, o).baseline
    BY <1>1 DEF Sync
  <2>2. log' = main.log
    BY <2>1, UnionOfOne DEF Sound, Ahead
  <2>3. AppendOnly(main.log, main.log) /\ After(main.log, main.log) = <<>>
    BY PrefixSelf DEF Sound
  <2>4. After(base.log, log) = <<>>
    BY PrefixSelf DEF Sound
  <2>5. Unaccounted(b, baseline, <<>>) = {}
    <3>1. own
      BY <1>1 DEF Sync
    <3>2. QED BY <2>4, <3>1 DEF Accounted, ComparableBase, Accounts, Since
  <2>6. \A t \in Tests : ~(b[t] = Gone /\ baseline[t] # Gone /\ o[t] # Gone)
    BY DEF NewToBoth
  <2>7. Unaccounted(o, MergeBaselines(b, baseline, o).baseline, <<>>) = {}
    BY <2>5, <2>6, MergeNoDebt DEF Sound, Ahead
  <2>8. Accounts(main, baseline', log')
    BY <2>1, <2>2, <2>3, <2>7 DEF Accounts, Since
  <2>9. own'
    BY <1>1 DEF Sync
  <2>10. QED BY <2>1, <2>8, <2>9 DEF Accounted, ComparableBase
<1>2. CASE FastForward
  <2>1. /\ ~own' /\ parent' = above /\ baseline' = main.baseline /\ log' = main.log
    BY <1>2 DEF FastForward
  <2>2. \A b \in above : Accounts(b, main.baseline, main.log)
    BY DEF Ahead
  <2>3. \A b \in parent' : Accounts(b, baseline', log')
    BY <2>1, <2>2
  <2>4. QED BY <2>1, <2>3 DEF Accounted, ComparableBase
<1>3. CASE ~Sync /\ ~FastForward
  <2> USE DEF refs
  <2>1. CASE Land \/ Commit
    BY <2>1 DEF Land, Commit
  <2>2. CASE \E new \in Generated, o \in Options : Update(new, o) \/ MainLands(new, o)
    BY <2>2 DEF Update, MainLands
  <2>3. CASE Write \/ Crash \/ \E new \in Generated : HandEdit(new)
    BY <2>3 DEF Write, Crash, HandEdit
  <2>4. QED BY <1>3, <2>1, <2>2, <2>3 DEF Next
<1>4. QED BY <1>1, <1>2, <1>3

(* Where no ratchet measures complexities, merging main into a branch that     *)
(* recorded nothing and passes the accounting leaves a branch that passes it:    *)
(* the merge driver raises no floor of main's, drops none of its ratchets and     *)
(* narrows none (item-merge.ts keeps the lower of two floors), and git's union    *)
(* driver leaves main's log. Ratchets that both sides registered are excepted.     *)
THEOREM SyncsAddNoDebt ==
  ASSUME "complexity-severity" \notin UsedMetrics
  PROVE  Spec => SyncAddsNoDebt
<1>1. Sound /\ Ahead /\ [Next]_vars =>
        [ ( /\ base' # base /\ main' = main
            /\ log = base.log /\ Accounted /\ ~NewToBoth
            /\ ~MergeBaselines(base.baseline, baseline, main.baseline).failed )
          => Accounted' ]_vars
  BY SyncStep
<1>2. QED BY <1>1, SoundAlways, AheadAlways, PTL DEF Spec, SyncAddsNoDebt

-----------------------------------------------------------------------------
(* What updates did is accounted for                                         *)

(* Records that lead from the item b of a path to its item c, floors only     *)
(* rising on the way.                                                           *)
Chained(m, b, c, rs) ==
  /\ c.count >= b.count /\ c.level >= b.level
  /\ b = NoItem /\ c = NoItem => CountChain(0, TRUE, rs) = [count |-> 0, new |-> TRUE]
  /\ b = NoItem /\ c # NoItem => CountChain(0, TRUE, rs) = [count |-> c.count, new |-> FALSE]
  /\ b # NoItem /\ m = "message-count" =>
       CountChain(b.count, FALSE, rs) = [count |-> c.count, new |-> FALSE]
  /\ b # NoItem /\ m = "effective-line-count" =>
       LevelChain(b.level, "increased-lines", rs)
         = [level |-> c.level, count |-> IF c.level = b.level THEN -1 ELSE c.count]

LEMMA ChainedStart ==
  ASSUME NEW m \in Plain, NEW b \in ItemsOf(m)
  PROVE  Chained(m, b, b, <<>>)
<1>1. b.count \in Nat /\ b.level \in Nat
  BY PlainShape
<1>2. CountChain(0, TRUE, <<>>) = [count |-> 0, new |-> TRUE]
  BY CountNone
<1>3. CountChain(b.count, FALSE, <<>>) = [count |-> b.count, new |-> FALSE]
  BY CountNone
<1>4. LevelChain(b.level, "increased-lines", <<>>) = [level |-> b.level, count |-> -1]
  BY LevelNone
<1>5. (IF b.level = b.level THEN -1 ELSE b.count) = -1
  OBVIOUS
<1>6. b.count >= b.count /\ b.level >= b.level
  BY <1>1
<1>7. QED BY <1>2, <1>3, <1>4, <1>5, <1>6 DEF Chained

(* One more update that raises floors and records it carries the chain on.     *)
LEMMA ChainedStep ==
  ASSUME NEW m \in Plain, NEW b \in ItemsOf(m), NEW c \in ItemsOf(m), NEW d \in ItemsOf(m),
         NEW same \in BOOLEAN, same,
         m = "effective-line-count" => c.count <= 1 /\ d.count <= 1,
         d.count >= c.count, d.level >= c.level,
         NEW T, NEW rs \in Seq(T), Chained(m, b, c, rs), Worse(same, m, c, d) \subseteq T,
         NEW more, Worse(same, m, c, d) = {} => more = rs,
         \A x : Worse(same, m, c, d) = {x} => more = rs \o <<x>>
  PROVE  Chained(m, b, d, more)
<1>1. /\ b.count \in Nat /\ b.level \in Nat /\ (b = NoItem <=> b.count = 0)
      /\ c.count \in Nat /\ c.level \in Nat /\ (c = NoItem <=> c.count = 0)
      /\ d.count \in Nat /\ d.level \in Nat /\ (d = NoItem <=> d.count = 0)
  BY PlainShape
<1>2. c.count >= b.count /\ c.level >= b.level /\ d.count >= b.count /\ d.level >= b.level
  BY <1>1 DEF Chained
<1> DEFINE W == Worse(same, m, c, d)
<1>3. same <=> (m = m)
  OBVIOUS
<1>4. /\ d = NoItem => W = {}
      /\ d # NoItem /\ c = NoItem => W = {Change("new-path", c, d, 0, 0)}
      /\ d # NoItem /\ c # NoItem /\ LevelIncreased(c, d) =>
           m = "effective-line-count" /\ W = {Change("increased-lines", c, d, c.level, d.level)}
      /\ d # NoItem /\ c # NoItem /\ ~LevelIncreased(c, d) =>
           W = IF d.count > c.count THEN {Change("increased-count", c, d, 0, 0)} ELSE {}
  <2>1. d = NoItem => W = {}
    BY <1>3, WorseIs
  <2>2. d # NoItem /\ c = NoItem => W = {Change("new-path", c, d, 0, 0)}
    BY <1>3, WorseIs
  <2>3. d # NoItem /\ c # NoItem /\ LevelIncreased(c, d) =>
          m = "effective-line-count" /\ W = {Change("increased-lines", c, d, c.level, d.level)}
    BY ZenonT(60), <1>3, WorseIs
  <2>4. d # NoItem /\ c # NoItem /\ ~LevelIncreased(c, d) =>
          W = IF d.count > c.count THEN {Change("increased-count", c, d, 0, 0)} ELSE {}
    BY <1>3, WorseIs
  <2> HIDE DEF W
  <2>5. QED BY <2>1, <2>2, <2>3, <2>4
<1> HIDE DEF W
<1>5. W \subseteq T /\ (W = {} => more = rs) /\ (\A x : W = {x} => more = rs \o <<x>>)
  BY DEF W
<1>6. ASSUME NEW x \in T, more = rs \o <<x>>
      PROVE  /\ \A from, isNew : CountChain(from, isNew, more) = CountStep(x, CountChain(from, isNew, rs))
             /\ \A from, r : LevelChain(from, r, more) = LevelStep(r, x, LevelChain(from, r, rs))
  BY <1>6, CountSnoc, LevelSnoc
<1>7. CASE d = NoItem
  <2>1. c = NoItem /\ b = NoItem /\ more = rs
    BY <1>1, <1>2, <1>4, <1>5, <1>7
  <2>2. QED BY <1>7, <2>1 DEF Chained
<1>8. CASE d # NoItem /\ c = NoItem
  <2> DEFINE x == Change("new-path", c, d, 0, 0)
  <2>1. x.reason = "new-path" /\ x.wasCount = c.count /\ x.isCount = d.count
    BY DEF Change
  <2>2. W = {x}
    BY <1>4, <1>8
  <2> HIDE DEF x
  <2>3. x \in T /\ more = rs \o <<x>>
    BY <1>5, <2>2
  <2>4. b = NoItem
    BY <1>1, <1>2, <1>8
  <2>5. CountChain(0, TRUE, rs) = [count |-> 0, new |-> TRUE]
    BY <1>8, <2>4 DEF Chained
  <2>6. CountChain(0, TRUE, more) = CountStep(x, [count |-> 0, new |-> TRUE])
    BY <1>6, <2>3, <2>5
  <2>7. CountStep(x, [count |-> 0, new |-> TRUE]) = [count |-> d.count, new |-> FALSE]
    BY <1>1, <1>8, <2>1 DEF CountStep
  <2>8. QED BY <1>2, <1>8, <2>4, <2>6, <2>7 DEF Chained
<1>9. CASE d # NoItem /\ c # NoItem /\ LevelIncreased(c, d)
  <2> DEFINE x == Change("increased-lines", c, d, c.level, d.level)
  <2>1. /\ x.reason = "increased-lines" /\ x.isCount = d.count
        /\ x.wasLevel = c.level /\ x.isLevel = d.level
    BY DEF Change
  <2>2. W = {x} /\ m = "effective-line-count"
    BY <1>4, <1>9
  <2> HIDE DEF x
  <2>3. x \in T /\ more = rs \o <<x>>
    BY <1>5, <2>2
  <2>4. d.count = c.count /\ d.level > c.level /\ d.level # b.level
    BY <1>1, <1>2, <1>9, <2>2 DEF LevelIncreased
  <2>5. ASSUME b = NoItem
        PROVE  CountChain(0, TRUE, more) = [count |-> d.count, new |-> FALSE]
    <3>1. CountChain(0, TRUE, rs) = [count |-> c.count, new |-> FALSE]
      BY <1>9, <2>5 DEF Chained
    <3>2. CountChain(0, TRUE, more) = CountStep(x, [count |-> c.count, new |-> FALSE])
      BY <1>6, <2>3, <3>1
    <3>3. CountStep(x, [count |-> c.count, new |-> FALSE]) = [count |-> c.count, new |-> FALSE]
      BY <2>1 DEF CountStep
    <3>4. QED BY <2>4, <3>2, <3>3
  <2>6. ASSUME b # NoItem
        PROVE  LevelChain(b.level, "increased-lines", more) = [level |-> d.level, count |-> d.count]
    <3> DEFINE n == IF c.level = b.level THEN -1 ELSE c.count
    <3>1. LevelChain(b.level, "increased-lines", rs) = [level |-> c.level, count |-> n]
      BY <2>2, <2>6 DEF Chained
    <3> HIDE DEF n
    <3>2. LevelChain(b.level, "increased-lines", more)
            = LevelStep("increased-lines", x, [level |-> c.level, count |-> n])
      BY <1>6, <2>3, <3>1
    <3>3. LevelStep("increased-lines", x, [level |-> c.level, count |-> n])
            = [level |-> d.level, count |-> d.count]
      BY <1>1, <2>1, <2>4 DEF LevelStep
    <3>4. QED BY <3>2, <3>3
  <2>7. QED BY <1>2, <1>9, <2>2, <2>4, <2>5, <2>6 DEF Chained
<1>10. CASE d # NoItem /\ c # NoItem /\ ~LevelIncreased(c, d)
  <2>1. d.level = c.level
    BY <1>1, <1>10 DEF LevelIncreased
  <2>2. CASE d.count > c.count
    <3> DEFINE x == Change("increased-count", c, d, 0, 0)
    <3>1. x.reason = "increased-count" /\ x.wasCount = c.count /\ x.isCount = d.count
      BY DEF Change
    <3>2. W = {x}
      BY <1>4, <1>10, <2>2
    <3> HIDE DEF x
    <3>3. x \in T /\ more = rs \o <<x>>
      BY <1>5, <3>2
    <3>4. m = "message-count"
      BY <1>1, <1>10, <2>2 DEF Plain
    <3>5. CountStep(x, [count |-> c.count, new |-> FALSE]) = [count |-> d.count, new |-> FALSE]
      BY <2>2, <3>1 DEF CountStep
    <3>6. ASSUME b = NoItem
          PROVE  CountChain(0, TRUE, more) = [count |-> d.count, new |-> FALSE]
      <4>1. CountChain(0, TRUE, rs) = [count |-> c.count, new |-> FALSE]
        BY <1>10, <3>6 DEF Chained
      <4>2. QED BY ZenonT(60), <1>6, <3>3, <3>5, <4>1
    <3>7. ASSUME b # NoItem
          PROVE  CountChain(b.count, FALSE, more) = [count |-> d.count, new |-> FALSE]
      <4>1. CountChain(b.count, FALSE, rs) = [count |-> c.count, new |-> FALSE]
        BY <3>4, <3>7 DEF Chained
      <4>2. QED BY ZenonT(60), <1>6, <3>3, <3>5, <4>1
    <3>8. QED BY <1>2, <1>10, <3>4, <3>6, <3>7 DEF Chained
  <2>3. CASE ~(d.count > c.count)
    <3>1. d.count = c.count /\ more = rs
      BY <1>1, <1>4, <1>5, <1>10, <2>3
    <3>2. QED BY <1>2, <1>10, <2>1, <3>1 DEF Chained
  <2>4. QED BY <2>2, <2>3
<1>11. QED BY <1>7, <1>8, <1>9, <1>10

LEMMA ChainedAccounted ==
  ASSUME NEW m \in Plain, NEW b \in ItemsOf(m), NEW c \in ItemsOf(m),
         m = "effective-line-count" => b.count <= 1 /\ c.count <= 1,
         NEW rs, Chained(m, b, c, rs), NEW same \in BOOLEAN, same
  PROVE  ItemAccounted(same, m, b, c, rs)
<1>1. /\ b.count \in Nat /\ b.level \in Nat /\ (b = NoItem <=> b.count = 0)
      /\ c.count \in Nat /\ c.level \in Nat /\ (c = NoItem <=> c.count = 0)
      /\ (m = "message-count" => c.level = 0)
  BY PlainShape
<1>2. CASE c = NoItem
  BY <1>2 DEF ItemAccounted
<1>3. CASE c # NoItem /\ b = NoItem
  BY <1>3 DEF ItemAccounted, Chained
<1>4. CASE c # NoItem /\ b # NoItem /\ LevelIncreased(b, c)
  <2>1. m = "effective-line-count" /\ c.level # b.level
    BY <1>1, <1>4 DEF LevelIncreased, Plain
  <2>2. LevelChain(b.level, "increased-lines", rs) = [level |-> c.level, count |-> c.count]
    BY <1>4, <2>1 DEF Chained
  <2>3. QED BY <1>4, <2>1, <2>2 DEF ItemAccounted
<1>5. CASE c # NoItem /\ b # NoItem /\ ~LevelIncreased(b, c)
  <2>1. c.count > b.count => CountChain(b.count, FALSE, rs).count = c.count
    <3>1. SUFFICES ASSUME c.count > b.count
                   PROVE  CountChain(b.count, FALSE, rs).count = c.count
      OBVIOUS
    <3>2. m = "message-count"
      BY <1>1, <1>5, <3>1 DEF Plain
    <3>3. CountChain(b.count, FALSE, rs) = [count |-> c.count, new |-> FALSE]
      BY <1>5, <3>2 DEF Chained
    <3> DEFINE end == CountChain(b.count, FALSE, rs)
    <3>4. end = [count |-> c.count, new |-> FALSE]
      BY <3>3
    <3> HIDE DEF end
    <3>5. end.count = c.count
      BY <3>4
    <3>6. QED BY <3>5 DEF end
  <2>2. QED BY <1>5, <2>1 DEF ItemAccounted
<1>6. QED BY <1>2, <1>3, <1>4, <1>5

(* The records of a log lead from the old baseline to the new one.             *)
Raised(old, new, l) ==
  \A t \in Tests : old[t] # Gone =>
    /\ new[t] # Gone /\ SameMeta(old[t], new[t])
    /\ \A p \in Paths : Chained(old[t].metric, old[t].items[p], new[t].items[p], Matching(l, t, p))

LEMMA EmptyNeat == AllNeat(Changes, <<>>) /\ \A t, p : Matching(<<>>, t, p) = <<>>
<1>1. AllNeat(Changes, <<>>) /\ Range(<<>>) = {}
  BY DEF Range, AllNeat
<1>2. QED BY <1>1, MatchingNone

LEMMA RaisedStart ==
  ASSUME NEW old \in PlainDocs
  PROVE  Raised(old, old, <<>>)
<1> SUFFICES ASSUME NEW t \in Tests, old[t] # Gone, NEW p \in Paths
             PROVE  Chained(old[t].metric, old[t].items[p], old[t].items[p], <<>>)
  BY EmptyNeat DEF Raised, SameMeta
<1>1. old[t].metric \in Plain /\ old[t].items[p] \in ItemsOf(old[t].metric)
  BY GroupShape DEF PlainDocs
<1>2. QED BY <1>1, ChainedStart

LEMMA RaisedStep ==
  ASSUME NEW old \in PlainDocs, NEW mid \in PlainDocs, NEW new \in PlainDocs, Once(mid), Once(new),
         NEW l \in Seq(NeatEntries), Raised(old, mid, l), OnlyRaises(mid, new),
         NEW o \in Options, Allowed(mid, new, o)
  PROVE  Raised(old, new, l \o Records(mid, new, o))
<1> DEFINE batch == Records(mid, new, o)
<1>1. batch \in Seq(NeatEntries)
  BY RecordsNeat
<1>2. AllNeat(Changes, l) /\ AllNeat(Changes, batch)
  BY <1>1, NeatSeq
<1>3. \A t \in Kept(mid, new), p \in Paths :
        /\ Path(mid, new, t, p) = {} => Matching(batch, t, p) = <<>>
        /\ \A x : Path(mid, new, t, p) = {x} => Matching(batch, t, p) = <<x>>
  BY PathChanges, RecordsMatch
<1> HIDE DEF batch
<1>4. ASSUME NEW t \in Tests, old[t] # Gone
      PROVE  new[t] # Gone /\ SameMeta(mid[t], new[t]) /\ mid[t] # Gone /\ SameMeta(old[t], mid[t])
  <2>1. mid[t] # Gone /\ SameMeta(old[t], mid[t])
    BY <1>4 DEF Raised
  <2>2. mid[t] = new[t] \/ SameMeta(mid[t], new[t])
    BY <2>1 DEF OnlyRaises
  <2>3. mid[t].metric \in Plain /\ Gone.metric \notin Plain
    BY <2>1 DEF PlainDocs, Gone, Plain
  <2>4. QED BY <2>1, <2>2, <2>3 DEF SameMeta
<1>5. ASSUME NEW t \in Tests, old[t] # Gone, NEW p \in Paths
      PROVE  Chained(old[t].metric, old[t].items[p], new[t].items[p], Matching(l \o batch, t, p))
  <2> DEFINE m == old[t].metric
  <2> DEFINE b == old[t].items[p]
  <2> DEFINE c == mid[t].items[p]
  <2> DEFINE d == new[t].items[p]
  <2> DEFINE rs == Matching(l, t, p)
  <2> DEFINE same == t \notin Migrated(mid, new)
  <2> DEFINE W == Path(mid, new, t, p)
  <2>1. /\ new[t] # Gone /\ mid[t] # Gone /\ m = mid[t].metric /\ m = new[t].metric
    BY <1>4, <1>5 DEF SameMeta
  <2>2. t \in Kept(mid, new) /\ t \notin Migrated(mid, new)
    BY <2>1 DEF Kept, Migrated
  <2>3. m \in Plain /\ b \in ItemsOf(m)
    <3>1. m \in Plain
      BY <1>5 DEF PlainDocs
    <3>2. old \in Baselines
      BY DEF PlainDocs
    <3>3. old[t].items \in [Paths -> ItemsOf(old[t].metric)]
      BY <1>5, <3>2, GroupShape
    <3>4. QED BY <3>1, <3>3
  <2>4. c \in ItemsOf(m) /\ d \in ItemsOf(m)
    BY <2>1, GroupShape DEF PlainDocs
  <2>5. m = "effective-line-count" => c.count <= 1 /\ d.count <= 1
    BY <2>1 DEF Once
  <2>6. d.count >= c.count /\ d.level >= c.level
    <3>1. c.count \in Nat /\ c.level \in Nat
      BY <2>3, <2>4, PlainShape
    <3>2. mid[t] = new[t] \/ (d.count >= c.count /\ d.level >= c.level)
      BY <2>1 DEF OnlyRaises
    <3>3. QED BY <3>1, <3>2
  <2>7. Chained(m, b, c, rs)
    BY <1>5 DEF Raised
  <2>8. rs \in Seq(Changes) /\ Matching(l \o batch, t, p) = rs \o Matching(batch, t, p)
    BY <1>2, MatchingConcat
  <2>9. W \subseteq Changes
    BY <2>2, PathChanges
  <2>10. /\ W = {} => Matching(batch, t, p) = <<>>
         /\ \A x : W = {x} => Matching(batch, t, p) = <<x>>
    BY <1>3, <2>2
  <2>11. W = Worse(same, m, c, d) /\ same /\ same \in BOOLEAN
    BY <2>1, <2>2 DEF Path
  <2> HIDE DEF m, b, c, d, rs, same, W
  <2> DEFINE more == Matching(l \o batch, t, p)
  <2>12. more = rs \o Matching(batch, t, p)
    BY <2>8
  <2> HIDE DEF more
  <2>13. W = {} => more = rs
    BY <2>8, <2>10, <2>12, ConcatEmptySeq
  <2>14. \A x : W = {x} => more = rs \o <<x>>
    BY <2>10, <2>12
  <2>15. Chained(m, b, d, more)
    BY <2>3, <2>4, <2>5, <2>6, <2>7, <2>8, <2>9, <2>11, <2>13, <2>14, ChainedStep
  <2>16. QED BY <2>15 DEF m, b, d, more
<1>6. \A t \in Tests : old[t] # Gone => new[t] # Gone /\ SameMeta(old[t], new[t])
  BY <1>4 DEF SameMeta
<1>7. QED BY <1>5, <1>6 DEF Raised, batch

LEMMA RaisedAccounted ==
  ASSUME NEW old \in PlainDocs, NEW new \in PlainDocs, Once(old), Once(new),
         NEW l, Raised(old, new, l)
  PROVE  Unaccounted(old, new, l) = {}
<1>1. Missing(old, new) = {}
  BY DEF Raised, Missing
<1>2. ASSUME NEW t \in Kept(old, new)
      PROVE  /\ t \notin Migrated(old, new) /\ ShrinkAccounted(t, RemovedPaths(old, new, t), l)
             /\ \A p \in Paths : ItemAccounted(t \notin Migrated(old, new), new[t].metric,
                                   old[t].items[p], new[t].items[p], Matching(l, t, p))
  <2>1. t \in Tests /\ old[t] # Gone /\ new[t] # Gone /\ SameMeta(old[t], new[t])
    BY DEF Kept, Raised
  <2>2. t \notin Migrated(old, new)
    BY <2>1 DEF Migrated, SameMeta
  <2>3. ShrinkAccounted(t, RemovedPaths(old, new, t), l)
    BY <2>1 DEF RemovedPaths, SameMeta, ShrinkAccounted
  <2>4. ASSUME NEW p \in Paths
        PROVE  ItemAccounted(t \notin Migrated(old, new), new[t].metric,
                             old[t].items[p], new[t].items[p], Matching(l, t, p))
    <3> DEFINE m == new[t].metric
    <3> DEFINE b == old[t].items[p]
    <3> DEFINE c == new[t].items[p]
    <3> DEFINE rs == Matching(l, t, p)
    <3> DEFINE same == t \notin Migrated(old, new)
    <3>1. m \in Plain /\ c \in ItemsOf(m)
      BY ZenonT(60), <2>1, GroupShape DEF PlainDocs
    <3>2. m = old[t].metric
      BY <2>1 DEF SameMeta
    <3>3. b \in ItemsOf(m)
      BY <2>1, <3>2, GroupShape DEF PlainDocs
    <3>4. m = "effective-line-count" => b.count <= 1 /\ c.count <= 1
      BY <2>1, <3>2 DEF Once
    <3>5. Chained(m, b, c, rs)
      BY <2>1, <3>2 DEF Raised
    <3>6. same \in BOOLEAN /\ same
      BY <2>2
    <3> HIDE DEF m, b, c, rs, same
    <3>7. ItemAccounted(same, m, b, c, rs)
      BY <3>1, <3>3, <3>4, <3>5, <3>6, ChainedAccounted
    <3>8. QED BY <3>7 DEF m, b, c, rs, same
  <2>5. QED BY <2>2, <2>3, <2>4
<1>3. QED BY <1>1, <1>2 DEF Unaccounted

LEMMA AppendedAgain ==
  ASSUME NEW S, NEW s \in Seq(S), NEW batch \in Seq(S)
  PROVE  Appended(s \o batch, batch) = s \o batch
<1> DEFINE l == s \o batch
<1> DEFINE rb == Reverse(batch)
<1> DEFINE rl == Reverse(l)
<1>1. l \in Seq(S) /\ Len(l) = Len(s) + Len(batch)
  OBVIOUS
<1>2. \A i \in 1..Len(batch) : l[Len(s) + i] = batch[i]
  OBVIOUS
<1> HIDE DEF l
<1>3. rb \in Seq(S) /\ Len(rb) = Len(batch) /\ rl \in Seq(S) /\ Len(rl) = Len(l)
  BY <1>1 DEF Reverse
<1>4. \A i \in 1..Len(batch) : rb[i] = batch[Len(batch) - i + 1]
  BY DEF Reverse
<1>5. \A i \in 1..Len(l) : rl[i] = l[Len(l) - i + 1]
  BY <1>1 DEF Reverse
<1> HIDE DEF rb, rl
<1>6. ASSUME NEW i \in 1..Len(batch) PROVE rb[i] = rl[i]
  <2>1. i \in 1..Len(l) /\ Len(batch) - i + 1 \in 1..Len(batch)
    BY <1>1
  <2>2. Len(l) - i + 1 = Len(s) + (Len(batch) - i + 1)
    BY <1>1
  <2>3. l[Len(l) - i + 1] = batch[Len(batch) - i + 1]
    BY <1>2, <2>1, <2>2
  <2>4. QED BY <1>4, <1>5, <2>1, <2>3
<1> DEFINE u == SubSeq(rb, 1, Len(batch))
<1> DEFINE v == SubSeq(rl, 1, Len(batch))
<1>7. u \in Seq(S) /\ Len(u) = Len(batch) /\ \A i \in 1..Len(batch) : u[i] = rb[i]
  BY <1>3
<1>8. v \in Seq(S) /\ Len(v) = Len(batch) /\ \A i \in 1..Len(batch) : v[i] = rl[i]
  BY <1>1, <1>3
<1> HIDE DEF u, v
<1>9. u = v
  BY <1>6, <1>7, <1>8, SeqEqual
<1>10. Len(batch) <= Len(l)
  BY <1>1
<1>11. IsPrefix(rb, rl)
  BY <1>3, <1>9, <1>10 DEF IsPrefix, u, v
<1>12. IsSuffix(batch, l)
  BY <1>11 DEF IsSuffix, rb, rl
<1>13. QED BY <1>12 DEF Appended, l

HonestKinds == {"none", "one", "raises"}

(* The records at the end of the log that the baseline does not show yet: of   *)
(* the update under way, or of one that was killed.                              *)
Unsettled == IF pending.on THEN pending.batch ELSE story.torn

(* The rest of the log, s, explains the baseline.                               *)
Settled(s) ==
  /\ AppendOnly(base.log, s)
  /\ log = s \o Unsettled
  /\ story.kind = "none" => baseline = base.baseline /\ s = base.log
  /\ story.kind \in {"none", "raises"} => Raised(base.baseline, baseline, After(base.log, s))
  /\ story.kind = "one" => Unaccounted(base.baseline, baseline, After(base.log, s)) = {}

PendingBatch ==
  pending.on => \E o \in Options : /\ Allowed(baseline, pending.baseline, o)
                                   /\ pending.batch = Records(baseline, pending.baseline, o)

Honest ==
  /\ PendingBatch
  /\ story.kind \in HonestKinds =>
       /\ pending.on => story.torn = <<>>
       /\ \E s \in Seq(NeatEntries) : Settled(s)

LEMMA UnsettledUpdate ==
  ASSUME "complexity-severity" \notin UsedMetrics, TypeOK, Sound, Honest,
         NEW new \in Generated, NEW o \in Options, Update(new, o)
  PROVE  Honest'
<1> DEFINE batch == Records(baseline, new, o)
<1>1. /\ Allowed(baseline, new, o) /\ log' = Appended(log, batch)
      /\ pending'.baseline = new /\ pending'.batch = batch /\ pending'.on /\ ~pending.on
      /\ UNCHANGED <<base, main, baseline, landed>>
  BY DEF Update, refs
<1>2. PendingBatch'
  BY <1>1 DEF PendingBatch
<1>3. new \in PlainDocs
  BY GeneratedPlain
<1>4. batch \in Seq(NeatEntries)
  BY <1>1, <1>3, RecordsNeat DEF Sound
<1> HIDE DEF batch
<1>5. ASSUME story'.kind \in HonestKinds
      PROVE  story'.torn = <<>> /\ \E s \in Seq(NeatEntries) : Settled(s)'
  <2>1. /\ story.torn = batch \/ (story.torn = <<>> /\ ~(batch # <<>> /\ IsSuffix(batch, log)))
        /\ story' = [story EXCEPT !.torn = <<>>]
    BY <1>5 DEF Update, HonestKinds, batch
  <2>2. story'.kind = story.kind /\ story'.torn = <<>>
    BY <2>1 DEF TypeOK
  <2>3. PICK s \in Seq(NeatEntries) : Settled(s)
    BY <1>5, <2>2 DEF Honest
  <2>4. log = s \o story.torn
    BY <1>1, <2>3 DEF Settled, Unsettled
  <2>5. log' = s \o batch
    <3>1. CASE story.torn = batch
      BY <1>1, <1>4, <2>4, <3>1, AppendedAgain
    <3>2. CASE story.torn = <<>> /\ batch # <<>> /\ ~IsSuffix(batch, log)
      <4>1. log = s
        BY <2>4, <3>2, ConcatEmptySeq
      <4>2. QED BY <1>1, <3>2, <4>1 DEF Appended
    <3>3. CASE story.torn = <<>> /\ batch = <<>>
      BY <1>1, <1>4, <2>4, <3>3, AppendedAgain
    <3>4. QED BY <2>1, <3>1, <3>2, <3>3
  <2>6. Unsettled' = batch
    BY <1>1 DEF Unsettled
  <2>7. Settled(s)'
    BY <1>1, <2>2, <2>3, <2>5, <2>6 DEF Settled
  <2>8. QED BY <2>2, <2>7
<1>6. QED BY <1>2, <1>5 DEF Honest

LEMMA SettledWrite ==
  ASSUME Sound, Ahead, TypeOK, Honest, Write
  PROVE  Honest'
<1>1. /\ pending.on /\ baseline' = pending.baseline /\ pending' = Idle
      /\ UNCHANGED <<base, main, log, landed>>
  BY DEF Write, refs
<1>2. PendingBatch'
  BY <1>1 DEF PendingBatch, Idle
<1>3. PICK o \in Options : /\ Allowed(baseline, pending.baseline, o)
                           /\ pending.batch = Records(baseline, pending.baseline, o)
  BY <1>1 DEF Honest, PendingBatch
<1> DEFINE raises == OnlyRaises(baseline, pending.baseline)
<1>4. /\ story'.torn = story.torn
      /\ story'.kind = CASE story.kind = "none" -> IF raises THEN "raises" ELSE "one"
                         [] story.kind = "raises" /\ raises -> "raises"
                         [] story.kind = "hand" -> "hand"
                         [] OTHER -> "mixed"
  BY DEF Write, TypeOK
<1>5. ASSUME story'.kind \in HonestKinds
      PROVE  story.kind \in HonestKinds /\
             \/ story.kind = "none" /\ ~raises /\ story'.kind = "one"
             \/ story.kind \in {"none", "raises"} /\ raises /\ story'.kind = "raises"
  <2> HIDE DEF raises
  <2>1. CASE story.kind = "none"
    BY <1>4, <2>1 DEF HonestKinds
  <2>2. CASE story.kind # "none" /\ story.kind = "raises" /\ raises
    BY <1>4, <2>2 DEF HonestKinds
  <2>3. CASE story.kind # "none" /\ ~(story.kind = "raises" /\ raises)
    BY <1>4, <1>5, <2>3 DEF HonestKinds
  <2>4. QED BY <2>1, <2>2, <2>3
<1> HIDE DEF raises
<1>6. ASSUME story'.kind \in HonestKinds
      PROVE  \E s \in Seq(NeatEntries) : Settled(s)'
  <2>1. PICK s \in Seq(NeatEntries) : Settled(s)
    BY <1>5, <1>6 DEF Honest
  <2>2. story.torn = <<>> /\ story'.torn = <<>>
    BY <1>1, <1>4, <1>5, <1>6 DEF Honest
  <2>3. log = s \o pending.batch /\ AppendOnly(base.log, s)
    BY <1>1, <2>1 DEF Settled, Unsettled
  <2>4. pending.batch \in Seq(NeatEntries)
    BY <1>3, RecordsNeat DEF Sound
  <2> DEFINE l == After(base.log, s)
  <2>5. AppendOnly(base.log, log) /\ After(base.log, log) = l \o pending.batch
    <3>1. base.log \in Seq(NeatEntries)
      BY DEF Sound
    <3> DEFINE a == base.log
    <3> DEFINE x == pending.batch
    <3>2. a \in Seq(NeatEntries) /\ x \in Seq(NeatEntries) /\ AppendOnly(a, s)
      BY <2>3, <2>4, <3>1
    <3> HIDE DEF a, x
    <3>3. AppendOnly(a, s \o x)
      BY <3>2, PrefixConcat
    <3>4. After(a, s \o x) = After(a, s) \o x
      BY <3>2, PrefixConcat
    <3>5. QED BY <2>3, <3>3, <3>4 DEF a, x
  <2>6. Unsettled' = <<>>
    BY <1>1, <2>2 DEF Unsettled, Idle
  <2>7. log' = log \o Unsettled'
    BY <1>1, <2>6, ConcatEmptySeq DEF Sound
  <2>8. l \in Seq(NeatEntries)
    BY AfterTyped DEF Sound
  <2>9. CASE story.kind = "none" /\ ~raises /\ story'.kind = "one"
    <3>1. baseline = base.baseline /\ s = base.log
      BY <2>1, <2>9 DEF Settled
    <3>2. l = <<>>
      BY <3>1, PrefixSelf DEF Sound
    <3>3. After(base.log, log) = pending.batch
      BY <2>4, <2>5, <3>2, ConcatEmptySeq
    <3>4. Unaccounted(base.baseline, pending.baseline, pending.batch) = {}
      BY <1>3, <3>1, UpdateExplained DEF Sound
    <3>5. Settled(log)'
      BY <1>1, <2>5, <2>7, <2>9, <3>3, <3>4 DEF Settled
    <3>6. QED BY <1>1, <3>5 DEF Sound
  <2>10. CASE story.kind \in {"none", "raises"} /\ raises /\ story'.kind = "raises"
    <3>1. Raised(base.baseline, baseline, l)
      BY <2>1, <2>10 DEF Settled
    <3> HIDE DEF l
    <3>2. Raised(base.baseline, pending.baseline, l \o pending.batch)
      BY <1>3, <2>8, <2>10, <3>1, RaisedStep DEF Sound, Ahead, raises
    <3>3. Settled(log)'
      BY <1>1, <2>5, <2>7, <2>10, <3>2 DEF Settled
    <3>4. QED BY <1>1, <3>3 DEF Sound
  <2>11. QED BY <1>5, <1>6, <2>9, <2>10
<1>7. QED BY <1>1, <1>2, <1>6 DEF Honest, Idle

LEMMA HonestStep ==
  ASSUME "complexity-severity" \notin UsedMetrics, TypeOK, Sound, Ahead, Honest, [Next]_vars
  PROVE  Honest'
<1>1. ASSUME NEW new \in Generated, NEW o \in Options, Update(new, o)
      PROVE  Honest'
  BY <1>1, UnsettledUpdate
<1>2. CASE Write
  BY <1>2, SettledWrite
<1>3. ASSUME UNCHANGED <<base, baseline, log, pending, story>>
      PROVE  Honest'
  BY <1>3 DEF Honest, PendingBatch, Settled, Unsettled
<1>4. CASE UNCHANGED vars \/ Commit \/ \E new \in Generated, o \in Options : MainLands(new, o)
  BY <1>3, <1>4 DEF MainLands, Commit, vars, refs
<1>5. CASE Crash
  <2>1. /\ pending.on /\ pending' = Idle /\ story'.kind = story.kind /\ story'.torn = pending.batch
        /\ UNCHANGED <<base, baseline, log>>
    BY <1>5 DEF Crash, TypeOK, refs
  <2>2. Unsettled' = Unsettled /\ PendingBatch' /\ ~pending'.on
    BY <2>1 DEF Unsettled, Idle, PendingBatch
  <2>3. ASSUME NEW s \in Seq(NeatEntries), Settled(s)
        PROVE  Settled(s)'
    BY <2>1, <2>2, <2>3 DEF Settled
  <2>4. QED BY <2>1, <2>2, <2>3 DEF Honest
<1>6. CASE Sync \/ \E new \in Generated : HandEdit(new)
  <2>1. story'.kind \in {"hand", "merged"} /\ ~pending'.on
    BY <1>6 DEF Sync, HandEdit, TypeOK
  <2>2. QED BY <2>1 DEF Honest, HonestKinds, PendingBatch
<1>7. CASE Land \/ FastForward
  <2>1. /\ ~pending'.on /\ story' = Fresh /\ base'.baseline = baseline' /\ base'.log = log'
        /\ \/ baseline' = baseline /\ log' = log
           \/ baseline' = main.baseline /\ log' = main.log
    BY <1>7 DEF Land, FastForward
  <2>2. Unsettled' = <<>> /\ story'.kind = "none"
    BY <2>1 DEF Unsettled, Fresh
  <2>3. baseline' \in PlainDocs /\ log' \in Seq(NeatEntries)
    BY <2>1 DEF Sound
  <2>4. AppendOnly(log', log') /\ After(log', log') = <<>> /\ log' \o <<>> = log'
    BY <2>3, PrefixSelf, ConcatEmptySeq
  <2>5. Raised(baseline', baseline', <<>>)
    BY <2>3, RaisedStart
  <2>6. Settled(log)'
    BY <2>1, <2>2, <2>4, <2>5 DEF Settled
  <2>7. QED BY <2>1, <2>3, <2>6 DEF Honest, PendingBatch
<1>8. QED BY <1>1, <1>2, <1>4, <1>5, <1>6, <1>7 DEF Next

LEMMA HonestAlways ==
  ASSUME "complexity-severity" \notin UsedMetrics
  PROVE  Spec => []Honest
<1>1. Init => Honest
  <2> SUFFICES ASSUME Init PROVE Honest
    OBVIOUS
  <2>1. /\ ~pending.on /\ story = Fresh /\ base.baseline = baseline /\ base.log = log
        /\ log = <<>> /\ baseline \in PlainDocs
    BY GeneratedPlain DEF Init, Idle
  <2>2. Unsettled = <<>> /\ story.kind = "none"
    BY <2>1 DEF Unsettled, Fresh
  <2>3. log \in Seq(NeatEntries)
    BY <2>1
  <2>4. AppendOnly(log, log) /\ After(log, log) = <<>> /\ log \o <<>> = log
    BY <2>3, PrefixSelf, ConcatEmptySeq
  <2>5. Raised(baseline, baseline, <<>>)
    BY <2>1, RaisedStart
  <2>6. Settled(log)
    BY <2>1, <2>2, <2>4, <2>5 DEF Settled
  <2>7. QED BY <2>1, <2>3, <2>6 DEF Honest, PendingBatch
<1>2. TypeOK /\ Sound /\ Ahead /\ Honest /\ [Next]_vars => Honest'
  BY HonestStep
<1>3. QED BY <1>1, <1>2, TypeCorrect, SoundAlways, AheadAlways, PTL DEF Spec

(* Where no ratchet measures complexities, check-debt-accounting passes what    *)
(* honest work leaves on a branch with a commit of its own: nothing, one update, *)
(* or updates that only raise floors, however often each was killed between its  *)
(* two writes and repeated, for the repeated update finds its batch at the end   *)
(* of the log (appendValidatedDebtLogEntries) and the chains lead from record to *)
(* record (baseline-debt-accounting-chains.ts).  A branch without a commit of    *)
(* its own, compared with the first parent of HEAD, passes as long as nothing    *)
(* has been done, since what main's tip is passed the same check.                *)
THEOREM HonestWorkIsAccounted ==
  ASSUME "complexity-severity" \notin UsedMetrics
  PROVE  Spec => []HonestAccounted
<1>1. Sound /\ Ahead /\ Honest => HonestAccounted
  <2> SUFFICES ASSUME Sound, Ahead, Honest, story.kind \in {"none", "one", "raises"},
                      story.torn = <<>>, ~pending.on, own \/ Untouched
               PROVE  Accounted
    BY DEF HonestAccounted
  <2>1. PICK s \in Seq(NeatEntries) : Settled(s)
    BY DEF Honest, HonestKinds
  <2>2. log = s
    BY <2>1, ConcatEmptySeq DEF Settled, Unsettled
  <2>3. AppendOnly(base.log, log)
    BY <2>1, <2>2 DEF Settled
  <2>4. Accounts(base, baseline, log)
    <3>1. CASE story.kind \in {"none", "raises"}
      <4>1. Raised(base.baseline, baseline, After(base.log, log))
        BY <2>1, <2>2, <3>1 DEF Settled
      <4>2. Unaccounted(base.baseline, baseline, After(base.log, log)) = {}
        BY <4>1, RaisedAccounted DEF Sound, Ahead
      <4>3. QED BY <2>3, <4>2 DEF Accounts, Since
    <3>2. CASE story.kind = "one"
      BY <2>1, <2>2, <2>3, <3>2 DEF Settled, Accounts, Since
    <3>3. QED BY <3>1, <3>2
  <2>5. CASE own
    BY <2>4, <2>5 DEF Accounted, ComparableBase
  <2>6. CASE ~own
    <3>1. Untouched
      BY <2>6
    <3>2. \A b \in parent : Accounts(b, baseline, log)
      BY <3>1 DEF Untouched, Ahead
    <3>3. QED BY <2>6, <3>2 DEF Accounted, ComparableBase
  <2>7. QED BY <2>5, <2>6
<1>2. QED BY <1>1, SoundAlways, AheadAlways, HonestAlways, PTL
=============================================================================
