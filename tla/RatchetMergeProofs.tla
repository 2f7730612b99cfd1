------------------------- MODULE RatchetMergeProofs -------------------------
(* What the operators of RatchetItems, RatchetMerge and RatchetUpdate return: *)
(* the lemmas that the proofs about the ledger and about the merges rest on.   *)
(* What holds of a whole log is shown by its shortest counterexample.          *)
EXTENDS RatchetUpdate, FiniteSetTheorems, SequenceTheorems, WellFoundedInduction, TLAPS

-----------------------------------------------------------------------------
(* Sets and sequences                                                        *)

(* A non-empty set of naturals with a bound has a greatest element.           *)
LEMMA MaxExists ==
  ASSUME NEW N \in Nat, NEW S \in SUBSET (0..N), S # {}
  PROVE  Max(S) \in S /\ \A y \in S : Max(S) >= y
<1> DEFINE T == {N - v : v \in S}
<1>1. T \subseteq Nat /\ T # {}
  <2>1. PICK v \in S : TRUE
    OBVIOUS
  <2>2. N - v \in T
    OBVIOUS
  <2>3. \A u \in S : N - u \in Nat
    OBVIOUS
  <2>4. QED BY <2>2, <2>3
<1>2. PICK x \in T : \A y \in T : ~(<<y, x>> \in OpToRel(<, Nat))
  BY <1>1, WFMin, NatLessThanWellFounded
<1>3. PICK v \in S : x = N - v
  BY <1>2
<1>4. \A y \in T : ~(y < x)
  BY <1>1, <1>2 DEF OpToRel
<1>5. \A u \in S : v >= u
  <2>1. ASSUME NEW u \in S
        PROVE  v >= u
    <3>1. N - u \in T
      OBVIOUS
    <3>2. ~(N - u < N - v)
      BY <3>1, <1>3, <1>4
    <3>3. u \in Int /\ v \in Int
      OBVIOUS
    <3>4. QED BY <3>2, <3>3
  <2>2. QED BY <2>1
<1>6. QED BY <1>5 DEF Max

(* SetToSeq lists a finite set.                                               *)
LEMMA Listed ==
  ASSUME NEW S, IsFiniteSet(S)
  PROVE  /\ SetToSeq(S) \in Seq(S)
         /\ \A x \in S : \E i \in 1..Len(SetToSeq(S)) : SetToSeq(S)[i] = x
<1> DEFINE n == Cardinality(S)
<1> DEFINE s == SetToSeq(S)
<1>1. n \in Nat
  BY FS_CardinalityType
<1>2. PICK f \in Bijection(1..n, S) : TRUE
  BY FS_CardinalityType DEF ExistsBijection
<1>3. f \in [1..n -> S] /\ IsInjective(f)
  BY <1>2 DEF Bijection, Injection, IsInjective
<1>4. s \in [1..n -> S] /\ IsInjective(s)
  BY <1>3 DEF SetToSeq
<1>5. s \in Injection(1..n, S)
  BY <1>4 DEF Injection, IsInjective
<1>6. IsFiniteSet(1..n) /\ Cardinality(1..n) = n
  BY <1>1, FS_Interval
<1>7. s \in Surjection(1..n, S)
  BY <1>5, <1>6, FS_Injection
<1>8. s \in Seq(S) /\ Len(s) = n
  BY <1>1, <1>4
<1>9. QED BY <1>7, <1>8 DEF Surjection

-----------------------------------------------------------------------------
(* Items                                                                     *)

LEMMA NthNat ==
  ASSUME NEW f \in Severities, NEW k \in Sites
  PROVE  Nth(f, k) \in Nat
<1> DEFINE S == {v \in 0..MaxLevel : Cardinality({s \in Sites : f[s] >= v}) >= k}
<1>1. {s \in Sites : f[s] >= 0} = 1..NumSites
  BY DEF Severities, Sites
<1>2. Cardinality(1..NumSites) = NumSites
  BY ItemsAssumption, FS_Interval
<1>3. 0 \in S
  <2>1. k <= NumSites /\ NumSites >= k
    BY ItemsAssumption DEF Sites
  <2>2. Cardinality({s \in Sites : f[s] >= 0}) >= k
    BY <1>1, <1>2, <2>1
  <2>3. QED BY <2>2, ItemsAssumption
<1>4. S \in SUBSET (0..MaxLevel) /\ MaxLevel \in Nat
  BY ItemsAssumption
<1>5. Max(S) \in S
  BY <1>3, <1>4, MaxExists
<1>6. QED BY <1>5 DEF Nth

LEMMA ReportsNat ==
  ASSUME NEW f \in Severities
  PROVE  Reports(f) \in Nat
<1> DEFINE S == {s \in Sites : f[s] > 0}
<1>1. IsFiniteSet(Sites)
  BY ItemsAssumption, FS_Interval DEF Sites
<1>2. IsFiniteSet(S)
  BY <1>1, FS_Subset
<1>3. Cardinality(S) \in Nat
  BY <1>2, FS_CardinalityType
<1>4. QED BY <1>3 DEF Reports

LEMMA PeakNat ==
  ASSUME NEW f \in Severities
  PROVE  Peak(f) \in Nat
<1> DEFINE S == {f[s] : s \in Sites}
<1>1. 1 \in Sites
  BY ItemsAssumption DEF Sites
<1>2. S \in SUBSET (0..MaxLevel) /\ S # {} /\ MaxLevel \in Nat
  BY <1>1, ItemsAssumption DEF Severities
<1>3. Max(S) \in S
  BY <1>2, MaxExists
<1>4. QED BY <1>2, <1>3 DEF Peak

(* What uniqueComplexityMap keeps is one of the functions of the place, and   *)
(* none of them is higher.                                                     *)
LEMMA HighestOf ==
  ASSUME NEW f \in Severities, NEW s \in Sites
  PROVE  /\ Highest(f, s) \in Nat
         /\ \E u \in Sites : Place[u] = Place[s] /\ f[u] = Highest(f, s)
         /\ \A u \in Sites : Place[u] = Place[s] => f[u] \in Nat /\ f[u] <= Highest(f, s)
<1> DEFINE P == {v \in Sites : Place[v] = Place[s]}
<1> DEFINE S == {f[u] : u \in P}
<1>1. f \in [Sites -> 0..MaxLevel] /\ MaxLevel \in Nat
  BY ItemsAssumption DEF Severities
<1>2. s \in P /\ P \subseteq Sites
  OBVIOUS
<1>3. S \in SUBSET (0..MaxLevel) /\ S # {}
  BY <1>1, <1>2
<1>4. Max(S) \in S /\ \A x \in S : Max(S) >= x
  BY <1>1, <1>3, MaxExists
<1>5. Max(S) \in Nat
  BY <1>1, <1>3, <1>4
<1>6. \A u \in P : f[u] \in S /\ f[u] \in Nat
  BY <1>1
<1>7. Highest(f, s) = Max(S)
  BY DEF Highest
<1>8. PICK u \in P : f[u] = Max(S)
  BY <1>4
<1> HIDE DEF S
<1>9. \A v \in P : f[v] <= Max(S)
  BY <1>4, <1>5, <1>6
<1>10. QED BY <1>2, <1>5, <1>6, <1>7, <1>8, <1>9

LEMMA ItemShape ==
  ASSUME NEW m \in Metrics, NEW i \in ItemsOf(m)
  PROVE  /\ i.count \in Nat /\ i.level \in Nat /\ i.fns \in Severities
<1>1. /\ NoItem = [count |-> 0, level |-> 0, fns |-> Silent, print |-> 0]
      /\ Silent \in Severities
  BY ItemsAssumption DEF NoItem, Item, Silent, Severities
<1>2. CASE i = NoItem
  BY <1>1, <1>2
<1>3. CASE i \in Counted
  <2>1. PICK n \in Sites, p \in 0..MaxPrint : i = Item(n, 0, Silent, p)
    BY <1>3 DEF Counted
  <2>2. QED BY <1>1, <2>1 DEF Sites, Item
<1>4. CASE i \in Measured
  <2>1. PICK n \in Sites, v \in 1..MaxLevel : i = Item(n, v, Silent, 0)
    BY <1>4 DEF Measured
  <2>2. QED BY <1>1, <2>1, ItemsAssumption DEF Sites, Item
<1>5. CASE i \in Graded
  <2>1. PICK f \in Severities : i = Item(Reports(f), Peak(f), f, 0)
    BY <1>5 DEF Graded
  <2>2. i.count = Reports(f) /\ i.level = Peak(f) /\ i.fns = f
    BY <1>1, <2>1 DEF Item
  <2>3. QED BY <2>2, ReportsNat, PeakNat
<1>6. QED BY <1>2, <1>3, <1>4, <1>5 DEF ItemsOf

LEMMA NoMoveNoDelta ==
  ASSUME NEW i, i.fns \in Severities
  PROVE  Delta("worse", i, i) = {}
<1>1. ExactDelta("worse", i, i) = {}
  BY HighestOf DEF ExactDelta, Moved
<1>2. VectorDelta("worse", i, i) = {}
  <2>1. \A k \in Sites : ~Moved("worse", Nth(i.fns, k), Nth(i.fns, k))
    BY NthNat DEF Moved
  <2>2. QED BY <2>1 DEF VectorDelta
<1>3. QED BY <1>1, <1>2 DEF Delta

LEMMA NoRegressionFromItself ==
  ASSUME NEW m \in Metrics, NEW i, i.count \in Nat, i.level \in Nat, i.fns \in Severities
  PROVE  Regression(m, i, i) = {}
<1>1. LevelRegression(m, i, i) = {}
  BY NoMoveNoDelta DEF LevelRegression, Metrics
<1>2. CountRegression(i, i) = {}
  BY DEF CountRegression
<1>3. QED BY <1>1, <1>2 DEF Regression

-----------------------------------------------------------------------------
(* Baselines                                                                 *)

LEMMA GroupShape ==
  ASSUME NEW b \in Baselines, NEW t \in Tests, b[t] # Gone
  PROVE  /\ b[t].metric \in Metrics /\ b[t].scope \in SUBSET Paths
         /\ b[t].items \in [Paths -> ItemsOf(b[t].metric)]
         /\ b[t] = [metric |-> b[t].metric, scope |-> b[t].scope, items |-> b[t].items]
<1>1. b[t] \in Groups
  BY DEF Baselines
<1>2. PICK m \in Metrics : b[t] \in [metric : {m}, scope : SUBSET Paths, items : [Paths -> ItemsOf(m)]]
  BY <1>1 DEF Groups
<1>3. QED BY <1>2

LEMMA GroupIsGroup ==
  ASSUME NEW m \in Metrics, NEW sc \in SUBSET Paths, NEW i \in [Paths -> ItemsOf(m)]
  PROVE  [metric |-> m, scope |-> sc, items |-> i] \in Groups
<1>1. [metric |-> m, scope |-> sc, items |-> i]
        \in [metric : {m}, scope : SUBSET Paths, items : [Paths -> ItemsOf(m)]]
  OBVIOUS
<1>2. QED BY <1>1 DEF Groups

LEMMA GeneratedTyped == Generated \subseteq Baselines
<1> DEFINE Group(m, sc, i) == [ metric |-> m, scope |-> sc,
                                items  |-> [p \in Paths |-> IF p \in sc THEN i[p] ELSE NoItem] ]
<1> DEFINE Of(m, sc) == {Group(m, sc, i) : i \in [sc -> Collected(m)]}
<1>1. ASSUME NEW m \in UsedMetrics, NEW sc \in Scopes, NEW g \in Of(m, sc)
      PROVE  g \in Groups
  <2>1. m \in Metrics /\ sc \in SUBSET Paths
    BY UpdateAssumption
  <2>2. PICK i \in [sc -> Collected(m)] : g = Group(m, sc, i)
    OBVIOUS
  <2>3. NoItem \in ItemsOf(m) /\ Collected(m) \subseteq ItemsOf(m)
    BY DEF ItemsOf, Collected
  <2>4. [p \in Paths |-> IF p \in sc THEN i[p] ELSE NoItem] \in [Paths -> ItemsOf(m)]
    BY <2>3
  <2>5. QED BY <2>1, <2>2, <2>4, GroupIsGroup
<1> DEFINE All == {Gone} \cup UNION {Of(m, sc) : m \in UsedMetrics, sc \in Scopes}
<1>2. All \subseteq Groups \cup {Gone}
  BY <1>1
<1>3. Generated = [Tests -> All]
  BY DEF Generated
<1> HIDE DEF All
<1>4. QED BY <1>2, <1>3 DEF Baselines

(* The merge driver writes items that validateMetricItem accepts.             *)
LEMMA ResolveTyped ==
  ASSUME NEW m \in Metrics, NEW b, NEW c \in ItemsOf(m), NEW o \in ItemsOf(m)
  PROVE  ResolveKey(m, b, c, o).item \in ItemsOf(m)
<1>1. NoItem \in ItemsOf(m)
  BY DEF ItemsOf
<1>2. CASE c # NoItem /\ o # NoItem
  <2>1. CASE m = "message-count"
    <3>1. PICK n \in Sites, x \in 0..MaxPrint : c = Item(n, 0, Silent, x)
      BY <1>2, <2>1 DEF ItemsOf, Counted
    <3>2. PICK k \in Sites, y \in 0..MaxPrint : o = Item(k, 0, Silent, y)
      BY <1>2, <2>1 DEF ItemsOf, Counted
    <3>3. [c EXCEPT !.print = Smaller(c.print, o.print)] = Item(n, 0, Silent, Smaller(x, y))
      BY <3>1, <3>2 DEF Item
    <3>4. Smaller(x, y) \in 0..MaxPrint
      BY DEF Smaller
    <3>5. Item(n, 0, Silent, Smaller(x, y)) \in ItemsOf(m)
      BY <2>1, <3>4 DEF ItemsOf, Counted
    <3>6. MergeShared(m, c, o).item \in ItemsOf(m)
      BY <2>1, <3>3, <3>5 DEF MergeShared, MeetSameCount, Lower, Outcome
    <3>7. QED BY <1>2, <3>6 DEF ResolveKey
  <2>2. CASE m = "effective-line-count"
    <3>1. PICK n \in Sites, x \in 1..MaxLevel : c = Item(n, x, Silent, 0)
      BY <1>2, <2>2 DEF ItemsOf, Measured
    <3>2. PICK k \in Sites, y \in 1..MaxLevel : o = Item(k, y, Silent, 0)
      BY <1>2, <2>2 DEF ItemsOf, Measured
    <3>3. [c EXCEPT !.level = Smaller(c.level, o.level)] = Item(n, Smaller(x, y), Silent, 0)
      BY <3>1, <3>2 DEF Item
    <3>4. Smaller(x, y) \in 1..MaxLevel
      BY DEF Smaller
    <3>5. Item(n, Smaller(x, y), Silent, 0) \in ItemsOf(m)
      BY <2>2, <3>4 DEF ItemsOf, Measured
    <3>6. MergeShared(m, c, o).item \in ItemsOf(m)
      BY <2>2, <3>3, <3>5 DEF MergeShared, MeetSameCount, Lower, Outcome
    <3>7. QED BY <1>2, <3>6 DEF ResolveKey
  <2>3. CASE m = "complexity-severity"
    <3>1. MergeShared(m, c, o).item \in ItemsOf(m)
      BY <2>3 DEF MergeShared, MeetSameCount, Lower, Outcome
    <3>2. QED BY <1>2, <3>1 DEF ResolveKey
  <2>4. QED BY <2>1, <2>2, <2>3 DEF Metrics
<1>3. CASE ~(c # NoItem /\ o # NoItem)
  BY <1>1, <1>3 DEF ResolveKey, MergeOneSided, Outcome
<1>4. QED BY <1>2, <1>3

LEMMA MergeTyped ==
  ASSUME NEW b \in Baselines, NEW c \in Baselines, NEW o \in Baselines
  PROVE  MergeBaselines(b, c, o).baseline \in Baselines
<1>1. ASSUME NEW t \in Tests
      PROVE  MergeGroup(b[t], c[t], o[t]).group \in Groups \cup {Gone}
  <2>1. b[t] \in Groups \cup {Gone} /\ c[t] \in Groups \cup {Gone} /\ o[t] \in Groups \cup {Gone}
    BY DEF Baselines
  <2>2. CASE c[t] = o[t] \/ o[t] = b[t] \/ c[t] = b[t] \/ c[t] = Gone \/ o[t] = Gone \/ ~SameMeta(c[t], o[t])
    BY <2>1, <2>2 DEF MergeGroup
  <2>3. CASE ~(c[t] = o[t] \/ o[t] = b[t] \/ c[t] = b[t] \/ c[t] = Gone \/ o[t] = Gone \/ ~SameMeta(c[t], o[t]))
    <3> DEFINE m == c[t].metric
    <3> DEFINE i == MergeItems(m, b[t].items, c[t].items, o[t].items).items
    <3>1. /\ m \in Metrics /\ c[t].scope \in SUBSET Paths
          /\ c[t].items \in [Paths -> ItemsOf(m)]
          /\ c[t] = [metric |-> m, scope |-> c[t].scope, items |-> c[t].items]
      BY <2>3, GroupShape
    <3>2. o[t].items \in [Paths -> ItemsOf(m)]
      <4>1. o[t].items \in [Paths -> ItemsOf(o[t].metric)] /\ o[t].metric = m
        BY <2>3, GroupShape DEF SameMeta
      <4>2. QED BY <4>1
    <3>3. i \in [Paths -> ItemsOf(m)]
      <4>1. NoItem \in ItemsOf(m)
        BY DEF ItemsOf
      <4>2. \A p \in Paths : ResolveKey(m, b[t].items[p], c[t].items[p], o[t].items[p]).item \in ItemsOf(m)
        BY <3>1, <3>2, ResolveTyped
      <4>3. QED BY <4>1, <4>2 DEF MergeItems
    <3>4. [c[t] EXCEPT !.items = i] = [metric |-> m, scope |-> c[t].scope, items |-> i]
      BY <3>1
    <3>5. [c[t] EXCEPT !.items = i] \in Groups
      BY <3>1, <3>3, <3>4, GroupIsGroup
    <3>6. MergeGroup(b[t], c[t], o[t]).group = [c[t] EXCEPT !.items = i]
      BY <2>3 DEF MergeGroup
    <3>7. QED BY <3>5, <3>6
  <2>4. QED BY <2>2, <2>3
<1>2. QED BY <1>1 DEF MergeBaselines, Baselines

-----------------------------------------------------------------------------
(* Records                                                                   *)

LEMMA RangeOfConcat ==
  ASSUME NEW S, NEW s \in Seq(S), NEW u \in Seq(S)
  PROVE  /\ s \o u \in Seq(S)
         /\ Range(s) \subseteq Range(s \o u) /\ Range(u) \subseteq Range(s \o u)
<1>1. /\ s \o u \in Seq(S) /\ Len(s \o u) = Len(s) + Len(u)
      /\ \A i \in 1..Len(s) : (s \o u)[i] = s[i]
      /\ \A i \in 1..Len(u) : (s \o u)[Len(s) + i] = u[i]
  OBVIOUS
<1>2. ASSUME NEW x \in Range(s) PROVE x \in Range(s \o u)
  <2>1. PICK i \in 1..Len(s) : s[i] = x
    BY DEF Range
  <2>2. i \in 1..Len(s \o u) /\ (s \o u)[i] = x
    BY <1>1, <2>1
  <2>3. QED BY <1>1, <2>2 DEF Range
<1>3. ASSUME NEW x \in Range(u) PROVE x \in Range(s \o u)
  <2>1. PICK i \in 1..Len(u) : u[i] = x
    BY DEF Range
  <2>2. Len(s) + i \in 1..Len(s \o u) /\ (s \o u)[Len(s) + i] = x
    BY <1>1, <2>1
  <2>3. QED BY <1>1, <2>2 DEF Range
<1>4. QED BY <1>1, <1>2, <1>3

LEMMA RangeOfListed ==
  ASSUME NEW S, IsFiniteSet(S)
  PROVE  SetToSeq(S) \in Seq(S) /\ S \subseteq Range(SetToSeq(S))
BY Listed DEF Range

LEMMA ImageFinite ==
  ASSUME NEW T, IsFiniteSet(T), NEW f, DOMAIN f = T
  PROVE  IsFiniteSet({f[t] : t \in T})
<1> DEFINE S == {f[t] : t \in T}
<1>1. [t \in T |-> f[t]] \in Surjection(T, S)
  BY DEF Surjection
<1>2. QED BY <1>1, FS_Surjection

(* A batch is in the log once it has been appended, found at its end or not.  *)
LEMMA AppendedHas ==
  ASSUME NEW S, NEW l \in Seq(S), NEW batch \in Seq(S)
  PROVE  /\ Appended(l, batch) \in Seq(S)
         /\ Range(batch) \subseteq Range(Appended(l, batch))
         /\ Range(l) \subseteq Range(Appended(l, batch))
<1>1. CASE ~IsSuffix(batch, l)
  BY <1>1, RangeOfConcat DEF Appended
<1>2. CASE IsSuffix(batch, l)
  <2> DEFINE rb == Reverse(batch)
  <2> DEFINE rl == Reverse(l)
  <2>1. rb \in Seq(S) /\ Len(rb) = Len(batch) /\ rl \in Seq(S) /\ Len(rl) = Len(l)
    BY DEF Reverse
  <2>2. \A i \in 1..Len(batch) : rb[i] = batch[Len(batch) - i + 1]
    BY DEF Reverse
  <2>3. \A i \in 1..Len(l) : rl[i] = l[Len(l) - i + 1]
    BY DEF Reverse
  <2> HIDE DEF rb, rl
  <2>4. Len(batch) <= Len(l) /\ SubSeq(rb, 1, Len(batch)) = SubSeq(rl, 1, Len(batch))
    BY <1>2, <2>1 DEF IsSuffix, IsPrefix, rb, rl
  <2>5. \A i \in 1..Len(batch) : rb[i] = rl[i]
    BY <2>1, <2>4
  <2>6. ASSUME NEW x \in Range(batch) PROVE x \in Range(l)
    <3>1. PICK i \in 1..Len(batch) : batch[i] = x
      BY DEF Range
    <3>2. Len(batch) - i + 1 \in 1..Len(batch) /\ Len(batch) - (Len(batch) - i + 1) + 1 = i
      OBVIOUS
    <3>3. rb[Len(batch) - i + 1] = x
      BY <2>2, <3>1, <3>2
    <3>4. rl[Len(batch) - i + 1] = x
      BY <2>5, <3>2, <3>3
    <3>5. Len(batch) - i + 1 \in 1..Len(l)
      BY <2>4, <3>2
    <3>6. l[Len(l) - (Len(batch) - i + 1) + 1] = x
      BY <2>3, <3>4, <3>5
    <3>7. Len(l) - (Len(batch) - i + 1) + 1 \in 1..Len(l)
      BY <3>5
    <3>8. QED BY <3>6, <3>7 DEF Range
  <2>7. QED BY <1>2, <2>6 DEF Appended
<1>3. QED BY <1>1, <1>2

-----------------------------------------------------------------------------
(* Replaying records                                                         *)

(* Induction on a bounded index, for a set instead of a predicate.            *)
LEMMA IndexInduction ==
  ASSUME NEW N \in Nat, NEW S, 0 \in S, \A n \in 1..N : n - 1 \in S => n \in S
  PROVE  \A n \in 0..N : n \in S
<1> DEFINE T == (0..N) \ S
<1>1. SUFFICES ASSUME T # {} PROVE FALSE
  OBVIOUS
<1>2. T \subseteq Nat
  OBVIOUS
<1>3. PICK x \in T : \A y \in T : ~(<<y, x>> \in OpToRel(<, Nat))
  BY <1>1, <1>2, WFMin, NatLessThanWellFounded
<1>4. \A y \in T : ~(y < x)
  BY <1>2, <1>3 DEF OpToRel
<1>5. x \in 1..N
  <2>1. x \in 0..N /\ x \notin S
    OBVIOUS
  <2>2. x # 0
    BY <2>1
  <2>3. QED BY <2>1, <2>2
<1>6. x - 1 \in 0..N /\ x - 1 < x
  BY <1>5
<1>7. x - 1 \in S
  BY <1>4, <1>6
<1>8. QED BY <1>3, <1>5, <1>7

LEMMA MaxOfInterval ==
  ASSUME NEW n \in Nat, NEW s \in SUBSET (1..n), n \in s
  PROVE  Max(s) = n
<1>1. s \in SUBSET (0..n) /\ s # {}
  OBVIOUS
<1>2. Max(s) \in s /\ \A y \in s : Max(s) >= y
  BY <1>1, MaxExists
<1>3. Max(s) >= n
  BY <1>2
<1>4. Max(s) \in 1..n
  BY <1>2
<1>5. QED BY <1>3, <1>4

(* One record of the log, read by the chain of counts or of levels.           *)
CountStep(r, acc) ==
  IF /\ r.reason = (IF acc.new THEN "new-path" ELSE "increased-count")
     /\ r.wasCount = acc.count /\ r.isCount > r.wasCount
  THEN [count |-> r.isCount, new |-> FALSE] ELSE acc

LevelStep(reason, r, acc) ==
  IF r.reason = reason /\ r.wasLevel = acc.level /\ r.isLevel > r.wasLevel
  THEN [level |-> r.isLevel, count |-> r.isCount] ELSE acc

CountFold(rs, start, S, h) ==
  h = [s \in SUBSET S |-> IF s = {} THEN start
                          ELSE CountStep(rs[Max(s)], h[s \ {Max(s)}])]

LEMMA CountFoldIs ==
  ASSUME NEW rs, NEW from, NEW isNew
  PROVE  CountChain(from, isNew, rs) =
           (CHOOSE h : CountFold(rs, [count |-> from, new |-> isNew], DOMAIN rs, h))[DOMAIN rs]
BY DEF CountChain, FoldLeft, MapThenFoldSet, CountFold, CountStep

LEMMA CountFoldExists ==
  ASSUME NEW N \in Nat, NEW rs, NEW start
  PROVE  \E h : CountFold(rs, start, 1..N, h)
<1> DEFINE S == {n \in 0..N : \E h : CountFold(rs, start, 1..n, h)}
<1>1. 0 \in S
  <2> DEFINE h == [s \in SUBSET (1..0) |-> start]
  <2>1. CountFold(rs, start, 1..0, h)
    BY DEF CountFold
  <2>2. QED BY <2>1
<1>2. ASSUME NEW n \in 1..N, n - 1 \in S
      PROVE  n \in S
  <2>1. PICK h : CountFold(rs, start, 1..(n - 1), h)
    BY <1>2
  <2> DEFINE g == [s \in SUBSET (1..n) |-> IF n \in s THEN CountStep(rs[n], h[s \ {n}]) ELSE h[s]]
  <2>2. ASSUME NEW s \in SUBSET (1..n)
        PROVE  g[s] = IF s = {} THEN start ELSE CountStep(rs[Max(s)], g[s \ {Max(s)}])
    <3>1. CASE n \in s
      <4>1. Max(s) = n
        BY <3>1, MaxOfInterval
      <4>2. s \ {n} \in SUBSET (1..n) /\ n \notin s \ {n}
        OBVIOUS
      <4>3. g[s] = CountStep(rs[n], h[s \ {n}]) /\ g[s \ {n}] = h[s \ {n}]
        BY <3>1, <4>2
      <4> HIDE DEF g
      <4>4. QED BY <3>1, <4>1, <4>3
    <3>2. CASE n \notin s
      <4>1. s \in SUBSET (1..(n - 1))
        BY <3>2
      <4>2. g[s] = h[s]
        BY <3>2
      <4>3. CASE s = {}
        <5>1. h[s] = start
          BY <2>1, <4>1, <4>3 DEF CountFold
        <5>2. QED BY <4>2, <4>3, <5>1
      <4>4. CASE s # {}
        <5>1. n - 1 \in Nat /\ s \in SUBSET (0..(n - 1))
          BY <4>1
        <5>2. Max(s) \in s
          BY <4>4, <5>1, MaxExists
        <5>3. h[s] = CountStep(rs[Max(s)], h[s \ {Max(s)}])
          BY <2>1, <4>1, <4>4 DEF CountFold
        <5>4. g[s \ {Max(s)}] = h[s \ {Max(s)}]
          BY <3>2
        <5> HIDE DEF g
        <5>5. QED BY <4>2, <4>4, <5>3, <5>4
      <4>5. QED BY <4>3, <4>4
    <3>3. QED BY <3>1, <3>2
  <2>3. DOMAIN g = SUBSET (1..n) /\ g = [s \in SUBSET (1..n) |-> g[s]]
    OBVIOUS
  <2> HIDE DEF g
  <2>4. CountFold(rs, start, 1..n, g)
    BY <2>2, <2>3 DEF CountFold
  <2>5. QED BY <2>4
<1> HIDE DEF S
<1>3. N \in S
  BY <1>1, <1>2, IndexInduction
<1>4. QED BY <1>3 DEF S

(* What the chain of counts has come to after each of the records.            *)
CountReplay(f, from, isNew, rs) ==
  /\ DOMAIN f = 0..Len(rs)
  /\ f[0] = [count |-> from, new |-> isNew]
  /\ \A k \in 1..Len(rs) : f[k] = CountStep(rs[k], f[k - 1])

LEMMA CountChainReplay ==
  ASSUME NEW R, NEW rs \in Seq(R), NEW from, NEW isNew
  PROVE  \E f : CountReplay(f, from, isNew, rs) /\ CountChain(from, isNew, rs) = f[Len(rs)]
<1> DEFINE start == [count |-> from, new |-> isNew]
<1> DEFINE N == Len(rs)
<1> DEFINE h == CHOOSE x : CountFold(rs, start, 1..N, x)
<1>1. N \in Nat /\ DOMAIN rs = 1..N
  OBVIOUS
<1>2. CountFold(rs, start, 1..N, h)
  BY <1>1, CountFoldExists
<1>3. CountChain(from, isNew, rs) = h[1..N]
  BY <1>1, CountFoldIs
<1> HIDE DEF h, start
<1> DEFINE f == [k \in 0..N |-> h[1..k]]
<1>4. f[0] = start
  <2>1. 1..0 = {}
    OBVIOUS
  <2>2. h[{}] = start
    BY <1>2 DEF CountFold
  <2>3. QED BY <1>1, <2>1, <2>2
<1>5. ASSUME NEW k \in 1..N
      PROVE  f[k] = CountStep(rs[k], f[k - 1])
  <2> HIDE DEF N
  <2>1. 1..k \in SUBSET (1..N) /\ 1..k # {} /\ k \in 1..k /\ k \in Nat
    BY <1>1
  <2>2. Max(1..k) = k
    BY <2>1, MaxOfInterval
  <2>3. (1..k) \ {k} = 1..(k - 1)
    BY <1>1
  <2>4. h[1..k] = CountStep(rs[k], h[1..(k - 1)])
    BY <1>2, <2>1, <2>2, <2>3 DEF CountFold
  <2>5. k \in 0..N /\ k - 1 \in 0..N
    BY <1>1
  <2>6. QED BY <2>4, <2>5
<1>6. f[N] = h[1..N] /\ DOMAIN f = 0..N
  BY <1>1
<1> HIDE DEF f
<1>7. QED BY <1>3, <1>4, <1>5, <1>6 DEF CountReplay, start

LevelFold(reason, rs, start, S, h) ==
  h = [s \in SUBSET S |-> IF s = {} THEN start
                          ELSE LevelStep(reason, rs[Max(s)], h[s \ {Max(s)}])]

LEMMA LevelFoldIs ==
  ASSUME NEW rs, NEW from, NEW reason
  PROVE  LevelChain(from, reason, rs) =
           (CHOOSE h : LevelFold(reason, rs, [level |-> from, count |-> -1], DOMAIN rs, h))[DOMAIN rs]
BY DEF LevelChain, FoldLeft, MapThenFoldSet, LevelFold, LevelStep

LEMMA LevelFoldExists ==
  ASSUME NEW N \in Nat, NEW reason, NEW rs, NEW start
  PROVE  \E h : LevelFold(reason, rs, start, 1..N, h)
<1> DEFINE S == {n \in 0..N : \E h : LevelFold(reason, rs, start, 1..n, h)}
<1>1. 0 \in S
  <2> DEFINE h == [s \in SUBSET (1..0) |-> start]
  <2>1. LevelFold(reason, rs, start, 1..0, h)
    BY DEF LevelFold
  <2>2. QED BY <2>1
<1>2. ASSUME NEW n \in 1..N, n - 1 \in S
      PROVE  n \in S
  <2>1. PICK h : LevelFold(reason, rs, start, 1..(n - 1), h)
    BY <1>2
  <2> DEFINE g == [s \in SUBSET (1..n) |-> IF n \in s THEN LevelStep(reason, rs[n], h[s \ {n}]) ELSE h[s]]
  <2>2. ASSUME NEW s \in SUBSET (1..n)
        PROVE  g[s] = IF s = {} THEN start ELSE LevelStep(reason, rs[Max(s)], g[s \ {Max(s)}])
    <3>1. CASE n \in s
      <4>1. Max(s) = n
        BY <3>1, MaxOfInterval
      <4>2. s \ {n} \in SUBSET (1..n) /\ n \notin s \ {n}
        OBVIOUS
      <4>3. g[s] = LevelStep(reason, rs[n], h[s \ {n}]) /\ g[s \ {n}] = h[s \ {n}]
        BY <3>1, <4>2
      <4> HIDE DEF g
      <4>4. QED BY <3>1, <4>1, <4>3
    <3>2. CASE n \notin s
      <4>1. s \in SUBSET (1..(n - 1))
        BY <3>2
      <4>2. g[s] = h[s]
        BY <3>2
      <4>3. CASE s = {}
        <5>1. h[s] = start
          BY <2>1, <4>1, <4>3 DEF LevelFold
        <5>2. QED BY <4>2, <4>3, <5>1
      <4>4. CASE s # {}
        <5>1. n - 1 \in Nat /\ s \in SUBSET (0..(n - 1))
          BY <4>1
        <5>2. Max(s) \in s
          BY <4>4, <5>1, MaxExists
        <5>3. h[s] = LevelStep(reason, rs[Max(s)], h[s \ {Max(s)}])
          BY <2>1, <4>1, <4>4 DEF LevelFold
        <5>4. g[s \ {Max(s)}] = h[s \ {Max(s)}]
          BY <3>2
        <5> HIDE DEF g
        <5>5. QED BY <4>2, <4>4, <5>3, <5>4
      <4>5. QED BY <4>3, <4>4
    <3>3. QED BY <3>1, <3>2
  <2>3. DOMAIN g = SUBSET (1..n) /\ g = [s \in SUBSET (1..n) |-> g[s]]
    OBVIOUS
  <2> HIDE DEF g
  <2>4. LevelFold(reason, rs, start, 1..n, g)
    BY <2>2, <2>3 DEF LevelFold
  <2>5. QED BY <2>4
<1> HIDE DEF S
<1>3. N \in S
  BY <1>1, <1>2, IndexInduction
<1>4. QED BY <1>3 DEF S

(* What the chain of levels has come to after each of the records.            *)
LevelReplay(f, from, reason, rs) ==
  /\ DOMAIN f = 0..Len(rs)
  /\ f[0] = [level |-> from, count |-> -1]
  /\ \A k \in 1..Len(rs) : f[k] = LevelStep(reason, rs[k], f[k - 1])

LEMMA LevelChainReplay ==
  ASSUME NEW R, NEW rs \in Seq(R), NEW from, NEW reason
  PROVE  \E f : LevelReplay(f, from, reason, rs) /\ LevelChain(from, reason, rs) = f[Len(rs)]
<1> DEFINE start == [level |-> from, count |-> -1]
<1> DEFINE N == Len(rs)
<1> DEFINE h == CHOOSE x : LevelFold(reason, rs, start, 1..N, x)
<1>1. N \in Nat /\ DOMAIN rs = 1..N
  OBVIOUS
<1>2. LevelFold(reason, rs, start, 1..N, h)
  BY <1>1, LevelFoldExists
<1>3. LevelChain(from, reason, rs) = h[1..N]
  BY <1>1, LevelFoldIs
<1> HIDE DEF h, start
<1> DEFINE f == [k \in 0..N |-> h[1..k]]
<1>4. f[0] = start
  <2>1. 1..0 = {}
    OBVIOUS
  <2>2. h[{}] = start
    BY <1>2 DEF LevelFold
  <2>3. QED BY <1>1, <2>1, <2>2
<1>5. ASSUME NEW k \in 1..N
      PROVE  f[k] = LevelStep(reason, rs[k], f[k - 1])
  <2> HIDE DEF N
  <2>1. 1..k \in SUBSET (1..N) /\ 1..k # {} /\ k \in 1..k /\ k \in Nat
    BY <1>1
  <2>2. Max(1..k) = k
    BY <2>1, MaxOfInterval
  <2>3. (1..k) \ {k} = 1..(k - 1)
    BY <1>1
  <2>4. h[1..k] = LevelStep(reason, rs[k], h[1..(k - 1)])
    BY <1>2, <2>1, <2>2, <2>3 DEF LevelFold
  <2>5. k \in 0..N /\ k - 1 \in 0..N
    BY <1>1
  <2>6. QED BY <2>4, <2>5
<1>6. f[N] = h[1..N] /\ DOMAIN f = 0..N
  BY <1>1
<1> HIDE DEF f
<1>7. QED BY <1>3, <1>4, <1>5, <1>6 DEF LevelReplay, start

LEMMA ConcatAssoc ==
  ASSUME NEW S, NEW x \in Seq(S), NEW y \in Seq(S), NEW z \in Seq(S)
  PROVE  x \o (y \o z) = (x \o y) \o z
BY SMTT(30), ConcatAssociative

(* The prefixes of a concatenation of sequences.                              *)
FlattenReplay(f, T, seqs) ==
  /\ f \in [0..Len(seqs) -> Seq(T)]
  /\ f[0] = <<>>
  /\ \A k \in 1..Len(seqs) : f[k] = f[k - 1] \o seqs[k]

LEMMA FlattenExists ==
  ASSUME NEW T, NEW seqs \in Seq(Seq(T))
  PROVE  \E f : FlattenReplay(f, T, seqs)
<1> DEFINE N == Len(seqs)
<1> DEFINE Upto(f, n) == /\ f \in [0..n -> Seq(T)]
                         /\ f[0] = <<>>
                         /\ \A k \in 1..n : f[k] = f[k - 1] \o seqs[k]
<1> DEFINE S == {n \in 0..N : \E f : Upto(f, n)}
<1>0. N \in Nat
  OBVIOUS
<1>1. \A k \in 1..N : seqs[k] \in Seq(T)
  OBVIOUS
<1> HIDE DEF N
<1>2. 0 \in S
  <2>1. [k \in 0..0 |-> <<>>] \in [0..0 -> Seq(T)]
    OBVIOUS
  <2>2. Upto([k \in 0..0 |-> <<>>], 0)
    BY <2>1
  <2> HIDE DEF Upto
  <2>3. QED BY <1>0, <2>2
<1>3. ASSUME NEW n \in 1..N, n - 1 \in S
      PROVE  n \in S
  <2>1. PICK f : Upto(f, n - 1)
    BY <1>3
  <2> DEFINE g == [k \in 0..n |-> IF k = n THEN f[n - 1] \o seqs[n] ELSE f[k]]
  <2>2. f[n - 1] \in Seq(T) /\ seqs[n] \in Seq(T)
    BY <1>1, <2>1
  <2>3. g \in [0..n -> Seq(T)]
    <3>1. \A k \in 0..n : k # n => k \in 0..(n - 1)
      OBVIOUS
    <3>2. \A k \in 0..n : k # n => f[k] \in Seq(T)
      BY <2>1, <3>1
    <3>3. f[n - 1] \o seqs[n] \in Seq(T)
      BY <2>2
    <3>4. QED BY <3>2, <3>3
  <2>4. g[0] = <<>>
    BY <2>1
  <2>5. ASSUME NEW k \in 1..n
        PROVE  g[k] = g[k - 1] \o seqs[k]
    <3>1. n \in Nat /\ k \in 0..n /\ k - 1 \in 0..n /\ k - 1 # n
      BY <1>0
    <3>2. CASE k = n
      BY <3>1, <3>2
    <3>3. CASE k # n
      <4>1. k \in 1..(n - 1)
        BY <3>1, <3>3
      <4>3. f[k] = f[k - 1] \o seqs[k]
        BY <2>1, <4>1
      <4>2. QED BY <3>1, <3>3, <4>1, <4>3
    <3>4. QED BY <3>2, <3>3
  <2> HIDE DEF g
  <2>6. Upto(g, n)
    BY <2>3, <2>4, <2>5
  <2> HIDE DEF Upto
  <2>7. QED BY <2>6
<1> HIDE DEF S
<1>4. N \in S
  <2>1. \A n \in 0..N : n \in S
    BY <1>0, <1>2, <1>3, IndexInduction
  <2>2. QED BY <1>0, <2>1
<1>5. QED BY <1>4 DEF S, N, FlattenReplay

LEMMA FlattenIs ==
  ASSUME NEW T, NEW seqs \in Seq(Seq(T)), NEW f, FlattenReplay(f, T, seqs)
  PROVE  FlattenSeq(seqs) = f[Len(seqs)]
<1> DEFINE N == Len(seqs)
<1>0. N \in Nat
  OBVIOUS
<1>1. DOMAIN seqs = 1..N /\ \A k \in 1..N : seqs[k] \in Seq(T)
  OBVIOUS
<1>2. CASE N = 0
  <2>1. seqs = <<>> /\ f[0] = <<>>
    BY <1>2 DEF FlattenReplay
  <2>2. FlattenSeq(seqs) = seqs
    BY <1>2 DEF FlattenSeq
  <2>3. QED BY <1>2, <2>1, <2>2
<1>3. CASE N # 0
  <2> DEFINE Rec(x) == x = [i \in 1..N |-> IF i = 1 THEN seqs[i] ELSE x[i - 1] \o seqs[i]]
  <2> DEFINE h == CHOOSE x : Rec(x)
  <2>1. FlattenSeq(seqs) = h[N]
    BY <1>3 DEF FlattenSeq
  <2>0. f[0] = <<>> /\ \A i \in 1..N : f[i] = f[i - 1] \o seqs[i]
    BY DEF FlattenReplay
  <2> HIDE DEF N
  <2> DEFINE g == [i \in 1..N |-> f[i]]
  <2>2. ASSUME NEW i \in 1..N
        PROVE  g[i] = IF i = 1 THEN seqs[i] ELSE g[i - 1] \o seqs[i]
    <3>1. f[i] = f[i - 1] \o seqs[i] /\ f[0] = <<>> /\ seqs[i] \in Seq(T)
      BY <1>1, <2>0
    <3>2. CASE i = 1
      <4>1. <<>> \o seqs[i] = seqs[i]
        BY <3>1, ConcatEmptySeq
      <4>2. i - 1 = 0
        BY <3>2
      <4>3. f[i] = <<>> \o seqs[i]
        BY <3>1, <4>2
      <4>4. QED BY <3>2, <4>1, <4>3
    <3>3. CASE i # 1
      <4>1. i - 1 \in 1..N
        BY <3>3, <1>0
      <4>2. QED BY <3>1, <3>3, <4>1
    <3>4. QED BY <3>2, <3>3
  <2>3. g = [i \in 1..N |-> g[i]]
    OBVIOUS
  <2> HIDE DEF g
  <2>4. Rec(g)
    BY <2>2, <2>3
  <2>5. Rec(h)
    BY <2>4
  <2> HIDE DEF h
  <2> DEFINE S == {n \in 0..N : n = 0 \/ h[n] = f[n]}
  <2>6. ASSUME NEW n \in 1..N, n - 1 \in S
        PROVE  n \in S
    <3>1. h[n] = IF n = 1 THEN seqs[n] ELSE h[n - 1] \o seqs[n]
      BY <2>5
    <3>2. g[n] = IF n = 1 THEN seqs[n] ELSE g[n - 1] \o seqs[n]
      BY <2>2
    <3>3. g[n] = f[n] /\ (n # 1 => g[n - 1] = f[n - 1])
      BY <1>0 DEF g
    <3>4. n # 1 => h[n - 1] = f[n - 1]
      BY <2>6
    <3>5. QED BY <3>1, <3>2, <3>3, <3>4
  <2>7. 0 \in S
    BY <1>0
  <2> HIDE DEF S, Rec
  <2>8. \A n \in 0..N : n \in S
    BY <1>0, <2>6, <2>7, IndexInduction
  <2>9. N \in S
    BY <1>0, <2>8
  <2>10. h[N] = f[N]
    BY <1>3, <2>9 DEF S
  <2>11. QED BY <2>1, <2>10 DEF N
<1>4. QED BY <1>2, <1>3

(* The concatenation of two lists of sequences, and of one sequence more.     *)
LEMMA FlattenConcat ==
  ASSUME NEW T, NEW a \in Seq(Seq(T)), NEW b \in Seq(Seq(T))
  PROVE  /\ FlattenSeq(a) \in Seq(T) /\ FlattenSeq(b) \in Seq(T)
         /\ FlattenSeq(a \o b) = FlattenSeq(a) \o FlattenSeq(b)
<1>1. PICK f : FlattenReplay(f, T, a)
  BY FlattenExists
<1>2. PICK g : FlattenReplay(g, T, b)
  BY FlattenExists
<1>3. FlattenSeq(a) = f[Len(a)] /\ FlattenSeq(b) = g[Len(b)]
  BY <1>1, <1>2, FlattenIs
<1>4. f[Len(a)] \in Seq(T) /\ \A k \in 0..Len(b) : g[k] \in Seq(T)
  <2>1. Len(a) \in 0..Len(a)
    OBVIOUS
  <2>2. QED BY <1>1, <1>2, <2>1 DEF FlattenReplay
<1>5. /\ a \o b \in Seq(Seq(T)) /\ Len(a \o b) = Len(a) + Len(b)
      /\ \A k \in 1..Len(a) : (a \o b)[k] = a[k]
      /\ \A k \in 1..Len(b) : (a \o b)[Len(a) + k] = b[k]
  <2>1. \A S : \A x, y \in Seq(S) :
          /\ x \o y \in Seq(S) /\ Len(x \o y) = Len(x) + Len(y)
          /\ \A k \in 1..Len(x) : (x \o y)[k] = x[k]
          /\ \A k \in 1..Len(y) : (x \o y)[Len(x) + k] = y[k]
    OBVIOUS
  <2>2. QED BY <2>1
<1>6. Len(a) \in Nat /\ Len(b) \in Nat
  OBVIOUS
<1> DEFINE M == Len(a)
<1> DEFINE N == Len(b)
<1> DEFINE h == [k \in 0..(M + N) |-> IF k <= M THEN f[k] ELSE f[M] \o g[k - M]]
<1>7. h[0] = <<>>
  BY <1>1, <1>6 DEF FlattenReplay
<1>8. h \in [0..(M + N) -> Seq(T)]
  <2>1. ASSUME NEW k \in 0..(M + N), ~(k <= M)
        PROVE  f[M] \o g[k - M] \in Seq(T)
    <3>1. k - M \in 0..N
      BY <1>6, <2>1
    <3>2. g[k - M] \in Seq(T)
      BY <3>1, <1>4
    <3>3. QED BY <3>2, <1>4
  <2>2. \A k \in 0..(M + N) : k <= M => f[k] \in Seq(T)
    BY <1>1, <1>6 DEF FlattenReplay
  <2>3. QED BY <2>1, <2>2
<1>9. h[M + N] = f[M] \o g[N]
  <2>1. CASE N = 0
    <3>1. g[0] = <<>> /\ f[M] \o <<>> = f[M]
      BY <1>2, <1>4 DEF FlattenReplay
    <3>2. QED BY <1>6, <2>1, <3>1
  <2>2. CASE N # 0
    <3>1. ~(M + N <= M) /\ M + N \in 0..(M + N) /\ (M + N) - M = N
      BY <1>6, <2>2
    <3>2. QED BY <3>1
  <2>3. QED BY <2>1, <2>2
<1>10. ASSUME NEW k \in 1..(M + N)
       PROVE  h[k] = h[k - 1] \o (a \o b)[k]
  <2>1. CASE k <= M
    <3>1. k \in 1..M /\ k - 1 <= M /\ k \in 0..(M + N) /\ k - 1 \in 0..(M + N)
      BY <1>6, <2>1
    <3>2. f[k] = f[k - 1] \o a[k] /\ (a \o b)[k] = a[k]
      BY <1>1, <1>5, <3>1 DEF FlattenReplay
    <3>3. QED BY <2>1, <3>1, <3>2
  <2>2. CASE ~(k <= M)
    <3> DEFINE j == k - M
    <3>1. j \in 1..N /\ k = M + j /\ k \in 0..(M + N) /\ k - 1 \in 0..(M + N) /\ j - 1 \in 0..N
      BY <1>6, <2>2
    <3>2. g[j] = g[j - 1] \o b[j] /\ (a \o b)[k] = b[j]
      BY <1>2, <1>5, <3>1 DEF FlattenReplay
    <3>3. h[k - 1] = f[M] \o g[j - 1]
      <4>1. CASE j = 1
        <5>1. g[0] = <<>> /\ f[M] \o <<>> = f[M]
          BY <1>2, <1>4 DEF FlattenReplay
        <5>2. k - 1 = M /\ M <= M /\ j - 1 = 0
          BY <1>6, <4>1
        <5>3. h[k - 1] = f[M]
          BY <3>1, <5>2
        <5>4. QED BY <5>1, <5>2, <5>3
      <4>2. CASE j # 1
        <5>1. ~(k - 1 <= M) /\ (k - 1) - M = j - 1
          BY <1>6, <3>1, <4>2
        <5>2. QED BY <3>1, <5>1
      <4>3. QED BY <4>1, <4>2
    <3>4. h[k] = f[M] \o g[j]
      BY <2>2, <3>1
    <3>5. g[j - 1] \in Seq(T) /\ b[j] \in Seq(T)
      BY <1>4, <3>1
    <3>6. f[M] \o (g[j - 1] \o b[j]) = (f[M] \o g[j - 1]) \o b[j]
      <4> DEFINE x == f[M]
      <4> DEFINE y == g[j - 1]
      <4> DEFINE z == b[j]
      <4>1. x \in Seq(T) /\ y \in Seq(T) /\ z \in Seq(T)
        BY <1>4, <3>5
      <4> HIDE DEF x, y, z
      <4>2. x \o (y \o z) = (x \o y) \o z
        BY SMTT(30), <4>1, ConcatAssoc
      <4>3. QED BY <4>2 DEF x, y, z
    <3> HIDE DEF h, j
    <3>7. QED BY <3>2, <3>3, <3>4, <3>6
  <2>3. QED BY <2>1, <2>2
<1> HIDE DEF h
<1>11. FlattenReplay(h, T, a \o b)
  BY <1>5, <1>7, <1>8, <1>10 DEF FlattenReplay
<1>12. FlattenSeq(a \o b) = h[M + N]
  BY <1>5, <1>11, FlattenIs
<1>13. QED BY <1>3, <1>4, <1>9, <1>12

-----------------------------------------------------------------------------
(* The regressions of a path in the log                                      *)

(* What an entry of the log says of a path; an update reports one regression   *)
(* of a path at most.                                                          *)
Seen(e, t, p) == {r.change : r \in {x \in e.regressions : x.test = t /\ x.path = p}}
Matches(e, t, p) == IF e.kind # "accepted-debt" THEN <<>> ELSE SetToSeq(Seen(e, t, p))
Neat(T, e) ==
  e.kind = "accepted-debt" =>
    \A t, p : Seen(e, t, p) = {} \/ \E x \in T : Seen(e, t, p) = {x}
AllNeat(T, l) == l \in Seq(Range(l)) /\ \A e \in Range(l) : Neat(T, e)

LEMMA ListedSmall ==
  /\ SetToSeq({}) = <<>>
  /\ \A x : SetToSeq({x}) = <<x>>
<1>1. Cardinality({}) = 0
  BY FS_EmptySet
<1>2. SetToSeq({}) \in [1..0 -> {}]
  <2>1. <<>> \in [1..0 -> {}] /\ IsInjective(<<>>)
    BY DEF IsInjective
  <2>2. QED BY <1>1, <2>1 DEF SetToSeq
<1>3. ASSUME NEW x PROVE SetToSeq({x}) = <<x>>
  <2>1. Cardinality({x}) = 1
    BY FS_Singleton
  <2>2. <<x>> \in [1..1 -> {x}] /\ IsInjective(<<x>>)
    BY DEF IsInjective
  <2>3. SetToSeq({x}) \in [1..1 -> {x}]
    BY <2>1, <2>2 DEF SetToSeq
  <2>4. QED BY <2>3
<1>4. SetToSeq({}) = <<>>
  BY <1>2
<1>5. QED BY <1>3, <1>4

LEMMA MatchesOf ==
  ASSUME NEW T, NEW e, Neat(T, e), NEW t, NEW p
  PROVE  /\ Matches(e, t, p) \in Seq(T)
         /\ e.kind # "accepted-debt" => Matches(e, t, p) = <<>>
         /\ e.kind = "accepted-debt" /\ Seen(e, t, p) = {} => Matches(e, t, p) = <<>>
         /\ \A x : e.kind = "accepted-debt" /\ Seen(e, t, p) = {x} => Matches(e, t, p) = <<x>>
<1>1. \A x : e.kind = "accepted-debt" /\ Seen(e, t, p) = {x} => Matches(e, t, p) = <<x>>
  BY ListedSmall DEF Matches
<1>2. e.kind # "accepted-debt" => Matches(e, t, p) = <<>>
  BY DEF Matches
<1>3. e.kind = "accepted-debt" /\ Seen(e, t, p) = {} => Matches(e, t, p) = <<>>
  BY ListedSmall DEF Matches
<1>4. \A x \in T : <<x>> \in Seq(T)
  OBVIOUS
<1>5. <<>> \in Seq(T)
  OBVIOUS
<1>6. e.kind = "accepted-debt" => Seen(e, t, p) = {} \/ \E x \in T : Seen(e, t, p) = {x}
  BY DEF Neat
<1>7. QED BY <1>1, <1>2, <1>3, <1>4, <1>5, <1>6

LEMMA MatchingIs ==
  ASSUME NEW T, NEW l, AllNeat(T, l), NEW t, NEW p
  PROVE  /\ Matching(l, t, p) = FlattenSeq([i \in 1..Len(l) |-> Matches(l[i], t, p)])
         /\ [i \in 1..Len(l) |-> Matches(l[i], t, p)] \in Seq(Seq(T))
<1>1. DOMAIN l = 1..Len(l) /\ Len(l) \in Nat /\ \A i \in 1..Len(l) : l[i] \in Range(l)
  BY DEF AllNeat, Range
<1>2. \A i \in 1..Len(l) : Matches(l[i], t, p) \in Seq(T)
  BY <1>1, MatchesOf DEF AllNeat
<1>3. Matching(l, t, p) = FlattenSeq([i \in 1..Len(l) |-> Matches(l[i], t, p)])
  BY <1>1 DEF Matching, Matches, Seen
<1>4. QED BY <1>1, <1>2, <1>3

LEMMA NeatConcat ==
  ASSUME NEW T, NEW a, AllNeat(T, a), NEW b, AllNeat(T, b)
  PROVE  AllNeat(T, a \o b)
<1> DEFINE S == Range(a) \cup Range(b)
<1>1. a \in Seq(S) /\ b \in Seq(S)
  BY SeqMonotonic DEF AllNeat
<1>2. a \o b \in Seq(S)
  BY <1>1, RangeOfConcat
<1>3. \A i \in DOMAIN (a \o b) : (a \o b)[i] \in S
  BY <1>2
<1>4. Range(a \o b) \subseteq S
  BY <1>3 DEF Range
<1>5. a \o b \in Seq(Range(a \o b))
  <2> DEFINE x == a \o b
  <2>1. x \in Seq(S)
    BY <1>2
  <2> HIDE DEF x, S
  <2>2. x \in Seq(Range(x))
    BY <2>1, SeqOfRange
  <2>3. QED BY <2>2 DEF x
<1>6. QED BY <1>4, <1>5 DEF AllNeat

LEMMA MatchingConcat ==
  ASSUME NEW T, NEW a, AllNeat(T, a), NEW b, AllNeat(T, b), NEW t, NEW p
  PROVE  /\ Matching(a, t, p) \in Seq(T) /\ Matching(b, t, p) \in Seq(T)
         /\ Matching(a \o b, t, p) = Matching(a, t, p) \o Matching(b, t, p)
<1> DEFINE x == [i \in 1..Len(a) |-> Matches(a[i], t, p)]
<1> DEFINE y == [i \in 1..Len(b) |-> Matches(b[i], t, p)]
<1> DEFINE z == [i \in 1..Len(a \o b) |-> Matches((a \o b)[i], t, p)]
<1>1. /\ x \in Seq(Seq(T)) /\ y \in Seq(Seq(T)) /\ z \in Seq(Seq(T))
      /\ Matching(a, t, p) = FlattenSeq(x) /\ Matching(b, t, p) = FlattenSeq(y)
      /\ Matching(a \o b, t, p) = FlattenSeq(z)
  <2>1. AllNeat(T, a \o b)
    BY NeatConcat
  <2> HIDE DEF x, y, z
  <2>2. x \in Seq(Seq(T)) /\ Matching(a, t, p) = FlattenSeq(x)
    BY MatchingIs DEF x
  <2>3. y \in Seq(Seq(T)) /\ Matching(b, t, p) = FlattenSeq(y)
    BY MatchingIs DEF y
  <2>4. z \in Seq(Seq(T)) /\ Matching(a \o b, t, p) = FlattenSeq(z)
    BY <2>1, MatchingIs DEF z
  <2>5. QED BY <2>2, <2>3, <2>4
<1>2. /\ Len(a) \in Nat /\ Len(b) \in Nat /\ Len(a \o b) = Len(a) + Len(b)
      /\ \A i \in 1..Len(a) : (a \o b)[i] = a[i]
      /\ \A i \in 1..Len(b) : (a \o b)[Len(a) + i] = b[i]
  <2>1. a \in Seq(Range(a) \cup Range(b)) /\ b \in Seq(Range(a) \cup Range(b))
    BY SeqMonotonic DEF AllNeat
  <2>2. QED BY <2>1
<1>3. /\ Len(x) = Len(a) /\ Len(y) = Len(b) /\ Len(z) = Len(a) + Len(b)
      /\ \A i \in 1..Len(a) : x[i] = Matches(a[i], t, p)
      /\ \A i \in 1..Len(b) : y[i] = Matches(b[i], t, p)
      /\ \A i \in 1..(Len(a) + Len(b)) : z[i] = Matches((a \o b)[i], t, p)
  BY <1>2
<1> HIDE DEF x, y, z
<1>4. /\ x \o y \in Seq(Seq(T)) /\ Len(x \o y) = Len(a) + Len(b)
      /\ \A i \in 1..Len(a) : (x \o y)[i] = x[i]
      /\ \A i \in 1..Len(b) : (x \o y)[Len(a) + i] = y[i]
  <2> DEFINE U == Seq(T)
  <2>1. x \in Seq(U) /\ y \in Seq(U)
    BY <1>1
  <2> HIDE DEF U
  <2>2. /\ x \o y \in Seq(U) /\ Len(x \o y) = Len(x) + Len(y)
        /\ \A i \in 1..Len(x) : (x \o y)[i] = x[i]
        /\ \A i \in 1..Len(y) : (x \o y)[Len(x) + i] = y[i]
    BY <2>1
  <2>3. QED BY <1>3, <2>2 DEF U
<1>5. ASSUME NEW i \in 1..(Len(a) + Len(b))
      PROVE  z[i] = (x \o y)[i]
  <2>1. CASE i <= Len(a)
    BY <1>2, <1>3, <1>4, <2>1
  <2>2. CASE ~(i <= Len(a))
    <3>1. i - Len(a) \in 1..Len(b) /\ Len(a) + (i - Len(a)) = i
      BY <1>2, <2>2
    <3> DEFINE j == i - Len(a)
    <3>2. j \in 1..Len(b) /\ Len(a) + j = i
      BY <3>1
    <3> HIDE DEF j
    <3>3. (a \o b)[i] = b[j] /\ (x \o y)[i] = y[j]
      BY <1>2, <1>4, <3>2
    <3>4. QED BY <1>3, <3>2, <3>3
  <2>3. QED BY <2>1, <2>2
<1>6. z = x \o y
  <2> DEFINE U == Seq(T)
  <2>1. z \in Seq(U) /\ x \o y \in Seq(U) /\ Len(z) = Len(x \o y) /\ \A i \in 1..Len(z) : z[i] = (x \o y)[i]
    BY <1>1, <1>3, <1>4, <1>5
  <2> HIDE DEF U
  <2>2. QED BY <2>1, SeqEqual
<1>7. QED BY <1>1, <1>6, FlattenConcat

(* A record that names no regression of the path, and one that names one.     *)
LEMMA MatchingOne ==
  ASSUME NEW T, NEW e, Neat(T, e), NEW t, NEW p
  PROVE  AllNeat(T, <<e>>) /\ Matching(<<e>>, t, p) = Matches(e, t, p)
<1>1. <<e>> \in Seq(Range(<<e>>)) /\ Range(<<e>>) = {e}
  BY DEF Range
<1>2. AllNeat(T, <<e>>)
  BY <1>1 DEF AllNeat
<1>3. Matching(<<e>>, t, p) = FlattenSeq([i \in 1..Len(<<e>>) |-> Matches(<<e>>[i], t, p)])
  BY <1>2, MatchingIs
<1> DEFINE m == Matches(e, t, p)
<1>4. [i \in 1..Len(<<e>>) |-> Matches(<<e>>[i], t, p)] = <<m>>
  OBVIOUS
<1>5. m \in Seq(T)
  BY MatchesOf
<1> HIDE DEF m
<1>6. <<m>> \in Seq(Seq(T))
  BY <1>5
<1>7. PICK f : FlattenReplay(f, T, <<m>>)
  BY <1>6, FlattenExists
<1>12. Len(<<m>>) = 1 /\ <<m>>[1] = m
  OBVIOUS
<1>8. f[1] = f[0] \o m /\ f[0] = <<>>
  <2>1. 1 \in 1..Len(<<m>>) /\ 1 - 1 = 0
    BY <1>12
  <2>2. f[1] = f[1 - 1] \o <<m>>[1] /\ f[0] = <<>>
    BY <1>7, <2>1 DEF FlattenReplay
  <2>3. QED BY <1>12, <2>1, <2>2
<1>9. <<>> \o m = m
  BY <1>5, ConcatEmptySeq
<1>10. FlattenSeq(<<m>>) = m
  <2>1. FlattenSeq(<<m>>) = f[Len(<<m>>)]
    BY <1>6, <1>7, FlattenIs
  <2>2. QED BY <1>8, <1>9, <1>12, <2>1
<1>11. QED BY <1>2, <1>3, <1>4, <1>10 DEF m

LEMMA MatchingNone ==
  ASSUME NEW T, NEW l, AllNeat(T, l), NEW t, NEW p, \A e \in Range(l) : Matches(e, t, p) = <<>>
  PROVE  Matching(l, t, p) = <<>>
<1> DEFINE x == [i \in 1..Len(l) |-> Matches(l[i], t, p)]
<1> DEFINE N == Len(l)
<1>1. x \in Seq(Seq(T)) /\ Matching(l, t, p) = FlattenSeq(x)
  BY ZenonT(60), MatchingIs
<1>2. N \in Nat /\ \A i \in 1..N : l[i] \in Range(l)
  BY DEF AllNeat, Range
<1>3. Len(x) = N /\ \A i \in 1..N : x[i] = <<>>
  BY <1>2
<1> HIDE DEF x, N
<1>4. PICK f : FlattenReplay(f, T, x)
  BY <1>1, FlattenExists
<1> DEFINE S == {n \in 0..N : f[n] = <<>>}
<1>5. 0 \in S
  BY <1>2, <1>4 DEF FlattenReplay
<1>6. ASSUME NEW n \in 1..N, n - 1 \in S
      PROVE  n \in S
  <2>1. f[n] = f[n - 1] \o x[n]
    BY <1>3, <1>4 DEF FlattenReplay
  <2>2. f[n] = <<>> \o <<>>
    BY <2>1, <1>3, <1>6
  <2>3. QED BY <2>2, <1>2
<1> HIDE DEF S
<1>7. \A n \in 0..N : n \in S
  BY <1>2, <1>5, <1>6, IndexInduction
<1>8. f[N] = <<>>
  BY <1>2, <1>7 DEF S
<1>9. QED BY <1>1, <1>3, <1>4, <1>8, FlattenIs

(* The chains over no record, and over one record more.                       *)
LEMMA CountSnoc ==
  ASSUME NEW R, NEW rs \in Seq(R), NEW x \in R, NEW from, NEW isNew
  PROVE  CountChain(from, isNew, rs \o <<x>>) = CountStep(x, CountChain(from, isNew, rs))
<1> DEFINE N == Len(rs)
<1> DEFINE more == rs \o <<x>>
<1>1. /\ N \in Nat /\ more \in Seq(R) /\ Len(more) = N + 1
      /\ more[N + 1] = x /\ \A k \in 1..N : more[k] = rs[k]
  OBVIOUS
<1> HIDE DEF more
<1>2. PICK f : CountReplay(f, from, isNew, rs) /\ CountChain(from, isNew, rs) = f[N]
  BY CountChainReplay
<1>3. PICK g : CountReplay(g, from, isNew, more) /\ CountChain(from, isNew, more) = g[N + 1]
  BY <1>1, CountChainReplay
<1>4. f[0] = g[0] /\ \A k \in 1..N : f[k] = CountStep(rs[k], f[k - 1])
  BY <1>2, <1>3 DEF CountReplay
<1>5. \A k \in 1..(N + 1) : g[k] = CountStep(more[k], g[k - 1])
  BY <1>1, <1>3 DEF CountReplay
<1> DEFINE S == {k \in 0..N : f[k] = g[k]}
<1> HIDE DEF N
<1>6. 0 \in S
  BY <1>1, <1>4
<1>7. ASSUME NEW k \in 1..N, k - 1 \in S
      PROVE  k \in S
  <2>1. k \in 1..(N + 1) /\ k \in 0..N
    BY <1>1
  <2>2. g[k] = CountStep(more[k], g[k - 1]) /\ more[k] = rs[k]
    BY <1>1, <1>5, <2>1
  <2>3. f[k - 1] = g[k - 1]
    BY <1>7
  <2>4. f[k] = CountStep(rs[k], f[k - 1])
    BY <1>4
  <2>5. f[k] = g[k]
    BY <2>2, <2>3, <2>4
  <2>6. QED BY <2>1, <2>5
<1> HIDE DEF S
<1>8. \A k \in 0..N : k \in S
  BY <1>1, <1>6, <1>7, IndexInduction
<1>9. f[N] = g[N]
  BY <1>1, <1>8 DEF S
<1>10. g[N + 1] = CountStep(x, g[N])
  <2>1. N + 1 \in 1..(N + 1) /\ (N + 1) - 1 = N
    BY <1>1
  <2>2. g[N + 1] = CountStep(more[N + 1], g[(N + 1) - 1])
    BY <1>5, <2>1
  <2>3. QED BY <1>1, <2>1, <2>2
<1>11. QED BY <1>2, <1>3, <1>9, <1>10 DEF more

LEMMA CountNone ==
  ASSUME NEW from, NEW isNew
  PROVE  CountChain(from, isNew, <<>>) = [count |-> from, new |-> isNew]
<1>1. <<>> \in Seq({}) /\ Len(<<>>) = 0
  OBVIOUS
<1>2. PICK f : CountReplay(f, from, isNew, <<>>) /\ CountChain(from, isNew, <<>>) = f[Len(<<>>)]
  BY <1>1, CountChainReplay
<1>3. f[0] = [count |-> from, new |-> isNew]
  BY <1>2 DEF CountReplay
<1>4. QED BY <1>1, <1>2, <1>3

LEMMA CountOne ==
  ASSUME NEW x, NEW from, NEW isNew
  PROVE  CountChain(from, isNew, <<x>>) = CountStep(x, [count |-> from, new |-> isNew])
<1>1. <<>> \in Seq({x}) /\ x \in {x}
  OBVIOUS
<1>2. CountChain(from, isNew, <<>> \o <<x>>) = CountStep(x, CountChain(from, isNew, <<>>))
  BY <1>1, CountSnoc
<1>3. <<>> \o <<x>> = <<x>>
  OBVIOUS
<1>4. QED BY <1>2, <1>3, CountNone

LEMMA LevelSnoc ==
  ASSUME NEW R, NEW rs \in Seq(R), NEW x \in R, NEW from, NEW reason
  PROVE  LevelChain(from, reason, rs \o <<x>>) = LevelStep(reason, x, LevelChain(from, reason, rs))
<1> DEFINE N == Len(rs)
<1> DEFINE more == rs \o <<x>>
<1>1. /\ N \in Nat /\ more \in Seq(R) /\ Len(more) = N + 1
      /\ more[N + 1] = x /\ \A k \in 1..N : more[k] = rs[k]
  OBVIOUS
<1> HIDE DEF more
<1>2. PICK f : LevelReplay(f, from, reason, rs) /\ LevelChain(from, reason, rs) = f[N]
  BY LevelChainReplay
<1>3. PICK g : LevelReplay(g, from, reason, more) /\ LevelChain(from, reason, more) = g[N + 1]
  BY <1>1, LevelChainReplay
<1>4. f[0] = g[0] /\ \A k \in 1..N : f[k] = LevelStep(reason, rs[k], f[k - 1])
  BY <1>2, <1>3 DEF LevelReplay
<1>5. \A k \in 1..(N + 1) : g[k] = LevelStep(reason, more[k], g[k - 1])
  BY <1>1, <1>3 DEF LevelReplay
<1> DEFINE S == {k \in 0..N : f[k] = g[k]}
<1> HIDE DEF N
<1>6. 0 \in S
  BY <1>1, <1>4
<1>7. ASSUME NEW k \in 1..N, k - 1 \in S
      PROVE  k \in S
  <2>1. k \in 1..(N + 1) /\ k \in 0..N
    BY <1>1
  <2>2. g[k] = LevelStep(reason, more[k], g[k - 1]) /\ more[k] = rs[k]
    BY <1>1, <1>5, <2>1
  <2>3. f[k - 1] = g[k - 1]
    BY <1>7
  <2>4. f[k] = LevelStep(reason, rs[k], f[k - 1])
    BY <1>4
  <2>5. f[k] = g[k]
    BY <2>2, <2>3, <2>4
  <2>6. QED BY <2>1, <2>5
<1> HIDE DEF S
<1>8. \A k \in 0..N : k \in S
  BY <1>1, <1>6, <1>7, IndexInduction
<1>9. f[N] = g[N]
  BY <1>1, <1>8 DEF S
<1>10. g[N + 1] = LevelStep(reason, x, g[N])
  <2>1. N + 1 \in 1..(N + 1) /\ (N + 1) - 1 = N
    BY <1>1
  <2>2. g[N + 1] = LevelStep(reason, more[N + 1], g[(N + 1) - 1])
    BY <1>5, <2>1
  <2>3. QED BY <1>1, <2>1, <2>2
<1>11. QED BY <1>2, <1>3, <1>9, <1>10 DEF more

LEMMA LevelNone ==
  ASSUME NEW from, NEW reason
  PROVE  LevelChain(from, reason, <<>>) = [level |-> from, count |-> -1]
<1>1. <<>> \in Seq({}) /\ Len(<<>>) = 0
  OBVIOUS
<1>2. PICK f : LevelReplay(f, from, reason, <<>>) /\ LevelChain(from, reason, <<>>) = f[Len(<<>>)]
  BY <1>1, LevelChainReplay
<1>3. f[0] = [level |-> from, count |-> -1]
  BY <1>2 DEF LevelReplay
<1>4. QED BY <1>1, <1>2, <1>3

LEMMA LevelOne ==
  ASSUME NEW x, NEW from, NEW reason
  PROVE  LevelChain(from, reason, <<x>>) = LevelStep(reason, x, [level |-> from, count |-> -1])
<1>1. <<>> \in Seq({x}) /\ x \in {x}
  OBVIOUS
<1>2. LevelChain(from, reason, <<>> \o <<x>>) = LevelStep(reason, x, LevelChain(from, reason, <<>>))
  BY <1>1, LevelSnoc
<1>3. <<>> \o <<x>> = <<x>>
  OBVIOUS
<1>4. QED BY <1>2, <1>3, LevelNone

(* A chain that has left its start ends with what one of its records says.    *)
LEMMA CountEnds ==
  ASSUME NEW R, NEW rs \in Seq(R), NEW from, NEW isNew
  PROVE  LET c == CountChain(from, isNew, rs)
         IN  \/ c = [count |-> from, new |-> isNew]
             \/ \E r \in Range(rs) : /\ r.reason \in CountComparable
                                     /\ c = [count |-> r.isCount, new |-> FALSE]
<1> DEFINE N == Len(rs)
<1> DEFINE start == [count |-> from, new |-> isNew]
<1> DEFINE End(c) == \/ c = start
                     \/ \E r \in Range(rs) : /\ r.reason \in CountComparable
                                             /\ c = [count |-> r.isCount, new |-> FALSE]
<1>1. N \in Nat /\ \A k \in 1..N : rs[k] \in Range(rs)
  BY DEF Range
<1>2. PICK f : CountReplay(f, from, isNew, rs) /\ CountChain(from, isNew, rs) = f[N]
  BY CountChainReplay
<1>3. f[0] = start /\ \A k \in 1..N : f[k] = CountStep(rs[k], f[k - 1])
  BY <1>2 DEF CountReplay
<1> HIDE DEF N, start
<1> DEFINE S == {k \in 0..N : End(f[k])}
<1>4. 0 \in S
  BY <1>1, <1>3
<1>5. ASSUME NEW k \in 1..N, k - 1 \in S
      PROVE  k \in S
  <2>1. End(f[k - 1])
    BY <1>5
  <2>2. f[k] = f[k - 1] \/ (rs[k].reason \in CountComparable /\ f[k] = [count |-> rs[k].isCount, new |-> FALSE])
    BY <1>3 DEF CountStep, CountComparable
  <2>3. End(f[k])
    BY <1>1, <2>1, <2>2
  <2> HIDE DEF End
  <2>4. QED BY <1>1, <2>3
<1> HIDE DEF S
<1>6. \A k \in 0..N : k \in S
  BY <1>1, <1>4, <1>5, IndexInduction
<1>7. End(f[N])
  BY <1>1, <1>6 DEF S
<1>8. QED BY <1>2, <1>7 DEF start

LEMMA LevelEnds ==
  ASSUME NEW R, NEW rs \in Seq(R), NEW from, NEW reason
  PROVE  LET c == LevelChain(from, reason, rs)
         IN  \/ c = [level |-> from, count |-> -1]
             \/ \E r \in Range(rs) : r.reason = reason /\ c = [level |-> r.isLevel, count |-> r.isCount]
<1> DEFINE N == Len(rs)
<1> DEFINE start == [level |-> from, count |-> -1]
<1> DEFINE End(c) == \/ c = start
                     \/ \E r \in Range(rs) : r.reason = reason /\ c = [level |-> r.isLevel, count |-> r.isCount]
<1>1. N \in Nat /\ \A k \in 1..N : rs[k] \in Range(rs)
  BY DEF Range
<1>2. PICK f : LevelReplay(f, from, reason, rs) /\ LevelChain(from, reason, rs) = f[N]
  BY LevelChainReplay
<1>3. f[0] = start /\ \A k \in 1..N : f[k] = LevelStep(reason, rs[k], f[k - 1])
  BY <1>2 DEF LevelReplay
<1> HIDE DEF N, start
<1> DEFINE S == {k \in 0..N : End(f[k])}
<1>4. 0 \in S
  BY <1>1, <1>3
<1>5. ASSUME NEW k \in 1..N, k - 1 \in S
      PROVE  k \in S
  <2>1. End(f[k - 1])
    BY <1>5
  <2>2. f[k] = f[k - 1] \/ (rs[k].reason = reason /\ f[k] = [level |-> rs[k].isLevel, count |-> rs[k].isCount])
    BY <1>3 DEF LevelStep
  <2>3. End(f[k])
    BY <1>1, <2>1, <2>2
  <2> HIDE DEF End
  <2>4. QED BY <1>1, <2>3
<1> HIDE DEF S
<1>6. \A k \in 0..N : k \in S
  BY <1>1, <1>4, <1>5, IndexInduction
<1>7. End(f[N])
  BY <1>1, <1>6 DEF S
<1>8. QED BY <1>2, <1>7 DEF start

(* What the regressions matched for a path come from.                         *)
LEMMA MatchingFrom ==
  ASSUME NEW T, NEW l, AllNeat(T, l), NEW t, NEW p, NEW r \in Range(Matching(l, t, p))
  PROVE  \E e \in Range(l) : e.kind = "accepted-debt" /\ r \in Seen(e, t, p)
<1> DEFINE x == [i \in 1..Len(l) |-> Matches(l[i], t, p)]
<1> DEFINE N == Len(l)
<1> DEFINE From(y) == \A c \in Range(y) : \E e \in Range(l) : e.kind = "accepted-debt" /\ c \in Seen(e, t, p)
<1>1. x \in Seq(Seq(T)) /\ Matching(l, t, p) = FlattenSeq(x)
  BY MatchingIs
<1>2. N \in Nat /\ \A i \in 1..N : l[i] \in Range(l)
  BY DEF AllNeat, Range
<1>3. Len(x) = N /\ \A i \in 1..N : x[i] = Matches(l[i], t, p) /\ x[i] \in Seq(T)
  BY <1>1, <1>2
<1> HIDE DEF x, N
<1>4. PICK f : FlattenReplay(f, T, x)
  BY <1>1, FlattenExists
<1>5. \A i \in 1..N : From(x[i])
  <2> SUFFICES ASSUME NEW i \in 1..N, NEW c \in Range(x[i])
               PROVE  l[i].kind = "accepted-debt" /\ c \in Seen(l[i], t, p)
    BY <1>2
  <2>1. Neat(T, l[i]) /\ x[i] = Matches(l[i], t, p)
    BY <1>2, <1>3 DEF AllNeat
  <2>2. Range(<<>>) = {} /\ \A y : Range(<<y>>) = {y}
    BY DEF Range
  <2>3. l[i].kind = "accepted-debt" => Seen(l[i], t, p) = {} \/ \E y \in T : Seen(l[i], t, p) = {y}
    BY <2>1 DEF Neat
  <2>4. CASE l[i].kind # "accepted-debt" \/ Seen(l[i], t, p) = {}
    BY <2>1, <2>2, <2>4, MatchesOf
  <2>5. ASSUME NEW y, l[i].kind = "accepted-debt", Seen(l[i], t, p) = {y}
        PROVE  c = y
    <3>1. Matches(l[i], t, p) = SetToSeq({y})
      BY <2>5 DEF Matches
    <3>3. x[i] = <<y>>
      BY <2>1, <3>1, ListedSmall
    <3>2. QED BY <2>2, <3>3
  <2>6. QED BY <2>3, <2>4, <2>5
<1> DEFINE S == {n \in 0..N : From(f[n])}
<1>6. 0 \in S
  <2>1. f[0] = <<>> /\ Range(<<>>) = {}
    BY <1>4 DEF FlattenReplay, Range
  <2>2. QED BY <1>2, <2>1
<1>7. ASSUME NEW n \in 1..N, n - 1 \in S
      PROVE  n \in S
  <2>0. n - 1 \in 0..N /\ n \in 1..N
    BY <1>2
  <2>1. f[n] = f[n - 1] \o x[n] /\ f[n - 1] \in Seq(T) /\ x[n] \in Seq(T)
    <3>1. f[n - 1] \in Seq(T)
      BY <1>3, <1>4, <2>0 DEF FlattenReplay
    <3>2. f[n] = f[n - 1] \o x[n]
      BY <1>3, <1>4, <2>0 DEF FlattenReplay
    <3>3. QED BY <1>3, <3>1, <3>2
  <2>2. Range(f[n - 1] \o x[n]) = Range(f[n - 1]) \cup Range(x[n])
    BY <2>1, RangeConcatenation
  <2>3. From(f[n - 1]) /\ From(x[n])
    BY <1>5, <1>7
  <2>4. From(f[n])
    BY <2>1, <2>2, <2>3
  <2> HIDE DEF From
  <2>5. QED BY <1>2, <2>4
<1> HIDE DEF S
<1>8. \A n \in 0..N : n \in S
  BY <1>2, <1>6, <1>7, IndexInduction
<1>9. From(f[N])
  BY <1>2, <1>8 DEF S
<1>10. QED BY <1>1, <1>3, <1>4, <1>9, FlattenIs

-----------------------------------------------------------------------------
(* The accounting of one update                                              *)

(* The metrics of which the comparison and the accounting tell the same story: *)
(* of a complexity the comparison reports the function that got worse, the      *)
(* accounting the highest one.                                                  *)
Plain == {"message-count", "effective-line-count"}

LEMMA PlainShape ==
  ASSUME NEW m \in Plain, NEW i \in ItemsOf(m)
  PROVE  /\ i.count \in Nat /\ i.level \in Nat /\ (i = NoItem <=> i.count = 0)
         /\ i = NoItem => i.level = 0
         /\ m = "message-count" => i.level = 0
         /\ m = "effective-line-count" /\ i # NoItem => i.level > 0
<1>1. CASE m = "message-count"
  BY SMTT(30), <1>1, ItemsAssumption DEF ItemsOf, Counted, NoItem, Item, Sites
<1>2. CASE m = "effective-line-count"
  BY SMTT(30), <1>2, ItemsAssumption DEF ItemsOf, Measured, NoItem, Item, Sites
<1>3. QED BY <1>1, <1>2 DEF Plain

(* What an update reports of a path.                                          *)
Worse(same, m, b, c) == {x \in Regression(m, b, c) : ~same => x.reason \in CountComparable}

LEMMA WorseIs ==
  ASSUME NEW k \in Plain, NEW m \in Plain, NEW b \in ItemsOf(k), NEW c \in ItemsOf(m),
         NEW same \in BOOLEAN, same <=> (k = m)
  PROVE  LET W == Worse(same, m, b, c)
         IN  /\ c = NoItem => W = {}
             /\ c # NoItem /\ b = NoItem => c.count > 0 /\ W = {Change("new-path", b, c, 0, 0)}
             /\ c # NoItem /\ b # NoItem /\ same /\ LevelIncreased(b, c) =>
                  m = "effective-line-count" /\ W = {Change("increased-lines", b, c, b.level, c.level)}
             /\ c # NoItem /\ b # NoItem /\ ~(same /\ LevelIncreased(b, c)) =>
                  W = IF c.count > b.count THEN {Change("increased-count", b, c, 0, 0)} ELSE {}
<1> DEFINE level == LevelRegression(m, b, c)
<1>1. /\ b.count \in Nat /\ b.level \in Nat /\ (b = NoItem <=> b.count = 0)
      /\ b = NoItem => b.level = 0
      /\ k = "message-count" => b.level = 0
  BY PlainShape
<1>2. /\ c.count \in Nat /\ c.level \in Nat /\ (c = NoItem <=> c.count = 0)
      /\ c = NoItem => c.level = 0
      /\ m = "message-count" => c.level = 0
  BY PlainShape
<1>3. k = "effective-line-count" /\ b # NoItem => b.level > 0
  BY PlainShape
<1>4. level = IF m = "effective-line-count" /\ b.level > 0 /\ c.level > b.level
              THEN {Change("increased-lines", b, c, b.level, c.level)} ELSE {}
  BY DEF LevelRegression, Plain
<1>5. Regression(m, b, c) = IF level # {} THEN level ELSE CountRegression(b, c)
  BY DEF Regression
<1>6. CountRegression(b, c) = IF c.count <= b.count THEN {}
        ELSE {Change(IF b.count = 0 THEN "new-path" ELSE "increased-count", b, c, 0, 0)}
  BY DEF CountRegression
<1>7. \A r, x, y : Change(r, b, c, x, y).reason = r
  BY DEF Change
<1>8. level # {} => k = "effective-line-count" /\ m = "effective-line-count" /\ b # NoItem /\ c # NoItem /\ LevelIncreased(b, c)
  BY <1>1, <1>2, <1>4 DEF LevelIncreased, Plain
<1>9. same /\ b # NoItem /\ LevelIncreased(b, c) =>
        m = "effective-line-count" /\ level = {Change("increased-lines", b, c, b.level, c.level)}
  BY <1>1, <1>2, <1>3, <1>4 DEF LevelIncreased, Plain
<1> HIDE DEF level, Change, LevelIncreased
<1>10. c = NoItem => Worse(same, m, b, c) = {}
  BY <1>1, <1>2, <1>5, <1>6, <1>8 DEF Worse
<1>11. c # NoItem /\ b = NoItem => c.count > 0 /\ Worse(same, m, b, c) = {Change("new-path", b, c, 0, 0)}
  <2> SUFFICES ASSUME c # NoItem, b = NoItem
               PROVE  c.count > 0 /\ Worse(same, m, b, c) = {Change("new-path", b, c, 0, 0)}
    OBVIOUS
  <2>1. level = {} /\ b.count = 0 /\ c.count > 0
    BY <1>1, <1>2, <1>8
  <2>4. ~(c.count <= b.count)
    BY <1>2, <2>1
  <2>2. Regression(m, b, c) = {Change("new-path", b, c, 0, 0)}
    BY <1>5, <1>6, <2>1, <2>4
  <2>3. QED BY <1>7, <2>1, <2>2 DEF Worse, CountComparable
<1>12. c # NoItem /\ b # NoItem /\ same /\ LevelIncreased(b, c) =>
         m = "effective-line-count" /\ Worse(same, m, b, c) = {Change("increased-lines", b, c, b.level, c.level)}
  BY <1>5, <1>9 DEF Worse
<1>13. c # NoItem /\ b # NoItem /\ ~(same /\ LevelIncreased(b, c)) =>
         Worse(same, m, b, c) = IF c.count > b.count THEN {Change("increased-count", b, c, 0, 0)} ELSE {}
  <2> SUFFICES ASSUME c # NoItem, b # NoItem, ~(same /\ LevelIncreased(b, c))
               PROVE  Worse(same, m, b, c) = IF c.count > b.count THEN {Change("increased-count", b, c, 0, 0)} ELSE {}
    OBVIOUS
  <2>1. level = {} /\ b.count # 0
    BY <1>1, <1>8
  <2>2. Regression(m, b, c) = IF c.count > b.count THEN {Change("increased-count", b, c, 0, 0)} ELSE {}
    BY <1>1, <1>2, <1>5, <1>6, <2>1
  <2>3. QED BY <1>7, <2>2 DEF Worse, CountComparable
<1>14. QED BY <1>10, <1>11, <1>12, <1>13

(* The regression of a path explains it, and nothing less does.               *)
LEMMA WorseAccounted ==
  ASSUME NEW k \in Plain, NEW m \in Plain, NEW b \in ItemsOf(k), NEW c \in ItemsOf(m),
         NEW same \in BOOLEAN, same <=> (k = m)
  PROVE  /\ Worse(same, m, b, c) = {} \/ \E x : Worse(same, m, b, c) = {x}
         /\ \A x : Worse(same, m, b, c) = {x} => ItemAccounted(same, m, b, c, <<x>>)
         /\ ItemAccounted(same, m, b, c, <<>>) <=> Worse(same, m, b, c) = {}
<1> DEFINE W == Worse(same, m, b, c)
<1>1. b.count \in Nat /\ b.level \in Nat /\ c.count \in Nat /\ c.level \in Nat
  BY PlainShape
<1>2. \A r, x, y : LET d == Change(r, b, c, x, y)
                   IN  d.reason = r /\ d.wasCount = b.count /\ d.isCount = c.count /\ d.wasLevel = x /\ d.isLevel = y
  BY DEF Change
<1>3. CASE c = NoItem
  <2>1. W = {}
    BY <1>3, WorseIs
  <2>2. \A rs : ItemAccounted(same, m, b, c, rs)
    BY <1>3 DEF ItemAccounted
  <2> HIDE DEF W
  <2>3. QED BY <2>1, <2>2 DEF W
<1>4. CASE c # NoItem /\ b = NoItem
  <2> DEFINE d == Change("new-path", b, c, 0, 0)
  <2>1. W = {d} /\ c.count > 0
    BY <1>4, WorseIs
  <2>2. \A rs : ItemAccounted(same, m, b, c, rs) <=> CountChain(0, TRUE, rs) = [count |-> c.count, new |-> FALSE]
    BY <1>4 DEF ItemAccounted
  <2>3. b.count = 0
    BY <1>4 DEF NoItem, Item
  <2>10. d.reason = "new-path" /\ d.wasCount = 0 /\ d.isCount = c.count
    BY <1>2, <2>3
  <2> HIDE DEF d
  <2>4. CountStep(d, [count |-> 0, new |-> TRUE]) = [count |-> c.count, new |-> FALSE]
    BY <1>1, <2>1, <2>10 DEF CountStep
  <2>5. CountChain(0, TRUE, <<d>>) = [count |-> c.count, new |-> FALSE]
    BY <2>4, CountOne
  <2>6. CountChain(0, TRUE, <<>>) = [count |-> 0, new |-> TRUE]
    BY CountNone
  <2> HIDE DEF W, d
  <2>7. [count |-> 0, new |-> TRUE] # [count |-> c.count, new |-> FALSE]
    BY <1>1, <2>1
  <2>8. ItemAccounted(same, m, b, c, <<d>>) /\ ~ItemAccounted(same, m, b, c, <<>>)
    BY <2>2, <2>5, <2>6, <2>7
  <2>9. QED BY <2>1, <2>8 DEF W
<1>5. CASE c # NoItem /\ b # NoItem /\ same /\ LevelIncreased(b, c)
  <2> DEFINE d == Change("increased-lines", b, c, b.level, c.level)
  <2>1. W = {d} /\ m = "effective-line-count"
    BY ZenonT(60), <1>5, WorseIs
  <2>2. \A rs : ItemAccounted(same, m, b, c, rs) <=>
                LevelChain(b.level, "increased-lines", rs) = [level |-> c.level, count |-> c.count]
    BY <1>5, <2>1 DEF ItemAccounted
  <2>3. c.level > b.level
    BY <1>5 DEF LevelIncreased
  <2>4. LevelStep("increased-lines", d, [level |-> b.level, count |-> -1]) = [level |-> c.level, count |-> c.count]
    BY <1>1, <1>2, <2>3 DEF LevelStep
  <2>5. LevelChain(b.level, "increased-lines", <<d>>) = [level |-> c.level, count |-> c.count]
    BY <2>4, LevelOne
  <2>6. LevelChain(b.level, "increased-lines", <<>>) = [level |-> b.level, count |-> -1]
    BY LevelNone
  <2> HIDE DEF W, d
  <2>7. [level |-> b.level, count |-> -1] # [level |-> c.level, count |-> c.count]
    BY <1>1, <2>3
  <2>8. ItemAccounted(same, m, b, c, <<d>>) /\ ~ItemAccounted(same, m, b, c, <<>>)
    BY <2>2, <2>5, <2>6, <2>7
  <2>9. QED BY <2>1, <2>8 DEF W
<1>6. CASE c # NoItem /\ b # NoItem /\ ~(same /\ LevelIncreased(b, c))
  <2> DEFINE d == Change("increased-count", b, c, 0, 0)
  <2>1. W = IF c.count > b.count THEN {d} ELSE {}
    BY <1>6, WorseIs
  <2>2. \A rs : ItemAccounted(same, m, b, c, rs) <=>
                (c.count > b.count => CountChain(b.count, FALSE, rs).count = c.count)
    BY <1>6 DEF ItemAccounted
  <2>8. d.reason = "increased-count" /\ d.wasCount = b.count /\ d.isCount = c.count
    BY <1>2
  <2> HIDE DEF W, d
  <2>3. c.count > b.count => CountStep(d, [count |-> b.count, new |-> FALSE]) = [count |-> c.count, new |-> FALSE]
    BY <1>1, <2>8 DEF CountStep
  <2>4. c.count > b.count => CountChain(b.count, FALSE, <<d>>) = [count |-> c.count, new |-> FALSE]
    BY <2>3, CountOne
  <2>5. CountChain(b.count, FALSE, <<>>) = [count |-> b.count, new |-> FALSE]
    BY CountNone
  <2>11. \A x, n : x = [count |-> n, new |-> FALSE] => x.count = n
    OBVIOUS
  <2>9. CountChain(b.count, FALSE, <<>>).count = b.count
    BY <2>5, <2>11, Zenon
  <2>10. c.count > b.count => CountChain(b.count, FALSE, <<d>>).count = c.count
    BY <2>4, <2>11, Zenon
  <2>6. /\ ItemAccounted(same, m, b, c, <<d>>)
        /\ ItemAccounted(same, m, b, c, <<>>) <=> ~(c.count > b.count)
    <3>1. c.count > b.count => b.count # c.count
      BY <1>1
    <3>2. QED BY <2>2, <2>9, <2>10, <3>1
  <2>7. QED BY <2>1, <2>6 DEF W
<1>7. QED BY <1>3, <1>4, <1>5, <1>6

(* The parts of an update's records.                                          *)
Dropped(old, new, o) == {[test |-> t, snapshot |-> old[t]] : t \in Orphans(old, new, o)}
DebtEntry(old, new, o) == AcceptedDebt(Regressions(old, new), Dropped(old, new, o), o.reason)
DebtPart(old, new, o) ==
  IF o.worse /\ (Regressions(old, new) # {} \/ Orphans(old, new, o) # {})
  THEN <<DebtEntry(old, new, o)>> ELSE <<>>
Shrinks(old, new, o) ==
  IF o.worse THEN {CoverageShrink(t, RemovedPaths(old, new, t), o.reason) : t \in Shrunk(old, new)} ELSE {}
Moves(old, new, o) ==
  {MetricMigration(t, old[t].metric, new[t].metric, o.reason) : t \in Migrated(old, new)}
RetiredPart(o) == IF o.retire = "none" THEN <<>> ELSE <<Retirement(o.retire)>>
OtherPart(old, new, o) == SetToSeq(Shrinks(old, new, o)) \o SetToSeq(Moves(old, new, o)) \o RetiredPart(o)

LEMMA RecordsSplit ==
  ASSUME NEW old, NEW new, NEW o
  PROVE  LET other == OtherPart(old, new, o)
         IN  /\ Records(old, new, o) = DebtPart(old, new, o) \o other
             /\ \E S : other \in Seq(S) /\ \A e \in S : e.kind # "accepted-debt"
             /\ Shrinks(old, new, o) \cup Moves(old, new, o) \subseteq Range(other)
             /\ o.retire # "none" => Retirement(o.retire) \in Range(other)
<1> DEFINE shrink == [t \in Shrunk(old, new) |-> CoverageShrink(t, RemovedPaths(old, new, t), o.reason)]
<1> DEFINE move == [t \in Migrated(old, new) |-> MetricMigration(t, old[t].metric, new[t].metric, o.reason)]
<1> DEFINE E == Shrinks(old, new, o) \cup Moves(old, new, o) \cup {Retirement(o.retire)}
<1> DEFINE d == DebtPart(old, new, o)
<1> DEFINE s == SetToSeq(Shrinks(old, new, o))
<1> DEFINE v == SetToSeq(Moves(old, new, o))
<1> DEFINE r == RetiredPart(o)
<1>1. \A e \in E : e.kind # "accepted-debt"
  BY DEF Shrinks, Moves, CoverageShrink, MetricMigration, Retirement
<1>2. Shrunk(old, new) \subseteq Tests /\ Migrated(old, new) \subseteq Tests
  BY DEF Shrunk, Migrated, Kept
<1>3. IsFiniteSet(Shrunk(old, new)) /\ IsFiniteSet(Migrated(old, new)) /\ IsFiniteSet({})
  BY <1>2, MergeAssumption, FS_Subset, FS_EmptySet
<1>4. IsFiniteSet(Shrinks(old, new, o))
  <2>1. IsFiniteSet({shrink[t] : t \in Shrunk(old, new)})
    BY ZenonT(60), <1>3, ImageFinite
  <2>2. {shrink[t] : t \in Shrunk(old, new)} =
          {CoverageShrink(t, RemovedPaths(old, new, t), o.reason) : t \in Shrunk(old, new)}
    OBVIOUS
  <2>3. QED BY <1>3, <2>1, <2>2 DEF Shrinks
<1>5. IsFiniteSet(Moves(old, new, o))
  <2>0. DOMAIN move = Migrated(old, new)
    OBVIOUS
  <2>2. {move[t] : t \in Migrated(old, new)} = Moves(old, new, o)
    BY DEF Moves
  <2> HIDE DEF move
  <2>1. IsFiniteSet({move[t] : t \in Migrated(old, new)})
    BY <1>3, <2>0, ImageFinite
  <2>3. QED BY <2>1, <2>2
<1>6. s \in Seq(E) /\ v \in Seq(E)
  <2>1. s \in Seq(Shrinks(old, new, o)) /\ v \in Seq(Moves(old, new, o))
    BY <1>4, <1>5, RangeOfListed
  <2>2. QED BY <2>1, SeqMonotonic
<1>7. r \in Seq(E)
  <2>1. Retirement(o.retire) \in E
    OBVIOUS
  <2> HIDE DEF E
  <2>2. <<>> \in Seq(E) /\ <<Retirement(o.retire)>> \in Seq(E)
    BY <2>1
  <2>3. QED BY <2>2 DEF RetiredPart
<1>8. Shrinks(old, new, o) \subseteq Range(s) /\ Moves(old, new, o) \subseteq Range(v)
  BY <1>4, <1>5, RangeOfListed
<1>9. o.retire # "none" => Retirement(o.retire) \in Range(r)
  BY DEF RetiredPart, Range
<1> DEFINE F == E \cup {DebtEntry(old, new, o)}
<1>10. d \in Seq(F) /\ s \in Seq(F) /\ v \in Seq(F) /\ r \in Seq(F)
  <2>1. d \in Seq(F)
    <3>1. DebtEntry(old, new, o) \in F
      OBVIOUS
    <3> HIDE DEF F
    <3>2. <<>> \in Seq(F) /\ <<DebtEntry(old, new, o)>> \in Seq(F)
      BY <3>1
    <3>3. QED BY <3>2 DEF DebtPart
  <2>2. E \subseteq F
    OBVIOUS
  <2>3. QED BY <1>6, <1>7, <2>1, <2>2, SeqMonotonic
<1>11. Records(old, new, o) = ((d \o s) \o v) \o r
  BY DEF Records, DebtPart, DebtEntry, Dropped, Shrinks, Moves, RetiredPart
<1>12. OtherPart(old, new, o) = (s \o v) \o r
  BY DEF OtherPart
<1> HIDE DEF d, s, v, r, E, F
<1>13. s \o v \in Seq(F) /\ d \o s \in Seq(F) /\ s \o v \in Seq(E) /\ (s \o v) \o r \in Seq(E)
  BY <1>6, <1>7, <1>10
<1>14. ((d \o s) \o v) \o r = d \o ((s \o v) \o r)
  <2>1. (d \o s) \o v = d \o (s \o v)
    BY SMTT(30), <1>10, ConcatAssoc
  <2>2. (d \o (s \o v)) \o r = d \o ((s \o v) \o r)
    <3> DEFINE w == s \o v
    <3>1. w \in Seq(F)
      BY <1>13
    <3> HIDE DEF w
    <3>2. d \o (w \o r) = (d \o w) \o r
      BY SMTT(30), <1>10, <3>1, ConcatAssoc
    <3>3. QED BY <3>2 DEF w
  <2>3. QED BY <2>1, <2>2
<1>15. /\ Range(s) \subseteq Range((s \o v) \o r) /\ Range(v) \subseteq Range((s \o v) \o r)
       /\ Range(r) \subseteq Range((s \o v) \o r)
  <2>1. Range(s) \subseteq Range(s \o v) /\ Range(v) \subseteq Range(s \o v)
    BY <1>6, RangeOfConcat
  <2>2. Range(s \o v) \subseteq Range((s \o v) \o r) /\ Range(r) \subseteq Range((s \o v) \o r)
    BY <1>7, <1>13, RangeOfConcat
  <2>3. QED BY <2>1, <2>2
<1>16. QED BY <1>1, <1>8, <1>9, <1>11, <1>12, <1>13, <1>14, <1>15 DEF d

(* The baselines whose ratchets have one of the plain metrics.                *)
PlainDocs == {b \in Baselines : \A t \in Tests : b[t] # Gone => b[t].metric \in Plain}

Path(old, new, t, p) == Worse(t \notin Migrated(old, new), new[t].metric, old[t].items[p], new[t].items[p])

LEMMA PlainPath ==
  ASSUME NEW old \in PlainDocs, NEW new \in PlainDocs, NEW t \in Kept(old, new), NEW p \in Paths
  PROVE  /\ old[t].metric \in Plain /\ new[t].metric \in Plain
         /\ old[t].items[p] \in ItemsOf(old[t].metric) /\ new[t].items[p] \in ItemsOf(new[t].metric)
         /\ (t \notin Migrated(old, new)) <=> (old[t].metric = new[t].metric)
<1>1. t \in Tests /\ old[t] # Gone /\ new[t] # Gone
  BY DEF Kept
<1>2. old \in Baselines /\ new \in Baselines
  BY DEF PlainDocs
<1>3. old[t].items \in [Paths -> ItemsOf(old[t].metric)] /\ new[t].items \in [Paths -> ItemsOf(new[t].metric)]
  BY <1>1, <1>2, GroupShape
<1>4. (t \notin Migrated(old, new)) <=> (old[t].metric = new[t].metric)
  BY DEF Migrated
<1>5. QED BY <1>1, <1>3, <1>4 DEF PlainDocs

(* An update reports at most one regression of a path.                         *)
LEMMA PathSmall ==
  ASSUME NEW old \in PlainDocs, NEW new \in PlainDocs, NEW t \in Kept(old, new), NEW p \in Paths
  PROVE  Path(old, new, t, p) = {} \/ \E x : Path(old, new, t, p) = {x}
<1> DEFINE m == new[t].metric
<1> DEFINE b == old[t].items[p]
<1> DEFINE c == new[t].items[p]
<1> DEFINE k == old[t].metric
<1> DEFINE same == t \notin Migrated(old, new)
<1>0. k \in Plain /\ m \in Plain /\ b \in ItemsOf(k) /\ c \in ItemsOf(m)
      /\ same \in BOOLEAN /\ (same <=> (k = m))
  BY PlainPath
<1>4. Path(old, new, t, p) = Worse(same, m, b, c)
  BY DEF Path
<1> HIDE DEF m, b, c, k, same
<1>5. Worse(same, m, b, c) = {} \/ \E x : Worse(same, m, b, c) = {x}
  BY <1>0, WorseAccounted
<1>1. Path(old, new, t, p) = {} \/ \E x : Path(old, new, t, p) = {x}
  BY <1>4, <1>5
<1>6. QED BY <1>1

(* What an update reports is what it finds of each path.                      *)
LEMMA ReportedOf ==
  ASSUME NEW old, NEW new, NEW e, e.regressions = Regressions(old, new), NEW t, NEW p
  PROVE  Seen(e, t, p) = IF t \in Kept(old, new) /\ p \in Paths THEN Path(old, new, t, p) ELSE {}
<1> DEFINE L == {r.change : r \in {x \in Regressions(old, new) : x.test = t /\ x.path = p}}
<1>1. ASSUME NEW c \in L
      PROVE  t \in Kept(old, new) /\ p \in Paths /\ c \in Path(old, new, t, p)
  <2>1. PICK x \in Regressions(old, new) : x.test = t /\ x.path = p /\ x.change = c
    BY <1>1
  <2>2. PICK u \in Kept(old, new), q \in Paths :
          \E r \in {y \in Regression(new[u].metric, old[u].items[q], new[u].items[q]) :
                      u \in Migrated(old, new) => y.reason \in CountComparable} :
            x = [test |-> u, path |-> q, change |-> r]
    BY DEF Regressions
  <2>3. u = t /\ q = p
    BY <2>1, <2>2
  <2>4. QED BY <2>1, <2>2, <2>3 DEF Path, Worse
<1>2. ASSUME t \in Kept(old, new), p \in Paths, NEW c \in Path(old, new, t, p)
      PROVE  c \in L
  <2>1. [test |-> t, path |-> p, change |-> c] \in Regressions(old, new)
    <3> DEFINE At(u, q) == {y \in Regression(new[u].metric, old[u].items[q], new[u].items[q]) :
                               u \in Migrated(old, new) => y.reason \in CountComparable}
    <3>1. c \in At(t, p)
      BY <1>2 DEF Path, Worse
    <3>2. Regressions(old, new) =
            UNION {{[test |-> u, path |-> q, change |-> y] : y \in At(u, q)} : u \in Kept(old, new), q \in Paths}
      BY DEF Regressions
    <3> HIDE DEF At
    <3>3. {[test |-> t, path |-> p, change |-> y] : y \in At(t, p)} \in
            {{[test |-> u, path |-> q, change |-> y] : y \in At(u, q)} : u \in Kept(old, new), q \in Paths}
      BY <1>2
    <3>4. [test |-> t, path |-> p, change |-> c] \in {[test |-> t, path |-> p, change |-> y] : y \in At(t, p)}
      BY <3>1
    <3> DEFINE A == {[test |-> t, path |-> p, change |-> y] : y \in At(t, p)}
    <3> DEFINE C == {{[test |-> u, path |-> q, change |-> y] : y \in At(u, q)} : u \in Kept(old, new), q \in Paths}
    <3>5. A \in C /\ [test |-> t, path |-> p, change |-> c] \in A /\ Regressions(old, new) = UNION C
      BY <3>2, <3>3, <3>4
    <3> HIDE DEF A, C
    <3>6. QED BY <3>5
  <2>2. QED BY <2>1
<1> HIDE DEF L
<1>3. L = IF t \in Kept(old, new) /\ p \in Paths THEN Path(old, new, t, p) ELSE {}
  BY <1>1, <1>2
<1>4. QED BY <1>3 DEF L, Seen

LEMMA DebtNeat ==
  ASSUME NEW old \in PlainDocs, NEW new \in PlainDocs, NEW o
  PROVE  LET e == DebtEntry(old, new, o)  T == UNION {Path(old, new, t, p) : t \in Kept(old, new), p \in Paths}
         IN  /\ e.kind = "accepted-debt" /\ e.regressions = Regressions(old, new) /\ e.orphans = Dropped(old, new, o)
             /\ \A t \in Kept(old, new), p \in Paths : Seen(e, t, p) = Path(old, new, t, p)
             /\ \A t, p : Seen(e, t, p) = {} \/ \E x \in T : Seen(e, t, p) = {x}
<1> DEFINE e == DebtEntry(old, new, o)
<1> DEFINE T == UNION {Path(old, new, t, p) : t \in Kept(old, new), p \in Paths}
<1>1. e.kind = "accepted-debt" /\ e.regressions = Regressions(old, new) /\ e.orphans = Dropped(old, new, o)
  BY DEF DebtEntry, AcceptedDebt
<1> HIDE DEF e
<1>2. \A t, p : Seen(e, t, p) = IF t \in Kept(old, new) /\ p \in Paths THEN Path(old, new, t, p) ELSE {}
  BY <1>1, ReportedOf
<1>3. ASSUME NEW t \in Kept(old, new), NEW p \in Paths
      PROVE  Path(old, new, t, p) = {} \/ \E x \in T : Path(old, new, t, p) = {x}
  <2>1. Path(old, new, t, p) = {} \/ \E x : Path(old, new, t, p) = {x}
    BY PathSmall
  <2>2. Path(old, new, t, p) \subseteq T
    OBVIOUS
  <2> HIDE DEF T
  <2>3. QED BY <2>1, <2>2
<1>4. QED BY <1>1, <1>2, <1>3 DEF e

(* The records of an update match, path by path, what it reported of the path. *)
LEMMA RecordsMatch ==
  ASSUME NEW old \in PlainDocs, NEW new \in PlainDocs, NEW o \in Options, Allowed(old, new, o),
         NEW T, \A t \in Kept(old, new), p \in Paths : Path(old, new, t, p) \subseteq T
  PROVE  /\ AllNeat(T, Records(old, new, o))
         /\ \A t \in Kept(old, new), p \in Paths :
              /\ Path(old, new, t, p) = {} => Matching(Records(old, new, o), t, p) = <<>>
              /\ \A x : Path(old, new, t, p) = {x} => Matching(Records(old, new, o), t, p) = <<x>>
<1> DEFINE d == DebtPart(old, new, o)
<1> DEFINE e == DebtEntry(old, new, o)
<1> DEFINE other == OtherPart(old, new, o)
<1>1. Records(old, new, o) = d \o other
  BY RecordsSplit
<1>2. PICK S : other \in Seq(S) /\ \A x \in S : x.kind # "accepted-debt"
  BY RecordsSplit
<1> HIDE DEF other
<1>3. other \in Seq(Range(other)) /\ Range(other) \subseteq S
  BY <1>2, SeqOfRange, RangeOfSeq
<1>4. AllNeat(T, other) /\ \A t, p : Matching(other, t, p) = <<>>
  <2>1. \A x \in Range(other) : x.kind # "accepted-debt"
    BY <1>2, <1>3
  <2>2. AllNeat(T, other)
    BY <1>3, <2>1 DEF AllNeat, Neat
  <2>3. \A t, p : \A x \in Range(other) : Matches(x, t, p) = <<>>
    BY <2>1 DEF Matches
  <2>4. QED BY <2>2, <2>3, MatchingNone
<1>5. /\ e.kind = "accepted-debt"
      /\ \A t \in Kept(old, new), p \in Paths : Seen(e, t, p) = Path(old, new, t, p)
  BY DebtNeat
<1>6. Neat(T, e)
  <2> DEFINE U == UNION {Path(old, new, t, p) : t \in Kept(old, new), p \in Paths}
  <2>1. \A t, p : Seen(e, t, p) = {} \/ \E x \in U : Seen(e, t, p) = {x}
    BY DebtNeat
  <2>2. U \subseteq T
    OBVIOUS
  <2> HIDE DEF e, U
  <2>3. QED BY <2>1, <2>2 DEF Neat
<1> HIDE DEF e
<1>7. d = <<>> \/ d = <<e>>
  BY DEF DebtPart, e
<1>8. d = <<>> => \A t \in Kept(old, new), p \in Paths : Path(old, new, t, p) = {}
  <2>1. SUFFICES ASSUME d = <<>> PROVE Regressions(old, new) = {}
    <3>1. e.regressions = {} => \A t, p : Seen(e, t, p) = {}
      BY DEF Seen
    <3>2. e.regressions = Regressions(old, new)
      BY DebtNeat DEF e
    <3>3. QED BY <1>5, <3>1, <3>2
  <2>2. ~(o.worse /\ Regressions(old, new) # {})
    BY <2>1 DEF DebtPart
  <2>3. QED BY <2>2 DEF Allowed
<1> HIDE DEF d
<1>9. AllNeat(T, <<>>) /\ \A t, p : Matching(<<>>, t, p) = <<>>
  <2>1. <<>> \in Seq(Range(<<>>)) /\ Range(<<>>) = {}
    BY DEF Range
  <2>2. AllNeat(T, <<>>)
    BY <2>1 DEF AllNeat
  <2>3. QED BY <2>1, <2>2, MatchingNone
<1>10. AllNeat(T, d)
  BY <1>6, <1>7, <1>9, MatchingOne
<1>11. AllNeat(T, Records(old, new, o))
  BY <1>1, <1>4, <1>10, NeatConcat
<1>12. ASSUME NEW t \in Kept(old, new), NEW p \in Paths
       PROVE  Matching(Records(old, new, o), t, p) = Matching(d, t, p)
  <2>1. /\ Matching(d, t, p) \in Seq(T)
        /\ Matching(d \o other, t, p) = Matching(d, t, p) \o Matching(other, t, p)
    BY <1>4, <1>10, MatchingConcat
  <2>2. Matching(d, t, p) \o <<>> = Matching(d, t, p)
    BY <2>1, ConcatEmptySeq
  <2>3. QED BY <1>1, <1>4, <2>1, <2>2
<1>13. ASSUME NEW t \in Kept(old, new), NEW p \in Paths
       PROVE  /\ Path(old, new, t, p) = {} => Matching(d, t, p) = <<>>
              /\ \A x : Path(old, new, t, p) = {x} => Matching(d, t, p) = <<x>>
  <2>1. CASE d = <<>>
    BY <1>8, <1>9, <2>1
  <2>2. CASE d = <<e>>
    <3>1. Matching(d, t, p) = Matches(e, t, p)
      BY <1>6, <2>2, MatchingOne
    <3>2. Seen(e, t, p) = Path(old, new, t, p) /\ e.kind = "accepted-debt"
      BY <1>5
    <3>3. Path(old, new, t, p) = {} => Matches(e, t, p) = <<>>
      BY <3>2, ListedSmall DEF Matches
    <3>4. \A x : Path(old, new, t, p) = {x} => Matches(e, t, p) = <<x>>
      BY <3>2, ListedSmall DEF Matches
    <3>5. QED BY <3>1, <3>3, <3>4
  <2>3. QED BY <1>7, <2>1, <2>2
<1>14. QED BY <1>11, <1>12, <1>13

(* The records of an accepted update explain the update.                      *)
LEMMA UpdateExplained ==
  ASSUME NEW old \in PlainDocs, NEW new \in PlainDocs, NEW o \in Options, Allowed(old, new, o)
  PROVE  Unaccounted(old, new, Records(old, new, o)) = {}
<1> DEFINE T == UNION {Path(old, new, t, p) : t \in Kept(old, new), p \in Paths}
<1> DEFINE l == Records(old, new, o)
<1> DEFINE other == OtherPart(old, new, o)
<1> DEFINE d == DebtPart(old, new, o)
<1>0. o.worse \in BOOLEAN
  BY DEF Options
<1>1. ASSUME NEW t \in Kept(old, new), NEW p \in Paths
      PROVE  ItemAccounted(t \notin Migrated(old, new), new[t].metric, old[t].items[p], new[t].items[p],
                           Matching(l, t, p))
  <2>1. \A u \in Kept(old, new), q \in Paths : Path(old, new, u, q) \subseteq T
    OBVIOUS
  <2> HIDE DEF T
  <2>2. /\ Path(old, new, t, p) = {} => Matching(l, t, p) = <<>>
        /\ \A x : Path(old, new, t, p) = {x} => Matching(l, t, p) = <<x>>
    <3>1. \A u \in Kept(old, new), q \in Paths :
            /\ Path(old, new, u, q) = {} => Matching(Records(old, new, o), u, q) = <<>>
            /\ \A x : Path(old, new, u, q) = {x} => Matching(Records(old, new, o), u, q) = <<x>>
      BY <2>1, RecordsMatch, Zenon
    <3>2. QED BY <3>1
  <2> DEFINE m == new[t].metric
  <2> DEFINE b == old[t].items[p]
  <2> DEFINE c == new[t].items[p]
  <2> DEFINE k == old[t].metric
  <2> DEFINE same == t \notin Migrated(old, new)
  <2>3. k \in Plain /\ m \in Plain /\ b \in ItemsOf(k) /\ c \in ItemsOf(m)
        /\ same \in BOOLEAN /\ (same <=> (k = m))
    BY PlainPath
  <2>4. Path(old, new, t, p) = Worse(same, m, b, c)
    BY DEF Path
  <2> HIDE DEF m, b, c, k, same, l
  <2>5. /\ Worse(same, m, b, c) = {} \/ \E x : Worse(same, m, b, c) = {x}
        /\ \A x : Worse(same, m, b, c) = {x} => ItemAccounted(same, m, b, c, <<x>>)
        /\ Worse(same, m, b, c) = {} => ItemAccounted(same, m, b, c, <<>>)
    <3>1. Worse(same, m, b, c) = {} \/ \E x : Worse(same, m, b, c) = {x}
      BY <2>4, PathSmall
    <3>2. \A x : Worse(same, m, b, c) = {x} => ItemAccounted(same, m, b, c, <<x>>)
      BY <2>3, WorseAccounted
    <3>3. Worse(same, m, b, c) = {} => ItemAccounted(same, m, b, c, <<>>)
      BY <2>3, WorseAccounted
    <3>4. QED BY <3>1, <3>2, <3>3
  <2>6. ItemAccounted(same, m, b, c, Matching(l, t, p))
    BY <2>2, <2>3, <2>4, <2>5
  <2>7. QED BY <2>6 DEF m, b, c, same
<1>2. /\ l = d \o other
      /\ Shrinks(old, new, o) \cup Moves(old, new, o) \subseteq Range(other)
      /\ o.retire # "none" => Retirement(o.retire) \in Range(other)
  BY RecordsSplit
<1>3. Range(d) \subseteq Range(l) /\ Range(other) \subseteq Range(l)
  <2>1. PICK S : other \in Seq(S)
    BY RecordsSplit
  <2>2. d \in Seq({DebtEntry(old, new, o)})
    <3>1. \A x : <<x>> \in Seq({x}) /\ <<>> \in Seq({x})
      OBVIOUS
    <3>2. QED BY <3>1 DEF DebtPart
  <2> DEFINE U == S \cup {DebtEntry(old, new, o)}
  <2> HIDE DEF d, other, l
  <2>3. d \in Seq(U) /\ other \in Seq(U)
    BY <2>1, <2>2, SeqMonotonic
  <2>4. QED BY <1>2, <2>3, RangeOfConcat
<1>4. o.worse /\ (Regressions(old, new) # {} \/ Orphans(old, new, o) # {}) => DebtEntry(old, new, o) \in Range(d)
  <2>1. \A x : x \in Range(<<x>>)
    BY DEF Range
  <2>2. QED BY <2>1 DEF DebtPart
<1> HIDE DEF l, d, other
<1>5. ASSUME NEW t \in Migrated(old, new)
      PROVE  MigrationAccounted(t, old[t].metric, new[t].metric, l)
  <2>1. MetricMigration(t, old[t].metric, new[t].metric, o.reason) \in Range(l)
    BY <1>2, <1>3 DEF Moves
  <2>2. QED BY <2>1 DEF MetricMigration, MigrationAccounted
<1>6. ASSUME NEW t \in Kept(old, new)
      PROVE  ShrinkAccounted(t, RemovedPaths(old, new, t), l)
  <2>1. CASE RemovedPaths(old, new, t) = {}
    BY <2>1 DEF ShrinkAccounted
  <2>2. CASE RemovedPaths(old, new, t) # {}
    <3> DEFINE e == CoverageShrink(t, RemovedPaths(old, new, t), o.reason)
    <3>1. t \in Shrunk(old, new) /\ o.worse
      BY <2>2 DEF Shrunk, Allowed
    <3>2. e \in Range(l)
      BY <1>2, <1>3, <3>1 DEF Shrinks
    <3>3. e.kind = "coverage-shrink" /\ e.ratchet = t /\ e.removed = RemovedPaths(old, new, t)
      BY DEF CoverageShrink
    <3> HIDE DEF e
    <3>4. QED BY <3>2, <3>3 DEF ShrinkAccounted
  <2>3. QED BY <2>1, <2>2
<1>7. ASSUME NEW t \in Missing(old, new)
      PROVE  MissingAccounted(t, old[t], l)
  <2>1. CASE t = o.retire
    <3>1. o.retire # "none"
      BY <2>1, MergeAssumption DEF Missing
    <3>2. Retirement(t) \in Range(l) /\ \A p \in Paths : old[t].items[p] = NoItem
      BY <1>2, <1>3, <2>1, <3>1 DEF Allowed, MayRetire
    <3>3. Retirement(t).kind = "retirement" /\ Retirement(t).ratchet = t
      BY DEF Retirement
    <3>4. QED BY <3>2, <3>3 DEF MissingAccounted
  <2>2. CASE t # o.retire
    <3>1. t \in Orphans(old, new, o)
      BY <2>2 DEF Orphans
    <3>2. o.worse
      BY <3>1, <1>0 DEF Allowed
    <3> DEFINE e == DebtEntry(old, new, o)
    <3> DEFINE x == [test |-> t, snapshot |-> old[t]]
    <3>3. e \in Range(l)
      BY <1>3, <1>4, <3>1, <3>2
    <3>4. e.kind = "accepted-debt" /\ e.orphans = Dropped(old, new, o)
      BY DebtNeat
    <3>5. x \in Dropped(old, new, o) /\ x.test = t /\ x.snapshot = old[t]
      BY <3>1 DEF Dropped
    <3> HIDE DEF e, x
    <3>6. QED BY <3>3, <3>4, <3>5 DEF MissingAccounted
  <2>3. QED BY <2>1, <2>2
<1>8. QED BY <1>1, <1>5, <1>6, <1>7 DEF Unaccounted, l

LEMMA GeneratedPlain ==
  ASSUME "complexity-severity" \notin UsedMetrics
  PROVE  Generated \subseteq PlainDocs
<1> DEFINE Group(m, sc, i) == [ metric |-> m, scope |-> sc,
                                items  |-> [p \in Paths |-> IF p \in sc THEN i[p] ELSE NoItem] ]
<1> DEFINE Of(m, sc) == {Group(m, sc, i) : i \in [sc -> Collected(m)]}
<1>1. UsedMetrics \subseteq Plain
  BY UpdateAssumption DEF Metrics, Plain
<1>2. ASSUME NEW m \in UsedMetrics, NEW sc \in Scopes, NEW g \in Of(m, sc)
      PROVE  g.metric \in Plain
  BY <1>1
<1>3. Generated = [Tests -> {Gone} \cup UNION {Of(m, sc) : m \in UsedMetrics, sc \in Scopes}]
  BY DEF Generated
<1> HIDE DEF Of
<1>4. ASSUME NEW b \in Generated, NEW t \in Tests, b[t] # Gone
      PROVE  b[t].metric \in Plain
  <2>1. b[t] \in UNION {Of(m, sc) : m \in UsedMetrics, sc \in Scopes}
    BY <1>3, <1>4
  <2>2. PICK m \in UsedMetrics, sc \in Scopes : b[t] \in Of(m, sc)
    BY <2>1
  <2>3. QED BY <1>2, <2>2
<1>5. QED BY <1>4, GeneratedTyped DEF PlainDocs

(* Nothing is reported of an update exactly when nothing needs a record.      *)
LEMMA NothingToExplain ==
  ASSUME NEW old \in PlainDocs, NEW new \in PlainDocs
  PROVE  Unaccounted(old, new, <<>>) = {} <=>
           /\ Regressions(old, new) = {} /\ Missing(old, new) = {}
           /\ Shrunk(old, new) = {} /\ Migrated(old, new) = {}
<1>1. Range(<<>>) = {} /\ \A T : AllNeat(T, <<>>)
  BY DEF Range, AllNeat
<1>2. \A t, p : Matching(<<>>, t, p) = <<>>
  BY <1>1, MatchingNone
<1>3. ASSUME NEW t \in Kept(old, new), NEW p \in Paths
      PROVE  ItemAccounted(t \notin Migrated(old, new), new[t].metric, old[t].items[p], new[t].items[p],
                           Matching(<<>>, t, p))
               <=> Path(old, new, t, p) = {}
  <2> DEFINE m == new[t].metric
  <2> DEFINE b == old[t].items[p]
  <2> DEFINE c == new[t].items[p]
  <2> DEFINE k == old[t].metric
  <2> DEFINE same == t \notin Migrated(old, new)
  <2>1. k \in Plain /\ m \in Plain /\ b \in ItemsOf(k) /\ c \in ItemsOf(m)
        /\ same \in BOOLEAN /\ (same <=> (k = m))
    BY PlainPath
  <2>2. Path(old, new, t, p) = Worse(same, m, b, c)
    BY DEF Path
  <2> HIDE DEF m, b, c, k, same
  <2>3. ItemAccounted(same, m, b, c, <<>>) <=> Worse(same, m, b, c) = {}
    BY <2>1, WorseAccounted
  <2>4. ItemAccounted(same, m, b, c, Matching(<<>>, t, p)) <=> Path(old, new, t, p) = {}
    BY <1>2, <2>2, <2>3
  <2>5. QED BY <2>4 DEF m, b, c, same
<1>4. Regressions(old, new) = {} <=> \A t \in Kept(old, new), p \in Paths : Path(old, new, t, p) = {}
  <2> DEFINE e == [regressions |-> Regressions(old, new)]
  <2>0. e.regressions = Regressions(old, new)
    OBVIOUS
  <2> HIDE DEF e
  <2>1. \A t \in Kept(old, new), p \in Paths : Seen(e, t, p) = Path(old, new, t, p)
    BY <2>0, ReportedOf
  <2>2. Regressions(old, new) = {} => \A t, p : Seen(e, t, p) = {}
    BY <2>0 DEF Seen
  <2>3. ASSUME NEW x \in Regressions(old, new)
        PROVE  \E t \in Kept(old, new), p \in Paths : x.change \in Seen(e, t, p)
    <3>1. PICK t \in Kept(old, new), p \in Paths :
            \E r \in {y \in Regression(new[t].metric, old[t].items[p], new[t].items[p]) :
                        t \in Migrated(old, new) => y.reason \in CountComparable} :
              x = [test |-> t, path |-> p, change |-> r]
      BY DEF Regressions
    <3>2. x.test = t /\ x.path = p
      BY <3>1
    <3>3. QED BY <2>0, <3>2 DEF Seen
  <2>4. QED BY <2>1, <2>2, <2>3
<1>5. \A t : ~MigrationAccounted(t, old[t].metric, new[t].metric, <<>>) /\ ~MissingAccounted(t, old[t], <<>>)
  BY <1>1 DEF MigrationAccounted, MissingAccounted
<1>6. \A t : ShrinkAccounted(t, RemovedPaths(old, new, t), <<>>) <=> RemovedPaths(old, new, t) = {}
  BY <1>1 DEF ShrinkAccounted
<1>7. Migrated(old, new) \subseteq Kept(old, new)
  BY DEF Migrated
<1>8. Unaccounted(old, new, <<>>) =
        {t \in Kept(old, new) :
           \/ \E p \in Paths : Path(old, new, t, p) # {}
           \/ t \in Migrated(old, new)
           \/ RemovedPaths(old, new, t) # {}}
        \cup Missing(old, new)
  BY <1>3, <1>5, <1>6 DEF Unaccounted
<1>9. Shrunk(old, new) = {} <=> \A t \in Kept(old, new) : RemovedPaths(old, new, t) = {}
  BY DEF Shrunk
<1>10. QED BY <1>4, <1>7, <1>8, <1>9

(* What the accounting takes for the explanation of a regression is a record   *)
(* of where that regression ends.                                               *)
LEMMA AccountedEnds ==
  ASSUME NEW k \in Plain, NEW m \in Plain, NEW b \in ItemsOf(k), NEW c \in ItemsOf(m),
         NEW same \in BOOLEAN, same <=> (k = m),
         NEW T, \A r \in T : r.reason \in CountComparable => r.isLevel = 0,
         NEW rs \in Seq(T), ItemAccounted(same, m, b, c, rs), NEW x \in Worse(same, m, b, c)
  PROVE  \E r \in Range(rs) : r.isCount = x.isCount /\ r.isLevel = x.isLevel
<1>1. b.count \in Nat /\ b.level \in Nat /\ c.count \in Nat /\ c.level \in Nat
  BY PlainShape
<1>2. \A r, u, v : LET d == Change(r, b, c, u, v)
                   IN  d.isCount = c.count /\ d.isLevel = v
  BY DEF Change
<1>3. Range(rs) \subseteq T
  BY RangeOfSeq
<1>4. c # NoItem
  BY WorseIs
<1>5. CASE b = NoItem
  <2>1. x = Change("new-path", b, c, 0, 0)
    BY <1>4, <1>5, WorseIs
  <2>2. CountChain(0, TRUE, rs) = [count |-> c.count, new |-> FALSE]
    BY <1>4, <1>5 DEF ItemAccounted
  <2>3. [count |-> c.count, new |-> FALSE] # [count |-> 0, new |-> TRUE]
    <3>1. \A y, z : y = z => y.new = z.new
      OBVIOUS
    <3>2. QED OBVIOUS
  <2>4. PICK r \in Range(rs) : r.reason \in CountComparable /\ [count |-> c.count, new |-> FALSE] = [count |-> r.isCount, new |-> FALSE]
    BY <2>2, <2>3, CountEnds
  <2>5. r.isCount = c.count /\ r.isLevel = 0
    BY <1>3, <2>4
  <2>6. QED BY <1>2, <2>1, <2>5
<1>6. CASE b # NoItem /\ same /\ LevelIncreased(b, c)
  <2>1. m = "effective-line-count" /\ x = Change("increased-lines", b, c, b.level, c.level)
    <3>1. m = "effective-line-count" /\ Worse(same, m, b, c) = {Change("increased-lines", b, c, b.level, c.level)}
      BY <1>4, <1>6, WorseIs
    <3>2. QED BY <3>1
  <2>2. LevelChain(b.level, "increased-lines", rs) = [level |-> c.level, count |-> c.count]
    BY <1>4, <1>6, <2>1 DEF ItemAccounted
  <2>3. [level |-> c.level, count |-> c.count] # [level |-> b.level, count |-> -1]
    BY <1>1
  <2>4. PICK r \in Range(rs) : [level |-> c.level, count |-> c.count] = [level |-> r.isLevel, count |-> r.isCount]
    <3> DEFINE ch == LevelChain(b.level, "increased-lines", rs)
    <3>1. \/ ch = [level |-> b.level, count |-> -1]
          \/ \E r \in Range(rs) : r.reason = "increased-lines" /\ ch = [level |-> r.isLevel, count |-> r.isCount]
      BY SMTT(30), LevelEnds
    <3>2. ch = [level |-> c.level, count |-> c.count]
      BY <2>2
    <3> HIDE DEF ch
    <3>3. QED BY <2>3, <3>1, <3>2
  <2>5. r.isCount = c.count /\ r.isLevel = c.level
    BY <2>4
  <2>6. QED BY <1>2, <2>1, <2>5
<1>7. CASE b # NoItem /\ ~(same /\ LevelIncreased(b, c))
  <2>1. c.count > b.count /\ x = Change("increased-count", b, c, 0, 0)
    BY <1>4, <1>7, WorseIs
  <2> DEFINE ch == CountChain(b.count, FALSE, rs)
  <2>2. ch.count = c.count
    BY <1>4, <1>7, <2>1 DEF ItemAccounted
  <2>3. \/ ch = [count |-> b.count, new |-> FALSE]
        \/ \E r \in Range(rs) : r.reason \in CountComparable /\ ch = [count |-> r.isCount, new |-> FALSE]
    BY CountEnds
  <2> HIDE DEF ch
  <2>4. ch # [count |-> b.count, new |-> FALSE]
    BY <1>1, <2>1, <2>2
  <2>5. PICK r \in Range(rs) : r.reason \in CountComparable /\ ch = [count |-> r.isCount, new |-> FALSE]
    BY <2>3, <2>4
  <2>6. r.isCount = c.count /\ r.isLevel = 0
    BY <1>3, <2>2, <2>5
  <2>7. QED BY <1>2, <2>1, <2>6
<1>8. QED BY <1>5, <1>6, <1>7

LEMMA MergePlain ==
  ASSUME NEW b \in PlainDocs, NEW c \in PlainDocs, NEW o \in PlainDocs
  PROVE  MergeBaselines(b, c, o).baseline \in PlainDocs
<1>1. MergeBaselines(b, c, o).baseline \in Baselines
  BY MergeTyped DEF PlainDocs
<1>2. ASSUME NEW t \in Tests
      PROVE  LET g == MergeBaselines(b, c, o).baseline[t] IN g # Gone => g.metric \in Plain
  <2> DEFINE g == MergeGroup(b[t], c[t], o[t]).group
  <2>1. MergeBaselines(b, c, o).baseline[t] = g
    BY DEF MergeBaselines
  <2>2. c[t] # Gone => c[t].metric \in Plain
    BY DEF PlainDocs
  <2>3. o[t] # Gone => o[t].metric \in Plain
    BY DEF PlainDocs
  <2>4. \A i : c[t] # Gone => [c[t] EXCEPT !.items = i].metric = c[t].metric
    <3>1. c[t] # Gone => c[t] = [metric |-> c[t].metric, scope |-> c[t].scope, items |-> c[t].items]
      BY GroupShape DEF PlainDocs
    <3>2. QED BY <3>1
  <2>5. g # Gone => g.metric \in Plain
    BY <2>2, <2>3, <2>4 DEF MergeGroup
  <2>6. QED BY <2>1, <2>5
<1>3. QED BY <1>1, <1>2 DEF PlainDocs

-----------------------------------------------------------------------------
(* Merging main into the branch                                              *)

(* A file has one finding of its length at most.                              *)
Once(b) ==
  \A t \in Tests, p \in Paths : b[t].metric = "effective-line-count" => b[t].items[p].count <= 1

LEMMA GeneratedOnce ==
  ASSUME NEW b \in Generated
  PROVE  Once(b)
<1> DEFINE Group(m, sc, i) == [ metric |-> m, scope |-> sc,
                                items  |-> [p \in Paths |-> IF p \in sc THEN i[p] ELSE NoItem] ]
<1> DEFINE Of(m, sc) == {Group(m, sc, i) : i \in [sc -> Collected(m)]}
<1>1. ASSUME NEW m \in UsedMetrics, NEW sc \in Scopes, NEW g \in Of(m, sc), NEW p \in Paths,
             g.metric = "effective-line-count"
      PROVE  g.items[p].count <= 1
  <2>1. PICK i \in [sc -> Collected(m)] : g = Group(m, sc, i)
    OBVIOUS
  <2>2. m = "effective-line-count" /\ g.items[p] = IF p \in sc THEN i[p] ELSE NoItem
    BY <1>1, <2>1
  <2>3. p \in sc => i[p].count <= 1
    BY <2>2 DEF Collected
  <2>4. NoItem.count <= 1
    BY DEF NoItem, Item
  <2>5. QED BY <2>2, <2>3, <2>4
<1>2. Generated = [Tests -> {Gone} \cup UNION {Of(m, sc) : m \in UsedMetrics, sc \in Scopes}]
  BY DEF Generated
<1> HIDE DEF Of
<1>3. ASSUME NEW t \in Tests, NEW p \in Paths, b[t].metric = "effective-line-count"
      PROVE  b[t].items[p].count <= 1
  <2>1. b[t] # Gone
    BY <1>3 DEF Gone
  <2>2. b[t] \in UNION {Of(m, sc) : m \in UsedMetrics, sc \in Scopes}
    BY <1>2, <2>1
  <2>3. PICK m \in UsedMetrics, sc \in Scopes : b[t] \in Of(m, sc)
    BY <2>2
  <2>4. QED BY <1>1, <1>3, <2>3
<1>4. QED BY <1>3 DEF Once

(* The item that is kept of a path, where both sides changed the ratchet.     *)
LEMMA ResolvedCount ==
  ASSUME NEW m \in Plain, NEW b, NEW c \in ItemsOf(m), NEW o \in ItemsOf(m)
  PROVE  LET r == ResolveKey(m, b, c, o)
         IN  /\ ~r.failed
             /\ r.item.count \in {0, c.count, o.count}
<1>1. c.count \in Nat /\ c.level \in Nat /\ o.count \in Nat /\ o.level \in Nat
  BY PlainShape
<1>2. NoItem.count = 0
  BY DEF NoItem, Item
<1>3. c = [count |-> c.count, level |-> c.level, fns |-> c.fns, print |-> c.print]
  BY ItemsAssumption DEF Plain, ItemsOf, Counted, Measured, NoItem, Item
<1>4. \A x : [c EXCEPT !.print = x].count = c.count /\ [c EXCEPT !.level = x].count = c.count
  BY <1>3
<1>5. /\ ~MergeShared(m, c, o).failed
      /\ MergeShared(m, c, o).item.count \in {c.count, o.count}
  BY <1>4 DEF MergeShared, MeetSameCount, Lower, Outcome, Plain
<1>6. \A x : ~MergeOneSided(x, b).failed /\ MergeOneSided(x, b).item.count \in {0, x.count}
  BY <1>2 DEF MergeOneSided, Outcome
<1>7. ~Outcome(NoItem, FALSE, FALSE).failed /\ Outcome(NoItem, FALSE, FALSE).item.count = 0
  BY <1>2 DEF Outcome
<1>8. ResolveKey(m, b, c, o) \in {MergeShared(m, c, o), MergeOneSided(c, b), MergeOneSided(o, b), Outcome(NoItem, FALSE, FALSE)}
  BY DEF ResolveKey
<1>9. QED BY <1>5, <1>6, <1>7, <1>8

(* How a ratchet that is there after a merge came about.                      *)
LEMMA MergedGroup ==
  ASSUME NEW b \in PlainDocs, NEW c \in PlainDocs, NEW o \in PlainDocs,
         ~MergeBaselines(b, c, o).failed, NEW t \in Tests
  PROVE  LET g == MergeBaselines(b, c, o).baseline[t]
         IN  \/ g = o[t]
             \/ g = c[t] /\ o[t] = b[t]
             \/ /\ c[t] # Gone /\ o[t] # Gone /\ g # Gone
                /\ g.metric = c[t].metric /\ g.metric = o[t].metric /\ g.scope = o[t].scope
                /\ \A p \in Paths :
                     g.items[p] = ResolveKey(g.metric, b[t].items[p], c[t].items[p], o[t].items[p]).item
<1> DEFINE r == MergeGroup(b[t], c[t], o[t])
<1> DEFINE g == r.group
<1>1. MergeBaselines(b, c, o).baseline[t] = g /\ ~r.failed
  BY DEF MergeBaselines
<1>2. CASE c[t] = o[t]
  BY <1>1, <1>2 DEF MergeGroup
<1>3. CASE c[t] # o[t] /\ o[t] = b[t]
  BY <1>1, <1>3 DEF MergeGroup
<1>4. CASE c[t] # o[t] /\ o[t] # b[t] /\ c[t] = b[t]
  BY <1>1, <1>4 DEF MergeGroup
<1>5. CASE c[t] # o[t] /\ o[t] # b[t] /\ c[t] # b[t]
  <2> DEFINE its == MergeItems(c[t].metric, b[t].items, c[t].items, o[t].items)
  <2>1. c[t] # Gone /\ o[t] # Gone /\ SameMeta(c[t], o[t])
    BY <1>1, <1>5 DEF MergeGroup
  <2>2. r = [group |-> [c[t] EXCEPT !.items = its.items], failed |-> its.failed,
             truthUp |-> ~its.failed /\ its.truthUp]
    BY <1>5, <2>1 DEF MergeGroup
  <2>3. /\ c[t] = [metric |-> c[t].metric, scope |-> c[t].scope, items |-> c[t].items]
        /\ c[t].metric \in Metrics
    BY <2>1, GroupShape DEF PlainDocs
  <2>4. g.metric = c[t].metric /\ g.scope = c[t].scope /\ g.items = its.items /\ ~its.failed
    BY <1>1, <2>2, <2>3
  <2>5. \A p \in Paths :
          its.items[p] = ResolveKey(c[t].metric, b[t].items[p], c[t].items[p], o[t].items[p]).item
    BY <2>4 DEF MergeItems
  <2>6. Gone.metric = "none" /\ "none" \notin Metrics
    BY DEF Gone, Metrics
  <2> HIDE DEF its, r
  <2>7. g # Gone
    BY <2>3, <2>4, <2>6
  <2>8. QED BY <1>1, <2>1, <2>4, <2>5, <2>7 DEF SameMeta
<1>6. QED BY <1>2, <1>3, <1>4, <1>5

LEMMA MergeOnce ==
  ASSUME NEW b \in PlainDocs, NEW c \in PlainDocs, NEW o \in PlainDocs, Once(c), Once(o),
         ~MergeBaselines(b, c, o).failed
  PROVE  Once(MergeBaselines(b, c, o).baseline)
<1> SUFFICES ASSUME NEW t \in Tests, NEW p \in Paths,
                    MergeBaselines(b, c, o).baseline[t].metric = "effective-line-count"
             PROVE  MergeBaselines(b, c, o).baseline[t].items[p].count <= 1
  BY DEF Once
<1> DEFINE g == MergeBaselines(b, c, o).baseline[t]
<1>1. CASE g = o[t] \/ g = c[t]
  BY <1>1 DEF Once
<1>2. CASE ~(g = o[t] \/ g = c[t])
  <2>1. /\ c[t] # Gone /\ o[t] # Gone /\ g.metric = c[t].metric /\ g.metric = o[t].metric
        /\ g.items[p] = ResolveKey(g.metric, b[t].items[p], c[t].items[p], o[t].items[p]).item
    BY <1>2, MergedGroup
  <2>2. c[t].items[p] \in ItemsOf(g.metric) /\ o[t].items[p] \in ItemsOf(g.metric) /\ g.metric \in Plain
    BY <2>1, GroupShape DEF PlainDocs
  <2>3. g.items[p].count \in {0, c[t].items[p].count, o[t].items[p].count}
    BY <2>1, <2>2, ResolvedCount
  <2>4. c[t].items[p].count <= 1 /\ o[t].items[p].count <= 1
    BY <2>1 DEF Once
  <2>5. QED BY <2>3, <2>4
<1>3. QED BY <1>1, <1>2

(* No floor of theirs is raised by a merge with ours, which raised none.       *)
LEMMA ResolvedNoWorse ==
  ASSUME NEW m \in Plain, NEW b \in ItemsOf(m), NEW c \in ItemsOf(m), NEW o \in ItemsOf(m),
         m = "effective-line-count" => c.count <= 1 /\ o.count <= 1,
         Regression(m, b, c) = {}
  PROVE  Regression(m, o, ResolveKey(m, b, c, o).item) = {}
<1>1. /\ c.count \in Nat /\ c.level \in Nat /\ o.count \in Nat /\ o.level \in Nat /\ b.count \in Nat
      /\ (c = NoItem <=> c.count = 0) /\ (o = NoItem <=> o.count = 0) /\ (b = NoItem <=> b.count = 0)
      /\ (m = "message-count" => c.level = 0 /\ o.level = 0)
  BY PlainShape
<1>2. c = [count |-> c.count, level |-> c.level, fns |-> c.fns, print |-> c.print]
  BY ItemsAssumption DEF Plain, ItemsOf, Counted, Measured, NoItem, Item
<1>3. ASSUME NEW i, i.count \in Nat, i.level \in Nat, i.count <= o.count, i.level <= o.level
      PROVE  Regression(m, o, i) = {}
  <2>1. LevelRegression(m, o, i) = {}
    BY <1>1, <1>3 DEF LevelRegression, Plain
  <2>2. CountRegression(o, i) = {}
    BY <1>1, <1>3 DEF CountRegression
  <2>3. QED BY <2>1, <2>2 DEF Regression
<1>4. NoItem.count = 0 /\ NoItem.level = 0
  BY DEF NoItem, Item
<1>5. CASE c # NoItem /\ o # NoItem
  <2>1. ResolveKey(m, b, c, o) = MergeShared(m, c, o)
    BY <1>5 DEF ResolveKey
  <2>2. CASE c.count # o.count
    <3>1. m = "message-count"
      BY <1>1, <1>5, <2>2 DEF Plain
    <3>2. MergeShared(m, c, o).item = Lower(c, o)
      BY <2>2 DEF MergeShared, Outcome
    <3>3. Lower(c, o).count <= o.count /\ Lower(c, o).level = 0 /\ Lower(c, o).count \in Nat
      BY <1>1, <3>1 DEF Lower
    <3>4. QED BY <1>1, <1>3, <2>1, <3>1, <3>2, <3>3
  <2>3. CASE c.count = o.count /\ m = "message-count"
    <3> DEFINE i == [c EXCEPT !.print = Smaller(c.print, o.print)]
    <3>1. MergeShared(m, c, o).item = i
      BY <2>3 DEF MergeShared, MeetSameCount, Outcome
    <3>2. i.count = c.count /\ i.level = c.level
      BY <1>2
    <3> HIDE DEF i
    <3>3. i.count <= o.count /\ i.level <= o.level
      BY <1>1, <2>3, <3>2
    <3>4. QED BY <1>1, <1>3, <2>1, <2>3, <3>1, <3>2, <3>3
  <2>4. CASE c.count = o.count /\ m = "effective-line-count"
    <3> DEFINE i == [c EXCEPT !.level = Smaller(c.level, o.level)]
    <3>1. MergeShared(m, c, o).item = i
      BY <2>4 DEF MergeShared, MeetSameCount, Outcome
    <3>2. i.count = c.count /\ i.level = Smaller(c.level, o.level)
      BY <1>2
    <3> HIDE DEF i
    <3>3. Smaller(c.level, o.level) \in Nat /\ Smaller(c.level, o.level) <= o.level
      BY <1>1 DEF Smaller
    <3>4. QED BY <1>1, <1>3, <2>1, <2>4, <3>1, <3>2, <3>3
  <2>5. QED BY <2>2, <2>3, <2>4 DEF Plain
<1>6. CASE c # NoItem /\ o = NoItem
  <2>1. b # NoItem
    <3>1. CountRegression(b, c) = {}
      BY DEF Regression
    <3>2. c.count <= b.count
      BY <3>1 DEF CountRegression
    <3>3. QED BY <1>1, <1>6, <3>2
  <2>2. ResolveKey(m, b, c, o).item = NoItem
    BY <1>6, <2>1 DEF ResolveKey, MergeOneSided, Outcome
  <2>3. QED BY <1>1, <1>3, <1>4, <2>2
<1>7. CASE c = NoItem
  <2>1. ResolveKey(m, b, c, o).item \in {NoItem, o}
    BY <1>7 DEF ResolveKey, MergeOneSided, Outcome
  <2>2. QED BY <1>1, <1>3, <1>4, <2>1
<1>8. QED BY <1>5, <1>6, <1>7

(* A merge of main into a branch without debt has no debt over main.           *)
LEMMA MergeNoDebt ==
  ASSUME NEW b \in PlainDocs, NEW c \in PlainDocs, NEW o \in PlainDocs, Once(c), Once(o),
         ~MergeBaselines(b, c, o).failed,
         \A t \in Tests : ~(b[t] = Gone /\ c[t] # Gone /\ o[t] # Gone),
         Unaccounted(b, c, <<>>) = {}
  PROVE  Unaccounted(o, MergeBaselines(b, c, o).baseline, <<>>) = {}
<1> DEFINE d == MergeBaselines(b, c, o).baseline
<1>1. d \in PlainDocs
  BY MergePlain
<1>2. /\ Regressions(b, c) = {} /\ Missing(b, c) = {}
      /\ Shrunk(b, c) = {} /\ Migrated(b, c) = {}
  BY NothingToExplain
<1>3. ASSUME NEW t \in Kept(b, c)
      PROVE  /\ b[t].metric = c[t].metric
             /\ RemovedPaths(b, c, t) = {}
             /\ \A p \in Paths : Path(b, c, t, p) = {}
  <2> DEFINE e == [regressions |-> Regressions(b, c)]
  <2>0. e.regressions = Regressions(b, c)
    OBVIOUS
  <2> HIDE DEF e
  <2>1. \A p \in Paths : Seen(e, t, p) = Path(b, c, t, p)
    BY <2>0, ReportedOf
  <2>2. \A p : Seen(e, t, p) = {}
    BY <1>2, <2>0 DEF Seen
  <2>3. QED BY <1>2, <2>1, <2>2 DEF Migrated, Shrunk
<1> HIDE DEF d
<1>4. ASSUME NEW t \in Tests
      PROVE  \/ d[t] = o[t]
             \/ d[t] = c[t] /\ o[t] = b[t]
             \/ /\ c[t] # Gone /\ o[t] # Gone /\ d[t] # Gone
                /\ d[t].metric = c[t].metric /\ d[t].metric = o[t].metric /\ d[t].scope = o[t].scope
                /\ \A p \in Paths :
                     d[t].items[p] = ResolveKey(d[t].metric, b[t].items[p], c[t].items[p], o[t].items[p]).item
  BY MergedGroup DEF d
<1>5. Missing(o, d) = {}
  <2> SUFFICES ASSUME NEW t \in Tests, o[t] # Gone, d[t] = Gone
               PROVE  FALSE
    BY DEF Missing
  <2>1. d[t] = c[t] /\ o[t] = b[t]
    BY <1>4
  <2>2. t \in Missing(b, c)
    BY <2>1 DEF Missing
  <2>3. QED BY <1>2, <2>2
<1>6. ASSUME NEW t \in Kept(o, d)
      PROVE  /\ o[t].metric = d[t].metric
             /\ RemovedPaths(o, d, t) = {}
             /\ \A p \in Paths : Regression(d[t].metric, o[t].items[p], d[t].items[p]) = {}
  <2>1. t \in Tests /\ o[t] # Gone /\ d[t] # Gone
    BY DEF Kept
  <2>2. CASE d[t] = o[t]
    <3>1. \A p \in Paths : o[t].items[p] \in ItemsOf(o[t].metric) /\ o[t].metric \in Metrics
      BY ZenonT(60), <2>1, GroupShape DEF PlainDocs
    <3>2. \A p \in Paths : Regression(o[t].metric, o[t].items[p], o[t].items[p]) = {}
      BY <3>1, ItemShape, NoRegressionFromItself
    <3>3. QED BY <2>2, <3>2 DEF RemovedPaths
  <2>3. CASE d[t] = c[t] /\ o[t] = b[t]
    <3>1. t \in Kept(b, c)
      BY <2>1, <2>3 DEF Kept
    <3>2. \A p \in Paths : Path(b, c, t, p) = Regression(c[t].metric, b[t].items[p], c[t].items[p])
      BY <1>2 DEF Path, Worse
    <3>3. QED BY <1>3, <2>3, <3>1, <3>2 DEF RemovedPaths
  <2>4. CASE ~(d[t] = o[t]) /\ ~(d[t] = c[t] /\ o[t] = b[t])
    <3> DEFINE m == d[t].metric
    <3>1. /\ c[t] # Gone /\ m = c[t].metric /\ m = o[t].metric /\ d[t].scope = o[t].scope
          /\ \A p \in Paths : d[t].items[p] = ResolveKey(m, b[t].items[p], c[t].items[p], o[t].items[p]).item
      BY <1>4, <2>1, <2>4
    <3>2. t \in Kept(b, c)
      BY <2>1, <3>1 DEF Kept
    <3>3. m = b[t].metric /\ b[t] # Gone
      BY <1>3, <3>1, <3>2 DEF Kept
    <3>4. m \in Plain
      BY <1>1, <2>1 DEF PlainDocs
    <3> HIDE DEF m
    <3>5. \A p \in Paths : /\ b[t].items[p] \in ItemsOf(m) /\ c[t].items[p] \in ItemsOf(m)
                           /\ o[t].items[p] \in ItemsOf(m)
      BY <2>1, <3>1, <3>3, GroupShape DEF PlainDocs
    <3>6. \A p \in Paths : Regression(m, b[t].items[p], c[t].items[p]) = {}
      <4>1. \A p \in Paths : Path(b, c, t, p) = Regression(c[t].metric, b[t].items[p], c[t].items[p])
        BY <1>2 DEF Path, Worse
      <4>2. QED BY <1>3, <3>1, <3>2, <4>1
    <3>7. \A p \in Paths : m = "effective-line-count" => c[t].items[p].count <= 1 /\ o[t].items[p].count <= 1
      BY <2>1, <3>1 DEF Once
    <3>8. \A p \in Paths : Regression(m, o[t].items[p], d[t].items[p]) = {}
      <4> SUFFICES ASSUME NEW p \in Paths PROVE Regression(m, o[t].items[p], d[t].items[p]) = {}
        OBVIOUS
      <4> DEFINE x == b[t].items[p]
      <4> DEFINE y == c[t].items[p]
      <4> DEFINE z == o[t].items[p]
      <4>1. x \in ItemsOf(m) /\ y \in ItemsOf(m) /\ z \in ItemsOf(m) /\ Regression(m, x, y) = {}
            /\ (m = "effective-line-count" => y.count <= 1 /\ z.count <= 1)
        BY <3>5, <3>6, <3>7
      <4>2. d[t].items[p] = ResolveKey(m, x, y, z).item
        BY <3>1
      <4> HIDE DEF x, y, z
      <4>3. Regression(m, z, ResolveKey(m, x, y, z).item) = {}
        BY <3>4, <4>1, ResolvedNoWorse
      <4>4. QED BY <4>2, <4>3 DEF z
    <3>9. QED BY <3>1, <3>8 DEF RemovedPaths, m
  <2>5. QED BY <1>4, <2>1, <2>2, <2>3, <2>4
<1>7. Migrated(o, d) = {} /\ Shrunk(o, d) = {}
  BY <1>6 DEF Migrated, Shrunk
<1>8. Regressions(o, d) = {}
  BY <1>6 DEF Regressions
<1>9. Unaccounted(o, d, <<>>) = {}
  BY <1>1, <1>5, <1>7, <1>8, NothingToExplain
<1>10. QED BY <1>9 DEF d
=============================================================================
