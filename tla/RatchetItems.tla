---------------------------- MODULE RatchetItems ----------------------------
(* What a lint-ratchet baseline records of one file, by the metric of the   *)
(* ratchet, and how the tool compares a recorded item with the file's       *)
(* current findings (metric-comparison.ts, metrics-complexity.ts).           *)
(* Text, hashes and rule ids are left out.  A finding is numbered; those on  *)
(* complexity know their place (line and label), which several may share.     *)
(* "level" is `lines` or `maxComplexity`; 0 stands for undefined.             *)
EXTENDS Integers, FiniteSets, FiniteSetsExt

CONSTANTS
  NumSites,  \* findings that a rule can have in a file
  Place,     \* of each finding: complexityIdentity
  MaxLevel,  \* largest line count or complexity
  MaxPrint   \* fingerprints of a file's messages, 0..MaxPrint

ASSUME ItemsAssumption ==
  /\ NumSites \in Nat \ {0} /\ MaxLevel \in Nat \ {0} /\ MaxPrint \in Nat
  /\ Place \in [1..NumSites -> 1..NumSites]

Sites == 1..NumSites

(* The complexities of a file, the higher first where functions share a place. *)
Severities ==
  {f \in [Sites -> 0..MaxLevel] :
     \A s, u \in Sites : Place[s] = Place[u] /\ s < u => f[s] >= f[u]}
Silent == [s \in Sites |-> 0]
Metrics == {"message-count", "effective-line-count", "complexity-severity"}

Item(n, v, f, p) == [count |-> n, level |-> v, fns |-> f, print |-> p]

(* A path without findings has no item.                                      *)
NoItem == Item(0, 0, Silent, 0)

Reports(f) == Cardinality({s \in Sites : f[s] > 0})
Peak(f) == Max({f[s] : s \in Sites})

(* The k-th highest complexity of a file (compareComplexityFunction).        *)
Nth(f, k) == Max({v \in 0..MaxLevel : Cardinality({s \in Sites : f[s] >= v}) >= k})

(* The items that validateMetricItem lets into a baseline.                   *)
Counted == {Item(n, 0, Silent, p) : n \in Sites, p \in 0..MaxPrint}
Measured == {Item(n, v, Silent, 0) : n \in Sites, v \in 1..MaxLevel}
Graded == {Item(Reports(f), Peak(f), f, 0) : f \in Severities \ {Silent}}

ItemsOf(metric) ==
  {NoItem} \cup ( IF metric = "message-count" THEN Counted
                  ELSE IF metric = "effective-line-count" THEN Measured ELSE Graded )

(* local/max-lines reports a file once.                                      *)
Collected(metric) ==
  {i \in ItemsOf(metric) : metric = "effective-line-count" => i.count <= 1}

(***************************************************************************)
(* complexityDelta: each current function against the highest one that the  *)
(* baseline has at its place first, then the sorted complexities position   *)
(* by position; a regression anywhere comes before any improvement.          *)
(***************************************************************************)
Moved(how, was, is) == IF how = "worse" THEN is > was ELSE is < was

(* uniqueComplexityMap; 0 when nothing was found at the place.                *)
Highest(f, s) == Max({f[u] : u \in {v \in Sites : Place[v] = Place[s]}})

ExactDelta(how, b, c) ==
  LET moved == {s \in Sites : /\ Highest(b.fns, s) > 0 /\ c.fns[s] > 0
                              /\ Moved(how, Highest(b.fns, s), c.fns[s])}
      first == CHOOSE s \in moved : \A u \in moved :
                 c.fns[s] > c.fns[u] \/ (c.fns[s] = c.fns[u] /\ Place[s] <= Place[u])
  IN  IF moved = {} THEN {} ELSE {<<Highest(b.fns, first), c.fns[first]>>}

VectorDelta(how, b, c) ==
  LET moved == {k \in Sites : /\ k <= b.count /\ k <= c.count
                              /\ Moved(how, Nth(b.fns, k), Nth(c.fns, k))}
  IN  {<<Nth(b.fns, k), Nth(c.fns, k)>> : k \in {j \in moved : \A l \in moved : j <= l}}

Delta(how, b, c) ==
  IF b.fns = Silent \/ c.fns = Silent THEN {}
  ELSE IF ExactDelta(how, b, c) # {} THEN ExactDelta(how, b, c) ELSE VectorDelta(how, b, c)

(***************************************************************************)
(* compareItem: the item b of the baseline against the item c of the tree. *)
(* A result is a set of at most one change; the level axis of a metric is   *)
(* looked at before the count when it got worse and after it when better.   *)
(***************************************************************************)
Change(reason, b, c, was, is) ==
  [reason |-> reason, wasCount |-> b.count, isCount |-> c.count, wasLevel |-> was, isLevel |-> is]

LevelRegression(metric, b, c) ==
  IF metric = "complexity-severity"
  THEN {Change("increased-complexity", b, c, d[1], d[2]) : d \in Delta("worse", b, c)}
  ELSE IF metric = "effective-line-count" /\ b.level > 0 /\ c.level > b.level
  THEN {Change("increased-lines", b, c, b.level, c.level)}
  ELSE {}

CountRegression(b, c) ==
  IF c.count <= b.count THEN {}
  ELSE {Change(IF b.count = 0 THEN "new-path" ELSE "increased-count", b, c, 0, 0)}

(* Mutant: a file that lost findings is not looked at any further.            *)
RegressionOfMore(metric, b, c) ==
  IF c.count < b.count THEN {} ELSE LevelRegression(metric, b, c) \cup CountRegression(b, c)
Regression(metric, b, c) ==
  LET level == LevelRegression(metric, b, c)
  IN  IF level # {} THEN level ELSE CountRegression(b, c)

LevelImprovement(metric, b, c) ==
  IF metric = "complexity-severity"
  THEN {Change("lower-complexity", b, c, d[1], d[2]) : d \in Delta("better", b, c)}
  ELSE IF metric = "effective-line-count" /\ b.level > 0 /\ c.level > 0 /\ c.level < b.level
  THEN {Change("lower-lines", b, c, b.level, c.level)}
  ELSE {}

Improvement(metric, b, c) ==
  IF Regression(metric, b, c) # {} THEN {}
  ELSE IF c.count < b.count
       THEN {Change(IF c.count = 0 THEN "removed-path" ELSE "lower-count", b, c, 0, 0)}
       ELSE LevelImprovement(metric, b, c)

(* A change that is still meaningful when the metric itself changed.         *)
CountComparable == {"new-path", "increased-count"}
=============================================================================
