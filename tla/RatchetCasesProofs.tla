------------------------- MODULE RatchetCasesProofs -------------------------
(* Proofs about the ratchet's algorithms, for all their inputs: the two merge *)
(* drivers treat their sides alike, raise no floor, and are silent only when   *)
(* nothing was lost; comparison, update and accounting agree with each other.  *)
EXTENDS RatchetCases, RatchetMergeProofs

(* The calls that are made have values of the instance for input.             *)
Inputs ==
  /\ call.kind = "compare" =>
       call.metric \in Metrics /\ call.b \in ItemsOf(call.metric) /\ call.c \in ItemsOf(call.metric)
  /\ call.kind = "merge" => call.b \in Baselines /\ call.c \in Baselines /\ call.o \in Baselines
  /\ call.kind = "flat" => call.b \in FlatDocs /\ call.c \in FlatDocs /\ call.o \in FlatDocs
  /\ call.kind = "update" => /\ call.old \in Generated /\ call.new \in Generated /\ call.o \in Options
                             /\ Allowed(call.old, call.new, call.o)

LEMMA InputsAlways == Spec => []Inputs
<1>1. Init => Inputs
  BY DEF Init, NoCall, Inputs
<1>2. Inputs /\ [Next]_call => Inputs'
  <2>1. ASSUME Inputs, [Next]_call
        PROVE  Inputs'
    <3>1. CASE \E m \in Metrics : \E b, c \in ItemsOf(m) : Compare(m, b, c)
      BY <3>1 DEF Compare, Inputs
    <3>2. CASE \E b, c, o \in MergeDocs : Merge(b, c, o)
      BY <3>2, CasesAssumption DEF Merge, Inputs
    <3>3. CASE \E caller \in Callers, b, c, o \in FlatDocs : FlatMerge(caller, b, c, o)
      BY <3>3 DEF FlatMerge, Inputs
    <3>4. CASE \E old, new \in Generated, o \in Options : Update(old, new, o)
      BY <3>4 DEF Update, Inputs
    <3>5. CASE UNCHANGED call
      BY <2>1, <3>5 DEF Inputs
    <3>6. QED BY <2>1, <3>1, <3>2, <3>3, <3>4, <3>5 DEF Next
  <2>2. QED BY <2>1
<1>3. QED BY <1>1, <1>2, PTL DEF Spec

-----------------------------------------------------------------------------
(* The merge of one item                                                     *)

(* What two items with findings have in common by their metric.              *)
LEMMA SameCountMeets ==
  ASSUME NEW m \in Metrics, NEW c \in ItemsOf(m), NEW o \in ItemsOf(m),
         c # NoItem, o # NoItem, c.count = o.count
  PROVE  /\ MeetSameCount(m, c, o).failed = MeetSameCount(m, o, c).failed
         /\ ~MeetSameCount(m, c, o).failed => MeetSameCount(m, c, o) = MeetSameCount(m, o, c)
         /\ MeetSameCount(m, c, o).item.count = c.count
         /\ ~MeetSameCount(m, c, o).failed /\ ~MeetSameCount(m, c, o).truthUp =>
              MeetSameCount(m, c, o).item = c /\ c = o
<1>1. CASE m = "message-count"
  <2>1. PICK n \in Sites, x \in 0..MaxPrint : c = Item(n, 0, Silent, x)
    BY <1>1 DEF ItemsOf, Counted
  <2>2. PICK k \in Sites, y \in 0..MaxPrint : o = Item(k, 0, Silent, y)
    BY <1>1 DEF ItemsOf, Counted
  <2>3. n = k
    BY <2>1, <2>2 DEF Item
  <2>4. Smaller(x, y) = Smaller(y, x) /\ Smaller(x, x) = x
    BY DEF Smaller
  <2>5. /\ MeetSameCount(m, c, o) = Outcome([c EXCEPT !.print = Smaller(c.print, o.print)],
                                            FALSE, c.print # o.print)
        /\ MeetSameCount(m, o, c) = Outcome([o EXCEPT !.print = Smaller(o.print, c.print)],
                                            FALSE, o.print # c.print)
    BY <1>1 DEF MeetSameCount
  <2>6. c.print = x /\ o.print = y /\ c.count = n
    BY <2>1, <2>2 DEF Item
  <2>7. /\ [c EXCEPT !.print = Smaller(x, y)] = Item(n, 0, Silent, Smaller(x, y))
        /\ [o EXCEPT !.print = Smaller(y, x)] = Item(n, 0, Silent, Smaller(x, y))
    BY <2>1, <2>2, <2>3, <2>4 DEF Item
  <2>8. /\ MeetSameCount(m, c, o) = Outcome(Item(n, 0, Silent, Smaller(x, y)), FALSE, x # y)
        /\ MeetSameCount(m, o, c) = Outcome(Item(n, 0, Silent, Smaller(x, y)), FALSE, x # y)
    BY <2>5, <2>6, <2>7
  <2>9. x = y => Item(n, 0, Silent, Smaller(x, y)) = c /\ c = o
    BY <2>1, <2>2, <2>3, <2>4
  <2>10. Item(n, 0, Silent, Smaller(x, y)).count = c.count
    BY <2>6 DEF Item
  <2>11. PICK e \in BOOLEAN : e = (x # y)
    OBVIOUS
  <2>12. /\ MeetSameCount(m, c, o) = Outcome(Item(n, 0, Silent, Smaller(x, y)), FALSE, e)
         /\ MeetSameCount(m, o, c) = Outcome(Item(n, 0, Silent, Smaller(x, y)), FALSE, e)
    BY <2>8, <2>11
  <2>13. /\ MeetSameCount(m, c, o) = MeetSameCount(m, o, c)
         /\ MeetSameCount(m, c, o).failed = FALSE
         /\ MeetSameCount(m, c, o).truthUp = e
         /\ MeetSameCount(m, c, o).item = Item(n, 0, Silent, Smaller(x, y))
    BY <2>12 DEF Outcome
  <2>14. ~e => x = y
    BY <2>11
  <2>15. QED BY <2>9, <2>10, <2>13, <2>14
<1>2. CASE m = "effective-line-count"
  <2>1. PICK n \in Sites, x \in 1..MaxLevel : c = Item(n, x, Silent, 0)
    BY <1>2 DEF ItemsOf, Measured
  <2>2. PICK k \in Sites, y \in 1..MaxLevel : o = Item(k, y, Silent, 0)
    BY <1>2 DEF ItemsOf, Measured
  <2>3. n = k
    BY <2>1, <2>2 DEF Item
  <2>4. Smaller(x, y) = Smaller(y, x) /\ Smaller(x, x) = x
    BY DEF Smaller
  <2>5. /\ MeetSameCount(m, c, o) = Outcome([c EXCEPT !.level = Smaller(c.level, o.level)],
                                            FALSE, c.level # o.level)
        /\ MeetSameCount(m, o, c) = Outcome([o EXCEPT !.level = Smaller(o.level, c.level)],
                                            FALSE, o.level # c.level)
    BY <1>2 DEF MeetSameCount
  <2>6. c.level = x /\ o.level = y /\ c.count = n
    BY <2>1, <2>2 DEF Item
  <2>7. /\ [c EXCEPT !.level = Smaller(x, y)] = Item(n, Smaller(x, y), Silent, 0)
        /\ [o EXCEPT !.level = Smaller(y, x)] = Item(n, Smaller(x, y), Silent, 0)
    BY <2>1, <2>2, <2>3, <2>4 DEF Item
  <2>8. /\ MeetSameCount(m, c, o) = Outcome(Item(n, Smaller(x, y), Silent, 0), FALSE, x # y)
        /\ MeetSameCount(m, o, c) = Outcome(Item(n, Smaller(x, y), Silent, 0), FALSE, x # y)
    BY <2>5, <2>6, <2>7
  <2>9. x = y => Item(n, Smaller(x, y), Silent, 0) = c /\ c = o
    BY <2>1, <2>2, <2>3, <2>4
  <2>10. Item(n, Smaller(x, y), Silent, 0).count = c.count
    BY <2>6 DEF Item
  <2>11. PICK e \in BOOLEAN : e = (x # y)
    OBVIOUS
  <2>12. /\ MeetSameCount(m, c, o) = Outcome(Item(n, Smaller(x, y), Silent, 0), FALSE, e)
         /\ MeetSameCount(m, o, c) = Outcome(Item(n, Smaller(x, y), Silent, 0), FALSE, e)
    BY <2>8, <2>11
  <2>13. /\ MeetSameCount(m, c, o) = MeetSameCount(m, o, c)
         /\ MeetSameCount(m, c, o).failed = FALSE
         /\ MeetSameCount(m, c, o).truthUp = e
         /\ MeetSameCount(m, c, o).item = Item(n, Smaller(x, y), Silent, 0)
    BY <2>12 DEF Outcome
  <2>14. ~e => x = y
    BY <2>11
  <2>15. QED BY <2>9, <2>10, <2>13, <2>14
<1>3. CASE m = "complexity-severity"
  BY <1>3 DEF MeetSameCount, Outcome
<1>4. QED BY <1>1, <1>2, <1>3 DEF Metrics

LEMMA ItemMerge ==
  ASSUME NEW m \in Metrics, NEW b, NEW c \in ItemsOf(m), NEW o \in ItemsOf(m)
  PROVE  LET r == ResolveKey(m, b, c, o)
             s == ResolveKey(m, b, o, c)
         IN  /\ r.failed = s.failed
             /\ ~r.failed => r = s
             /\ ~r.failed /\ r.item # NoItem =>
                  /\ c # NoItem => r.item.count <= c.count
                  /\ o # NoItem => r.item.count <= o.count
                  /\ c = NoItem \/ o = NoItem => b = NoItem
             /\ ~r.failed /\ ~r.truthUp =>
                  /\ c # NoItem => r.item = c
                  /\ o # NoItem => r.item = o
<1>1. c.count \in Nat /\ o.count \in Nat
  BY ItemShape
<1>2. CASE c # NoItem /\ o # NoItem /\ c.count = o.count
  <2>1. /\ ResolveKey(m, b, c, o) = MeetSameCount(m, c, o)
        /\ ResolveKey(m, b, o, c) = MeetSameCount(m, o, c)
    BY <1>2 DEF ResolveKey, MergeShared
  <2>2. /\ MeetSameCount(m, c, o).failed = MeetSameCount(m, o, c).failed
        /\ ~MeetSameCount(m, c, o).failed => MeetSameCount(m, c, o) = MeetSameCount(m, o, c)
        /\ MeetSameCount(m, c, o).item.count = c.count
        /\ ~MeetSameCount(m, c, o).failed /\ ~MeetSameCount(m, c, o).truthUp =>
             MeetSameCount(m, c, o).item = c /\ c = o
    BY <1>2, SameCountMeets
  <2>3. QED BY <1>1, <1>2, <2>1, <2>2
<1>3. CASE c # NoItem /\ o # NoItem /\ c.count # o.count
  <2>1. /\ ResolveKey(m, b, c, o) = Outcome(Lower(c, o), FALSE, TRUE)
        /\ ResolveKey(m, b, o, c) = Outcome(Lower(o, c), FALSE, TRUE)
    BY <1>3 DEF ResolveKey, MergeShared
  <2>2. Lower(c, o) = Lower(o, c) /\ Lower(c, o).count <= c.count /\ Lower(c, o).count <= o.count
    BY <1>1, <1>3 DEF Lower
  <2>3. QED BY <1>3, <2>1, <2>2 DEF Outcome
<1>4. CASE c = NoItem \/ o = NoItem
  <2>1. CASE c = NoItem /\ o = NoItem
    <3>1. /\ ResolveKey(m, b, c, o) = Outcome(NoItem, FALSE, FALSE)
          /\ ResolveKey(m, b, o, c) = Outcome(NoItem, FALSE, FALSE)
      BY <2>1 DEF ResolveKey
    <3>2. QED BY <2>1, <3>1 DEF Outcome
  <2>2. CASE c # NoItem /\ o = NoItem
    <3>1. /\ ResolveKey(m, b, c, o) = MergeOneSided(c, b)
          /\ ResolveKey(m, b, o, c) = MergeOneSided(c, b)
      BY <2>2 DEF ResolveKey
    <3>2. CASE b = NoItem
      BY <1>1, <2>2, <3>1, <3>2 DEF Outcome, MergeOneSided
    <3>3. CASE b # NoItem
      BY <1>1, <2>2, <3>1, <3>3 DEF Outcome, MergeOneSided
    <3>4. QED BY <3>2, <3>3
  <2>3. CASE c = NoItem /\ o # NoItem
    <3>1. /\ ResolveKey(m, b, c, o) = MergeOneSided(o, b)
          /\ ResolveKey(m, b, o, c) = MergeOneSided(o, b)
      BY <2>3 DEF ResolveKey
    <3>2. CASE b = NoItem
      BY <1>1, <2>3, <3>1, <3>2 DEF Outcome, MergeOneSided
    <3>3. CASE b # NoItem
      BY <1>1, <2>3, <3>1, <3>3 DEF Outcome, MergeOneSided
    <3>4. QED BY <3>2, <3>3
  <2>4. QED BY <1>4, <2>1, <2>2, <2>3
<1>5. QED BY <1>2, <1>3, <1>4

-----------------------------------------------------------------------------
(* The merge of one ratchet                                                  *)

LEMMA ItemsMerge ==
  ASSUME NEW m \in Metrics, NEW b, NEW c \in [Paths -> ItemsOf(m)], NEW o \in [Paths -> ItemsOf(m)]
  PROVE  LET r == MergeItems(m, b, c, o)
             s == MergeItems(m, b, o, c)
         IN  /\ r.failed \in BOOLEAN /\ r.truthUp \in BOOLEAN
             /\ r.failed = s.failed
             /\ ~r.failed => r = s
<1> DEFINE R(p) == ResolveKey(m, b[p], c[p], o[p])
<1> DEFINE S(p) == ResolveKey(m, b[p], o[p], c[p])
<1> DEFINE out == [p \in Paths |-> R(p)]
<1> DEFINE swapped == [p \in Paths |-> S(p)]
<1> DEFINE Of(f) == [ items   |-> [p \in Paths |-> IF f[p].failed THEN NoItem ELSE f[p].item],
                      failed  |-> \E p \in Paths : f[p].failed,
                      truthUp |-> \E p \in Paths : f[p].truthUp ]
<1>1. ASSUME NEW p \in Paths
      PROVE  /\ R(p).failed = S(p).failed
             /\ ~R(p).failed => R(p) = S(p)
  <2>1. c[p] \in ItemsOf(m) /\ o[p] \in ItemsOf(m)
    OBVIOUS
  <2>2. QED BY <2>1, ItemMerge
<1>2. MergeItems(m, b, c, o) = Of(out) /\ MergeItems(m, b, o, c) = Of(swapped)
  BY DEF MergeItems
<1>3. \A p \in Paths : out[p] = R(p) /\ swapped[p] = S(p)
  OBVIOUS
<1> HIDE DEF R, S, out, swapped
<1>4. /\ Of(out).failed = (\E p \in Paths : out[p].failed)
      /\ Of(swapped).failed = (\E p \in Paths : swapped[p].failed)
  OBVIOUS
<1>5. Of(out).failed = Of(swapped).failed
  BY <1>1, <1>3, <1>4
<1>6. ~Of(out).failed => \A p \in Paths : ~R(p).failed
  BY <1>3, <1>4
<1>7. ~Of(out).failed => out = swapped
  BY <1>1, <1>6 DEF out, swapped
<1>8. Of(out).failed \in BOOLEAN /\ Of(out).truthUp \in BOOLEAN
  OBVIOUS
<1> HIDE DEF Of
<1>9. QED BY <1>2, <1>5, <1>7, <1>8

(* One path of it.                                                            *)
LEMMA ItemsMergeAt ==
  \A m \in Metrics : \A c, o \in [Paths -> ItemsOf(m)] : \A b : \A p \in Paths :
    LET r == MergeItems(m, b, c, o)
    IN  ~r.failed =>
          /\ r.items[p] # NoItem =>
               /\ c[p] # NoItem => r.items[p].count <= c[p].count
               /\ o[p] # NoItem => r.items[p].count <= o[p].count
               /\ c[p] = NoItem \/ o[p] = NoItem => b[p] = NoItem
          /\ ~r.truthUp =>
               /\ c[p] # NoItem => r.items[p] = c[p]
               /\ o[p] # NoItem => r.items[p] = o[p]
<1> SUFFICES ASSUME NEW m \in Metrics, NEW c \in [Paths -> ItemsOf(m)], NEW o \in [Paths -> ItemsOf(m)],
                    NEW b, NEW p \in Paths, ~MergeItems(m, b, c, o).failed
             PROVE  LET r == MergeItems(m, b, c, o)
                    IN  /\ r.items[p] # NoItem =>
                             /\ c[p] # NoItem => r.items[p].count <= c[p].count
                             /\ o[p] # NoItem => r.items[p].count <= o[p].count
                             /\ c[p] = NoItem \/ o[p] = NoItem => b[p] = NoItem
                        /\ ~r.truthUp =>
                             /\ c[p] # NoItem => r.items[p] = c[p]
                             /\ o[p] # NoItem => r.items[p] = o[p]
  OBVIOUS
<1> DEFINE k == ResolveKey(m, b[p], c[p], o[p])
<1>1. ~k.failed
  BY DEF MergeItems
<1>2. MergeItems(m, b, c, o).items[p] = k.item
  BY <1>1 DEF MergeItems
<1>3. ~MergeItems(m, b, c, o).truthUp => ~k.truthUp
  BY DEF MergeItems
<1>4. c[p] \in ItemsOf(m) /\ o[p] \in ItemsOf(m)
  OBVIOUS
<1>5. /\ k.item # NoItem =>
           /\ c[p] # NoItem => k.item.count <= c[p].count
           /\ o[p] # NoItem => k.item.count <= o[p].count
           /\ c[p] = NoItem \/ o[p] = NoItem => b[p] = NoItem
      /\ ~k.truthUp =>
           /\ c[p] # NoItem => k.item = c[p]
           /\ o[p] # NoItem => k.item = o[p]
  BY <1>1, <1>4, ItemMerge
<1> HIDE DEF k
<1>6. QED BY <1>2, <1>3, <1>5

(* A ratchet that both sides changed without disagreeing on what it is.      *)
Contested(b, c, o) ==
  /\ c # o /\ c # b /\ o # b
  /\ c # Gone /\ o # Gone /\ SameMeta(c, o)

LEMMA ContestedGroup ==
  ASSUME NEW b, NEW c, NEW o, Contested(b, c, o)
  PROVE  LET r == MergeItems(c.metric, b.items, c.items, o.items)
         IN  MergeGroup(b, c, o) = [ group   |-> [c EXCEPT !.items = r.items],
                                     failed  |-> r.failed,
                                     truthUp |-> ~r.failed /\ r.truthUp ]
  BY DEF Contested, MergeGroup

LEMMA UncontestedGroup ==
  \A b, c, o : ~Contested(b, c, o) =>
             LET r == MergeGroup(b, c, o)
                 s == MergeGroup(b, o, c)
             IN  \/ r.failed = TRUE /\ s.failed = TRUE
                 \/ /\ r.failed = FALSE /\ r.truthUp = FALSE /\ s = r
                    /\ c # b => r.group = c
                    /\ o # b => r.group = o
                    /\ b = c \/ b = o \/ c = o
<1> SUFFICES ASSUME NEW b, NEW c, NEW o, ~Contested(b, c, o)
             PROVE  LET r == MergeGroup(b, c, o)
                        s == MergeGroup(b, o, c)
                    IN  \/ r.failed = TRUE /\ s.failed = TRUE
                        \/ /\ r.failed = FALSE /\ r.truthUp = FALSE /\ s = r
                           /\ c # b => r.group = c
                           /\ o # b => r.group = o
                           /\ b = c \/ b = o \/ c = o
  OBVIOUS
<1> DEFINE Take(g) == [group |-> g, failed |-> FALSE, truthUp |-> FALSE]
<1>1. CASE c = o
  <2>1. MergeGroup(b, c, o) = Take(c) /\ MergeGroup(b, o, c) = Take(c)
    BY <1>1 DEF MergeGroup
  <2>2. QED BY <1>1, <2>1
<1>2. CASE c # o /\ o = b
  <2>1. MergeGroup(b, c, o) = Take(c) /\ MergeGroup(b, o, c) = Take(c)
    BY <1>2 DEF MergeGroup
  <2>2. QED BY <1>2, <2>1
<1>3. CASE c # o /\ o # b /\ c = b
  <2>1. MergeGroup(b, c, o) = Take(o) /\ MergeGroup(b, o, c) = Take(o)
    BY <1>3 DEF MergeGroup
  <2>2. QED BY <1>3, <2>1
<1>4. CASE c # o /\ o # b /\ c # b
  <2>1. c = Gone \/ o = Gone \/ ~SameMeta(c, o)
    BY <1>4 DEF Contested
  <2>2. o = Gone \/ c = Gone \/ ~SameMeta(o, c)
    BY <2>1 DEF SameMeta
  <2>3. /\ MergeGroup(b, c, o) = [group |-> Gone, failed |-> TRUE, truthUp |-> FALSE]
        /\ MergeGroup(b, o, c) = [group |-> Gone, failed |-> TRUE, truthUp |-> FALSE]
    BY <1>4, <2>1, <2>2 DEF MergeGroup
  <2>4. QED BY <2>3
<1>5. QED BY <1>1, <1>2, <1>3, <1>4

LEMMA ContestedShape ==
  ASSUME NEW b \in Baselines, NEW c \in Baselines, NEW o \in Baselines, NEW t \in Tests,
         Contested(b[t], c[t], o[t])
  PROVE  /\ c[t].metric \in Metrics /\ o[t].metric = c[t].metric
         /\ c[t].items \in [Paths -> ItemsOf(c[t].metric)]
         /\ o[t].items \in [Paths -> ItemsOf(c[t].metric)]
         /\ c[t] = [metric |-> c[t].metric, scope |-> c[t].scope, items |-> c[t].items]
         /\ o[t] = [metric |-> c[t].metric, scope |-> c[t].scope, items |-> o[t].items]
         /\ Contested(b[t], o[t], c[t])
<1>1. c[t] # Gone /\ o[t] # Gone /\ SameMeta(c[t], o[t])
  BY DEF Contested
<1>2. /\ c[t].metric \in Metrics
      /\ c[t].items \in [Paths -> ItemsOf(c[t].metric)]
      /\ c[t] = [metric |-> c[t].metric, scope |-> c[t].scope, items |-> c[t].items]
  BY <1>1, GroupShape
<1>3. /\ o[t].items \in [Paths -> ItemsOf(o[t].metric)]
      /\ o[t] = [metric |-> o[t].metric, scope |-> o[t].scope, items |-> o[t].items]
  BY <1>1, GroupShape
<1>4. o[t].metric = c[t].metric /\ o[t].scope = c[t].scope
  BY <1>1 DEF SameMeta
<1>5. Contested(b[t], o[t], c[t])
  BY DEF Contested, SameMeta
<1>6. QED BY <1>2, <1>3, <1>4, <1>5

(* Both orders fail, or both give the same group; and what the group holds.   *)
LEMMA GroupMerge ==
  ASSUME NEW b \in Baselines, NEW c \in Baselines, NEW o \in Baselines, NEW t \in Tests
  PROVE  LET r == MergeGroup(b[t], c[t], o[t])
             s == MergeGroup(b[t], o[t], c[t])
         IN  \/ r.failed = TRUE /\ s.failed = TRUE
             \/ r.failed = FALSE /\ s = r
<1>1. CASE Contested(b[t], c[t], o[t])
  <2>1. PICK m, sc, y, z :
          /\ m \in Metrics /\ y \in [Paths -> ItemsOf(m)] /\ z \in [Paths -> ItemsOf(m)]
          /\ c[t] = [metric |-> m, scope |-> sc, items |-> y]
          /\ o[t] = [metric |-> m, scope |-> sc, items |-> z]
          /\ Contested(b[t], o[t], c[t])
    <3>1. /\ c[t].metric \in Metrics
          /\ c[t].items \in [Paths -> ItemsOf(c[t].metric)]
          /\ o[t].items \in [Paths -> ItemsOf(c[t].metric)]
          /\ c[t] = [metric |-> c[t].metric, scope |-> c[t].scope, items |-> c[t].items]
          /\ o[t] = [metric |-> c[t].metric, scope |-> c[t].scope, items |-> o[t].items]
          /\ Contested(b[t], o[t], c[t])
      BY <1>1, ContestedShape
    <3>2. QED BY <3>1, Zenon
  <2> DEFINE x == b[t].items
  <2> DEFINE R == MergeItems(m, x, y, z)
  <2> DEFINE S == MergeItems(m, x, z, y)
  <2> DEFINE Of(i) == [ group   |-> [metric |-> m, scope |-> sc, items |-> i.items],
                        failed  |-> i.failed,
                        truthUp |-> ~i.failed /\ i.truthUp ]
  <2>2. MergeGroup(b[t], c[t], o[t]) = Of(R)
    BY <1>1, <2>1, ContestedGroup
  <2>3. MergeGroup(b[t], o[t], c[t]) = Of(S)
    BY <2>1, ContestedGroup
  <2> HIDE DEF x
  <2>4. /\ R.failed \in BOOLEAN
        /\ R.failed = S.failed
        /\ ~R.failed => R = S
    BY <2>1, ItemsMerge
  <2> HIDE DEF R, S
  <2>5. CASE R.failed = TRUE
    <3>1. Of(R).failed = TRUE /\ Of(S).failed = TRUE
      BY <2>4, <2>5
    <3> HIDE DEF Of
    <3>2. QED BY <2>2, <2>3, <3>1
  <2>6. CASE R.failed = FALSE
    <3>1. R = S
      BY <2>4, <2>6
    <3>2. Of(R).failed = FALSE
      BY <2>6
    <3> HIDE DEF Of
    <3>3. QED BY <2>2, <2>3, <3>1, <3>2
  <2>7. QED BY <2>4, <2>5, <2>6
<1>2. CASE ~Contested(b[t], c[t], o[t])
  BY <1>2, UncontestedGroup
<1>3. QED BY <1>1, <1>2

(* What the merge of the baselines says of one ratchet.                       *)
LEMMA OfEachRatchet ==
  ASSUME NEW b, NEW c, NEW o
  PROVE  LET r == MergeBaselines(b, c, o)
         IN  /\ ~r.failed => \A t \in Tests : ~MergeGroup(b[t], c[t], o[t]).failed
             /\ ~r.failed /\ ~r.truthUp => \A t \in Tests : ~MergeGroup(b[t], c[t], o[t]).truthUp
             /\ \A t \in Tests : r.baseline[t] = MergeGroup(b[t], c[t], o[t]).group
  BY DEF MergeBaselines

LEMMA BaselinesCommute ==
  ASSUME NEW b \in Baselines, NEW c \in Baselines, NEW o \in Baselines
  PROVE  /\ MergeBaselines(b, o, c).failed = MergeBaselines(b, c, o).failed
         /\ ~MergeBaselines(b, c, o).failed => MergeBaselines(b, o, c) = MergeBaselines(b, c, o)
<1> DEFINE R == [t \in Tests |-> MergeGroup(b[t], c[t], o[t])]
<1> DEFINE S == [t \in Tests |-> MergeGroup(b[t], o[t], c[t])]
<1> DEFINE Failed(f) == \E t \in Tests : f[t].failed
<1> DEFINE Of(f) == [ baseline |-> [t \in Tests |-> f[t].group],
                      failed   |-> Failed(f),
                      truthUp  |-> ~Failed(f) /\ \E t \in Tests : f[t].truthUp ]
<1>1. MergeBaselines(b, c, o) = Of(R) /\ MergeBaselines(b, o, c) = Of(S)
  BY DEF MergeBaselines
<1>2. \A t \in Tests : R[t].failed = S[t].failed /\ (~R[t].failed => R[t] = S[t])
  <2>1. ASSUME NEW t \in Tests
        PROVE  LET r == MergeGroup(b[t], c[t], o[t])
                   s == MergeGroup(b[t], o[t], c[t])
               IN  \/ r.failed = TRUE /\ s.failed = TRUE
                   \/ r.failed = FALSE /\ s = r
    BY GroupMerge
  <2>2. QED BY <2>1
<1>3. R = [t \in Tests |-> R[t]] /\ S = [t \in Tests |-> S[t]]
  OBVIOUS
<1> HIDE DEF R, S
<1>4. Failed(R) <=> Failed(S)
  BY <1>2
<1>5. ~Failed(R) => R = S
  BY <1>2, <1>3
<1>6. Of(R).failed = Failed(R) /\ Of(S).failed = Failed(S)
  OBVIOUS
<1> HIDE DEF Of, Failed
<1>7. QED BY <1>1, <1>4, <1>5, <1>6

-----------------------------------------------------------------------------
(* For every instance: MergeBaselines does not care which side is ours.       *)
THEOREM MergeIsSymmetric == Spec => []MergeCommutes
<1>1. Inputs => MergeCommutes
  BY BaselinesCommute DEF Inputs, MergeCommutes, Merged
<1>2. QED BY <1>1, InputsAlways, PTL

-----------------------------------------------------------------------------
(* The floors of a merge                                                     *)

(* The items of a contested ratchet, in terms of the two sides'.              *)
LEMMA ContestedItems ==
  ASSUME NEW b \in Baselines, NEW c \in Baselines, NEW o \in Baselines,
         NEW t \in Tests, NEW p \in Paths, Contested(b[t], c[t], o[t]),
         ~MergeGroup(b[t], c[t], o[t]).failed
  PROVE  LET r == MergeGroup(b[t], c[t], o[t])
             i == r.group.items[p]
             x == c[t].items[p]
             y == o[t].items[p]
         IN  /\ i # NoItem =>
                  /\ x # NoItem => i.count <= x.count
                  /\ y # NoItem => i.count <= y.count
                  /\ x = NoItem \/ y = NoItem => b[t].items[p] = NoItem
             /\ ~r.truthUp =>
                  /\ x # NoItem => i = x
                  /\ y # NoItem => i = y
<1>1. PICK m, sc, y, z :
        /\ m \in Metrics /\ y \in [Paths -> ItemsOf(m)] /\ z \in [Paths -> ItemsOf(m)]
        /\ c[t] = [metric |-> m, scope |-> sc, items |-> y]
        /\ o[t] = [metric |-> m, scope |-> sc, items |-> z]
  <2>1. /\ c[t].metric \in Metrics
        /\ c[t].items \in [Paths -> ItemsOf(c[t].metric)]
        /\ o[t].items \in [Paths -> ItemsOf(c[t].metric)]
        /\ c[t] = [metric |-> c[t].metric, scope |-> c[t].scope, items |-> c[t].items]
        /\ o[t] = [metric |-> c[t].metric, scope |-> c[t].scope, items |-> o[t].items]
    BY ContestedShape
  <2>2. QED BY <2>1, Zenon
<1> DEFINE x == b[t].items
<1> DEFINE R == MergeItems(m, x, y, z)
<1>2. MergeGroup(b[t], c[t], o[t]) = [ group   |-> [metric |-> m, scope |-> sc, items |-> R.items],
                                       failed  |-> R.failed,
                                       truthUp |-> ~R.failed /\ R.truthUp ]
  BY <1>1, ContestedGroup
<1> HIDE DEF x
<1>3. /\ R.failed \in BOOLEAN /\ R.truthUp \in BOOLEAN
      /\ ~R.failed =>
           /\ R.items[p] # NoItem =>
                /\ y[p] # NoItem => R.items[p].count <= y[p].count
                /\ z[p] # NoItem => R.items[p].count <= z[p].count
                /\ y[p] = NoItem \/ z[p] = NoItem => x[p] = NoItem
           /\ ~R.truthUp =>
                /\ y[p] # NoItem => R.items[p] = y[p]
                /\ z[p] # NoItem => R.items[p] = z[p]
  <2>1. R.failed \in BOOLEAN /\ R.truthUp \in BOOLEAN
    BY <1>1, ItemsMerge
  <2>2. QED BY <1>1, <2>1, ItemsMergeAt
<1> HIDE DEF R
<1>4. ~R.failed
  BY <1>2
<1>5. MergeGroup(b[t], c[t], o[t]) =
        [group |-> [metric |-> m, scope |-> sc, items |-> R.items], failed |-> FALSE, truthUp |-> R.truthUp]
  BY <1>2, <1>3, <1>4
<1>6. /\ MergeGroup(b[t], c[t], o[t]).group.items[p] = R.items[p]
      /\ MergeGroup(b[t], c[t], o[t]).truthUp = R.truthUp
  BY <1>5
<1>7. c[t].items[p] = y[p] /\ o[t].items[p] = z[p] /\ b[t].items[p] = x[p]
  BY <1>1 DEF x
<1>8. QED BY <1>3, <1>4, <1>6, <1>7

LEMMA GroupFloors ==
  ASSUME NEW b \in Baselines, NEW c \in Baselines, NEW o \in Baselines,
         NEW t \in Tests, NEW p \in Paths,
         ~MergeGroup(b[t], c[t], o[t]).failed
  PROVE  LET r == MergeGroup(b[t], c[t], o[t])
             i == r.group.items[p]
             x == c[t].items[p]
             y == o[t].items[p]
         IN  /\ c[t] # Gone /\ o[t] # Gone /\ c[t] # b[t] /\ o[t] # b[t] /\ i # NoItem =>
                  /\ IF x = NoItem THEN b[t] = Gone \/ b[t].items[p] = NoItem ELSE i.count <= x.count
                  /\ IF y = NoItem THEN b[t] = Gone \/ b[t].items[p] = NoItem ELSE i.count <= y.count
             /\ c[t] # Gone /\ o[t] # Gone /\ b[t] # Gone /\ b[t].items[p] # NoItem
                  /\ (x = NoItem \/ y = NoItem) => i = NoItem
             /\ ~r.truthUp =>
                  /\ c[t] # Gone /\ c[t] # b[t] /\ x # NoItem => i = x
                  /\ o[t] # Gone /\ o[t] # b[t] /\ y # NoItem => i = y
<1>1. CASE Contested(b[t], c[t], o[t])
  BY <1>1, ContestedItems
<1>2. CASE ~Contested(b[t], c[t], o[t])
  <2> DEFINE r == MergeGroup(b[t], c[t], o[t])
  <2>1. /\ c[t] # b[t] => r.group = c[t]
        /\ o[t] # b[t] => r.group = o[t]
        /\ b[t] = c[t] \/ b[t] = o[t] \/ c[t] = o[t]
    BY <1>2, UncontestedGroup
  <2>2. c[t] # Gone => c[t].items[p].count \in Nat
    <3>1. ASSUME c[t] # Gone
          PROVE  c[t].metric \in Metrics /\ c[t].items[p] \in ItemsOf(c[t].metric)
      <4>1. c[t].metric \in Metrics /\ c[t].items \in [Paths -> ItemsOf(c[t].metric)]
        BY <3>1, GroupShape
      <4>2. QED BY <4>1
    <3>2. QED BY <3>1, ItemShape
  <2> HIDE DEF r
  <2>3. QED BY <2>1, <2>2 DEF r
<1>3. QED BY <1>1, <1>2

(* For every instance: what MergeBaselines writes lets in nothing that         *)
(* neither side had let in.                                                     *)
THEOREM FloorsMeet == Spec => []MergedFloorsMeet
<1>1. Inputs => MergedFloorsMeet
  <2> SUFFICES ASSUME Inputs, Resolved, NEW t \in Tests, NEW p \in Paths
               PROVE  LET b == call.b[t]  c == call.c[t]  o == call.o[t]
                          m == Merged.baseline[t].items[p]
                      IN  c # Gone /\ o # Gone =>
                            /\ c # b /\ o # b /\ m # NoItem =>
                                 \A s \in {c, o} : IF s.items[p] = NoItem THEN b = Gone \/ b.items[p] = NoItem
                                                   ELSE m.count <= s.items[p].count
                            /\ b # Gone /\ b.items[p] # NoItem /\ NoItem \in {c.items[p], o.items[p]} =>
                                 m = NoItem
    BY DEF MergedFloorsMeet
  <2> DEFINE b == call.b
  <2> DEFINE c == call.c
  <2> DEFINE o == call.o
  <2> DEFINE r == MergeGroup(b[t], c[t], o[t])
  <2>1. b \in Baselines /\ c \in Baselines /\ o \in Baselines
    BY DEF Inputs, Resolved
  <2>2. ~r.failed /\ Merged.baseline[t] = r.group
    BY OfEachRatchet DEF Merged, Resolved
  <2> DEFINE i == r.group.items[p]
  <2> DEFINE x == c[t].items[p]
  <2> DEFINE y == o[t].items[p]
  <2> HIDE DEF b, c, o
  <2>3. /\ c[t] # Gone /\ o[t] # Gone /\ c[t] # b[t] /\ o[t] # b[t] /\ i # NoItem =>
             /\ IF x = NoItem THEN b[t] = Gone \/ b[t].items[p] = NoItem ELSE i.count <= x.count
             /\ IF y = NoItem THEN b[t] = Gone \/ b[t].items[p] = NoItem ELSE i.count <= y.count
        /\ c[t] # Gone /\ o[t] # Gone /\ b[t] # Gone /\ b[t].items[p] # NoItem
             /\ (x = NoItem \/ y = NoItem) => i = NoItem
    BY <2>1, <2>2, GroupFloors
  <2>4. QED BY <2>2, <2>3 DEF b, c, o
<1>2. QED BY <1>1, InputsAlways, PTL

(* For every instance: MergeBaselines that asks for no truth-up has changed no *)
(* floor of a side that changed the ratchet.                                    *)
THEOREM QuietIsExact == Spec => []QuietMergeExact
<1>1. Inputs => QuietMergeExact
  <2> SUFFICES ASSUME Inputs, Resolved, ~Merged.truthUp, NEW t \in Tests, NEW p \in Paths,
                      NEW s \in {call.c[t], call.o[t]}, s # Gone, s # call.b[t], s.items[p] # NoItem
               PROVE  Merged.baseline[t].items[p] = s.items[p]
    BY DEF QuietMergeExact
  <2> DEFINE b == call.b
  <2> DEFINE c == call.c
  <2> DEFINE o == call.o
  <2> DEFINE r == MergeGroup(b[t], c[t], o[t])
  <2>1. b \in Baselines /\ c \in Baselines /\ o \in Baselines
    BY DEF Inputs, Resolved
  <2>2. ~r.failed /\ ~r.truthUp /\ Merged.baseline[t] = r.group
    BY OfEachRatchet DEF Merged, Resolved
  <2> DEFINE i == r.group.items[p]
  <2> DEFINE x == c[t].items[p]
  <2> DEFINE y == o[t].items[p]
  <2> HIDE DEF b, c, o
  <2>3. /\ c[t] # Gone /\ c[t] # b[t] /\ x # NoItem => i = x
        /\ o[t] # Gone /\ o[t] # b[t] /\ y # NoItem => i = y
    BY <2>1, <2>2, GroupFloors
  <2>4. QED BY <2>2, <2>3 DEF b, c, o
<1>2. QED BY <1>1, InputsAlways, PTL

-----------------------------------------------------------------------------
(* The flat merge                                                            *)

(* One key of a flat merge, and the same with the sides exchanged.           *)
LEMMA FlatItemsAt ==
  ASSUME NEW strategy, NEW preserved, NEW b \in FlatDocs, NEW c \in FlatDocs, NEW o \in FlatDocs,
         NEW p \in Paths
  PROVE  LET r == FlatItems(strategy, preserved, b, c, o)[p]
             q == FlatItems(strategy, preserved, b, o, c)[p]
         IN  /\ r.failed \in BOOLEAN /\ r.truthUp \in BOOLEAN
             /\ r.failed = q.failed
             /\ ~r.failed => q.item = r.item /\ q.truthUp = r.truthUp
             /\ ~r.failed /\ r.item # NoEntry =>
                  /\ IF c[p] = NoEntry THEN b[p] = NoEntry ELSE ~(r.item.count > c[p].count)
                  /\ IF o[p] = NoEntry THEN b[p] = NoEntry ELSE ~(r.item.count > o[p].count)
<1> DEFINE x == b[p]
<1> DEFINE y == c[p]
<1> DEFINE z == o[p]
<1>1. /\ y \in FlatEntries \cup {NoEntry} /\ z \in FlatEntries \cup {NoEntry}
      /\ x \in FlatEntries \cup {NoEntry}
  BY DEF FlatDocs
<1>2. y.count \in Nat /\ z.count \in Nat
  BY <1>1 DEF FlatEntries, NoEntry
<1> DEFINE Entry(u, v) == IF u # NoEntry /\ v # NoEntry THEN MergeSharedEntry(u, v)
                          ELSE IF u # NoEntry THEN MergeOneSidedEntry(strategy, preserved, u, x)
                          ELSE IF v # NoEntry THEN MergeOneSidedEntry(strategy, preserved, v, x)
                          ELSE Outcome(NoEntry, FALSE, FALSE)
<1>3. /\ FlatItems(strategy, preserved, b, c, o)[p] = Entry(y, z)
      /\ FlatItems(strategy, preserved, b, o, c)[p] = Entry(z, y)
  BY DEF FlatItems
<1> HIDE DEF x, y, z
<1>4. ASSUME y # NoEntry, z # NoEntry
      PROVE  /\ Entry(y, z).failed \in BOOLEAN /\ Entry(y, z).truthUp \in BOOLEAN
             /\ Entry(z, y) = Entry(y, z)
             /\ ~Entry(y, z).failed =>
                  ~(Entry(y, z).item.count > y.count) /\ ~(Entry(y, z).item.count > z.count)
  <2>1. Entry(y, z) = MergeSharedEntry(y, z) /\ Entry(z, y) = MergeSharedEntry(z, y)
    BY <1>4
  <2> HIDE DEF Entry
  <2>2. CASE y = z
    <3>1. Entry(y, z) = Outcome(y, FALSE, FALSE) /\ Entry(z, y) = Outcome(y, FALSE, FALSE)
      BY <2>1, <2>2 DEF MergeSharedEntry
    <3>2. QED BY <1>2, <2>2, <3>1 DEF Outcome
  <2>3. CASE y # z /\ y.count # z.count /\ y.payload = z.payload
    <3>1. /\ Entry(y, z) = Outcome(Lower(y, z), FALSE, TRUE)
          /\ Entry(z, y) = Outcome(Lower(z, y), FALSE, TRUE)
      BY <2>1, <2>3 DEF MergeSharedEntry
    <3>2. /\ Lower(y, z) = Lower(z, y)
          /\ ~(Lower(y, z).count > y.count) /\ ~(Lower(y, z).count > z.count)
      BY <1>2, <2>3 DEF Lower
    <3>3. QED BY <3>1, <3>2 DEF Outcome
  <2>4. CASE y # z /\ ~(y.count # z.count /\ y.payload = z.payload)
    <3>1. Entry(y, z) = Outcome(NoEntry, TRUE, FALSE) /\ Entry(z, y) = Outcome(NoEntry, TRUE, FALSE)
      BY <2>1, <2>4 DEF MergeSharedEntry
    <3>2. QED BY <3>1 DEF Outcome
  <2>5. QED BY <2>2, <2>3, <2>4
<1>5. ASSUME y = NoEntry \/ z = NoEntry
      PROVE  /\ Entry(y, z) = Entry(z, y) /\ ~Entry(y, z).failed
             /\ Entry(y, z).failed \in BOOLEAN /\ Entry(y, z).truthUp \in BOOLEAN
             /\ Entry(y, z).item # NoEntry => Entry(y, z).item \in {y, z} /\ x = NoEntry
  <2>1. ASSUME NEW u
        PROVE  LET r == MergeOneSidedEntry(strategy, preserved, u, x)
               IN  /\ ~r.failed /\ r.failed \in BOOLEAN /\ r.truthUp \in BOOLEAN
                   /\ r.item # NoEntry => r.item = u /\ x = NoEntry
    BY DEF MergeOneSidedEntry, Outcome
  <2>2. QED BY <1>5, <2>1 DEF Outcome
<1> HIDE DEF Entry
<1>6. QED BY <1>2, <1>3, <1>4, <1>5 DEF x, y, z

LEMMA FlatMergeParts ==
  ASSUME NEW strategy, NEW preserved, NEW fast,
         NEW b \in FlatDocs, NEW c \in FlatDocs, NEW o \in FlatDocs
  PROVE  LET m == MergeFlat(strategy, preserved, fast, b, c, o)
             swapped == MergeFlat(strategy, preserved, fast, b, o, c)
         IN  /\ swapped.failed = m.failed
             /\ ~m.failed => swapped = m
             /\ ~m.failed /\ b \notin {c, o} /\ c # o =>
                  \A p \in Paths :
                    /\ ~FlatItems(strategy, preserved, b, c, o)[p].failed
                    /\ m.doc[p] = FlatItems(strategy, preserved, b, c, o)[p].item
<1> DEFINE out == FlatItems(strategy, preserved, b, c, o)
<1> DEFINE tuo == FlatItems(strategy, preserved, b, o, c)
<1> DEFINE m == MergeFlat(strategy, preserved, fast, b, c, o)
<1> DEFINE w == MergeFlat(strategy, preserved, fast, b, o, c)
<1>1. CASE c = o \/ c = b \/ o = b
  BY <1>1 DEF MergeFlat
<1>2. CASE c # o /\ c # b /\ o # b
  <2>1. /\ m = [ doc     |-> [p \in Paths |-> out[p].item],
                 failed  |-> \E p \in Paths : out[p].failed,
                 truthUp |-> ~(\E p \in Paths : out[p].failed) /\ \E p \in Paths : out[p].truthUp ]
        /\ w = [ doc     |-> [p \in Paths |-> tuo[p].item],
                 failed  |-> \E p \in Paths : tuo[p].failed,
                 truthUp |-> ~(\E p \in Paths : tuo[p].failed) /\ \E p \in Paths : tuo[p].truthUp ]
    BY <1>2 DEF MergeFlat
  <2>2. \A p \in Paths : /\ out[p].failed = tuo[p].failed
                         /\ ~out[p].failed => tuo[p].item = out[p].item /\ tuo[p].truthUp = out[p].truthUp
    BY FlatItemsAt
  <2> HIDE DEF m, w, out, tuo
  <2>3. (\E p \in Paths : out[p].failed) <=> (\E p \in Paths : tuo[p].failed)
    BY <2>2
  <2>4. m.failed = w.failed
    BY <2>1, <2>3, Zenon
  <2>5. ASSUME ~m.failed
        PROVE  w = m /\ \A p \in Paths : ~out[p].failed /\ m.doc[p] = out[p].item
    <3>1. \A p \in Paths : ~out[p].failed
      BY <2>1, <2>5
    <3>2. /\ [p \in Paths |-> out[p].item] = [p \in Paths |-> tuo[p].item]
          /\ (\E p \in Paths : out[p].truthUp) <=> (\E p \in Paths : tuo[p].truthUp)
      BY <2>2, <3>1
    <3>3. w.doc = m.doc /\ w.failed = m.failed /\ w.truthUp = m.truthUp
      BY <2>1, <2>3, <3>2, Zenon
    <3>4. QED BY <2>1, <3>1, <3>3
  <2>6. QED BY <2>4, <2>5 DEF m, w, out
<1>3. QED BY <1>1, <1>2

(* For every instance and every sensor that merges flat baselines: MergeFlat   *)
(* does not depend on the side, raises no count and revives nothing.            *)
THEOREM FlatMergeIsSound == Spec => []FlatMergeSound
<1>1. Inputs => FlatMergeSound
  <2> SUFFICES ASSUME Inputs, call.kind = "flat"
               PROVE  LET m == FlatMerged(call.b, call.c, call.o)
                          swapped == FlatMerged(call.b, call.o, call.c)
                      IN  /\ swapped.failed = m.failed
                          /\ ~m.failed => swapped = m
                          /\ ~m.failed /\ call.b \notin {call.c, call.o} =>
                               \A s \in {call.c, call.o} :
                                 /\ GateEntries(s, m.doc).sets.increased = {}
                                 /\ \A p \in GateEntries(s, m.doc).sets.added : call.b[p] = NoEntry
    BY DEF FlatMergeSound
  <2> DEFINE b == call.b
  <2> DEFINE c == call.c
  <2> DEFINE o == call.o
  <2> DEFINE m == FlatMerged(b, c, o)
  <2> DEFINE out == FlatItems(call.caller.strategy, call.caller.preserves, b, c, o)
  <2>1. b \in FlatDocs /\ c \in FlatDocs /\ o \in FlatDocs
    BY DEF Inputs
  <2> HIDE DEF b, c, o
  <2>2. /\ FlatMerged(b, o, c).failed = m.failed
        /\ ~m.failed => FlatMerged(b, o, c) = m
        /\ ~m.failed /\ b \notin {c, o} /\ c # o =>
             \A p \in Paths : ~out[p].failed /\ m.doc[p] = out[p].item
    BY <2>1, FlatMergeParts DEF FlatMerged
  <2>3. ASSUME ~m.failed, b \notin {c, o}, NEW s \in {c, o}
        PROVE  /\ GateEntries(s, m.doc).sets.increased = {}
               /\ \A p \in GateEntries(s, m.doc).sets.added : b[p] = NoEntry
    <3>1. CASE c = o
      <4>1. m.doc = c
        BY <3>1 DEF FlatMerged, MergeFlat
      <4>2. \A p \in Paths : ~(c[p].count > c[p].count)
        BY <2>1 DEF FlatDocs, FlatEntries, NoEntry
      <4>3. QED BY <2>3, <3>1, <4>1, <4>2 DEF GateEntries
    <3>2. CASE c # o
      <4>1. \A p \in Paths : ~out[p].failed /\ m.doc[p] = out[p].item
        BY <2>2, <2>3, <3>2
      <4>2. \A p \in Paths :
              m.doc[p] # NoEntry => IF s[p] = NoEntry THEN b[p] = NoEntry ELSE ~(m.doc[p].count > s[p].count)
        BY <2>1, <2>3, <4>1, FlatItemsAt
      <4> HIDE DEF m
      <4>3. QED BY <4>2 DEF GateEntries
    <3>3. QED BY <3>1, <3>2
  <2> HIDE DEF m
  <2>4. QED BY <2>2, <2>3 DEF b, c, o, m
<1>2. QED BY <1>1, InputsAlways, PTL

-----------------------------------------------------------------------------
(* The comparison of two items                                               *)

(* The highest complexity is the first of the sorted ones.                   *)
LEMMA PeakIsFirst ==
  ASSUME NEW f \in Severities
  PROVE  Nth(f, 1) = Peak(f)
<1> DEFINE S == {v \in 0..MaxLevel : Cardinality({s \in Sites : f[s] >= v}) >= 1}
<1> DEFINE R == {f[s] : s \in Sites}
<1>1. IsFiniteSet(Sites) /\ 1 \in Sites /\ MaxLevel \in Nat
  BY ItemsAssumption, FS_Interval DEF Sites
<1>2. ASSUME NEW v
      PROVE  (Cardinality({s \in Sites : f[s] >= v}) >= 1) <=> (\E s \in Sites : f[s] >= v)
  <2> DEFINE T == {s \in Sites : f[s] >= v}
  <2>1. IsFiniteSet(T)
    BY <1>1, FS_Subset
  <2>2. Cardinality(T) \in Nat /\ (Cardinality(T) = 0 <=> T = {})
    BY <2>1, FS_CardinalityType, FS_EmptySet
  <2>3. (Cardinality(T) >= 1) <=> T # {}
    BY <2>2
  <2>4. QED BY <2>3
<1>3. R \in SUBSET (0..MaxLevel) /\ R # {}
  BY <1>1 DEF Severities
<1>4. Max(R) \in R /\ \A y \in R : Max(R) >= y
  BY <1>1, <1>3, MaxExists
<1>5. PICK s \in Sites : Max(R) = f[s]
  BY <1>4
<1>6. Max(R) \in 0..MaxLevel
  BY <1>3, <1>4
<1> HIDE DEF R
<1>7. Max(R) \in S
  <2>1. f[s] >= Max(R)
    BY <1>1, <1>5, <1>6
  <2>2. \E w \in Sites : f[w] >= Max(R)
    BY <1>5, <2>1
  <2>3. Cardinality({w \in Sites : f[w] >= Max(R)}) >= 1
    BY <1>2, <2>2
  <2>4. QED BY <1>6, <2>3
<1>8. Max(S) \in S /\ \A y \in S : Max(S) >= y
  BY <1>1, <1>7, MaxExists
<1>9. PICK u \in Sites : f[u] >= Max(S)
  BY <1>2, <1>8
<1>10. Max(R) >= f[u]
  BY <1>4, <1>9 DEF R
<1>11. Max(S) >= Max(R)
  BY <1>7, <1>8
<1>12. Max(S) \in Nat /\ f[u] \in Nat /\ Max(R) \in Nat
  BY <1>1, <1>6, <1>8 DEF Severities
<1> HIDE DEF S
<1>13. Max(S) = Max(R)
  BY <1>9, <1>10, <1>11, <1>12
<1>14. QED BY <1>13 DEF Nth, Peak, R, S

LEMMA GradedShape ==
  ASSUME NEW i \in ItemsOf("complexity-severity")
  PROVE  /\ i.fns \in Severities
         /\ \/ i.count = 0 /\ i.level = 0 /\ i.fns = Silent
            \/ i.count \in Nat /\ i.count >= 1 /\ i.level = Nth(i.fns, 1) /\ i.fns # Silent
<1>1. i = NoItem \/ i \in Graded
  BY DEF ItemsOf
<1>2. CASE i = NoItem
  <2>1. Silent \in Severities
    BY ItemsAssumption DEF Silent, Severities
  <2>2. QED BY <1>2, <2>1 DEF NoItem, Item
<1>3. CASE i \in Graded
  <2>1. PICK f \in Severities \ {Silent} : i = Item(Reports(f), Peak(f), f, 0)
    BY <1>3 DEF Graded
  <2> DEFINE S == {s \in Sites : f[s] > 0}
  <2>2. S # {}
    <3>1. ASSUME S = {}
          PROVE  FALSE
      <4>1. \A s \in Sites : f[s] = 0
        BY <3>1, ItemsAssumption DEF Severities
      <4>2. f = [s \in Sites |-> 0]
        BY <4>1 DEF Severities
      <4>3. QED BY <4>2 DEF Silent
    <3>2. QED BY <3>1
  <2>3. IsFiniteSet(Sites)
    BY ItemsAssumption, FS_Interval DEF Sites
  <2>4. Cardinality(S) \in Nat /\ Cardinality(S) # 0
    BY <2>2, <2>3, FS_Subset, FS_CardinalityType, FS_EmptySet
  <2>5. Reports(f) \in Nat /\ Reports(f) >= 1
    BY <2>4 DEF Reports
  <2>6. i.count = Reports(f) /\ i.level = Peak(f) /\ i.fns = f
    BY <2>1 DEF Item
  <2>7. QED BY <2>5, <2>6, PeakIsFirst
<1>4. QED BY <1>1, <1>2, <1>3

LEMMA CountedShape ==
  ASSUME NEW i \in ItemsOf("message-count")
  PROVE  i.level = 0 /\ i.fns = Silent
BY DEF ItemsOf, Counted, NoItem, Item

LEMMA MeasuredShape ==
  ASSUME NEW i \in ItemsOf("effective-line-count")
  PROVE  /\ i.fns = Silent
         /\ i.count \in Nat /\ i.level \in Nat /\ (i.count = 0 <=> i.level = 0)
BY SMTT(30), ItemsAssumption DEF ItemsOf, Measured, NoItem, Item, Sites

(* The complexities of an item are as many as its count says.                *)
LEMMA RanksAreSites ==
  ASSUME NEW i \in ItemsOf("complexity-severity")
  PROVE  \A k \in 1..i.count : k \in Sites
<1>1. i = NoItem \/ i \in Graded
  BY DEF ItemsOf
<1>2. CASE i = NoItem
  BY <1>2 DEF NoItem, Item
<1>3. CASE i \in Graded
  <2>1. PICK f \in Severities : i = Item(Reports(f), Peak(f), f, 0)
    BY <1>3 DEF Graded
  <2> DEFINE S == {s \in Sites : f[s] > 0}
  <2>2. IsFiniteSet(Sites) /\ Cardinality(Sites) = NumSites
    BY ItemsAssumption, FS_Interval DEF Sites
  <2>3. Cardinality(S) \in Nat /\ Cardinality(S) <= Cardinality(Sites)
    BY <2>2, FS_Subset, FS_CardinalityType
  <2>4. i.count = Cardinality(S)
    BY <2>1 DEF Item, Reports
  <2> HIDE DEF S
  <2>5. QED BY <2>2, <2>3, <2>4, ItemsAssumption DEF Sites
<1>4. QED BY <1>1, <1>2, <1>3

LEMMA MinExists ==
  ASSUME NEW S \in SUBSET Nat, S # {}
  PROVE  \E j \in S : \A l \in S : j <= l
<1>1. PICK j \in S : \A l \in S : ~(<<l, j>> \in OpToRel(<, Nat))
  BY WFMin, NatLessThanWellFounded
<1>2. \A l \in S : ~(l < j)
  BY <1>1 DEF OpToRel
<1>3. QED BY <1>2

(* Without a delta between the sorted complexities, none of them moved.       *)
LEMMA NoVectorNoMove ==
  ASSUME NEW how, NEW b, NEW c, VectorDelta(how, b, c) = {},
         NEW k \in Sites, k <= b.count, k <= c.count
  PROVE  ~Moved(how, Nth(b.fns, k), Nth(c.fns, k))
<1> DEFINE V == {j \in Sites : /\ j <= b.count /\ j <= c.count
                               /\ Moved(how, Nth(b.fns, j), Nth(c.fns, j))}
<1>1. {j \in V : \A l \in V : j <= l} = {}
  BY DEF VectorDelta
<1>2. V \in SUBSET Nat
  BY ItemsAssumption DEF Sites
<1>3. V = {}
  <2> HIDE DEF V
  <2>1. QED BY <1>1, <1>2, MinExists
<1>4. QED BY <1>3

LEMMA RankedAlike ==
  ASSUME NEW b \in ItemsOf("complexity-severity"), NEW c \in ItemsOf("complexity-severity"),
         b.count = c.count, VectorDelta("worse", b, c) = {}, VectorDelta("better", b, c) = {}
  PROVE  Ranked(b) = Ranked(c)
<1>1. b.count \in Nat /\ b.fns \in Severities /\ c.fns \in Severities
  BY ItemShape DEF Metrics
<1>2. ASSUME NEW k \in 1..b.count
      PROVE  Nth(b.fns, k) = Nth(c.fns, k)
  <2>1. k \in Sites /\ k <= b.count /\ k <= c.count
    BY <1>1, RanksAreSites
  <2>2. /\ ~Moved("worse", Nth(b.fns, k), Nth(c.fns, k))
        /\ ~Moved("better", Nth(b.fns, k), Nth(c.fns, k))
    BY <2>1, NoVectorNoMove
  <2>3. Nth(b.fns, k) \in Nat /\ Nth(c.fns, k) \in Nat
    BY <1>1, <2>1, NthNat
  <2> DEFINE x == Nth(b.fns, k)
  <2> DEFINE y == Nth(c.fns, k)
  <2>4. ~(y > x) /\ ~(y < x)
    BY <2>2 DEF Moved
  <2> HIDE DEF x, y
  <2>5. x \in Nat /\ y \in Nat => x = y
    BY <2>4
  <2>6. QED BY <2>3, <2>5 DEF x, y
<1>3. QED BY <1>2 DEF Ranked

(* The sorted complexities that got better from b to c got worse from c to b. *)
LEMMA VectorMirror ==
  ASSUME NEW b, NEW c
  PROVE  VectorDelta("better", b, c) = {} <=> VectorDelta("worse", c, b) = {}
<1> DEFINE V == {k \in Sites : k <= b.count /\ k <= c.count
                               /\ Moved("better", Nth(b.fns, k), Nth(c.fns, k))}
<1> DEFINE W == {k \in Sites : k <= c.count /\ k <= b.count
                               /\ Moved("worse", Nth(c.fns, k), Nth(b.fns, k))}
<1>1. \A x, y : Moved("better", x, y) <=> Moved("worse", y, x)
  BY DEF Moved
<1>2. V = W
  BY <1>1
<1>3. /\ VectorDelta("better", b, c) = {} <=> {j \in V : \A l \in V : j <= l} = {}
      /\ VectorDelta("worse", c, b) = {} <=> {j \in W : \A l \in W : j <= l} = {}
  BY DEF VectorDelta
<1>4. QED BY <1>2, <1>3

(* A function that is lower than what was found at its place was higher       *)
(* there, or shares the place with one that is as high.                        *)
LEMMA ExactForth ==
  ASSUME NEW b, NEW c, b.fns \in Severities, c.fns \in Severities,
         ExactDelta("better", b, c) # {}
  PROVE  ExactDelta("worse", c, b) # {} \/ Shared(c.fns)
<1>1. PICK s \in Sites : Highest(b.fns, s) > 0 /\ c.fns[s] > 0 /\ c.fns[s] < Highest(b.fns, s)
  BY DEF ExactDelta, Moved
<1>2. PICK u \in Sites : Place[u] = Place[s] /\ b.fns[u] = Highest(b.fns, s)
  BY HighestOf
<1>3. PICK w \in Sites : Place[w] = Place[s] /\ c.fns[w] = Highest(c.fns, s)
  BY HighestOf
<1>4. /\ Highest(b.fns, s) \in Nat /\ Highest(c.fns, s) \in Nat /\ c.fns[s] \in Nat
      /\ c.fns[s] <= Highest(c.fns, s)
  BY HighestOf
<1>5. Highest(c.fns, u) = Highest(c.fns, s)
  BY <1>2 DEF Highest
<1>6. CASE Highest(c.fns, s) < b.fns[u]
  <2>1. Highest(c.fns, u) > 0 /\ b.fns[u] > 0 /\ Moved("worse", Highest(c.fns, u), b.fns[u])
    BY <1>1, <1>2, <1>4, <1>5, <1>6 DEF Moved
  <2>2. QED BY <2>1 DEF ExactDelta
<1>7. CASE ~(Highest(c.fns, s) < b.fns[u])
  <2>1. c.fns[w] > c.fns[s] /\ c.fns[w] > 0
    BY <1>1, <1>2, <1>3, <1>4, <1>7
  <2>2. w # s
    BY <1>4, <2>1
  <2>3. QED BY <1>1, <1>3, <2>1, <2>2 DEF Shared
<1>8. QED BY <1>6, <1>7

(* A function that is higher than everything found at its place was lower.    *)
LEMMA ExactBack ==
  ASSUME NEW b, NEW c, b.fns \in Severities, c.fns \in Severities,
         ExactDelta("worse", c, b) # {}
  PROVE  ExactDelta("better", b, c) # {}
<1>1. PICK s \in Sites : Highest(c.fns, s) > 0 /\ b.fns[s] > 0 /\ b.fns[s] > Highest(c.fns, s)
  BY DEF ExactDelta, Moved
<1>2. PICK w \in Sites : Place[w] = Place[s] /\ c.fns[w] = Highest(c.fns, s)
  BY HighestOf
<1>3. /\ Highest(b.fns, s) \in Nat /\ Highest(c.fns, s) \in Nat /\ b.fns[s] \in Nat
      /\ b.fns[s] <= Highest(b.fns, s)
  BY HighestOf
<1>4. Highest(b.fns, w) = Highest(b.fns, s)
  BY <1>2 DEF Highest
<1>5. Highest(b.fns, w) > 0 /\ c.fns[w] > 0 /\ Moved("better", Highest(b.fns, w), c.fns[w])
  BY <1>1, <1>2, <1>3, <1>4 DEF Moved
<1>6. QED BY <1>5 DEF ExactDelta

(* The same of both comparisons together.                                     *)
LEMMA DeltaForth ==
  ASSUME NEW b, NEW c, b.fns \in Severities, c.fns \in Severities,
         Delta("better", b, c) # {}
  PROVE  \/ Delta("worse", c, b) # {}
         \/ VectorDelta("better", b, c) = {} /\ Shared(c.fns)
<1>1. b.fns # Silent /\ c.fns # Silent
  BY DEF Delta
<1>2. Delta("worse", c, b) = {} => ExactDelta("worse", c, b) = {} /\ VectorDelta("worse", c, b) = {}
  BY <1>1 DEF Delta
<1>3. CASE VectorDelta("better", b, c) # {}
  BY <1>2, <1>3, VectorMirror
<1>4. CASE VectorDelta("better", b, c) = {}
  <2>1. ExactDelta("better", b, c) # {}
    BY <1>1, <1>4 DEF Delta
  <2>2. QED BY <1>2, <1>4, <2>1, ExactForth
<1>5. QED BY <1>3, <1>4

LEMMA DeltaBack ==
  ASSUME NEW b, NEW c, b.fns \in Severities, c.fns \in Severities,
         Delta("worse", c, b) # {}
  PROVE  Delta("better", b, c) # {}
<1>1. b.fns # Silent /\ c.fns # Silent
  BY DEF Delta
<1>2. ExactDelta("worse", c, b) # {} \/ VectorDelta("worse", c, b) # {}
  BY DEF Delta
<1>3. ExactDelta("better", b, c) # {} \/ VectorDelta("better", b, c) # {}
  BY <1>2, ExactBack, VectorMirror
<1>4. QED BY <1>1, <1>3 DEF Delta

(* Without a delta for the worse the highest complexity did not rise.        *)
LEMMA NoWorseNoHigher ==
  ASSUME NEW b, NEW c, b.fns # Silent, c.fns # Silent, b.count >= 1, c.count >= 1,
         b.fns \in Severities, c.fns \in Severities, Delta("worse", b, c) = {}
  PROVE  ~(Nth(c.fns, 1) > Nth(b.fns, 1))
<1> DEFINE V == {k \in Sites : k <= b.count /\ k <= c.count
                               /\ Moved("worse", Nth(b.fns, k), Nth(c.fns, k))}
<1>1. VectorDelta("worse", b, c) = {}
  BY DEF Delta
<1>2. {j \in V : \A l \in V : j <= l} = {}
  BY <1>1 DEF VectorDelta
<1>3. 1 \in Sites /\ \A l \in Sites : 1 <= l
  BY ItemsAssumption DEF Sites
<1>4. 1 \notin V
  BY <1>2, <1>3
<1>5. QED BY <1>3, <1>4 DEF Moved

(* Both halves of the claim, where a metric has no places.                    *)
LEMMA LevelsMirror ==
  ASSUME NEW m \in Metrics \ {"complexity-severity"}, NEW b \in ItemsOf(m), NEW c \in ItemsOf(m)
  PROVE  LevelImprovement(m, b, c) # {} => LevelRegression(m, c, b) # {}
BY ItemShape DEF LevelImprovement, LevelRegression

LEMMA LevelsKept ==
  ASSUME NEW m \in Metrics, NEW b \in ItemsOf(m), NEW c \in ItemsOf(m),
         LevelRegression(m, b, c) = {}, c.count <= b.count
  PROVE  /\ c.level <= b.level
         /\ m # "complexity-severity" => LevelImprovement(m, c, b) = {}
<1>1. CASE m = "message-count"
  <2>1. c.level = 0 /\ b.level = 0
    BY <1>1, CountedShape
  <2>2. QED BY <1>1, <2>1 DEF LevelImprovement
<1>2. CASE m = "effective-line-count"
  <2>1. /\ b.count \in Nat /\ b.level \in Nat /\ (b.count = 0 <=> b.level = 0)
        /\ c.count \in Nat /\ c.level \in Nat /\ (c.count = 0 <=> c.level = 0)
    BY <1>2, MeasuredShape
  <2>2. ~(b.level > 0 /\ c.level > b.level)
    BY <1>2 DEF LevelRegression
  <2>3. QED BY <1>2, <2>1, <2>2 DEF LevelImprovement
<1>3. CASE m = "complexity-severity"
  <2>1. Delta("worse", b, c) = {}
    BY <1>3 DEF LevelRegression
  <2>2. c.fns \in Severities /\ b.fns \in Severities /\ c.level \in Nat /\ b.level \in Nat
    BY ItemShape
  <2>3. CASE c.fns = Silent
    BY <1>3, <2>2, <2>3, GradedShape
  <2>4. CASE c.fns # Silent
    <3>1. c.count \in Nat /\ c.count >= 1 /\ c.level = Nth(c.fns, 1)
      BY <1>3, <2>4, GradedShape
    <3>2. b.count \in Nat /\ b.count >= 1 /\ b.level = Nth(b.fns, 1) /\ b.fns # Silent
      BY <1>3, <3>1, GradedShape
    <3>3. ~(c.level > b.level)
      BY <2>1, <2>2, <2>4, <3>1, <3>2, NoWorseNoHigher
    <3>4. QED BY <1>3, <2>2, <3>3
  <2>5. QED BY <1>3, <2>3, <2>4
<1>4. QED BY <1>1, <1>2, <1>3 DEF Metrics

(* Two items of the same count, when the second is not worse.                 *)
LEMMA SameCountLocks ==
  ASSUME NEW m \in Metrics, NEW b \in ItemsOf(m), NEW c \in ItemsOf(m),
         b.count = c.count, LevelRegression(m, b, c) = {}
  PROVE  /\ LevelImprovement(m, b, c) # {} => LevelRegression(m, c, b) # {} \/ Blurred(b, c)
         /\ LevelImprovement(m, b, c) = {} =>
              LevelRegression(m, c, b) = {} /\ (LevelImprovement(m, c, b) # {} => Blurred(b, c))
<1>1. b.count \in Nat /\ c.count \in Nat /\ b.fns \in Severities /\ c.fns \in Severities
  BY ItemShape
<1>2. CASE m = "complexity-severity"
  <2>1. Delta("worse", b, c) = {}
    BY <1>2 DEF LevelRegression
  <2>2. ASSUME Delta("better", b, c) # {}, Delta("worse", c, b) = {}
        PROVE  Blurred(b, c)
    <3>1. VectorDelta("better", b, c) = {} /\ Shared(c.fns)
      BY <1>1, <2>2, DeltaForth
    <3>2. VectorDelta("worse", b, c) = {}
      BY <2>1, <2>2 DEF Delta
    <3>3. Ranked(b) = Ranked(c)
      BY <1>2, <3>1, <3>2, RankedAlike
    <3>4. QED BY <3>1, <3>3 DEF Blurred
  <2>3. ASSUME Delta("better", b, c) = {}
        PROVE  Delta("worse", c, b) = {}
    BY <1>1, <2>3, DeltaBack
  <2>4. ASSUME Delta("better", b, c) = {}, Delta("better", c, b) # {}
        PROVE  Blurred(b, c)
    <3>1. Shared(b.fns)
      BY <1>1, <2>1, <2>4, DeltaForth
    <3>2. VectorDelta("worse", b, c) = {} /\ VectorDelta("better", b, c) = {}
      BY <2>1, <2>4 DEF Delta
    <3>3. Ranked(b) = Ranked(c)
      BY <1>2, <3>2, RankedAlike
    <3>4. QED BY <3>1, <3>3 DEF Blurred
  <2>5. /\ LevelImprovement(m, b, c) = {} <=> Delta("better", b, c) = {}
        /\ LevelImprovement(m, c, b) = {} <=> Delta("better", c, b) = {}
        /\ LevelRegression(m, c, b) = {} <=> Delta("worse", c, b) = {}
    BY <1>2 DEF LevelImprovement, LevelRegression
  <2>6. QED BY <2>2, <2>3, <2>4, <2>5
<1>3. CASE m # "complexity-severity"
  <2>1. LevelImprovement(m, b, c) # {} => LevelRegression(m, c, b) # {}
    BY <1>3, LevelsMirror
  <2>2. LevelImprovement(m, c, b) = {}
    BY <1>1, <1>3, LevelsKept
  <2>3. ASSUME LevelImprovement(m, b, c) = {}
        PROVE  LevelRegression(m, c, b) = {}
    <3>1. CASE m = "effective-line-count"
      BY <1>1, <2>3, <3>1, MeasuredShape DEF LevelImprovement, LevelRegression
    <3>2. CASE m = "message-count"
      BY <3>2 DEF LevelRegression
    <3>3. QED BY <1>3, <3>1, <3>2 DEF Metrics
  <2>4. QED BY <2>1, <2>2, <2>3
<1>4. QED BY <1>2, <1>3

LEMMA ComparisonLocks ==
  ASSUME NEW m \in Metrics, NEW b \in ItemsOf(m), NEW c \in ItemsOf(m)
  PROVE  /\ Improvement(m, b, c) # {} =>
              c.count <= b.count /\ c.level <= b.level /\ (Regression(m, c, b) # {} \/ Blurred(b, c))
         /\ Improvement(m, b, c) = {} /\ Regression(m, b, c) = {} =>
              Regression(m, c, b) = {} /\ (Improvement(m, c, b) # {} => Blurred(b, c))
<1>1. b.count \in Nat /\ c.count \in Nat /\ b.level \in Nat /\ c.level \in Nat
  BY ItemShape
<1>2. SUFFICES ASSUME Regression(m, b, c) = {}
               PROVE  /\ Improvement(m, b, c) # {} =>
                           /\ c.count <= b.count /\ c.level <= b.level
                           /\ Regression(m, c, b) # {} \/ Blurred(b, c)
                      /\ Improvement(m, b, c) = {} =>
                           /\ Regression(m, c, b) = {}
                           /\ Improvement(m, c, b) # {} => Blurred(b, c)
  BY DEF Improvement
<1>3. LevelRegression(m, b, c) = {} /\ CountRegression(b, c) = {}
  BY <1>2 DEF Regression
<1>4. c.count <= b.count
  BY <1>3 DEF CountRegression
<1>5. c.level <= b.level
  BY <1>3, <1>4, LevelsKept
<1>6. CASE c.count < b.count
  <2>1. CountRegression(c, b) # {}
    BY <1>1, <1>6 DEF CountRegression
  <2>2. Regression(m, c, b) # {}
    BY <2>1 DEF Regression
  <2>3. Improvement(m, b, c) # {}
    BY <1>2, <1>6 DEF Improvement
  <2>4. QED BY <1>4, <1>5, <2>2, <2>3
<1>7. CASE c.count = b.count
  <2>1. CountRegression(c, b) = {}
    BY <1>1, <1>7 DEF CountRegression
  <2>2. Improvement(m, b, c) = LevelImprovement(m, b, c)
    BY <1>1, <1>2, <1>7 DEF Improvement
  <2>3. Regression(m, c, b) = {} <=> LevelRegression(m, c, b) = {}
    BY <2>1 DEF Regression
  <2>4. Improvement(m, c, b) # {} => LevelImprovement(m, c, b) # {}
    BY <1>1, <1>7 DEF Improvement
  <2>5. /\ LevelImprovement(m, b, c) # {} => LevelRegression(m, c, b) # {} \/ Blurred(b, c)
        /\ LevelImprovement(m, b, c) = {} =>
             LevelRegression(m, c, b) = {} /\ (LevelImprovement(m, c, b) # {} => Blurred(b, c))
    BY <1>3, <1>7, SameCountLocks
  <2>6. QED BY <1>4, <1>5, <2>2, <2>3, <2>4, <2>5
<1>8. QED BY <1>1, <1>4, <1>6, <1>7

(* For every metric and every two items that a baseline may hold, functions    *)
(* that share a line and a label included: an improvement is worse on no axis,   *)
(* and it is locked unless the two items are blurred; a change that is neither   *)
(* can be undone (compareItem).                                                   *)
THEOREM LowerFloorsAreLocked == Spec => []ImprovementsLocked
<1>1. Inputs => ImprovementsLocked
  BY ComparisonLocks DEF Inputs, ImprovementsLocked
<1>2. QED BY <1>1, InputsAlways, PTL

-----------------------------------------------------------------------------
(* Updates and their accounting                                              *)

LEMMA UpdateInputs ==
  ASSUME "complexity-severity" \notin UsedMetrics, Inputs, call.kind = "update"
  PROVE  /\ call.old \in PlainDocs /\ call.new \in PlainDocs
         /\ call.o \in Options /\ Allowed(call.old, call.new, call.o)
BY GeneratedPlain DEF Inputs

(* Where no ratchet measures complexities, check-debt-accounting lets exactly *)
(* those changes pass without a record for which lint:ratchet:update asks for   *)
(* none of --allow-worse, --reason and --retire-ratchet: hasAccountingEntry and  *)
(* compareItem, written apart, call the same changes worse.                      *)
THEOREM GatesDoAgree ==
  ASSUME "complexity-severity" \notin UsedMetrics
  PROVE  Spec => []GatesAgree
<1>1. Inputs => GatesAgree
  BY UpdateInputs, NothingToExplain DEF GatesAgree
<1>2. QED BY <1>1, InputsAlways, PTL

(* Where no ratchet measures complexities, what an accepted update appends to *)
(* the debt log explains, for check-debt-accounting, every regression, dropped  *)
(* ratchet, changed metric and narrowed scope of that update.                    *)
THEOREM UpdatesAreAccounted ==
  ASSUME "complexity-severity" \notin UsedMetrics
  PROVE  Spec => []UpdateAccounted
<1>1. Inputs => UpdateAccounted
  BY UpdateInputs, UpdateExplained DEF UpdateAccounted
<1>2. QED BY <1>1, InputsAlways, PTL

=============================================================================
