------------------------- MODULE MemoryBudgetProofs -------------------------
(* Proofs about MemoryBudget: its types, that no slot of a live launcher     *)
(* runs without a reservation, that what is admitted fits, and that the      *)
(* launchers together are the pool of MemoryPool.                            *)
EXTENDS MemoryBudget, FiniteSetTheorems, TLAPS

-----------------------------------------------------------------------------
(* Types                                                                     *)

LEMMA LiveRssType ==
  ASSUME TypeOK, NEW s \in Slots
  PROVE  LiveRss(s) \in Nat
BY BudgetAssumption DEF TypeOK, LiveRss, Smaller

LEMMA TypeStep ==
  ASSUME TypeOK, [Next]_vars
  PROVE  TypeOK'
<1> USE BudgetAssumption DEF TypeOK, Pids, Tokens, Phases, PCs, Blank
<1>1. ASSUME NEW o \in Owners, TryReserve(o)
      PROVE  TypeOK'
  <2>1. Tries(o) \subseteq Slots
    BY DEF Tries, Wanted, Pending, SlotsOf
  <2>2. QED BY <1>1, <2>1 DEF TryReserve
<1>2. ASSUME NEW o \in Owners, ScanOne(o)
      PROVE  TypeOK'
  <2>1. PICK s \in left : left' = left \ {s} /\ (IF Stale(s) THEN Drop(s) ELSE Charge(s))
    BY <1>2 DEF ScanOne
  <2>2. s \in Slots /\ left' \in SUBSET Slots
    BY <2>1
  <2>3. token' \in [Slots -> Tokens] /\ acct' \in [reserved : Nat, live : Nat]
    <3>1. CASE Stale(s)
      BY <2>1, <2>2, <3>1 DEF Drop
    <3>2. CASE ~Stale(s)
      BY <2>1, <2>2, <3>2, LiveRssType DEF Charge
    <3>3. QED BY <3>1, <3>2
  <2>4. QED BY <1>2, <2>2, <2>3 DEF ScanOne
<1>3. ASSUME NEW o \in Owners, Admit(o)
      PROVE  TypeOK'
  BY <1>3 DEF Admit, Unlock
<1>4. ASSUME NEW o \in Owners, Refuse(o) \/ AdmissionFails(o) \/ Timeout(o)
      PROVE  TypeOK'
  <2>1. CASE Refuse(o)
    BY <2>1 DEF Refuse, NextSlot, Unlock
  <2>2. CASE AdmissionFails(o)
    BY <2>2 DEF AdmissionFails, GiveUp, NextSlot, Unlock
  <2>3. CASE Timeout(o)
    BY <2>3 DEF Timeout, GiveUp
  <2>4. QED BY <1>4, <2>1, <2>2, <2>3
<1>5. ASSUME NEW o \in Owners, Launch(o) \/ AttachTest(o) \/ AttachFails(o)
      PROVE  TypeOK'
  BY <1>5 DEF Launch, AttachTest, AttachFails, NextSlot
<1>6. ASSUME NEW o \in Owners, AttachAppend(o)
      PROVE  TypeOK'
  BY <1>6 DEF AttachAppend, NextSlot
<1>7. ASSUME NEW o \in Owners, Kill(o)
      PROVE  TypeOK'
  BY <1>7 DEF Kill, NextSlot, Unlock
<1>8. ASSUME NEW o \in Owners, Reuse(o)
      PROVE  TypeOK'
  BY <1>8 DEF Reuse
<1>9. ASSUME NEW s \in Slots, Grow(s) \/ Shrink(s) \/ StepEnds(s)
      PROVE  TypeOK'
  BY <1>9 DEF Grow, Shrink, StepEnds
<1>10. ASSUME NEW s \in Slots, TrapRelease(s) \/ Reap(s)
      PROVE  TypeOK'
  BY <1>10 DEF TrapRelease, Reap, Release
<1>11. ASSUME UNCHANGED vars
      PROVE  TypeOK'
  BY <1>11 DEF vars
<1>12. QED
  BY <1>1, <1>2, <1>3, <1>4, <1>5, <1>6, <1>7, <1>8, <1>9, <1>10, <1>11
  DEF Next, Launcher, Step, Finished

(* Every variable keeps its type, whatever fails and whoever is killed; the  *)
(* sums of the scan stay naturals because what a step has beyond its         *)
(* expected peak is not credited (memory-budget.sh:360).                     *)
THEOREM TypeSafety == Spec => []TypeOK
<1>1. Init => TypeOK
  BY BudgetAssumption DEF Init, TypeOK, Pids, Tokens, Phases, PCs, Blank
<1>2. TypeOK /\ [Next]_vars => TypeOK'
  BY TypeStep
<1>3. QED BY <1>1, <1>2, PTL DEF Spec

-----------------------------------------------------------------------------
(* Reservations                                                              *)

(* A launcher only works on its own slots, and the one it is about to launch *)
(* has been admitted by it.                                                  *)
OwnSlots ==
  \A o \in Owners :
    /\ todo[o] \subseteq SlotsOf(o)
    /\ pc[o] # "idle" => cur[o] \in SlotsOf(o)
    /\ pc[o] = "launch" => phase[cur[o]] = "admitted" /\ pid[o] = "alive"

CoverInv == TypeOK /\ OwnSlots /\ Covered

(* Giving slots up, or ending them, uncovers none.                           *)
LEMMA CoverKept ==
  ASSUME Covered, token' = token, pid' = pid,
         \A s \in Slots : phase'[s] = phase[s] \/ phase'[s] \notin {"admitted", "running"}
  PROVE  Covered'
BY DEF Covered, Counted, Using

LEMMA OwnStep ==
  ASSUME TypeOK, OwnSlots, [Next]_vars
  PROVE  OwnSlots'
<1> USE BudgetAssumption DEF TypeOK, OwnSlots, SlotsOf
<1>1. ASSUME NEW o \in Owners, TryReserve(o)
      PROVE  OwnSlots'
  <2>1. Wanted(o) \subseteq SlotsOf(o)
    BY DEF Wanted, Pending
  <2>2. Tries(o) \subseteq SlotsOf(o)
    BY <2>1 DEF Tries
  <2>3. QED BY <1>1, <2>2 DEF TryReserve
<1>2. ASSUME NEW o \in Owners, ScanOne(o)
      PROVE  OwnSlots'
  BY <1>2 DEF ScanOne
<1>3. ASSUME NEW o \in Owners, Admit(o)
      PROVE  OwnSlots'
  BY <1>3 DEF Admit, ScanDone
<1>4. ASSUME NEW o \in Owners, Refuse(o)
      PROVE  OwnSlots'
  BY <1>4 DEF Refuse, NextSlot
<1>5. ASSUME NEW o \in Owners, AdmissionFails(o)
      PROVE  OwnSlots'
  <2>1. \A s \in Slots : phase'[s] = phase[s] \/ s \in SlotsOf(o)
    BY <1>5 DEF AdmissionFails, GiveUp, Pending, ScanDone
  <2>2. QED BY <1>5, <2>1 DEF AdmissionFails, NextSlot
<1>6. ASSUME NEW o \in Owners, Timeout(o)
      PROVE  OwnSlots'
  <2>1. \A s \in Slots : phase'[s] = phase[s] \/ phase[s] = "pending"
    BY <1>6 DEF Timeout, GiveUp, Pending
  <2>2. QED BY <1>6, <2>1 DEF Timeout
<1>7. ASSUME NEW o \in Owners, Launch(o)
      PROVE  OwnSlots'
  BY <1>7 DEF Launch, NextSlot
<1>8. ASSUME NEW o \in Owners, AttachTest(o) \/ AttachAppend(o) \/ AttachFails(o)
      PROVE  OwnSlots'
  BY <1>8 DEF AttachTest, AttachAppend, AttachFails, NextSlot
<1>9. ASSUME NEW o \in Owners, Kill(o)
      PROVE  OwnSlots'
  BY <1>9 DEF Kill, NextSlot
<1>10. ASSUME NEW o \in Owners, Reuse(o)
      PROVE  OwnSlots'
  BY <1>10 DEF Reuse
<1>11. ASSUME NEW s \in Slots, Grow(s) \/ Shrink(s) \/ StepEnds(s) \/ TrapRelease(s)
      PROVE  OwnSlots'
  BY <1>11 DEF Grow, Shrink, StepEnds, TrapRelease
<1>12. ASSUME NEW s \in Slots, Reap(s)
      PROVE  OwnSlots'
  <2>1. \A t \in Slots : phase'[t] = phase[t] \/ phase[t] \in {"pending", "ended", "exited"}
    BY <1>12 DEF Reap, Pending
  <2>2. QED BY <1>12, <2>1 DEF Reap
<1>13. ASSUME UNCHANGED vars
      PROVE  OwnSlots'
  BY <1>13 DEF vars
<1>14. QED
  BY <1>1, <1>2, <1>3, <1>4, <1>5, <1>6, <1>7, <1>8, <1>9, <1>10, <1>11, <1>12, <1>13
  DEF Next, Launcher, Step, Finished

LEMMA CoverStep ==
  ASSUME CoverInv, [Next]_vars, "nospace" \notin Events
  PROVE  Covered'
<1> USE BudgetAssumption DEF CoverInv, TypeOK
<1>1. ASSUME NEW o \in Owners, TryReserve(o) \/ Refuse(o) \/ AttachTest(o) \/ AttachFails(o)
      PROVE  Covered'
  BY <1>1, CoverKept DEF TryReserve, Refuse, AttachTest, AttachFails
<1>2. ASSUME NEW o \in Owners, ScanOne(o)
      PROVE  Covered'
  <2>1. PICK s \in left : IF Stale(s) THEN Drop(s) ELSE Charge(s)
    BY <1>2 DEF ScanOne
  <2>2. CASE Stale(s)
    <3>1. ~Counted(s)
      BY <2>2 DEF Stale, Covered, Counted
    <3>2. QED BY <1>2, <2>1, <2>2, <3>1 DEF ScanOne, Drop, Covered, Counted, Using
  <2>3. CASE ~Stale(s)
    BY <1>2, <2>1, <2>3, CoverKept DEF ScanOne, Charge
  <2>4. QED BY <2>2, <2>3
<1>3. ASSUME NEW o \in Owners, Admit(o)
      PROVE  Covered'
  BY <1>3 DEF Admit, ScanDone, Covered, Counted, Using
<1>4. ASSUME NEW o \in Owners, AdmissionFails(o) \/ Timeout(o)
      PROVE  Covered'
  <2>1. \A s \in Slots : phase'[s] = phase[s] \/ phase'[s] = "notrun"
    BY <1>4 DEF AdmissionFails, Timeout, GiveUp
  <2>2. QED BY <1>4, <2>1, CoverKept DEF AdmissionFails, Timeout
<1>5. ASSUME NEW o \in Owners, Launch(o)
      PROVE  Covered'
  BY <1>5 DEF Launch, OwnSlots, SlotsOf, Covered, Counted, Using
<1>6. ASSUME NEW o \in Owners, AttachAppend(o)
      PROVE  Covered'
  BY <1>6 DEF AttachAppend, Covered, Counted, Using
<1>7. ASSUME NEW o \in Owners, Kill(o) \/ Reuse(o)
      PROVE  Covered'
  <2>1. CASE Kill(o)
    BY <2>1 DEF Kill, Covered, Counted, Using
  <2>2. CASE Reuse(o)
    BY <2>2 DEF Reuse, Covered, Counted, Using
  <2>3. QED BY <1>7, <2>1, <2>2
<1>8. ASSUME NEW s \in Slots, Grow(s) \/ Shrink(s) \/ StepEnds(s)
      PROVE  Covered'
  BY <1>8, CoverKept DEF Grow, Shrink, StepEnds
<1>9. ASSUME NEW s \in Slots, TrapRelease(s)
      PROVE  Covered'
  BY <1>9 DEF TrapRelease, Release, Covered, Counted, Using
<1>10. ASSUME NEW s \in Slots, Reap(s)
      PROVE  Covered'
  <2>1. \A t \in Slots : phase'[t] = phase[t] \/ phase'[t] \in {"done", "notrun"}
    BY <1>10 DEF Reap
  <2>2. phase'[s] = "done" /\ \A t \in Slots \ {s} : token'[t] = token[t]
    BY <1>10 DEF Reap, Release
  <2>3. pid' = pid
    BY <1>10 DEF Reap
  <2>4. QED BY <2>1, <2>2, <2>3 DEF Covered, Counted, Using
<1>11. ASSUME UNCHANGED vars
      PROVE  Covered'
  BY <1>11, CoverKept DEF vars
<1>12. QED
  BY <1>1, <1>2, <1>3, <1>4, <1>5, <1>6, <1>7, <1>8, <1>9, <1>10, <1>11
  DEF Next, Launcher, Step, Finished

(* While the state directory has room for a token's text, a slot of a live   *)
(* launcher is never in flight without its reservation, however many         *)
(* launchers scan, attach, release and die around it.                        *)
THEOREM NoSlotUncovered ==
  ASSUME "nospace" \notin Events
  PROVE  Spec => []Covered
<1>1. Init => CoverInv
  BY BudgetAssumption
  DEF Init, CoverInv, TypeOK, OwnSlots, Covered, Counted, Using, SlotsOf,
      Pids, Tokens, Phases, PCs, Blank
<1>2. CoverInv /\ [Next]_vars => CoverInv'
  BY TypeStep, OwnStep, CoverStep DEF CoverInv
<1>3. CoverInv => Covered
  BY DEF CoverInv
<1>4. QED BY <1>1, <1>2, <1>3, PTL DEF Spec

-----------------------------------------------------------------------------
(* Sums over finite sets                                                     *)

(* A nonempty set of subsets of a finite set has a smallest one.             *)
LEMMA SmallestSubset ==
  ASSUME NEW S, IsFiniteSet(S), NEW B \in SUBSET (SUBSET S), B # {}
  PROVE  \E T \in B : \A U \in B : U \subseteq T => U = T
<1> DEFINE R == StrictSubsetOrdering(S)
<1>1. IsWellFoundedOn(R, SUBSET S)
  BY FS_StrictSubsetOrderingWellFounded, FS_FiniteSubsetsOfFinite
<1>2. PICK T \in B : \A U \in B : ~(<<U, T>> \in R)
  <2> HIDE DEF R
  <2>. QED BY <1>1, WFMin
<1>3. ASSUME NEW U \in B, U \subseteq T, U # T PROVE FALSE
  <2>1. <<U, T>> \in (SUBSET S) \X (SUBSET S)
    OBVIOUS
  <2>2. <<U, T>> \in R
    BY <1>3, <2>1 DEF StrictSubsetOrdering
  <2>. QED BY <1>2, <2>2
<1>. QED BY <1>3

(* The function by which MapThenSumSet adds up f over the subsets of S.      *)
Some(s) == CHOOSE x \in s : TRUE
Adds(f, S, h) ==
  h = [s \in SUBSET S |-> IF s = {} THEN 0 ELSE f[Some(s)] + h[s \ {Some(s)}]]
SumOf(f, S) == (CHOOSE h : Adds(f, S, h))[S]

LEMMA SomeIn == ASSUME NEW s, s # {} PROVE Some(s) \in s
BY DEF Some

LEMMA AddsAt ==
  ASSUME NEW f, NEW S, NEW h, Adds(f, S, h), NEW s \in SUBSET S
  PROVE  h[s] = IF s = {} THEN 0 ELSE f[Some(s)] + h[s \ {Some(s)}]
BY DEF Adds

LEMMA AddsAgree ==
  ASSUME NEW f, NEW S, IsFiniteSet(S), NEW T, NEW g, NEW h, Adds(f, S, g), Adds(f, T, h)
  PROVE  \A U : U \subseteq S /\ U \subseteq T => g[U] = h[U]
<1> DEFINE B == {U \in SUBSET S : U \subseteq T /\ g[U] # h[U]}
<1>1. SUFFICES ASSUME B # {} PROVE FALSE
  OBVIOUS
<1>2. PICK U \in B : \A V \in B : V \subseteq U => V = U
  <2>1. B \in SUBSET (SUBSET S)
    OBVIOUS
  <2> HIDE DEF B
  <2>. QED BY <1>1, <2>1, SmallestSubset
<1>3. g[U] = IF U = {} THEN 0 ELSE f[Some(U)] + g[U \ {Some(U)}]
  BY AddsAt
<1>4. h[U] = IF U = {} THEN 0 ELSE f[Some(U)] + h[U \ {Some(U)}]
  <2>1. U \in SUBSET T
    OBVIOUS
  <2>. QED BY <2>1, AddsAt
<1>5. U # {} => g[U \ {Some(U)}] = h[U \ {Some(U)}]
  BY <1>2, SomeIn
<1>. QED BY <1>3, <1>4, <1>5

LEMMA SumIs ==
  ASSUME NEW f, NEW S, IsFiniteSet(S), NEW h, Adds(f, S, h)
  PROVE  h[S] = SumOf(f, S)
<1>1. Adds(f, S, CHOOSE g : Adds(f, S, g))
  OBVIOUS
<1>. QED BY <1>1, AddsAgree DEF SumOf

(* When f can be added up over S, the sum over S is that of S without one    *)
(* element, and that element.                                                *)
LEMMA SumUnfolds ==
  ASSUME NEW f, NEW S, IsFiniteSet(S), NEW h, Adds(f, S, h), NEW T \in SUBSET S
  PROVE  /\ h[T] = SumOf(f, T)
         /\ SumOf(f, T) = IF T = {} THEN 0 ELSE f[Some(T)] + SumOf(f, T \ {Some(T)})
<1>1. ASSUME NEW U \in SUBSET S PROVE h[U] = SumOf(f, U)
  <2> DEFINE g == [s \in SUBSET U |-> h[s]]
  <2>1. Adds(f, U, g)
    <3>1. ASSUME NEW s \in SUBSET U
          PROVE  h[s] = IF s = {} THEN 0 ELSE f[Some(s)] + g[s \ {Some(s)}]
      <4>1. s \in SUBSET S /\ s \ {Some(s)} \in SUBSET U
        OBVIOUS
      <4>. QED BY <4>1, AddsAt
    <3> HIDE DEF g
    <3>2. g = [s \in SUBSET U |-> h[s]]
      BY DEF g
    <3>. QED BY <3>1, <3>2 DEF Adds
  <2>2. IsFiniteSet(U)
    BY FS_Subset
  <2>3. g[U] = SumOf(f, U)
    <3> HIDE DEF g
    <3>. QED BY <2>1, <2>2, SumIs
  <2>. QED BY <2>3
<1>2. h[T] = IF T = {} THEN 0 ELSE f[Some(T)] + h[T \ {Some(T)}]
  BY AddsAt
<1>3. T \ {Some(T)} \in SUBSET S
  OBVIOUS
<1>. QED BY <1>1, <1>2, <1>3

LEMMA AddsExists ==
  ASSUME NEW f, NEW S, IsFiniteSet(S)
  PROVE  \E h : Adds(f, S, h)
<1> DEFINE B == {T \in SUBSET S : ~ \E h : Adds(f, T, h)}
<1>1. SUFFICES ASSUME B # {} PROVE FALSE
  OBVIOUS
<1>2. PICK T \in B : \A U \in B : U \subseteq T => U = T
  <2>1. B \in SUBSET (SUBSET S)
    OBVIOUS
  <2> HIDE DEF B
  <2>. QED BY <1>1, <2>1, SmallestSubset
<1>3. ASSUME NEW U \in SUBSET T, U # T
      PROVE  SumOf(f, U) = IF U = {} THEN 0 ELSE f[Some(U)] + SumOf(f, U \ {Some(U)})
  <2>1. PICK h : Adds(f, U, h)
    BY <1>2, <1>3
  <2>2. IsFiniteSet(U) /\ U \in SUBSET U
    BY FS_Subset
  <2>. QED BY <2>1, <2>2, SumUnfolds
<1> DEFINE h == [s \in SUBSET T |->
                   IF s = {} THEN 0 ELSE f[Some(s)] + SumOf(f, s \ {Some(s)})]
<1>4. ASSUME NEW s \in SUBSET T, s # {} PROVE h[s \ {Some(s)}] = SumOf(f, s \ {Some(s)})
  <2> DEFINE U == s \ {Some(s)}
  <2>1. U \in SUBSET T /\ U # T
    BY <1>4, SomeIn
  <2>2. h[U] = IF U = {} THEN 0 ELSE f[Some(U)] + SumOf(f, U \ {Some(U)})
    BY <2>1
  <2> HIDE DEF h
  <2>3. SumOf(f, U) = IF U = {} THEN 0 ELSE f[Some(U)] + SumOf(f, U \ {Some(U)})
    <3> HIDE DEF U
    <3>. QED BY <2>1, <1>3
  <2>. QED BY <2>2, <2>3
<1>5. Adds(f, T, h)
  <2>1. \A s \in SUBSET T :
          (IF s = {} THEN 0 ELSE f[Some(s)] + SumOf(f, s \ {Some(s)}))
          = (IF s = {} THEN 0 ELSE f[Some(s)] + h[s \ {Some(s)}])
    <3> HIDE DEF h
    <3>. QED BY <1>4
  <2>2. h = [s \in SUBSET T |->
                   IF s = {} THEN 0 ELSE f[Some(s)] + SumOf(f, s \ {Some(s)})]
    OBVIOUS
  <2> HIDE DEF h
  <2>. QED BY <2>1, <2>2 DEF Adds
<1>. QED BY <1>2, <1>5

LEMMA SumStep ==
  ASSUME NEW f, NEW S, IsFiniteSet(S)
  PROVE  SumOf(f, S) = IF S = {} THEN 0 ELSE f[Some(S)] + SumOf(f, S \ {Some(S)})
<1>1. PICK h : Adds(f, S, h)
  BY AddsExists
<1>. QED BY <1>1, SumUnfolds

LEMMA SumType ==
  ASSUME NEW S, IsFiniteSet(S), NEW f, \A s \in S : f[s] \in Nat
  PROVE  SumOf(f, S) \in Nat
<1> DEFINE B == {T \in SUBSET S : SumOf(f, T) \notin Nat}
<1>1. SUFFICES ASSUME B # {} PROVE FALSE
  OBVIOUS
<1>2. PICK T \in B : \A U \in B : U \subseteq T => U = T
  <2>1. B \in SUBSET (SUBSET S)
    OBVIOUS
  <2> HIDE DEF B
  <2>. QED BY <1>1, <2>1, SmallestSubset
<1>3. SumOf(f, T) = IF T = {} THEN 0 ELSE f[Some(T)] + SumOf(f, T \ {Some(T)})
  <2>1. IsFiniteSet(T)
    BY FS_Subset
  <2>. QED BY <2>1, SumStep
<1>4. T # {} => SumOf(f, T \ {Some(T)}) \in Nat /\ f[Some(T)] \in Nat
  BY <1>2, SomeIn
<1>. QED BY <1>3, <1>4

(* Any element may be added last.                                            *)
LEMMA SumWithout ==
  ASSUME NEW S, IsFiniteSet(S), NEW f, \A s \in S : f[s] \in Nat, NEW x \in S
  PROVE  SumOf(f, S) = f[x] + SumOf(f, S \ {x})
<1> DEFINE B == {T \in SUBSET S : \E y \in T : SumOf(f, T) # f[y] + SumOf(f, T \ {y})}
<1>1. SUFFICES ASSUME B # {} PROVE FALSE
  OBVIOUS
<1>2. PICK T \in B : \A U \in B : U \subseteq T => U = T
  <2>1. B \in SUBSET (SUBSET S)
    OBVIOUS
  <2> HIDE DEF B
  <2>. QED BY <1>1, <2>1, SmallestSubset
<1>3. PICK y \in T : SumOf(f, T) # f[y] + SumOf(f, T \ {y})
  OBVIOUS
<1> DEFINE c == Some(T)
<1>4. c \in T /\ c # y /\ SumOf(f, T) = f[c] + SumOf(f, T \ {c})
  <2>1. IsFiniteSet(T)
    BY FS_Subset
  <2>. QED BY <1>3, <2>1, SumStep, SomeIn
<1> HIDE DEF c
<1> DEFINE U == T \ {c}
<1> DEFINE V == T \ {y}
<1> DEFINE W == (T \ {c}) \ {y}
<1>5. SumOf(f, U) = f[y] + SumOf(f, W)
  <2>1. U \in SUBSET S /\ U # T /\ U \subseteq T /\ y \in U
    BY <1>4
  <2>. QED BY <1>2, <2>1
<1>6. SumOf(f, V) = f[c] + SumOf(f, W)
  <2>1. V \in SUBSET S /\ V # T /\ V \subseteq T /\ c \in V /\ V \ {c} = W
    BY <1>4
  <2>. QED BY <1>2, <2>1
<1>7. SumOf(f, W) \in Nat /\ f[c] \in Nat /\ f[y] \in Nat
  <2>1. W \in SUBSET S
    OBVIOUS
  <2>2. IsFiniteSet(W) /\ \A s \in W : f[s] \in Nat
    BY <2>1, FS_Subset
  <2>. QED BY <1>4, <2>2, SumType
<1> HIDE DEF U, V, W
<1>. QED BY <1>3, <1>4, <1>5, <1>6, <1>7 DEF U, V

(* A sum over fewer elements of smaller numbers is smaller.                  *)
LEMMA SumAtMost ==
  ASSUME NEW S, IsFiniteSet(S), NEW T \in SUBSET S, NEW f, NEW g,
         \A s \in S : g[s] \in Nat,
         \A s \in T : f[s] \in Nat /\ f[s] <= g[s]
  PROVE  SumOf(f, T) <= SumOf(g, S)
<1> DEFINE B == {U \in SUBSET S : ~(SumOf(f, U \cap T) <= SumOf(g, U))}
<1>1. SUFFICES ASSUME B # {} PROVE FALSE
  <2>1. S \cap T = T /\ S \in SUBSET S
    OBVIOUS
  <2>. QED BY <2>1
<1>2. PICK U \in B : \A V \in B : V \subseteq U => V = U
  <2>1. B \in SUBSET (SUBSET S)
    OBVIOUS
  <2> HIDE DEF B
  <2>. QED BY <1>1, <2>1, SmallestSubset
<1>3. \A V \in SUBSET S : /\ IsFiniteSet(V) /\ IsFiniteSet(V \cap T)
                          /\ SumOf(g, V) \in Nat /\ SumOf(f, V \cap T) \in Nat
  <2>. SUFFICES ASSUME NEW V \in SUBSET S
                PROVE  /\ IsFiniteSet(V) /\ IsFiniteSet(V \cap T)
                       /\ SumOf(g, V) \in Nat /\ SumOf(f, V \cap T) \in Nat
    OBVIOUS
  <2>1. IsFiniteSet(V) /\ IsFiniteSet(V \cap T)
    BY FS_Subset, V \cap T \in SUBSET S
  <2>. QED BY <2>1, SumType
<1>4. U # {}
  <2>1. SumOf(f, {}) = 0 /\ SumOf(g, {}) = 0
    BY SumStep, FS_EmptySet
  <2>2. U = {} => U \cap T = {}
    OBVIOUS
  <2>. QED BY <2>1, <2>2
<1>5. PICK x : x \in U
  BY <1>4
<1> DEFINE V == U \ {x}
<1>6. V \in SUBSET S /\ SumOf(f, V \cap T) <= SumOf(g, V)
  BY <1>2, <1>5
<1>7. SumOf(g, U) = g[x] + SumOf(g, V)
  BY <1>3, <1>5, SumWithout
<1>8. CASE x \in T
  <2>1. SumOf(f, U \cap T) = f[x] + SumOf(f, (U \cap T) \ {x})
    BY <1>3, <1>5, <1>8, SumWithout
  <2>2. (U \cap T) \ {x} = V \cap T
    OBVIOUS
  <2> HIDE DEF V
  <2>. QED BY <1>3, <1>5, <1>6, <1>7, <1>8, <2>1, <2>2
<1>9. CASE x \notin T
  <2>1. U \cap T = V \cap T
    BY <1>9
  <2> HIDE DEF V
  <2>. QED BY <1>3, <1>5, <1>6, <1>7, <2>1
<1>. QED BY <1>8, <1>9

(* The sum of two numbers for each element is the two sums.                  *)
LEMMA SumBoth ==
  ASSUME NEW S, IsFiniteSet(S), NEW f, NEW g, NEW h,
         \A s \in S : f[s] \in Nat /\ g[s] \in Nat /\ h[s] = f[s] + g[s]
  PROVE  SumOf(h, S) = SumOf(f, S) + SumOf(g, S)
<1> DEFINE B == {U \in SUBSET S : SumOf(h, U) # SumOf(f, U) + SumOf(g, U)}
<1>1. SUFFICES ASSUME B # {} PROVE FALSE
  OBVIOUS
<1>2. PICK U \in B : \A V \in B : V \subseteq U => V = U
  <2>1. B \in SUBSET (SUBSET S)
    OBVIOUS
  <2> HIDE DEF B
  <2>. QED BY <1>1, <2>1, SmallestSubset
<1>3. U # {}
  <2>1. SumOf(f, {}) = 0 /\ SumOf(g, {}) = 0 /\ SumOf(h, {}) = 0
    BY SumStep, FS_EmptySet
  <2>2. ASSUME U = {} PROVE SumOf(h, {}) # SumOf(f, {}) + SumOf(g, {})
    BY <2>2
  <2>. QED BY <2>1, <2>2
<1>4. PICK x : x \in U
  BY <1>3
<1> DEFINE V == U \ {x}
<1>5. V \in SUBSET S /\ SumOf(h, V) = SumOf(f, V) + SumOf(g, V)
  BY <1>2, <1>4
<1>6. IsFiniteSet(U) /\ IsFiniteSet(V)
  BY <1>5, FS_Subset
<1>7. /\ \A s \in U : f[s] \in Nat /\ g[s] \in Nat /\ h[s] \in Nat
      /\ \A s \in V : f[s] \in Nat /\ g[s] \in Nat /\ h[s] \in Nat
  OBVIOUS
<1>8. SumOf(f, V) \in Nat /\ SumOf(g, V) \in Nat
  <2> HIDE DEF V
  <2>. QED BY <1>6, <1>7, SumType
<1>9. SumOf(f, U) = f[x] + SumOf(f, V)
  BY <1>4, <1>6, <1>7, SumWithout
<1>10. SumOf(g, U) = g[x] + SumOf(g, V)
  BY <1>4, <1>6, <1>7, SumWithout
<1>11. SumOf(h, U) = h[x] + SumOf(h, V)
  BY <1>4, <1>6, <1>7, SumWithout
<1>12. h[x] = f[x] + g[x] /\ f[x] \in Nat /\ g[x] \in Nat
  BY <1>4
<1>13. SumOf(h, U) # SumOf(f, U) + SumOf(g, U)
  OBVIOUS
<1> HIDE DEF V
<1>. QED BY <1>5, <1>8, <1>9, <1>10, <1>11, <1>12, <1>13

(* The sums of the model are these.                                          *)
Large == [s \in Slots |-> Larger(Peak[s], rss[s])]

LEMMA SlotsFinite ==
  ASSUME NEW S \in SUBSET Slots
  PROVE  IsFiniteSet(S)
BY BudgetAssumption, FS_Subset

LEMMA AvailableIs == Available = Total - SumOf(rss, Slots)
BY DEF Available, MapThenSumSet, MapThenFoldSet, SumOf, Adds, Some

LEMMA LargeIs ==
  ASSUME NEW S \in SUBSET Slots
  PROVE  MapThenSumSet(LAMBDA t : Larger(Peak[t], rss[t]), S) = SumOf(Large, S)
<1> DEFINE P(h) == h = [s \in SUBSET S |-> IF s = {} THEN 0
                          ELSE Larger(Peak[Some(s)], rss[Some(s)]) + h[s \ {Some(s)}]]
<1>1. MapThenSumSet(LAMBDA t : Larger(Peak[t], rss[t]), S) = (CHOOSE h : P(h))[S]
  BY DEF MapThenSumSet, MapThenFoldSet, Some
<1>2. ASSUME NEW h PROVE P(h) <=> Adds(Large, S, h)
  <2>1. \A s \in SUBSET S : s # {} => Large[Some(s)] = Larger(Peak[Some(s)], rss[Some(s)])
    BY SomeIn DEF Large
  <2>. QED BY <2>1 DEF Adds
<1>3. \E h : P(h)
  BY <1>2, AddsExists, SlotsFinite
<1>4. P(CHOOSE h : P(h))
  <2> HIDE DEF P
  <2>. QED BY <1>3
<1> HIDE DEF P
<1>5. Adds(Large, S, CHOOSE h : P(h))
  BY <1>2, <1>4
<1>. QED BY <1>1, <1>5, SumIs, SlotsFinite

-----------------------------------------------------------------------------
(* The scan                                                                  *)

(* The scan is done under the lock, for a pending slot of the launcher; what *)
(* a launcher has still to try in this pass is pending too.                  *)
Turn ==
  \A o \in Owners :
    /\ pc[o] \in {"scan", "append"} => lock = o
    /\ todo[o] \subseteq Pending(o) \ {cur[o]}
    /\ o \notin Parallel => todo[o] = {}
    /\ pc[o] = "scan" => cur[o] \in Pending(o)

(* Who else takes a step leaves a launcher's turn alone.                     *)
LEMMA TurnKept ==
  ASSUME TypeOK, Turn, NEW o \in Owners, pc'[o] = pc[o], cur'[o] = cur[o], todo'[o] = todo[o],
         lock = o => lock' = o,
         \A s \in SlotsOf(o) : phase[s] = "pending" => phase'[s] = "pending"
  PROVE  /\ pc'[o] \in {"scan", "append"} => lock' = o
         /\ todo'[o] \subseteq Pending(o)' \ {cur'[o]}
         /\ o \notin Parallel => todo'[o] = {}
         /\ pc'[o] = "scan" => cur'[o] \in Pending(o)'
BY DEF Turn, Pending, SlotsOf

LEMMA TurnStep ==
  ASSUME TypeOK, OwnSlots, Turn, [Next]_vars
  PROVE  Turn'
<1> USE BudgetAssumption DEF TypeOK
<1>1. ASSUME NEW o \in Owners, TryReserve(o) PROVE Turn'
  <2>1. PICK s \in Tries(o) : /\ cur' = [cur EXCEPT ![o] = s]
                              /\ todo' = [todo EXCEPT ![o] = Tries(o) \ {s}]
    BY <1>1 DEF TryReserve
  <2>2. Wanted(o) \subseteq Pending(o)
        /\ (o \notin Parallel => \A x, y \in Wanted(o) : x = y)
    BY DEF Wanted
  <2>3. Tries(o) \subseteq Pending(o) /\ (o \notin Parallel => Tries(o) \ {s} = {})
    BY <2>1, <2>2 DEF Tries, StartsPass, Turn
  <2>4. /\ lock = NoOwner /\ lock' = o /\ phase' = phase
        /\ pc' = [pc EXCEPT ![o] = "scan"]
    BY <1>1 DEF TryReserve
  <2>. QED BY <2>1, <2>3, <2>4 DEF Turn, Pending, SlotsOf
<1>2. ASSUME NEW o \in Owners, ScanOne(o) PROVE Turn'
  BY <1>2 DEF ScanOne, Turn, Pending, SlotsOf
<1>3. ASSUME NEW o \in Owners, Admit(o) PROVE Turn'
  <2>1. ASSUME NEW k \in Owners, k # o
        PROVE  /\ pc'[k] \in {"scan", "append"} => lock' = k
               /\ todo'[k] \subseteq Pending(k)' \ {cur'[k]}
               /\ k \notin Parallel => todo'[k] = {}
               /\ pc'[k] = "scan" => cur'[k] \in Pending(k)'
    <3>1. lock = o /\ Owner[cur[o]] = o
      BY <1>3 DEF Admit, ScanDone, Turn, Pending, SlotsOf
    <3>. QED BY <1>3, <2>1, <3>1, TurnKept DEF Admit, SlotsOf
  <2>2. /\ pc'[o] = "launch" /\ todo'[o] = todo[o] /\ cur' = cur
        /\ \A s \in Slots : s # cur[o] => phase'[s] = phase[s]
    BY <1>3 DEF Admit
  <2>3. todo'[o] \subseteq Pending(o)' \ {cur'[o]}
    BY <2>2 DEF Turn, Pending, SlotsOf
  <2>. QED BY <2>1, <2>2, <2>3 DEF Turn
<1>4. ASSUME NEW o \in Owners, Refuse(o) PROVE Turn'
  <2>1. lock = o
    BY <1>4 DEF Refuse, ScanDone, Turn
  <2>2. NoSlot \notin Pending(o)
    BY DEF Pending, SlotsOf
  <2>. QED BY <1>4, <2>1, <2>2 DEF Refuse, NextSlot, Unlock, Turn, Pending, SlotsOf
<1>5. ASSUME NEW o \in Owners, AdmissionFails(o) PROVE Turn'
  <2>1. lock = o /\ cur[o] \in Pending(o)
    BY <1>5 DEF AdmissionFails, ScanDone, Turn
  <2>2. /\ pc'[o] = "idle" /\ todo' = todo /\ cur'[o] = NoSlot
        /\ \A k \in Owners : k # o => pc'[k] = pc[k] /\ cur'[k] = cur[k]
    BY <1>5 DEF AdmissionFails, NextSlot
  <2>3. \A s \in Slots : phase'[s] = phase[s]
                          \/ (Owner[s] = o /\ (s = cur[o] \/ o \notin Parallel))
    <3>1. CASE o \in Parallel
      <4>1. phase' = [s \in Slots |-> IF s \in {cur[o]} THEN "notrun" ELSE phase[s]]
        BY <1>5, <3>1 DEF AdmissionFails, GiveUp
      <4>2. Owner[cur[o]] = o
        BY <2>1 DEF Pending, SlotsOf
      <4>3. ASSUME NEW s \in Slots, s # cur[o] PROVE phase'[s] = phase[s]
        BY <4>1, <4>3
      <4>. QED BY <4>2, <4>3
    <3>2. CASE o \notin Parallel
      BY <1>5, <3>2 DEF AdmissionFails, GiveUp, Pending, SlotsOf
    <3>. QED BY <3>1, <3>2
  <2>4. todo'[o] \subseteq Pending(o)' \ {cur'[o]} /\ (o \notin Parallel => todo'[o] = {})
    BY <2>2, <2>3 DEF Turn, Pending, SlotsOf
  <2>5. ASSUME NEW k \in Owners, k # o
        PROVE  /\ pc'[k] \in {"scan", "append"} => lock' = k
               /\ todo'[k] \subseteq Pending(k)' \ {cur'[k]}
               /\ k \notin Parallel => todo'[k] = {}
               /\ pc'[k] = "scan" => cur'[k] \in Pending(k)'
    <3>1. \A s \in SlotsOf(k) : phase[s] = "pending" => phase'[s] = "pending"
      BY <2>3, <2>5 DEF SlotsOf
    <3>. QED BY <2>1, <2>2, <2>5, <3>1, TurnKept
  <2>. QED BY <2>2, <2>4, <2>5 DEF Turn
<1>6. ASSUME NEW o \in Owners, Timeout(o) PROVE Turn'
  <2>1. \A s \in Slots : phase'[s] = phase[s] \/ Owner[s] = o
    BY <1>6 DEF Timeout, GiveUp, Pending, SlotsOf
  <2>. QED BY <1>6, <2>1 DEF Timeout, Turn, Pending, SlotsOf
<1>7. ASSUME NEW o \in Owners, Launch(o) PROVE Turn'
  <2>1. phase[cur[o]] = "admitted" /\ cur[o] \in Slots
    BY <1>7 DEF Launch, OwnSlots, SlotsOf
  <2>2. \A k \in Owners : Pending(k) \subseteq Pending(k)'
    BY <1>7, <2>1 DEF Launch, Pending, SlotsOf
  <2>3. \A k \in Owners : NoSlot \notin Pending(k)
    BY DEF Pending, SlotsOf
  <2>. QED BY <1>7, <2>2, <2>3 DEF Launch, NextSlot, Turn
<1>8. ASSUME NEW o \in Owners, AttachTest(o) \/ AttachAppend(o) \/ AttachFails(o) PROVE Turn'
  <2>1. \A k \in Owners : NoSlot \notin Pending(k)
    BY DEF Pending, SlotsOf
  <2>2. \A k \in Owners : Pending(k)' = Pending(k)
    BY <1>8 DEF AttachTest, AttachAppend, AttachFails, Pending, SlotsOf
  <2>. QED BY <1>8, <2>1, <2>2 DEF AttachTest, AttachAppend, AttachFails, NextSlot, Turn
<1>9. ASSUME NEW o \in Owners, Kill(o) PROVE Turn'
  <2>1. /\ pc'[o] = "idle" /\ todo'[o] = {}
        /\ \A k \in Owners : k # o => /\ pc'[k] = pc[k] /\ cur'[k] = cur[k]
                                      /\ todo'[k] = todo[k] /\ (lock = k => lock' = k)
    BY <1>9 DEF Kill, NextSlot, Unlock
  <2>2. \A k \in Owners : k # o => \A s \in SlotsOf(k) : phase'[s] = phase[s]
    BY <1>9 DEF Kill, SlotsOf
  <2>3. ASSUME NEW k \in Owners, k # o
        PROVE  /\ pc'[k] \in {"scan", "append"} => lock' = k
               /\ todo'[k] \subseteq Pending(k)' \ {cur'[k]}
               /\ k \notin Parallel => todo'[k] = {}
               /\ pc'[k] = "scan" => cur'[k] \in Pending(k)'
    BY <2>1, <2>2, <2>3, TurnKept
  <2>. QED BY <2>1, <2>3 DEF Turn
<1>10. ASSUME NEW o \in Owners, Reuse(o) PROVE Turn'
  BY <1>10 DEF Reuse, Turn, Pending, SlotsOf
<1>11. ASSUME NEW s \in Slots, Grow(s) \/ Shrink(s) \/ StepEnds(s) \/ TrapRelease(s)
       PROVE  Turn'
  <2>1. \A k \in Owners : Pending(k) \subseteq Pending(k)'
    BY <1>11 DEF Grow, Shrink, StepEnds, TrapRelease, Pending, SlotsOf
  <2>. QED BY <1>11, <2>1 DEF Grow, Shrink, StepEnds, TrapRelease, Turn
<1>12. ASSUME NEW s \in Slots, Reap(s) PROVE Turn'
  <2> DEFINE o == Owner[s]
  <2>1. /\ pc[o] = "idle" /\ UNCHANGED <<lock, pc, cur, todo>>
        /\ phase[s] # "pending"
    BY <1>12 DEF Reap
  <2>2. \A t \in Slots : phase[t] = "pending" =>
          phase'[t] = "pending" \/ (Owner[t] = o /\ o \notin Parallel)
    BY <1>12, <2>1 DEF Reap, Pending, SlotsOf
  <2>3. o \in Owners
    OBVIOUS
  <2> HIDE DEF o
  <2>. QED BY <2>1, <2>2, <2>3 DEF Turn, Pending, SlotsOf
<1>13. CASE UNCHANGED vars
  BY <1>13 DEF vars, Turn, Pending, SlotsOf
<1>. QED
  BY <1>1, <1>2, <1>3, <1>4, <1>5, <1>6, <1>7, <1>8, <1>9, <1>10, <1>11, <1>12, <1>13
  DEF Next, Launcher, Step, Finished

(* The slots of live launchers in flight, and those a scan has passed.       *)
InUse == {s \in Slots : Counted(s)}
Passed == InUse \ left

(* What a slot may still take to reach its expected peak.                    *)
Gap == [s \in Slots |-> Larger(Peak[s], rss[s]) - rss[s]]

(* What the scan has reserved and not found in use covers what the slots it  *)
(* has passed may still take, whatever their steps did since.                *)
Accounted ==
  \A o \in Owners : pc[o] = "scan" =>
    /\ acct.live + SumOf(Gap, Passed) <= acct.reserved
    /\ \A s \in Passed : Peak[s] <= acct.reserved

LEMMA GapType ==
  ASSUME TypeOK, NEW s \in Slots
  PROVE  Gap[s] \in Nat /\ Gap[s] <= Peak[s] /\ Large[s] \in Nat /\ Large[s] = Gap[s] + rss[s]
BY BudgetAssumption DEF TypeOK, Gap, Large, Larger

LEMMA GapSumType ==
  ASSUME TypeOK, NEW S \in SUBSET Slots
  PROVE  SumOf(Gap, S) \in Nat
BY GapType, SlotsFinite, SumType

LEMMA PassedSlots == Passed \in SUBSET Slots
BY DEF Passed, InUse

LEMMA AccountedKept ==
  ASSUME TypeOK, TypeOK', Accounted,
         \A o \in Owners : pc'[o] = "scan" => pc[o] = "scan",
         acct' = acct, Passed' \subseteq Passed,
         \A s \in Passed' : Gap'[s] <= Gap[s]
  PROVE  Accounted'
<1>1. \A s \in Slots : Gap[s] \in Nat /\ Gap'[s] \in Nat
  <2>1. \A s \in Slots : Gap[s] \in Nat
    BY GapType
  <2>2. \A s \in Slots : Gap'[s] \in Nat
    BY BudgetAssumption DEF TypeOK, Gap, Larger
  <2>. QED BY <2>1, <2>2
<1>2. Passed \in SUBSET Slots /\ IsFiniteSet(Passed)
  BY PassedSlots, SlotsFinite
<1>3. Passed' \in SUBSET Slots
  BY <1>2
<1>4. SumOf(Gap', Passed') <= SumOf(Gap, Passed)
  BY <1>1, <1>2, <1>3, SumAtMost
<1>5. SumOf(Gap', Passed') \in Nat /\ SumOf(Gap, Passed) \in Nat
  BY <1>1, <1>2, <1>3, SumType, SlotsFinite
<1>6. (SumOf(Gap, Passed))' = SumOf(Gap', Passed')
  BY DEF SumOf, Adds, Some
<1>. QED BY <1>4, <1>5, <1>6 DEF Accounted, TypeOK

(* Tokens are read one by one.                                               *)
LEMMA AccountedScan ==
  ASSUME TypeOK, Turn, Covered, Accounted, NEW o \in Owners, ScanOne(o)
  PROVE  Accounted'
<1> USE BudgetAssumption DEF TypeOK
<1>1. PICK s \in left : left' = left \ {s} /\ (IF Stale(s) THEN Drop(s) ELSE Charge(s))
  BY DEF ScanOne
<1>2. s \in Slots /\ pc[o] = "scan" /\ UNCHANGED <<pid, phase, rss, pc>>
  BY DEF ScanOne
<1>3. Gap' = Gap /\ InUse' = InUse
  BY <1>2 DEF Gap, InUse, Counted, Using
<1>4. Passed' = IF s \in InUse THEN Passed \cup {s} ELSE Passed
  BY <1>1, <1>3 DEF Passed
<1>5. /\ acct.live + SumOf(Gap, Passed) <= acct.reserved
      /\ \A t \in Passed : Peak[t] <= acct.reserved
  BY <1>2 DEF Accounted
<1>6. /\ Passed \in SUBSET Slots /\ s \notin Passed
      /\ SumOf(Gap, Passed) \in Nat
  BY <1>1, PassedSlots, GapSumType DEF Passed
<1>7. SUFFICES /\ acct'.live + SumOf(Gap, Passed') <= acct'.reserved
               /\ \A t \in Passed' : Peak[t] <= acct'.reserved
  <2>1. (SumOf(Gap, Passed))' = SumOf(Gap', Passed')
    BY DEF SumOf, Adds, Some
  <2>. QED BY <1>3, <2>1 DEF Accounted
<1>8. CASE Stale(s)
  <2>1. s \notin InUse
    BY <1>8 DEF Stale, InUse, Covered, Counted
  <2>. QED BY <1>1, <1>4, <1>5, <1>8, <2>1 DEF Drop
<1>9. CASE ~Stale(s)
  <2>1. acct' = [reserved |-> acct.reserved + Peak[s], live |-> acct.live + LiveRss(s)]
    BY <1>1, <1>9 DEF Charge
  <2>2. LiveRss(s) \in Nat /\ LiveRss(s) + Gap[s] <= Peak[s] /\ LiveRss(s) <= Peak[s]
    BY <1>2 DEF LiveRss, Smaller, Gap, Larger
  <2>3. Peak[s] \in Nat /\ acct.live \in Nat /\ acct.reserved \in Nat /\ Gap[s] \in Nat
    BY <1>2, GapType
  <2>4. CASE s \in InUse
    <3>1. SumOf(Gap, Passed') = Gap[s] + SumOf(Gap, Passed)
      <4>1. Passed' = Passed \cup {s} /\ (Passed \cup {s}) \ {s} = Passed
        BY <1>4, <1>6, <2>4
      <4>2. IsFiniteSet(Passed \cup {s}) /\ \A t \in Passed \cup {s} : Gap[t] \in Nat
        BY <1>2, <1>6, SlotsFinite, GapType
      <4>. QED BY SMTT(30), <4>1, <4>2, SumWithout
    <3>2. \A t \in Passed' : t \in Slots /\ (t \in Passed \/ t = s)
      BY <1>2, <1>4, <1>6
    <3>. QED BY <1>5, <1>6, <2>1, <2>2, <2>3, <3>1, <3>2
  <2>5. CASE s \notin InUse
    <3>1. Passed' = Passed
      BY <1>4, <2>5
    <3>. QED BY <1>5, <1>6, <2>1, <2>2, <2>3, <3>1
  <2>. QED BY <2>4, <2>5
<1>. QED BY <1>8, <1>9

(* Nobody is admitted between the taking of the lock and the verdict.        *)
LEMMA AccountedStep ==
  ASSUME TypeOK, TypeOK', OwnSlots, Turn, Covered, Accounted, [Next]_vars,
         "shrink" \notin Events
  PROVE  Accounted'
<1> USE BudgetAssumption DEF TypeOK
<1>1. ASSUME NEW o \in Owners, TryReserve(o) PROVE Accounted'
  <2>1. Passed' = {}
    BY <1>1 DEF TryReserve, Passed, InUse, Covered, Counted, Using
  <2>2. acct' = Blank
    BY <1>1 DEF TryReserve
  <2>3. (SumOf(Gap, Passed))' = SumOf(Gap', Passed')
    BY DEF SumOf, Adds, Some
  <2>4. SumOf(Gap', {}) = 0
    BY SumStep, FS_EmptySet
  <2>. QED BY <2>1, <2>2, <2>3, <2>4 DEF Accounted, Blank
<1>2. ASSUME NEW o \in Owners, ScanOne(o) PROVE Accounted'
  BY <1>2, AccountedScan
<1>3. ASSUME NEW o \in Owners, Admit(o) \/ Refuse(o) \/ AdmissionFails(o) PROVE Accounted'
  <2>1. pc[o] = "scan" /\ pc'[o] # "scan" /\ \A k \in Owners : k # o => pc'[k] = pc[k]
    BY <1>3 DEF Admit, Refuse, AdmissionFails, ScanDone, NextSlot
  <2>2. \A k \in Owners : pc'[k] # "scan"
    BY <2>1 DEF Turn
  <2>. QED BY <2>2 DEF Accounted
<1>4. ASSUME NEW o \in Owners, Timeout(o) PROVE Accounted'
  <2>1. \A s \in Slots : phase'[s] = phase[s] \/ phase'[s] = "notrun"
    BY <1>4 DEF Timeout, GiveUp
  <2>2. UNCHANGED <<pid, rss, pc, left, acct>>
    BY <1>4 DEF Timeout
  <2>3. Passed' \subseteq Passed /\ Gap' = Gap
    BY <2>1, <2>2 DEF Passed, InUse, Counted, Using, Gap
  <2>. QED BY <2>2, <2>3, PassedSlots, GapType, AccountedKept
<1>5. ASSUME NEW o \in Owners, Launch(o) PROVE Accounted'
  <2>1. cur[o] \in Slots /\ phase[cur[o]] = "admitted"
    BY <1>5 DEF Launch, OwnSlots, SlotsOf
  <2>2. Passed' \subseteq Passed /\ Gap' = Gap
    BY <1>5, <2>1 DEF Launch, Passed, InUse, Counted, Using, Gap
  <2>3. acct' = acct /\ \A k \in Owners : pc'[k] = "scan" => pc[k] = "scan"
    BY <1>5 DEF Launch, NextSlot
  <2>. QED BY <2>2, <2>3, PassedSlots, GapType, AccountedKept
<1>6. ASSUME NEW o \in Owners, AttachTest(o) \/ AttachAppend(o) \/ AttachFails(o) \/ Reuse(o)
      PROVE  Accounted'
  <2>1. Passed' \subseteq Passed /\ Gap' = Gap
    BY <1>6 DEF AttachTest, AttachAppend, AttachFails, Reuse, Passed, InUse, Counted, Using, Gap
  <2>2. acct' = acct /\ \A k \in Owners : pc'[k] = "scan" => pc[k] = "scan"
    BY <1>6 DEF AttachTest, AttachAppend, AttachFails, Reuse, NextSlot
  <2>. QED BY <2>1, <2>2, PassedSlots, GapType, AccountedKept
<1>7. ASSUME NEW o \in Owners, Kill(o) PROVE Accounted'
  <2>1. CASE lock = o
    <3>1. \A k \in Owners : pc'[k] # "scan"
      BY <1>7, <2>1 DEF Kill, NextSlot, Turn
    <3>. QED BY <3>1 DEF Accounted
  <2>2. CASE lock # o
    <3>1. left' = left /\ acct' = acct /\ rss' = rss
          /\ \A k \in Owners : pc'[k] = "scan" => pc[k] = "scan"
      BY <1>7, <2>2 DEF Kill, NextSlot
    <3>2. InUse' \subseteq InUse
      BY <1>7 DEF Kill, InUse, Counted, Using
    <3>3. Passed' \subseteq Passed /\ Gap' = Gap
      BY <3>1, <3>2 DEF Passed, Gap
    <3>. QED BY <3>1, <3>3, PassedSlots, GapType, AccountedKept
  <2>. QED BY <2>1, <2>2
<1>8. ASSUME NEW s \in Slots, Grow(s) PROVE Accounted'
  <2>1. Passed' = Passed /\ acct' = acct /\ pc' = pc
    BY <1>8 DEF Grow, Passed, InUse, Counted, Using
  <2>2. \A t \in Slots : Gap'[t] <= Gap[t]
    BY <1>8 DEF Grow, Gap, Larger
  <2>. QED BY <2>1, <2>2, PassedSlots, AccountedKept
<1>9. ASSUME NEW s \in Slots, StepEnds(s) PROVE Accounted'
  <2>1. Passed' \subseteq Passed \ {s} /\ acct' = acct /\ pc' = pc
    BY <1>9 DEF StepEnds, Passed, InUse, Counted, Using
  <2>2. \A t \in Slots \ {s} : Gap'[t] = Gap[t] /\ Gap[t] \in Nat
    BY <1>9, GapType DEF StepEnds, Gap
  <2>. QED BY <2>1, <2>2, PassedSlots, AccountedKept
<1>10. ASSUME NEW s \in Slots, TrapRelease(s) \/ Reap(s) PROVE Accounted'
  <2>1. \A t \in Slots : phase'[t] = phase[t] \/ phase'[t] \in {"exited", "done", "notrun"}
    BY <1>10 DEF TrapRelease, Reap
  <2>2. UNCHANGED <<pid, rss, pc, left, acct>>
    BY <1>10 DEF TrapRelease, Reap
  <2>3. Passed' \subseteq Passed /\ Gap' = Gap
    BY <2>1, <2>2 DEF Passed, InUse, Counted, Using, Gap
  <2>. QED BY <2>2, <2>3, PassedSlots, GapType, AccountedKept
<1>11. CASE UNCHANGED vars
  <2>1. Passed' = Passed /\ Gap' = Gap /\ acct' = acct /\ pc' = pc
    BY <1>11 DEF vars, Passed, InUse, Counted, Using, Gap
  <2>. QED BY <2>1, PassedSlots, GapType, AccountedKept
<1>12. ASSUME NEW s \in Slots, Shrink(s) PROVE FALSE
  BY <1>12 DEF Shrink
<1>. QED
  BY <1>1, <1>2, <1>3, <1>4, <1>5, <1>6, <1>7, <1>8, <1>9, <1>10, <1>11, <1>12
  DEF Next, Launcher, Step, Finished

-----------------------------------------------------------------------------
(* Admission                                                                 *)

BudgetInv == CoverInv /\ Turn /\ Accounted

LEMMA BudgetInit == Init => BudgetInv
BY BudgetAssumption
DEF Init, BudgetInv, CoverInv, TypeOK, OwnSlots, Covered, Counted, Using, SlotsOf,
    Pids, Tokens, Phases, PCs, Blank, Turn, Pending, Accounted

LEMMA BudgetStep ==
  ASSUME BudgetInv, [Next]_vars, Events \cap {"nospace", "shrink"} = {}
  PROVE  BudgetInv'
BY TypeStep, OwnStep, CoverStep, TurnStep, AccountedStep DEF BudgetInv, CoverInv

(* What the verdict of a finished scan says of the slots in flight.          *)
LEMMA AdmitFits ==
  ASSUME BudgetInv, NEW o \in Owners, Admit(o)
  PROVE  \/ Peak[cur[o]] + SumOf(Large, InUse) <= Total - Safety
         \/ "solo" \in Events /\ InUse = {}
<1> USE BudgetAssumption DEF BudgetInv, CoverInv, TypeOK
<1>1. pc[o] = "scan" /\ left = {} /\ Admits(cur[o]) /\ cur[o] \in Slots
  BY DEF Admit, ScanDone, Turn, Pending, SlotsOf
<1>2. InUse \in SUBSET Slots /\ Passed = InUse
  BY <1>1 DEF Passed, InUse
<1>3. /\ acct.live + SumOf(Gap, InUse) <= acct.reserved
      /\ \A s \in InUse : Peak[s] <= acct.reserved
  BY <1>1, <1>2 DEF Accounted
<1>4. CASE Alone
  BY <1>2, <1>3, <1>4 DEF Alone
<1>5. CASE Peak[cur[o]] <= Headroom
  <2>1. SumOf(Large, InUse) = SumOf(Gap, InUse) + SumOf(rss, InUse)
    BY <1>2, SlotsFinite, GapType, SumBoth
  <2>2. SumOf(rss, InUse) <= SumOf(rss, Slots)
    BY <1>2, SumAtMost
  <2>3. SumOf(Gap, InUse) \in Nat /\ SumOf(rss, InUse) \in Nat /\ SumOf(rss, Slots) \in Nat
    BY <1>2, SlotsFinite, GapSumType, SumType
  <2>4. Peak[cur[o]] <= (Total - SumOf(rss, Slots)) + acct.live - Safety - acct.reserved
    BY <1>5, AvailableIs DEF Headroom
  <2>5. Peak[cur[o]] \in Nat /\ acct.live \in Nat /\ acct.reserved \in Nat
    BY <1>1
  <2>. QED BY <1>3, <2>1, <2>2, <2>3, <2>4, <2>5
<1>. QED BY <1>1, <1>4, <1>5 DEF Admits

(* Only Admit admits, and it admits its slot.                                *)
LEMMA WhoAdmits ==
  ASSUME TypeOK, [Next]_vars, NEW s \in Slots, phase[s] = "pending", phase'[s] = "admitted"
  PROVE  \E o \in Owners : Admit(o) /\ s = cur[o]
<1> USE BudgetAssumption DEF TypeOK
<1>1. \A o \in Owners : ~(TryReserve(o) \/ ScanOne(o) \/ Refuse(o) \/ AttachTest(o)
                          \/ AttachAppend(o) \/ AttachFails(o) \/ Reuse(o))
  BY DEF TryReserve, ScanOne, Refuse, AttachTest, AttachAppend, AttachFails, Reuse
<1>2. \A o \in Owners : ~(AdmissionFails(o) \/ Timeout(o))
  BY DEF AdmissionFails, Timeout, GiveUp
<1>3. \A o \in Owners : ~(Launch(o) \/ Kill(o))
  BY DEF Launch, Kill
<1>4. \A t \in Slots : ~Step(t)
  <2>1. ASSUME NEW t \in Slots, Reap(t) PROVE FALSE
    BY <2>1 DEF Reap
  <2>. QED BY <2>1 DEF Step, Grow, Shrink, StepEnds, TrapRelease
<1>5. ~(UNCHANGED vars)
  BY DEF vars
<1>6. PICK o \in Owners : Admit(o)
  BY <1>1, <1>2, <1>3, <1>4, <1>5 DEF Next, Launcher, Finished
<1>. QED BY <1>6 DEF Admit

(* While the state directory has room and no step gives memory back during   *)
(* its life, a slot is only admitted when its peak and the larger of peak    *)
(* and present size of every slot in flight fit in the memory there is, for  *)
(* any number of launchers and slots: the scan may read the sizes at         *)
(* different moments because it never credits more than the peak it charges  *)
(* (memory-budget.sh:344-395).                                               *)
THEOREM AdmissionsFit ==
  ASSUME Events \cap {"nospace", "shrink"} = {}
  PROVE  Spec => AdmittedFits
<1> DEFINE A == \A s \in Slots :
       phase[s] = "pending" /\ phase'[s] = "admitted" =>
         LET others == {t \in Slots : Counted(t)}
         IN  \/ Peak[s] + MapThenSumSet(LAMBDA t : Larger(Peak[t], rss[t]), others)
                  <= Total - Safety
             \/ "solo" \in Events /\ others = {}
<1>1. BudgetInv /\ [Next]_vars => A
  <2>. SUFFICES ASSUME BudgetInv, [Next]_vars, NEW s \in Slots,
                       phase[s] = "pending", phase'[s] = "admitted"
                PROVE  \/ Peak[s] + MapThenSumSet(LAMBDA t : Larger(Peak[t], rss[t]), InUse)
                            <= Total - Safety
                       \/ "solo" \in Events /\ InUse = {}
    BY DEF InUse
  <2>1. PICK o \in Owners : Admit(o) /\ s = cur[o]
    BY WhoAdmits DEF BudgetInv, CoverInv
  <2>2. InUse \in SUBSET Slots
    BY DEF InUse
  <2>3. MapThenSumSet(LAMBDA t : Larger(Peak[t], rss[t]), InUse) = SumOf(Large, InUse)
    BY <2>2, LargeIs
  <2>4. \/ Peak[s] + SumOf(Large, InUse) <= Total - Safety
        \/ "solo" \in Events /\ InUse = {}
    BY <2>1, AdmitFits
  <2>. QED BY <2>3, <2>4, Zenon
<1>2. BudgetInv /\ [Next]_vars => BudgetInv'
  BY BudgetStep
<1>3. AdmittedFits <=> [][A]_vars
  BY DEF AdmittedFits
<1> HIDE DEF A
<1>. QED BY <1>1, <1>2, <1>3, BudgetInit, PTL DEF Spec

LEMMA PeakOfIs == \A S : Pool!PeakOf(S) = SumOf(Peak, S)
BY DEF Pool!PeakOf, Pool!MapThenSumSet, Pool!MapThenFoldSet, SumOf, Adds, Some

LEMMA PoolInit == Init => Pool!Init
BY DEF Init, Pool!Init, Counted, Using

(* Admission is the pool's admission; whatever else happens, slots only      *)
(* leave it.                                                                 *)
LEMMA PoolStep ==
  ASSUME BudgetInv, [Next]_vars
  PROVE  Pool!Next \/ InUse' = InUse
<1> USE BudgetAssumption DEF BudgetInv, CoverInv, TypeOK
<1>1. ASSUME NEW o \in Owners, Admit(o) PROVE Pool!Next
  <2> DEFINE s == cur[o]
  <2>1. /\ pc[o] = "scan" /\ pid[o] = "alive" /\ s \in Slots /\ Owner[s] = o
        /\ phase[s] = "pending" /\ s \notin InUse
    BY <1>1 DEF Admit, ScanDone, Turn, Pending, SlotsOf, InUse, Counted, Using
  <2>2. InUse' = InUse \cup {s}
    BY <1>1, <2>1 DEF Admit, InUse, Counted, Using
  <2>3. \/ Pool!PeakOf(InUse \cup {s}) <= Total - Safety
        \/ "solo" \in Events /\ InUse = {}
    <3>1. InUse \in SUBSET Slots /\ InUse \cup {s} \in SUBSET Slots /\ (InUse \cup {s}) \ {s} = InUse
      BY <2>1 DEF InUse
    <3>2. SumOf(Peak, InUse \cup {s}) = Peak[s] + SumOf(Peak, InUse)
      <4> HIDE DEF s
      <4>1. /\ IsFiniteSet(InUse \cup {s}) /\ s \in InUse \cup {s}
            /\ \A t \in InUse \cup {s} : Peak[t] \in Nat
        BY <3>1, SlotsFinite
      <4>. QED BY <3>1, <4>1, SumWithout
    <3>3. SumOf(Peak, InUse) <= SumOf(Large, InUse)
      <4>1. \A t \in Slots : Peak[t] \in Nat /\ Large[t] \in Nat /\ Peak[t] <= Large[t]
        BY DEF Large, Larger
      <4>. QED BY <3>1, <4>1, SlotsFinite, SumAtMost
    <3>4. SumOf(Peak, InUse) \in Nat /\ SumOf(Large, InUse) \in Nat
      BY <3>1, SlotsFinite, GapType, SumType
    <3>. QED BY <1>1, <2>1, <3>2, <3>3, <3>4, AdmitFits, PeakOfIs
  <2> HIDE DEF s
  <2>4. Pool!Admit(s)
    BY <2>1, <2>2, <2>3 DEF Pool!Admit, InUse
  <2>. QED BY <2>1, <2>4 DEF Pool!Next
<1>2. ASSUME \A o \in Owners : ~Admit(o) PROVE InUse' \subseteq InUse
  <2>1. ASSUME NEW o \in Owners, TryReserve(o) \/ ScanOne(o) \/ Refuse(o) \/ AttachTest(o)
                                 \/ AttachAppend(o) \/ AttachFails(o) \/ Reuse(o)
        PROVE  InUse' \subseteq InUse
    BY <2>1 DEF TryReserve, ScanOne, Refuse, AttachTest, AttachAppend, AttachFails, Reuse,
                InUse, Counted, Using
  <2>2. ASSUME NEW o \in Owners, AdmissionFails(o) \/ Timeout(o) PROVE InUse' \subseteq InUse
    <3>1. pid' = pid /\ \A s \in Slots : phase'[s] = phase[s] \/ phase'[s] = "notrun"
      BY <2>2 DEF AdmissionFails, Timeout, GiveUp
    <3>. QED BY <3>1 DEF InUse, Counted, Using
  <2>3. ASSUME NEW o \in Owners, Launch(o) PROVE InUse' \subseteq InUse
    BY <2>3 DEF Launch, OwnSlots, SlotsOf, InUse, Counted, Using
  <2>4. ASSUME NEW o \in Owners, Kill(o) PROVE InUse' \subseteq InUse
    BY <2>4 DEF Kill, InUse, Counted, Using
  <2>5. ASSUME NEW t \in Slots, Step(t) PROVE InUse' \subseteq InUse
    <3>1. pid' = pid /\ \A s \in Slots : phase'[s] = phase[s]
                                          \/ phase'[s] \in {"ended", "exited", "done", "notrun"}
      BY <2>5 DEF Step, Grow, Shrink, StepEnds, TrapRelease, Reap
    <3>. QED BY <3>1 DEF InUse, Counted, Using
  <2>6. CASE UNCHANGED vars
    BY <2>6 DEF vars, InUse, Counted, Using
  <2>. QED BY <1>2, <2>1, <2>2, <2>3, <2>4, <2>5, <2>6 DEF Next, Launcher, Finished
<1>3. ASSUME InUse' \subseteq InUse PROVE Pool!Next
  <2> DEFINE S == InUse \ InUse'
  <2>1. S \in SUBSET InUse /\ InUse' = InUse \ S
    BY <1>3
  <2> HIDE DEF S
  <2>2. Pool!Leave(S)
    BY <2>1 DEF Pool!Leave, InUse
  <2>. QED BY <2>1, <2>2 DEF Pool!Next, InUse
<1>. QED BY <1>1, <1>2, <1>3

(* Under the same condition the launchers implement the pool: through any    *)
(* interleaving of scans, attaches, releases, kills and reused PIDs they     *)
(* behave as if one allocator handed out the peaks from the memory there is. *)
THEOREM ImplementsPool ==
  ASSUME Events \cap {"nospace", "shrink"} = {}
  PROVE  Spec => PoolSpec
<1>1. BudgetInv /\ [Next]_vars => [Pool!Next]_({s \in Slots : Counted(s)})
  BY PoolStep DEF InUse
<1>2. BudgetInv /\ [Next]_vars => BudgetInv'
  BY BudgetStep
<1>. QED BY <1>1, <1>2, BudgetInit, PoolInit, PTL DEF Spec, PoolSpec, Pool!Spec
=============================================================================
