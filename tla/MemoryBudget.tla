---------------------------- MODULE MemoryBudget ----------------------------
(* The host-wide memory budget of the gates (memory-budget.sh): launchers    *)
(* admit slots against token files in a directory they share.  A scan under  *)
(* flock adds up the reservations of live launchers and the RSS of their     *)
(* steps; the slot is admitted when its expected peak fits in what is left.  *)
(* Three kinds of launcher use it: a gate that runs its slots in parallel    *)
(* (steps-lib.sh), a direct tool (tool-memory-admission.sh) and a gate that  *)
(* runs them one by one (verify-engine.sh).                                  *)
EXTENDS Integers, FiniteSets, FiniteSetsExt

CONSTANTS
  Owners,      \* launcher processes
  Parallel,    \* the launchers that run all their slots at once
  Attaching,   \* the launchers that write a step's PID into its token
  Slots,       \* slots of all launchers
  Owner,       \* the launcher of a slot
  Peak,        \* expected peak of a slot (MUSI_VERIFY_SLOT_EXPECTED_PEAK_MB)
  Total,       \* memory there is for steps, the running ones included
  Safety,      \* MUSI_VERIFY_MEMORY_SAFETY_MB
  Overshoot,   \* bound: how far a step may grow beyond its expected peak
  Events,      \* what may go wrong, see EventKinds
  NoOwner, NoSlot

EventKinds ==
  { "kill",       \* SIGKILL of a launcher
    "reuse",      \* a dead launcher's PID is given to another process
    "unreadable", \* ... whose /proc/<pid>/stat cannot be read
    "io",         \* mktemp, or the opening of the lock, fails
    "nospace",    \* the text of a new token cannot be written
    "timeout",    \* MUSI_VERIFY_MEMORY_WAIT_TIMEOUT runs out
    "overshoot",  \* a step takes more than its expected peak
    "shrink",     \* a running step gives memory back
    "solo" }      \* MUSI_VERIFY_MEMORY_ALLOW_SOLO_FALLBACK=1

ASSUME BudgetAssumption ==
  /\ IsFiniteSet(Slots)
  /\ Parallel \subseteq Owners
  /\ Attaching \subseteq Owners
  /\ Owner \in [Slots -> Owners]
  /\ Peak \in [Slots -> Nat \ {0}]
  /\ Total \in Nat /\ Safety \in Nat /\ Overshoot \in Nat
  /\ Events \subseteq EventKinds
  /\ NoOwner \notin Owners /\ NoSlot \notin Slots

VARIABLES
  pid,    \* what the PID recorded by a launcher stands for now
  lock,   \* the launcher that holds flock on state_root/lock
  token,  \* reservation.<pid>.<slot>.*: its content
  phase,  \* progress of a slot
  rss,    \* resident memory of the slot's process tree
  pc,     \* where a launcher is
  cur,    \* the slot it is trying
  todo,   \* slots not yet tried in this pass over the pending ones
  moved,  \* progress was made in this pass
  left,   \* scan of the lock holder: tokens not yet read,
  acct    \*   reserved peaks and live RSS added up so far

vars == <<pid, lock, token, phase, rss, pc, cur, todo, moved, left, acct>>

Pids == {"alive", "dead", "reused", "hidden"}

(* A "fragment" lacks the pid= line: no reader takes it for a reservation.   *)
Tokens == {"none", "held", "attached", "fragment"}
Phases == {"pending", "admitted", "running", "ended", "exited", "done", "notrun"}
PCs == {"idle", "scan", "launch", "attach", "append"}

TypeOK ==
  /\ pid \in [Owners -> Pids]
  /\ lock \in Owners \cup {NoOwner}
  /\ token \in [Slots -> Tokens]
  /\ phase \in [Slots -> Phases]
  /\ rss \in [Slots -> Nat]
  /\ pc \in [Owners -> PCs]
  /\ cur \in [Owners -> Slots \cup {NoSlot}]
  /\ todo \in [Owners -> SUBSET Slots]
  /\ moved \in [Owners -> BOOLEAN]
  /\ left \in SUBSET Slots
  /\ acct \in [reserved : Nat, live : Nat]

Larger(a, b) == IF a >= b THEN a ELSE b
Smaller(a, b) == IF a <= b THEN a ELSE b

SlotsOf(o) == {s \in Slots : Owner[s] = o}
Pending(o) == {s \in SlotsOf(o) : phase[s] = "pending"}
InFlight(o) == {s \in SlotsOf(o) : phase[s] \in {"admitted", "running", "ended"}}

(* MemAvailable (or the cgroup's headroom): what no step uses now.  A host     *)
(* where neither can be measured has a constant in its place; it is left out.    *)
Available == Total - MapThenSumSet(LAMBDA s : rss[s], Slots)

Blank == [reserved |-> 0, live |-> 0]

Init ==
  /\ pid = [o \in Owners |-> "alive"]
  /\ lock = NoOwner
  /\ token = [s \in Slots |-> "none"]
  /\ phase = [s \in Slots |-> "pending"]
  /\ rss = [s \in Slots |-> 0]
  /\ pc = [o \in Owners |-> "idle"]
  /\ cur = [o \in Owners |-> NoSlot]
  /\ todo = [o \in Owners |-> {}]
  /\ moved = [o \in Owners |-> TRUE]
  /\ left = {}
  /\ acct = Blank

-----------------------------------------------------------------------------
(* Admission                                                                 *)

(* What a launcher asks for in one pass: a parallel one all pending slots,   *)
(* the others their next one, once the step before it has ended.             *)
Wanted(o) ==
  IF o \in Parallel \/ Pending(o) = {} THEN Pending(o)
  ELSE IF InFlight(o) = {} THEN {CHOOSE s \in Pending(o) : TRUE} ELSE {}

StartsPass(o) == todo[o] = {}
Tries(o) == IF StartsPass(o) THEN Wanted(o) ELSE todo[o]

(* flock is taken and the glob expanded.                                     *)
TryReserve(o) ==
  /\ pid[o] = "alive" /\ pc[o] = "idle" /\ lock = NoOwner
  /\ \E s \in Tries(o) :
       /\ cur' = [cur EXCEPT ![o] = s]
       /\ todo' = [todo EXCEPT ![o] = Tries(o) \ {s}]
  /\ moved' = [moved EXCEPT ![o] = @ /\ ~StartsPass(o)]
  /\ lock' = o
  /\ pc' = [pc EXCEPT ![o] = "scan"]
  /\ left' = {s \in Slots : token[s] # "none"}
  /\ acct' = Blank
  /\ UNCHANGED <<pid, token, phase, rss>>

(* A reservation whose step's PID is not written yet counts as stale.        *)
StaleUnattached(s) == token[s] # "attached" \/ pid[Owner[s]] \in {"dead", "reused"}

(* Mutant: whoever has the PID is taken for the launcher.                     *)
StaleByPid(s) == token[s] \in {"none", "fragment"} \/ pid[Owner[s]] = "dead"

(* Positive evidence that the reservation is stale: malformed, its launcher  *)
(* dead, or its PID readably another process.                                *)
Stale(s) ==
  \/ token[s] \in {"none", "fragment"}
  \/ pid[Owner[s]] \in {"dead", "reused"}

(* RSS beyond the expected peak is credited as if it were reserved.          *)
LiveRssUncapped(s) == IF token[s] = "attached" THEN rss[s] ELSE 0

(* The process tree of an unattached reservation is not known.               *)
LiveRss(s) == IF token[s] = "attached" THEN Smaller(rss[s], Peak[s]) ELSE 0

Drop(s) ==
  /\ token' = [token EXCEPT ![s] = "none"]
  /\ UNCHANGED acct

(* Only what a step may still grow by is reserved.                           *)
ChargeNet(s) ==
  /\ acct' = [acct EXCEPT !.reserved = @ + Peak[s] - rss[s]]
  /\ UNCHANGED token

Charge(s) ==
  /\ acct' = [reserved |-> acct.reserved + Peak[s], live |-> acct.live + LiveRss(s)]
  /\ UNCHANGED token

ScanOne(o) ==
  /\ pid[o] = "alive" /\ pc[o] = "scan"
  /\ \E s \in left :
       /\ left' = left \ {s}
       /\ IF Stale(s) THEN Drop(s) ELSE Charge(s)
  /\ UNCHANGED <<pid, lock, phase, rss, pc, cur, todo, moved>>

Headroom == Available + acct.live - Safety - acct.reserved

(* No reservation is charged: every peak is positive.                        *)
Alone == "solo" \in Events /\ acct.reserved = 0

ScanDone(o) == pid[o] = "alive" /\ pc[o] = "scan" /\ left = {}

Unlock(o) == lock' = NoOwner /\ left' = {} /\ acct' = Blank

(* The check compares with what is free and forgets what is reserved.        *)
AdmitsFree(s) == Peak[s] <= Available - Safety

Admits(s) == Peak[s] <= Headroom \/ Alone

Admit(o) ==
  /\ ScanDone(o)
  /\ LET s == cur[o] IN
       /\ Admits(s)
       /\ \/ token' = [token EXCEPT ![s] = "held"]
          \/ /\ "nospace" \in Events
             /\ token' = [token EXCEPT ![s] = "fragment"]
       /\ phase' = [phase EXCEPT ![s] = "admitted"]
  /\ pc' = [pc EXCEPT ![o] = "launch"]
  /\ moved' = [moved EXCEPT ![o] = TRUE]
  /\ Unlock(o)
  /\ UNCHANGED <<pid, rss, cur, todo>>

(* Return to the loop over the slots.                                        *)
NextSlot(o) ==
  /\ pc' = [pc EXCEPT ![o] = "idle"]
  /\ cur' = [cur EXCEPT ![o] = NoSlot]

Refuse(o) ==
  /\ ScanDone(o)
  /\ ~Admits(cur[o])
  /\ NextSlot(o)
  /\ Unlock(o)
  /\ UNCHANGED <<pid, token, phase, rss, todo, moved>>

(* These slots, or for a one-by-one launcher all its slots, are given up.    *)
GiveUp(o, S) ==
  LET T == IF o \in Parallel THEN S ELSE Pending(o)
  IN  phase' = [s \in Slots |-> IF s \in T THEN "notrun" ELSE phase[s]]

(* mktemp fails after the check: rc 2, the slot is not run.                  *)
AdmissionFails(o) ==
  /\ "io" \in Events
  /\ ScanDone(o)
  /\ Admits(cur[o])
  /\ GiveUp(o, {cur[o]})
  /\ moved' = [moved EXCEPT ![o] = TRUE]
  /\ NextSlot(o)
  /\ Unlock(o)
  /\ UNCHANGED <<pid, token, rss, todo>>

(* A whole pass without progress, and the wait is over.                      *)
Timeout(o) ==
  /\ "timeout" \in Events
  /\ pid[o] = "alive" /\ pc[o] = "idle" /\ todo[o] = {} /\ ~moved[o]
  /\ Wanted(o) # {}
  /\ GiveUp(o, Pending(o))
  /\ moved' = [moved EXCEPT ![o] = TRUE]
  /\ UNCHANGED <<pid, lock, token, rss, pc, cur, todo, left, acct>>

-----------------------------------------------------------------------------
(* The step                                                                  *)

Launch(o) ==
  /\ pid[o] = "alive" /\ pc[o] = "launch"
  /\ phase' = [phase EXCEPT ![cur[o]] = "running"]
  /\ IF o \in Attaching
     THEN /\ pc' = [pc EXCEPT ![o] = "attach"]
          /\ UNCHANGED cur
     ELSE NextSlot(o)
  /\ UNCHANGED <<pid, lock, token, rss, todo, moved, left, acct>>

(* The token is looked for, before and after flock, and then appended to;    *)
(* the step may release it between the second look and the append.           *)
AttachTest(o) ==
  /\ pid[o] = "alive" /\ pc[o] = "attach" /\ lock = NoOwner
  /\ IF token[cur[o]] = "none"
     THEN NextSlot(o) /\ UNCHANGED lock
     ELSE /\ lock' = o
          /\ pc' = [pc EXCEPT ![o] = "append"]
          /\ UNCHANGED cur
  /\ UNCHANGED <<pid, token, phase, rss, todo, moved, left, acct>>

AttachAppend(o) ==
  /\ pid[o] = "alive" /\ pc[o] = "append"
  /\ token' = [token EXCEPT ![cur[o]] = IF @ \in {"held", "attached"}
                                            THEN "attached" ELSE "fragment"]
  /\ lock' = NoOwner
  /\ NextSlot(o)
  /\ UNCHANGED <<pid, phase, rss, todo, moved, left, acct>>

(* The lock file cannot be opened: only a message.                           *)
AttachFails(o) ==
  /\ "io" \in Events
  /\ pid[o] = "alive" /\ pc[o] = "attach"
  /\ NextSlot(o)
  /\ UNCHANGED <<pid, lock, token, phase, rss, todo, moved, left, acct>>

Grow(s) ==
  /\ phase[s] = "running"
  /\ rss[s] < Peak[s] + (IF "overshoot" \in Events THEN Overshoot ELSE 0)
  /\ rss' = [rss EXCEPT ![s] = @ + 1]
  /\ UNCHANGED <<pid, lock, token, phase, pc, cur, todo, moved, left, acct>>

Shrink(s) ==
  /\ "shrink" \in Events
  /\ phase[s] = "running" /\ rss[s] > 0
  /\ rss' = [rss EXCEPT ![s] = @ - 1]
  /\ UNCHANGED <<pid, lock, token, phase, pc, cur, todo, moved, left, acct>>

StepEnds(s) ==
  /\ phase[s] = "running"
  /\ phase' = [phase EXCEPT ![s] = "ended"]
  /\ rss' = [rss EXCEPT ![s] = 0]
  /\ UNCHANGED <<pid, lock, token, pc, cur, todo, moved, left, acct>>

(* rm -f of the token; neither release takes the lock.                       *)
Release(s) == token' = [token EXCEPT ![s] = "none"]

(* EXIT trap of the subshell around a parallel step, which outlives a        *)
(* killed launcher.                                                          *)
TrapRelease(s) ==
  /\ Owner[s] \in Parallel
  /\ phase[s] = "ended"
  /\ phase' = [phase EXCEPT ![s] = "exited"]
  /\ Release(s)
  /\ UNCHANGED <<pid, lock, rss, pc, cur, todo, moved, left, acct>>

(* The launcher waits for a step and releases its token (again, when the     *)
(* subshell has done so); a parallel launcher when nothing is pending.  A    *)
(* one-by-one launcher stops at the first step that fails.                   *)
Reap(s) ==
  LET o == Owner[s] IN
  /\ pid[o] = "alive" /\ pc[o] = "idle"
  /\ IF o \in Parallel
     THEN phase[s] = "exited" /\ Pending(o) = {}
     ELSE phase[s] = "ended"
  /\ \/ phase' = [phase EXCEPT ![s] = "done"]
     \/ /\ o \notin Parallel
        /\ phase' = [t \in Slots |-> IF t = s THEN "done"
                                     ELSE IF t \in Pending(o) THEN "notrun" ELSE phase[t]]
  /\ Release(s)
  /\ UNCHANGED <<pid, lock, rss, pc, cur, todo, moved, left, acct>>

-----------------------------------------------------------------------------
(* The launcher dies                                                         *)

(* The kernel drops its flock.  Its tokens stay, and so do its steps, which  *)
(* run in process groups of their own.                                       *)
Kill(o) ==
  /\ "kill" \in Events
  /\ pid[o] = "alive"
  /\ pid' = [pid EXCEPT ![o] = "dead"]
  /\ IF lock = o THEN Unlock(o) ELSE UNCHANGED <<lock, left, acct>>
  /\ phase' = [s \in Slots |-> IF Owner[s] = o /\ phase[s] \in {"pending", "admitted"}
                               THEN "notrun" ELSE phase[s]]
  /\ NextSlot(o)
  /\ todo' = [todo EXCEPT ![o] = {}]
  /\ UNCHANGED <<token, rss, moved>>

Reuse(o) ==
  /\ "reuse" \in Events
  /\ pid[o] = "dead"
  /\ \/ pid' = [pid EXCEPT ![o] = "reused"]
     \/ /\ "unreadable" \in Events
        /\ pid' = [pid EXCEPT ![o] = "hidden"]
  /\ UNCHANGED <<lock, token, phase, rss, pc, cur, todo, moved, left, acct>>

(* Every step has ended and every live launcher has come to the end.         *)
Finished ==
  /\ \A s \in Slots : phase[s] \in {"done", "notrun"}
                        \/ (pid[Owner[s]] # "alive" /\ phase[s] \in {"ended", "exited"})
  /\ UNCHANGED vars

Launcher(o) ==
  \/ TryReserve(o) \/ ScanOne(o) \/ Admit(o) \/ Refuse(o) \/ AdmissionFails(o)
  \/ Timeout(o) \/ Launch(o) \/ AttachTest(o) \/ AttachAppend(o) \/ AttachFails(o)
  \/ Kill(o) \/ Reuse(o)

Step(s) == Grow(s) \/ Shrink(s) \/ StepEnds(s) \/ TrapRelease(s) \/ Reap(s)

Next ==
  \/ \E o \in Owners : Launcher(o)
  \/ \E s \in Slots : Step(s)
  \/ Finished

Spec == Init /\ [][Next]_vars

(* Processes get on with their work and steps end; a launcher blocked in     *)
(* flock is woken when the lock is released, before the holder, which sleeps *)
(* between two passes, asks for it again.                                    *)
Fairness ==
  /\ \A o \in Owners :
       /\ SF_vars(TryReserve(o)) /\ SF_vars(AttachTest(o))
       /\ WF_vars(ScanOne(o)) /\ WF_vars(Admit(o) \/ Refuse(o))
       /\ WF_vars(Launch(o)) /\ WF_vars(AttachAppend(o))
  /\ \A s \in Slots : WF_vars(StepEnds(s)) /\ WF_vars(TrapRelease(s)) /\ WF_vars(Reap(s))

FairSpec == Spec /\ Fairness

-----------------------------------------------------------------------------
(* What the budget is for                                                    *)

Using(s) == phase[s] \in {"admitted", "running"}
Counted(s) == Using(s) /\ pid[Owner[s]] = "alive"

(* A slot of a live launcher has its reservation from its admission until    *)
(* its step is over: no scan of another launcher, no attach and no release   *)
(* takes it away (memory-budget.sh:330-352).                                 *)
Covered ==
  \A s \in Slots : Counted(s) => token[s] \in {"held", "attached"}

(* A slot is only admitted when its peak and, for every slot in flight, the  *)
(* larger of its peak and its present size fit beside the safety margin,     *)
(* although the scan reads sizes one by one while steps grow and end; alone  *)
(* is the exception (memory-budget.sh:28-31, 380-395).                       *)
AdmittedFits ==
  [][\A s \in Slots :
       phase[s] = "pending" /\ phase'[s] = "admitted" =>
         LET others == {t \in Slots : Counted(t)}
         IN  \/ Peak[s] + MapThenSumSet(LAMBDA t : Larger(Peak[t], rss[t]), others)
                  <= Total - Safety
             \/ "solo" \in Events /\ others = {}]_vars

(* The same promise, as the pool of memory the launchers believe they share. *)
Pool == INSTANCE MemoryPool WITH
          Cap <- Total - Safety,
          Solo <- "solo" \in Events,
          using <- {s \in Slots : Counted(s)}
PoolSpec == Pool!Spec

(* Every pending slot is admitted, or given up, however many launchers died  *)
(* holding reservations or the lock (memory-budget.sh:438-473).              *)
EventuallyDecided ==
  \A s \in Slots : phase[s] = "pending" ~> phase[s] # "pending"

=============================================================================
