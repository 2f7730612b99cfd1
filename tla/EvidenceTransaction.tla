------------------------ MODULE EvidenceTransaction ------------------------
(***************************************************************************)
(* The live-evidence transaction of the verify engine.  Registration       *)
(* admission borrows the log directory of the last verification; unless    *)
(* the gate goes on to run slots, what was there must come back.           *)
(*                                                                         *)
(*   musi_verify_run_gate           the main program                       *)
(*   musi_verify_gate_handle_signal INT / TERM, at any command boundary    *)
(*   musi_verify_dispatch_exit      the EXIT trap, with one bounded retry  *)
(*                                                                         *)
(* One step is one external command or one group of adjacent assignments   *)
(* no signal can tell apart.  A trap handler never returns to what it      *)
(* interrupted, except while a clean-up is in progress, when it does       *)
(* nothing; so one control point, pc, is enough.                           *)
(***************************************************************************)
EXTENDS Naturals

CONSTANTS
  Signals,     \* signals may arrive
  Tears,       \* a failing cp or rm may stop half-way
  MaxFaults    \* bounds the commands that fail

ASSUME EvidenceAssumption ==
  /\ Signals \in BOOLEAN
  /\ Tears \in BOOLEAN
  /\ MaxFaults \in Nat

VARIABLES
  live,       \* the log directory
  staging,    \* log_dir.restore.XXXXXX
  displaced,  \* log_dir.restore.XXXXXX.displaced
  backup,     \* $TMPDIR/musi-verify-live-evidence.XXXXXX/evidence
  saved,      \* admission-registration.log next to it
  set,        \* the MUSI_VERIFY_GATE_ variables that are 1 or not empty
  pc,         \* the next command
  who,        \* "main", "handler" or "exit": who runs it
  tries,      \* clean-ups the EXIT trap has started
  past,       \* history: "committed" to running slots, "admitted" once, or
              \* the backup's removal stopped half-way and left it "torn"
  faults      \* commands that have failed

treeVars == <<live, staging, displaced, backup, saved>>
vars == <<treeVars, set, pc, who, tries, past, faults>>

(* What a tree holds: "whole" prior evidence, a "part" of it, prior evidence
   "signed" over by signal metadata, or the logs of this "run"; and which
   registration.log is in it.                                              *)
Logs == {"none", "part", "whole", "signed", "run"}
Registrations == {"none", "old", "new"}
Trees == [logs : Logs, reg : Registrations]

NoTree == [logs |-> "none", reg |-> "none"]
Empty == [logs |-> "part", reg |-> "none"]
Prior == [logs |-> "whole", reg |-> "old"]
FreshRun == [logs |-> "run", reg |-> "none"]

(* The variables of one transaction, and those of the process.  "EXITING"
   stands for bash's own mark that the EXIT trap has started.              *)
SwapFlags == {"BACKUP", "LOG_DIR", "CAPTURED", "SWAP_COMPLETE", "STAGING_DIR",
              "DISPLACED_DIR"}
Flags == SwapFlags \cup {"RESTORED", "IN_PROGRESS", "CLEANED", "EXITING"}

Init ==
  /\ live = Prior
  /\ staging = NoTree /\ displaced = NoTree /\ backup = NoTree
  /\ saved = "none"
  /\ set = {}
  /\ pc = "start" /\ who = "main"
  /\ tries = 0
  /\ past = {}
  /\ faults = 0

-----------------------------------------------------------------------------
(* Control.                                                                *)

Go(from, to) == pc = from /\ pc' = to /\ UNCHANGED <<who, tries>>

Assign(flag) == set' = set \cup {flag} /\ UNCHANGED faults

(* n commands fail.  A failing command has no effect or, when it tears,
   part of its effect.                                                     *)
Fault(n) == faults + n <= MaxFaults /\ faults' = faults + n

(* Mutant: the EXIT trap tries as long as restoring fails.                 *)
RetryForever == IF who = "exit" THEN "cleanup" ELSE "dispatch"

(* Mutant: the handler does not look at the status of its clean-up.        *)
FailureIgnored == IF who = "handler" THEN "metadata"
                  ELSE IF "EXITING" \notin set THEN "dispatch" ELSE "done"

(* The shell function returns 2.  run_gate and the signal handler exit, and
   the EXIT trap - unless it is already running - takes over; the EXIT trap
   itself tries once more.                                                 *)
AfterFailure == IF "EXITING" \notin set THEN "dispatch"
                ELSE IF who = "exit" /\ tries = 1 THEN "cleanup" ELSE "done"

(* Mutant: a failed restoration leaves the clean-up marked in progress.    *)
GiveUpBusy(lost) ==
  pc' = AfterFailure /\ set' = set \ lost /\ UNCHANGED <<who, tries>>

GiveUp(lost) ==
  /\ pc' = AfterFailure
  /\ set' = set \ (lost \cup {"IN_PROGRESS"})
  /\ UNCHANGED <<who, tries>>

(* musi_verify_cleanup_gate for w: nothing is left to do, or the prior
   evidence is restored.                                                   *)
Cleanup(w, next) ==
  LET skip == "CLEANED" \in set \/ "IN_PROGRESS" \in set
  IN /\ who' = w
     /\ \/ skip /\ pc' = next /\ UNCHANGED set
        \/ ~skip /\ "BACKUP" \notin set
           /\ pc' = next /\ set' = set \cup {"CLEANED"}
        \/ ~skip /\ "BACKUP" \in set
           /\ pc' = "capture" /\ set' = set \cup {"IN_PROGRESS"}

-----------------------------------------------------------------------------
(* The main program up to its decision.                                    *)

(* Admission applies: the traps are armed with signal metadata suppressed. *)
ArmAdmission ==
  /\ Go("start", "backup")
  /\ Assign("RESTORED")
  /\ UNCHANGED <<treeVars, past>>

(* No admission, no marker and no bridge: an ordinary gate arms the traps
   and replaces the evidence.                                              *)
ArmOrdinary ==
  /\ Go("start", "setup")
  /\ past' = {"committed"}
  /\ UNCHANGED <<treeVars, set, faults>>

(* Mutant: the status of cp is not looked at.                              *)
CopyUnchecked ==
  /\ Go("backup", "noteBackup")
  /\ \/ backup' = live /\ UNCHANGED faults
     \/ Tears /\ Fault(1) /\ backup' = Empty
  /\ UNCHANGED <<live, staging, displaced, saved, set, past>>

(* musi_verify_gate_backup_live_evidence: mktemp, mkdir and cp ...         *)
CopyBackup ==
  /\ pc = "backup"
  /\ \/ Go("backup", "noteBackup") /\ backup' = live /\ UNCHANGED <<set, faults>>
     \/ Fault(1) /\ GiveUp({}) /\ UNCHANGED backup
  /\ UNCHANGED <<live, staging, displaced, saved, past>>

(* ... then the variables that open the transaction, one by one.           *)
NoteBackup ==
  Go("noteBackup", "noteLogDir") /\ Assign("BACKUP") /\ UNCHANGED <<treeVars, past>>

NoteLogDir ==
  Go("noteLogDir", "open") /\ Assign("LOG_DIR") /\ UNCHANGED <<treeVars, past>>

(* Mutant: the flag that was raised to suppress metadata stays up.         *)
OpenStillRestored ==
  Go("open", "setup") /\ UNCHANGED <<treeVars, set, past, faults>>

Open ==
  /\ Go("open", "setup")
  /\ set' = set \ {"RESTORED"}
  /\ UNCHANGED <<treeVars, past, faults>>

(* musi_verify_gate_setup_logs: rm -rf the log directory, make a new one.  *)
SetupLogs ==
  /\ pc = "setup"
  /\ \/ /\ Go("setup", IF "committed" \in past THEN "slots" ELSE "admit")
        /\ live' = FreshRun
        /\ UNCHANGED <<set, faults>>
     \/ Fault(1) /\ GiveUp({}) /\ (UNCHANGED live \/ (Tears /\ live' = Empty))
  /\ UNCHANGED <<staging, displaced, backup, saved, past>>

(* musi_verify_gate_run_pre_cache_admission.                               *)
Admit ==
  /\ Go("admit", "decide")
  /\ live' = [live EXCEPT !.reg = "new"]
  /\ past' = past \cup {"admitted"}
  /\ UNCHANGED <<staging, displaced, backup, saved, set, faults>>

(* Admission fails, or a marker or a bridge makes the slots unnecessary:
   musi_verify_gate_restore_live_evidence.                                 *)
DecideRestore ==
  Go("decide", "capture") /\ UNCHANGED <<treeVars, set, past, faults>>

(* A provider or a hook fails operationally: run_gate returns 2.           *)
DecideError ==
  pc = "decide" /\ GiveUp({}) /\ UNCHANGED <<treeVars, past, faults>>

(* The slots are going to run: discard the backup.                         *)
DecideRun ==
  /\ Go("decide", "drop")
  /\ past' = past \cup {"committed"}
  /\ UNCHANGED <<treeVars, set, faults>>

(* Slots, run metadata, exit.                                              *)
RunSlots ==
  Go("slots", "dispatch") /\ UNCHANGED <<treeVars, set, past, faults>>

-----------------------------------------------------------------------------
(* musi_verify_gate_restore_live_evidence_dir.                             *)

(* Keep this run's registration.log, once.                                 *)
Capture ==
  LET known == "CAPTURED" \in set \/ live.reg = "none"
  IN /\ pc = "capture"
     /\ \/ "LOG_DIR" \notin set /\ GiveUp({}) /\ UNCHANGED <<saved, faults>>
        \/ /\ "LOG_DIR" \in set /\ (known \/ backup # NoTree)
           /\ Go("capture", IF "SWAP_COMPLETE" \in set THEN "dropDisplaced"
                            ELSE "unstage")
           /\ saved' = IF known THEN saved ELSE live.reg
           /\ Assign("CAPTURED")
        \/ /\ "LOG_DIR" \in set /\ ~known
           /\ GiveUp({}) /\ UNCHANGED saved
           /\ Fault(1) \/ (backup = NoTree /\ UNCHANGED faults)
     /\ UNCHANGED <<live, staging, displaced, backup, past>>

(* A staging tree left by an interrupted attempt.                          *)
Unstage ==
  /\ pc = "unstage"
  /\ \/ /\ Go("unstage", "stage")
        /\ set' = set \ {"STAGING_DIR"}
        /\ staging' = IF "STAGING_DIR" \in set THEN NoTree ELSE staging
        /\ UNCHANGED faults
     \/ "STAGING_DIR" \in set /\ Fault(1) /\ GiveUp({}) /\ UNCHANGED staging
  /\ UNCHANGED <<live, displaced, backup, saved, past>>

(* mktemp and MUSI_VERIFY_GATE_EVIDENCE_STAGING_DIR ...                    *)
MakeStaging ==
  /\ pc = "stage"
  /\ \/ Go("stage", "fill") /\ staging' = Empty /\ Assign("STAGING_DIR")
     \/ Fault(1) /\ GiveUp({}) /\ UNCHANGED staging
  /\ UNCHANGED <<live, displaced, backup, saved, past>>

(* A failed attempt, n commands wrong, removes its staging tree if it can. *)
Unwind(n, lost) ==
  \/ GiveUp(lost \cup {"STAGING_DIR"}) /\ staging' = NoTree /\ Fault(n)
  \/ GiveUp(lost) /\ UNCHANGED staging /\ Fault(n + 1)

(* ... filled from the backup, with the registration.log of this run.      *)
FillStaging ==
  /\ pc = "fill"
  /\ \/ /\ Go("fill", "displace")
        /\ staging' = IF backup = NoTree THEN Empty
                      ELSE [logs |-> backup.logs,
                            reg |-> IF saved = "none" THEN backup.reg ELSE saved]
        /\ UNCHANGED <<set, faults>>
     \/ Unwind(1, {})
  /\ UNCHANGED <<live, displaced, backup, saved, past>>

(* mv log_dir displaced ...                                                *)
Displace ==
  /\ pc = "displace"
  /\ \/ /\ live = NoTree
        /\ Go("displace", "reinstall")
        /\ UNCHANGED <<live, displaced, staging, set, faults>>
     \/ /\ live # NoTree
        /\ Go("displace", "noteDisplaced")
        /\ displaced' = live /\ live' = NoTree
        /\ UNCHANGED <<staging, set, faults>>
     \/ live # NoTree /\ Unwind(1, {}) /\ UNCHANGED <<live, displaced>>
  /\ UNCHANGED <<backup, saved, past>>

NoteDisplaced ==
  /\ Go("noteDisplaced", "install")
  /\ Assign("DISPLACED_DIR")
  /\ UNCHANGED <<treeVars, past>>

(* mv staging log_dir; a failure moves back the tree that this attempt has
   displaced.  An attempt that found no log_dir has displaced none: what an
   earlier one left aside, under another name, it cannot move back.        *)
Install ==
  /\ pc \in {"install", "reinstall"}
  /\ \/ /\ Go(pc, "noteSwap")
        /\ live' = staging /\ staging' = NoTree
        /\ UNCHANGED <<displaced, set, faults>>
     \/ /\ pc = "install" /\ Unwind(1, {"DISPLACED_DIR"})
        /\ live' = displaced /\ displaced' = NoTree
     \/ /\ Unwind(IF pc = "install" THEN 2 ELSE 1, {})
        /\ UNCHANGED <<live, displaced>>
  /\ UNCHANGED <<backup, saved, past>>

NoteSwap ==
  /\ Go("noteSwap", "dropDisplaced")
  /\ set' = (set \ {"STAGING_DIR"}) \cup {"SWAP_COMPLETE"}
  /\ UNCHANGED <<treeVars, past, faults>>

DropDisplaced ==
  /\ pc = "dropDisplaced"
  /\ \/ /\ Go("dropDisplaced", "drop")
        /\ set' = set \ {"DISPLACED_DIR"}
        /\ displaced' = IF "DISPLACED_DIR" \in set THEN NoTree ELSE displaced
        /\ UNCHANGED faults
     \/ "DISPLACED_DIR" \in set /\ Fault(1) /\ GiveUp({}) /\ UNCHANGED displaced
  /\ UNCHANGED <<live, staging, backup, saved, past>>

(* musi_verify_gate_discard_live_evidence_backup: rm -rf the backup ...    *)
DropBackup ==
  /\ pc = "drop"
  /\ \/ /\ Go("drop", "forget")
        /\ backup' = NoTree /\ saved' = "none"
        /\ UNCHANGED <<set, past, faults>>
     \/ /\ Fault(1) /\ GiveUp({})
        /\ \/ UNCHANGED <<backup, saved, past>>
           \/ /\ Tears
              /\ backup' = Empty /\ saved' \in {saved, "none"}
              /\ past' = past \cup {"torn"}
  /\ UNCHANGED <<live, staging, displaced>>

(* ... and reset the transaction's variables, MUSI_VERIFY_GATE_LIVE_EVIDENCE_
   BACKUP first: from here on no handler has anything to restore.          *)
ForgetBackup ==
  /\ Go("forget", "flag")
  /\ set' = set \ SwapFlags
  /\ UNCHANGED <<treeVars, past, faults>>

(* Back in run_gate on the way to the slots, or at the end of a restore,
   whose caller goes on: run_gate returns, the handler signs, the EXIT trap
   ends.                                                                   *)
SetRestored ==
  LET restored == set \cup {"RESTORED"}
      clean == (restored \ {"IN_PROGRESS"}) \cup {"CLEANED"}
  IN /\ \/ /\ who = "main" /\ "committed" \in past
           /\ Go("flag", "slots") /\ set' = set \ {"RESTORED"}
        \/ /\ who = "main" /\ "committed" \notin past
           /\ Go("flag", "dispatch") /\ set' = restored
        \/ who = "handler" /\ Go("flag", "metadata") /\ set' = clean
        \/ who = "exit" /\ Go("flag", "done") /\ set' = clean
     /\ UNCHANGED <<treeVars, past, faults>>

-----------------------------------------------------------------------------
(* Signals and exit.                                                       *)

(* Mutant: a second signal does not see the clean-up it interrupts.        *)
SignalReenters ==
  /\ Signals
  /\ pc \notin {"start", "handle", "done"}
  /\ pc' = "handle" /\ who' = "handler"
  /\ UNCHANGED <<treeVars, set, tries, past, faults>>

(* INT or TERM: an active clean-up owns the exit, and the handler returns. *)
Signal ==
  /\ Signals
  /\ pc \notin {"start", "handle", "done"}
  /\ "IN_PROGRESS" \notin set
  /\ pc' = "handle" /\ who' = "handler"
  /\ UNCHANGED <<treeVars, set, tries, past, faults>>

(* musi_verify_gate_handle_signal.                                         *)
Handle ==
  /\ pc = "handle"
  /\ Cleanup("handler", "metadata")
  /\ UNCHANGED <<treeVars, tries, past, faults>>

(* After its clean-up the handler records the signal in the log directory,
   unless that holds restored evidence, and exits.                         *)
SignRun ==
  /\ Go("metadata", IF "EXITING" \in set THEN "done" ELSE "dispatch")
  /\ live' = IF "RESTORED" \in set \/ live.logs # "whole" THEN live
             ELSE [live EXCEPT !.logs = "signed"]
  /\ UNCHANGED <<staging, displaced, backup, saved, set, past, faults>>

(* The EXIT trap starts, and from now on no other will ...                 *)
DispatchExit ==
  /\ pc = "dispatch"
  /\ pc' = "cleanup" /\ who' = "exit"
  /\ Assign("EXITING")
  /\ UNCHANGED <<treeVars, tries, past>>

(* ... musi_verify_dispatch_exit: a clean-up and, when it fails, one more. *)
CleanupAtExit ==
  /\ pc = "cleanup"
  /\ tries' = tries + 1
  /\ Cleanup("exit", "done")
  /\ UNCHANGED <<treeVars, past, faults>>

Ended == pc = "done" /\ UNCHANGED vars

-----------------------------------------------------------------------------
GateStep ==
  \/ ArmAdmission \/ ArmOrdinary \/ CopyBackup \/ NoteBackup \/ NoteLogDir
  \/ Open \/ SetupLogs \/ Admit \/ DecideRestore \/ DecideError \/ DecideRun
  \/ RunSlots

RestoreStep ==
  \/ Capture \/ Unstage \/ MakeStaging \/ FillStaging \/ Displace
  \/ NoteDisplaced \/ Install \/ NoteSwap \/ DropDisplaced \/ DropBackup
  \/ ForgetBackup \/ SetRestored

ExitStep ==
  Signal \/ Handle \/ SignRun \/ DispatchExit \/ CleanupAtExit \/ Ended

Next == GateStep \/ RestoreStep \/ ExitStep

Spec == Init /\ [][Next]_vars

-----------------------------------------------------------------------------
Points == {"start", "backup", "noteBackup", "noteLogDir", "open", "setup",
           "admit", "decide", "slots", "capture", "unstage", "stage", "fill",
           "displace", "noteDisplaced", "install", "reinstall", "noteSwap",
           "dropDisplaced", "drop", "forget", "flag", "handle", "metadata",
           "dispatch", "cleanup", "done"}

TypeOK ==
  /\ live \in Trees /\ staging \in Trees /\ displaced \in Trees
  /\ backup \in Trees /\ saved \in Registrations
  /\ set \subseteq Flags
  /\ pc \in Points /\ who \in {"main", "handler", "exit"}
  /\ tries \in 0..2
  /\ past \subseteq {"committed", "admitted", "torn"}
  /\ faults \in 0..MaxFaults

Kept == live.logs \in {"whole", "signed"}

(* Until the gate has decided to run its slots the prior evidence exists
   whole, in the log directory or in the backup, wherever a command fails
   and a signal arrives (verify-engine.sh: "the live tree remains
   authoritative until its backup is complete").                           *)
Recoverable == "committed" \in past \/ Kept \/ backup.logs = "whole"

(* Once a transaction is open, the flag that says it has been undone is never
   up at exit over anything but the prior evidence, unless the removal of the
   backup has left a fragment of it for a retry to restore
   (verify-gate-lifecycle.md: only a real behavioral run replaces it).     *)
RestoredIsWhole ==
  pc = "done" /\ "admitted" \in past /\ "torn" \notin past
  /\ "RESTORED" \in set => Kept

(* Never write signal metadata onto a tree whose prior evidence has not been
   restored successfully (musi_verify_gate_handle_signal).                 *)
SignedOnlySettled ==
  pc = "metadata" /\ "RESTORED" \notin set => "committed" \in past \/ Kept

(* A process that exits without having decided to run slots leaves the prior
   logs in place, and beside them the registration.log of its admission
   (verify-gate-lifecycle.md: marker and bridge hits, admission failures and
   admission-time signals restore them): whatever signals arrive, and even if
   one command fails, as long as the EXIT trap then gets to its attempts.    *)
RestoredAtExit ==
  pc = "done" /\ "committed" \notin past
  /\ (faults = 0 \/ (faults = 1 /\ tries > 0)) =>
    Kept /\ ("admitted" \in past => live.reg = "new")
=============================================================================
