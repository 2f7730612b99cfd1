--------------------- MODULE EvidenceTransactionProofs ---------------------
(* Theorems about EvidenceTransaction, for any number of failing commands,
   whole or torn, and any signals.                                         *)
EXTENDS EvidenceTransaction, TLAPS

-----------------------------------------------------------------------------
(* Type correctness, in two parts: who runs what, and what the trees hold. *)

GatePoints == {"start", "backup", "noteBackup", "noteLogDir", "open", "setup",
               "admit", "decide", "slots"}

Control ==
  /\ set \subseteq Flags
  /\ pc \in Points /\ who \in {"main", "handler", "exit"}
  /\ tries \in 0..2
  /\ pc \in GatePoints => who = "main"
  /\ who = "main" => "EXITING" \notin set
  /\ "EXITING" \notin set => tries = 0
  /\ pc = "dispatch" => "EXITING" \notin set
  /\ pc = "cleanup" => "EXITING" \in set /\ tries < 2

TreeTypes ==
  /\ live \in Trees /\ staging \in Trees /\ displaced \in Trees
  /\ backup \in Trees /\ saved \in Registrations
  /\ past \subseteq {"committed", "admitted", "torn"}
  /\ faults \in 0..MaxFaults

LEMMA GiveUpControl ==
  ASSUME Control, NEW lost \in SUBSET SwapFlags, GiveUp(lost)
  PROVE  Control'
<1>1. who' = who /\ tries' = tries /\ set' \subseteq Flags
      /\ ("EXITING" \in set' <=> "EXITING" \in set)
  BY DEF Control, GiveUp, SwapFlags
<1>2. \/ pc' = "dispatch" /\ "EXITING" \notin set
      \/ pc' = "cleanup" /\ "EXITING" \in set /\ tries = 1
      \/ pc' = "done"
  BY DEF GiveUp, AfterFailure
<1>. QED BY <1>1, <1>2 DEF Control, Points, GatePoints

LEMMA UnwindControl ==
  ASSUME Control, NEW n, NEW lost \in SUBSET SwapFlags, Unwind(n, lost)
  PROVE  Control'
<1>1. lost \cup {"STAGING_DIR"} \in SUBSET SwapFlags
  BY DEF SwapFlags
<1>2. GiveUp(lost) \/ GiveUp(lost \cup {"STAGING_DIR"})
  BY DEF Unwind
<1>. QED BY <1>1, <1>2, GiveUpControl

LEMMA ControlStep ==
  ASSUME Control, [Next]_vars
  PROVE  Control'
<1>1. CASE ArmAdmission
  BY <1>1 DEF ArmAdmission, Control, Points, GatePoints, Go, Assign, Flags, SwapFlags
<1>2. CASE ArmOrdinary
  BY <1>2 DEF ArmOrdinary, Control, Points, GatePoints, Go, Assign, Flags, SwapFlags
<1>3. CASE CopyBackup
  BY <1>3, GiveUpControl DEF CopyBackup, Control, Points, GatePoints, Go, Assign, Flags, SwapFlags
<1>4. CASE NoteBackup
  BY <1>4 DEF NoteBackup, Control, Points, GatePoints, Go, Assign, Flags, SwapFlags
<1>5. CASE NoteLogDir
  BY <1>5 DEF NoteLogDir, Control, Points, GatePoints, Go, Assign, Flags, SwapFlags
<1>6. CASE Open
  BY <1>6 DEF Open, Control, Points, GatePoints, Go, Assign, Flags, SwapFlags
<1>7. CASE SetupLogs
  BY <1>7, GiveUpControl DEF SetupLogs, Control, Points, GatePoints, Go, Assign, Flags, SwapFlags
<1>8. CASE Admit
  BY <1>8 DEF Admit, Control, Points, GatePoints, Go, Assign, Flags, SwapFlags
<1>9. CASE DecideRestore
  BY <1>9 DEF DecideRestore, Control, Points, GatePoints, Go, Assign, Flags, SwapFlags
<1>10. CASE DecideError
  BY <1>10, GiveUpControl DEF DecideError, Control, Points, GatePoints, Go, Assign, Flags, SwapFlags
<1>11. CASE DecideRun
  BY <1>11 DEF DecideRun, Control, Points, GatePoints, Go, Assign, Flags, SwapFlags
<1>12. CASE RunSlots
  BY <1>12 DEF RunSlots, Control, Points, GatePoints, Go, Assign, Flags, SwapFlags
<1>13. CASE Capture
  BY <1>13, GiveUpControl DEF Capture, Control, Points, GatePoints, Go, Assign, Flags, SwapFlags
<1>14. CASE Unstage
  BY <1>14, GiveUpControl DEF Unstage, Control, Points, GatePoints, Go, Assign, Flags, SwapFlags
<1>15. CASE MakeStaging
  BY <1>15, GiveUpControl DEF MakeStaging, Control, Points, GatePoints, Go, Assign, Flags, SwapFlags
<1>16. CASE FillStaging
  BY <1>16, UnwindControl DEF FillStaging, Control, Points, GatePoints, Go, Assign, Flags, SwapFlags
<1>17. CASE Displace
  BY <1>17, UnwindControl DEF Displace, Control, Points, GatePoints, Go, Assign, Flags, SwapFlags
<1>18. CASE NoteDisplaced
  BY <1>18 DEF NoteDisplaced, Control, Points, GatePoints, Go, Assign, Flags, SwapFlags
<1>19. CASE Install
  BY <1>19, UnwindControl DEF Install, Control, Points, GatePoints, Go, Assign, Flags, SwapFlags
<1>20. CASE NoteSwap
  BY <1>20 DEF NoteSwap, Control, Points, GatePoints, Go, Assign, Flags, SwapFlags
<1>21. CASE DropDisplaced
  BY <1>21, GiveUpControl DEF DropDisplaced, Control, Points, GatePoints, Go, Assign, Flags, SwapFlags
<1>22. CASE DropBackup
  BY <1>22, GiveUpControl DEF DropBackup, Control, Points, GatePoints, Go, Assign, Flags, SwapFlags
<1>23. CASE ForgetBackup
  BY <1>23 DEF ForgetBackup, Control, Points, GatePoints, Go, Assign, Flags, SwapFlags
<1>24. CASE SetRestored
  BY <1>24 DEF SetRestored, Control, Points, GatePoints, Go, Assign, Flags, SwapFlags
<1>25. CASE Signal
  BY <1>25 DEF Signal, Control, Points, GatePoints, Go, Assign, Flags, SwapFlags
<1>26. CASE Handle
  BY <1>26 DEF Handle, Control, Points, GatePoints, Go, Assign, Flags, SwapFlags, Cleanup
<1>27. CASE SignRun
  BY <1>27 DEF SignRun, Control, Points, GatePoints, Go, Assign, Flags, SwapFlags
<1>28. CASE DispatchExit
  BY <1>28 DEF DispatchExit, Control, Points, GatePoints, Go, Assign, Flags, SwapFlags
<1>29. CASE CleanupAtExit
  <2>1. "EXITING" \in set /\ tries' \in 0..2
    BY <1>29 DEF CleanupAtExit, Control
  <2>2. who' = "exit" /\ pc' \in {"done", "capture"}
    BY <1>29 DEF CleanupAtExit, Cleanup
  <2>3. set' \subseteq Flags /\ "EXITING" \in set'
    BY <1>29, <2>1 DEF CleanupAtExit, Cleanup, Control, Flags
  <2>. QED BY <2>1, <2>2, <2>3 DEF Control, Points, GatePoints
<1>30. CASE Ended
  BY <1>30 DEF Ended, Control, Points, GatePoints, Go, Assign, Flags, SwapFlags, vars
<1>31. CASE UNCHANGED vars
  BY <1>31 DEF vars, treeVars, Control, Points, GatePoints, Go, Assign, Flags, SwapFlags
<1>. QED
  BY <1>1, <1>2, <1>3, <1>4, <1>5, <1>6, <1>7, <1>8, <1>9, <1>10, <1>11, <1>12, <1>13, <1>14, <1>15, <1>16, <1>17, <1>18, <1>19, <1>20, <1>21, <1>22, <1>23, <1>24, <1>25, <1>26, <1>27, <1>28, <1>29, <1>30, <1>31
     DEF Next, GateStep, RestoreStep, ExitStep

LEMMA TreeTypesStep ==
  ASSUME TreeTypes, [Next]_vars
  PROVE  TreeTypes'
<1>1. CASE ArmAdmission
  BY <1>1, EvidenceAssumption DEF ArmAdmission, TreeTypes, Trees, Logs, Registrations, NoTree, Empty, FreshRun, treeVars, Assign, Fault, Unwind
<1>2. CASE ArmOrdinary
  BY <1>2, EvidenceAssumption DEF ArmOrdinary, TreeTypes, Trees, Logs, Registrations, NoTree, Empty, FreshRun, treeVars, Assign, Fault, Unwind
<1>3. CASE CopyBackup
  BY <1>3, EvidenceAssumption DEF CopyBackup, TreeTypes, Trees, Logs, Registrations, NoTree, Empty, FreshRun, treeVars, Assign, Fault, Unwind
<1>4. CASE NoteBackup
  BY <1>4, EvidenceAssumption DEF NoteBackup, TreeTypes, Trees, Logs, Registrations, NoTree, Empty, FreshRun, treeVars, Assign, Fault, Unwind
<1>5. CASE NoteLogDir
  BY <1>5, EvidenceAssumption DEF NoteLogDir, TreeTypes, Trees, Logs, Registrations, NoTree, Empty, FreshRun, treeVars, Assign, Fault, Unwind
<1>6. CASE Open
  BY <1>6, EvidenceAssumption DEF Open, TreeTypes, Trees, Logs, Registrations, NoTree, Empty, FreshRun, treeVars, Assign, Fault, Unwind
<1>7. CASE SetupLogs
  BY <1>7, EvidenceAssumption DEF SetupLogs, TreeTypes, Trees, Logs, Registrations, NoTree, Empty, FreshRun, treeVars, Assign, Fault, Unwind
<1>8. CASE Admit
  BY <1>8, EvidenceAssumption DEF Admit, TreeTypes, Trees, Logs, Registrations, NoTree, Empty, FreshRun, treeVars, Assign, Fault, Unwind
<1>9. CASE DecideRestore
  BY <1>9, EvidenceAssumption DEF DecideRestore, TreeTypes, Trees, Logs, Registrations, NoTree, Empty, FreshRun, treeVars, Assign, Fault, Unwind
<1>10. CASE DecideError
  BY <1>10, EvidenceAssumption DEF DecideError, TreeTypes, Trees, Logs, Registrations, NoTree, Empty, FreshRun, treeVars, Assign, Fault, Unwind
<1>11. CASE DecideRun
  BY <1>11, EvidenceAssumption DEF DecideRun, TreeTypes, Trees, Logs, Registrations, NoTree, Empty, FreshRun, treeVars, Assign, Fault, Unwind
<1>12. CASE RunSlots
  BY <1>12, EvidenceAssumption DEF RunSlots, TreeTypes, Trees, Logs, Registrations, NoTree, Empty, FreshRun, treeVars, Assign, Fault, Unwind
<1>13. CASE Capture
  BY <1>13, EvidenceAssumption DEF Capture, TreeTypes, Trees, Logs, Registrations, NoTree, Empty, FreshRun, treeVars, Assign, Fault, Unwind
<1>14. CASE Unstage
  BY <1>14, EvidenceAssumption DEF Unstage, TreeTypes, Trees, Logs, Registrations, NoTree, Empty, FreshRun, treeVars, Assign, Fault, Unwind
<1>15. CASE MakeStaging
  BY <1>15, EvidenceAssumption DEF MakeStaging, TreeTypes, Trees, Logs, Registrations, NoTree, Empty, FreshRun, treeVars, Assign, Fault, Unwind
<1>16. CASE FillStaging
  BY <1>16, EvidenceAssumption DEF FillStaging, TreeTypes, Trees, Logs, Registrations, NoTree, Empty, FreshRun, treeVars, Assign, Fault, Unwind
<1>17. CASE Displace
  BY <1>17, EvidenceAssumption DEF Displace, TreeTypes, Trees, Logs, Registrations, NoTree, Empty, FreshRun, treeVars, Assign, Fault, Unwind
<1>18. CASE NoteDisplaced
  BY <1>18, EvidenceAssumption DEF NoteDisplaced, TreeTypes, Trees, Logs, Registrations, NoTree, Empty, FreshRun, treeVars, Assign, Fault, Unwind
<1>19. CASE Install
  BY <1>19, EvidenceAssumption DEF Install, TreeTypes, Trees, Logs, Registrations, NoTree, Empty, FreshRun, treeVars, Assign, Fault, Unwind
<1>20. CASE NoteSwap
  BY <1>20, EvidenceAssumption DEF NoteSwap, TreeTypes, Trees, Logs, Registrations, NoTree, Empty, FreshRun, treeVars, Assign, Fault, Unwind
<1>21. CASE DropDisplaced
  BY <1>21, EvidenceAssumption DEF DropDisplaced, TreeTypes, Trees, Logs, Registrations, NoTree, Empty, FreshRun, treeVars, Assign, Fault, Unwind
<1>22. CASE DropBackup
  <2>1. past' \subseteq {"committed", "admitted", "torn"}
    BY <1>22 DEF DropBackup, TreeTypes
  <2>. QED BY <1>22, <2>1, EvidenceAssumption DEF DropBackup, TreeTypes, Trees, Logs, Registrations, NoTree, Empty, FreshRun, treeVars, Assign, Fault, Unwind
<1>23. CASE ForgetBackup
  BY <1>23, EvidenceAssumption DEF ForgetBackup, TreeTypes, Trees, Logs, Registrations, NoTree, Empty, FreshRun, treeVars, Assign, Fault, Unwind
<1>24. CASE SetRestored
  BY <1>24, EvidenceAssumption DEF SetRestored, TreeTypes, Trees, Logs, Registrations, NoTree, Empty, FreshRun, treeVars, Assign, Fault, Unwind
<1>25. CASE Signal
  BY <1>25, EvidenceAssumption DEF Signal, TreeTypes, Trees, Logs, Registrations, NoTree, Empty, FreshRun, treeVars, Assign, Fault, Unwind
<1>26. CASE Handle
  BY <1>26, EvidenceAssumption DEF Handle, TreeTypes, Trees, Logs, Registrations, NoTree, Empty, FreshRun, treeVars, Assign, Fault, Unwind
<1>27. CASE SignRun
  BY <1>27, EvidenceAssumption DEF SignRun, TreeTypes, Trees, Logs, Registrations, NoTree, Empty, FreshRun, treeVars, Assign, Fault, Unwind
<1>28. CASE DispatchExit
  BY <1>28, EvidenceAssumption DEF DispatchExit, TreeTypes, Trees, Logs, Registrations, NoTree, Empty, FreshRun, treeVars, Assign, Fault, Unwind
<1>29. CASE CleanupAtExit
  BY <1>29, EvidenceAssumption DEF CleanupAtExit, TreeTypes, Trees, Logs, Registrations, NoTree, Empty, FreshRun, treeVars, Assign, Fault, Unwind
<1>30. CASE Ended
  BY <1>30, EvidenceAssumption DEF Ended, TreeTypes, Trees, Logs, Registrations, NoTree, Empty, FreshRun, treeVars, vars, Assign, Fault, Unwind
<1>31. CASE UNCHANGED vars
  BY <1>31 DEF vars, treeVars, TreeTypes, Trees, Logs, Registrations, NoTree, Empty, FreshRun, treeVars
<1>. QED
  BY <1>1, <1>2, <1>3, <1>4, <1>5, <1>6, <1>7, <1>8, <1>9, <1>10, <1>11, <1>12, <1>13, <1>14, <1>15, <1>16, <1>17, <1>18, <1>19, <1>20, <1>21, <1>22, <1>23, <1>24, <1>25, <1>26, <1>27, <1>28, <1>29, <1>30, <1>31
     DEF Next, GateStep, RestoreStep, ExitStep

(* Every state is well typed (TypeOK), for any number of faults.           *)
THEOREM TypeSafety == Spec => []TypeOK
<1>1. Init => Control /\ TreeTypes
  BY EvidenceAssumption
     DEF Init, Control, TreeTypes, Trees, Logs, Registrations, NoTree, Prior,
         Points, GatePoints, Flags
<1>2. Control /\ TreeTypes /\ [Next]_vars => (Control /\ TreeTypes)'
  BY ControlStep, TreeTypesStep
<1>3. Control /\ TreeTypes => TypeOK
  BY DEF Control, TreeTypes, TypeOK
<1>. QED BY <1>1, <1>2, <1>3, PTL DEF Spec

-----------------------------------------------------------------------------
(* Where the prior evidence is while the gate has not decided to run.  The
   log directory holds it until the transaction is open (BACKUP) and again
   once the swap is complete; the backup holds it in between.  That no signal
   can break: it is about the shell's variables, whoever runs next.        *)

Uncommitted == "committed" \notin past

Placed ==
  /\ "BACKUP" \notin set => Kept
  /\ "BACKUP" \in set /\ "SWAP_COMPLETE" \notin set => backup.logs = "whole"
  /\ "SWAP_COMPLETE" \in set => Kept

SwapPoints == {"unstage", "stage", "fill", "displace", "noteDisplaced",
               "install", "reinstall"}

(* What each control point relies on beyond Placed.                        *)
Reached ==
  /\ pc \in {"start", "backup", "noteBackup"} =>
       live.logs = "whole" /\ set \cap SwapFlags = {}
  /\ pc = "noteBackup" => backup.logs = "whole"
  /\ pc \in {"noteLogDir", "open", "setup", "admit", "decide"} \cup SwapPoints =>
       "BACKUP" \in set /\ "SWAP_COMPLETE" \notin set
  /\ pc = "capture" => "BACKUP" \in set
  /\ pc \in {"displace", "noteDisplaced", "install", "reinstall"} => staging.logs = "whole"
  /\ pc = "noteSwap" => Kept
  /\ pc \in {"dropDisplaced", "drop"} => "SWAP_COMPLETE" \in set
  /\ pc = "forget" => Kept
  /\ pc = "slots" => FALSE

(* CLEANED is set, and signal metadata written, only when there is nothing to
   restore; and no handler starts inside a clean-up.                       *)
Settled ==
  /\ "CLEANED" \in set => "BACKUP" \notin set
  /\ who = "main" => "CLEANED" \notin set
  /\ pc = "handle" => "IN_PROGRESS" \notin set
  /\ pc \in {"flag", "metadata"} => "BACKUP" \notin set

Guarded == Uncommitted => Placed /\ Reached

LEMMA GiveUpSettled ==
  ASSUME Settled, NEW lost \in SUBSET SwapFlags, GiveUp(lost),
         "BACKUP" \notin lost
  PROVE  Settled'
<1>1. /\ who' = who
      /\ set' \subseteq set /\ "IN_PROGRESS" \notin set'
      /\ pc' \in {"dispatch", "cleanup", "done"}
  BY DEF GiveUp, AfterFailure
<1>. QED BY <1>1 DEF Settled

LEMMA UnwindSettled ==
  ASSUME Settled, NEW n, NEW lost \in SUBSET SwapFlags, Unwind(n, lost),
         "BACKUP" \notin lost
  PROVE  Settled'
<1>1. lost \cup {"STAGING_DIR"} \in SUBSET SwapFlags
  BY DEF SwapFlags
<1>2. GiveUp(lost) \/ GiveUp(lost \cup {"STAGING_DIR"})
  BY DEF Unwind
<1>. QED BY <1>1, <1>2, GiveUpSettled

LEMMA SettledStep ==
  ASSUME Control, Settled, [Next]_vars
  PROVE  Settled'
<1>1. CASE ArmAdmission
  BY <1>1 DEF ArmAdmission, Settled, Control, GatePoints, Go, Assign, SwapFlags
<1>2. CASE ArmOrdinary
  BY <1>2 DEF ArmOrdinary, Settled, Control, GatePoints, Go, Assign, SwapFlags
<1>3. CASE CopyBackup
  BY <1>3, GiveUpSettled DEF CopyBackup, Settled, Control, GatePoints, Go, Assign, SwapFlags
<1>4. CASE NoteBackup
  BY <1>4 DEF NoteBackup, Settled, Control, GatePoints, Go, Assign, SwapFlags
<1>5. CASE NoteLogDir
  BY <1>5 DEF NoteLogDir, Settled, Control, GatePoints, Go, Assign, SwapFlags
<1>6. CASE Open
  BY <1>6 DEF Open, Settled, Control, GatePoints, Go, Assign, SwapFlags
<1>7. CASE SetupLogs
  BY <1>7, GiveUpSettled DEF SetupLogs, Settled, Control, GatePoints, Go, Assign, SwapFlags
<1>8. CASE Admit
  BY <1>8 DEF Admit, Settled, Control, GatePoints, Go, Assign, SwapFlags
<1>9. CASE DecideRestore
  BY <1>9 DEF DecideRestore, Settled, Control, GatePoints, Go, Assign, SwapFlags
<1>10. CASE DecideError
  BY <1>10, GiveUpSettled DEF DecideError, Settled, Control, GatePoints, Go, Assign, SwapFlags
<1>11. CASE DecideRun
  BY <1>11 DEF DecideRun, Settled, Control, GatePoints, Go, Assign, SwapFlags
<1>12. CASE RunSlots
  BY <1>12 DEF RunSlots, Settled, Control, GatePoints, Go, Assign, SwapFlags
<1>13. CASE Capture
  BY <1>13, GiveUpSettled DEF Capture, Settled, Control, GatePoints, Go, Assign, SwapFlags
<1>14. CASE Unstage
  BY <1>14, GiveUpSettled DEF Unstage, Settled, Control, GatePoints, Go, Assign, SwapFlags
<1>15. CASE MakeStaging
  BY <1>15, GiveUpSettled DEF MakeStaging, Settled, Control, GatePoints, Go, Assign, SwapFlags
<1>16. CASE FillStaging
  BY <1>16, UnwindSettled DEF FillStaging, Settled, Control, GatePoints, Go, Assign, SwapFlags
<1>17. CASE Displace
  BY <1>17, UnwindSettled DEF Displace, Settled, Control, GatePoints, Go, Assign, SwapFlags
<1>18. CASE NoteDisplaced
  BY <1>18 DEF NoteDisplaced, Settled, Control, GatePoints, Go, Assign, SwapFlags
<1>19. CASE Install
  BY <1>19, UnwindSettled DEF Install, Settled, Control, GatePoints, Go, Assign, SwapFlags
<1>20. CASE NoteSwap
  BY <1>20 DEF NoteSwap, Settled, Control, GatePoints, Go, Assign, SwapFlags
<1>21. CASE DropDisplaced
  BY <1>21, GiveUpSettled DEF DropDisplaced, Settled, Control, GatePoints, Go, Assign, SwapFlags
<1>22. CASE DropBackup
  BY <1>22, GiveUpSettled DEF DropBackup, Settled, Control, GatePoints, Go, Assign, SwapFlags
<1>23. CASE ForgetBackup
  BY <1>23 DEF ForgetBackup, Settled, Control, GatePoints, Go, Assign, SwapFlags
<1>24. CASE SetRestored
  BY <1>24 DEF SetRestored, Settled, Control, GatePoints, Go, Assign, SwapFlags
<1>25. CASE Signal
  BY <1>25 DEF Signal, Settled, Control, GatePoints, Go, Assign, SwapFlags
<1>26. CASE Handle
  BY <1>26 DEF Handle, Settled, Control, GatePoints, Go, Assign, SwapFlags, Cleanup
<1>27. CASE SignRun
  BY <1>27 DEF SignRun, Settled, Control, GatePoints, Go, Assign, SwapFlags
<1>28. CASE DispatchExit
  BY <1>28 DEF DispatchExit, Settled, Control, GatePoints, Go, Assign, SwapFlags
<1>29. CASE CleanupAtExit
  BY <1>29 DEF CleanupAtExit, Settled, Control, GatePoints, Go, Assign, SwapFlags, Cleanup
<1>30. CASE Ended
  BY <1>30 DEF Ended, Settled, Control, GatePoints, Go, Assign, SwapFlags, vars
<1>31. CASE UNCHANGED vars
  BY <1>31 DEF vars, treeVars, Settled, Control, GatePoints, Go, Assign, SwapFlags
<1>. QED
  BY <1>1, <1>2, <1>3, <1>4, <1>5, <1>6, <1>7, <1>8, <1>9, <1>10, <1>11, <1>12, <1>13, <1>14, <1>15, <1>16, <1>17, <1>18, <1>19, <1>20, <1>21, <1>22, <1>23, <1>24, <1>25, <1>26, <1>27, <1>28, <1>29, <1>30, <1>31
     DEF Next, GateStep, RestoreStep, ExitStep

LEMMA GiveUpGuarded ==
  ASSUME Guarded, NEW lost \in SUBSET {"STAGING_DIR", "DISPLACED_DIR"},
         GiveUp(lost), (Uncommitted' <=> Uncommitted),
         "SWAP_COMPLETE" \in set \/ "BACKUP" \notin set => live' = live,
         backup' = backup \/ "SWAP_COMPLETE" \in set
  PROVE  Guarded'
<1>1. /\ "BACKUP" \in set' <=> "BACKUP" \in set
      /\ "SWAP_COMPLETE" \in set' <=> "SWAP_COMPLETE" \in set
  BY DEF GiveUp
<1>2. pc' \in {"dispatch", "cleanup", "done"}
  BY DEF GiveUp, AfterFailure
<1>. QED BY <1>1, <1>2 DEF Guarded, Placed, Reached, Uncommitted, Kept, SwapPoints

LEMMA UnwindGuarded ==
  ASSUME Guarded, NEW n, NEW lost \in SUBSET {"STAGING_DIR", "DISPLACED_DIR"},
         Unwind(n, lost), past' = past,
         "SWAP_COMPLETE" \in set \/ "BACKUP" \notin set => live' = live,
         backup' = backup
  PROVE  Guarded'
<1>1. lost \cup {"STAGING_DIR"} \in SUBSET {"STAGING_DIR", "DISPLACED_DIR"}
  OBVIOUS
<1>2. GiveUp(lost) \/ GiveUp(lost \cup {"STAGING_DIR"})
  BY DEF Unwind
<1>3. Uncommitted' <=> Uncommitted
  BY DEF Uncommitted
<1>. QED BY <1>1, <1>2, <1>3, GiveUpGuarded

LEMMA GuardedStep ==
  ASSUME Control, TreeTypes, Settled, Guarded, [Next]_vars
  PROVE  Guarded'
<1>1. CASE ArmAdmission
  BY <1>1 DEF ArmAdmission, Guarded, Placed, Reached, Uncommitted, Kept, SwapPoints, Go, Assign, SwapFlags, treeVars
<1>2. CASE ArmOrdinary
  BY <1>2 DEF ArmOrdinary, Guarded, Placed, Reached, Uncommitted, Kept, SwapPoints, Go, Assign, SwapFlags, treeVars
<1>3. CASE CopyBackup
  BY <1>3, GiveUpGuarded DEF CopyBackup, Guarded, Placed, Reached, Uncommitted, Kept, SwapPoints, Go, Assign, SwapFlags, treeVars, TreeTypes, Trees, NoTree
<1>4. CASE NoteBackup
  BY <1>4 DEF NoteBackup, Guarded, Placed, Reached, Uncommitted, Kept, SwapPoints, Go, Assign, SwapFlags, treeVars
<1>5. CASE NoteLogDir
  BY <1>5 DEF NoteLogDir, Guarded, Placed, Reached, Uncommitted, Kept, SwapPoints, Go, Assign, SwapFlags, treeVars
<1>6. CASE Open
  BY <1>6 DEF Open, Guarded, Placed, Reached, Uncommitted, Kept, SwapPoints, Go, Assign, SwapFlags, treeVars
<1>7. CASE SetupLogs
  BY <1>7, GiveUpGuarded DEF SetupLogs, Guarded, Placed, Reached, Uncommitted, Kept, SwapPoints, Go, Assign, SwapFlags, treeVars
<1>8. CASE Admit
  BY <1>8 DEF Admit, Guarded, Placed, Reached, Uncommitted, Kept, SwapPoints, Go, Assign, SwapFlags, treeVars, TreeTypes, Trees, NoTree
<1>9. CASE DecideRestore
  BY <1>9 DEF DecideRestore, Guarded, Placed, Reached, Uncommitted, Kept, SwapPoints, Go, Assign, SwapFlags, treeVars
<1>10. CASE DecideError
  BY <1>10, GiveUpGuarded DEF DecideError, Guarded, Placed, Reached, Uncommitted, Kept, SwapPoints, Go, Assign, SwapFlags, treeVars
<1>11. CASE DecideRun
  BY <1>11 DEF DecideRun, Guarded, Placed, Reached, Uncommitted, Kept, SwapPoints, Go, Assign, SwapFlags, treeVars
<1>12. CASE RunSlots
  BY <1>12 DEF RunSlots, Guarded, Placed, Reached, Uncommitted, Kept, SwapPoints, Go, Assign, SwapFlags, treeVars
<1>13. CASE Capture
  BY <1>13, GiveUpGuarded DEF Capture, Guarded, Placed, Reached, Uncommitted, Kept, SwapPoints, Go, Assign, SwapFlags, treeVars
<1>14. CASE Unstage
  BY <1>14, GiveUpGuarded DEF Unstage, Guarded, Placed, Reached, Uncommitted, Kept, SwapPoints, Go, Assign, SwapFlags, treeVars
<1>15. CASE MakeStaging
  BY <1>15, GiveUpGuarded DEF MakeStaging, Guarded, Placed, Reached, Uncommitted, Kept, SwapPoints, Go, Assign, SwapFlags, treeVars
<1>16. CASE FillStaging
  BY <1>16, UnwindGuarded DEF FillStaging, Guarded, Placed, Reached, Uncommitted, Kept, SwapPoints, Go, Assign, SwapFlags, treeVars, TreeTypes, Trees, NoTree
<1>17. CASE Displace
  BY <1>17, UnwindGuarded DEF Displace, Guarded, Placed, Reached, Uncommitted, Kept, SwapPoints, Go, Assign, SwapFlags, treeVars, TreeTypes, Trees, NoTree
<1>18. CASE NoteDisplaced
  BY <1>18 DEF NoteDisplaced, Guarded, Placed, Reached, Uncommitted, Kept, SwapPoints, Go, Assign, SwapFlags, treeVars
<1>19. CASE Install
  BY <1>19, UnwindGuarded DEF Install, Guarded, Placed, Reached, Uncommitted, Kept, SwapPoints, Go, Assign, SwapFlags, treeVars
<1>20. CASE NoteSwap
  BY <1>20 DEF NoteSwap, Guarded, Placed, Reached, Uncommitted, Kept, SwapPoints, Go, Assign, SwapFlags, treeVars
<1>21. CASE DropDisplaced
  BY <1>21, GiveUpGuarded DEF DropDisplaced, Guarded, Placed, Reached, Uncommitted, Kept, SwapPoints, Go, Assign, SwapFlags, treeVars
<1>22. CASE DropBackup
  BY <1>22, GiveUpGuarded DEF DropBackup, Guarded, Placed, Reached, Uncommitted, Kept, SwapPoints, Go, Assign, SwapFlags, treeVars
<1>23. CASE ForgetBackup
  BY <1>23 DEF ForgetBackup, Guarded, Placed, Reached, Uncommitted, Kept, SwapPoints, Go, Assign, SwapFlags, treeVars
<1>24. CASE SetRestored
  BY <1>24 DEF SetRestored, Guarded, Placed, Reached, Uncommitted, Kept, SwapPoints, Go, Assign, SwapFlags, treeVars
<1>25. CASE Signal
  BY <1>25 DEF Signal, Guarded, Placed, Reached, Uncommitted, Kept, SwapPoints, Go, Assign, SwapFlags, treeVars
<1>26. CASE Handle
  BY <1>26 DEF Handle, Guarded, Placed, Reached, Uncommitted, Kept, SwapPoints, Go, Assign, SwapFlags, treeVars, Cleanup
<1>27. CASE SignRun
  BY <1>27 DEF SignRun, Guarded, Placed, Reached, Uncommitted, Kept, SwapPoints, Go, Assign, SwapFlags, treeVars, TreeTypes, Trees, NoTree
<1>28. CASE DispatchExit
  BY <1>28 DEF DispatchExit, Guarded, Placed, Reached, Uncommitted, Kept, SwapPoints, Go, Assign, SwapFlags, treeVars
<1>29. CASE CleanupAtExit
  BY <1>29 DEF CleanupAtExit, Guarded, Placed, Reached, Uncommitted, Kept, SwapPoints, Go, Assign, SwapFlags, treeVars, Cleanup
<1>30. CASE Ended
  BY <1>30 DEF Ended, Guarded, Placed, Reached, Uncommitted, Kept, SwapPoints, Go, Assign, SwapFlags, treeVars, vars
<1>31. CASE UNCHANGED vars
  BY <1>31 DEF vars, treeVars, Guarded, Placed, Reached, Uncommitted, Kept, SwapPoints, Go, Assign, SwapFlags, treeVars
<1>. QED
  BY <1>1, <1>2, <1>3, <1>4, <1>5, <1>6, <1>7, <1>8, <1>9, <1>10, <1>11, <1>12, <1>13, <1>14, <1>15, <1>16, <1>17, <1>18, <1>19, <1>20, <1>21, <1>22, <1>23, <1>24, <1>25, <1>26, <1>27, <1>28, <1>29, <1>30, <1>31
     DEF Next, GateStep, RestoreStep, ExitStep

(* The conjunction is inductive; the three properties follow.              *)
LEMMA SafelyKept == Spec => [](Control /\ Settled /\ Guarded)
<1>1. Init => Control /\ TreeTypes /\ Settled /\ Guarded
  BY EvidenceAssumption
     DEF Init, Control, TreeTypes, Settled, Guarded, Placed, Reached, Kept,
         Uncommitted, SwapPoints, SwapFlags, Trees, Logs, Registrations, NoTree,
         Prior, Points, GatePoints, Flags
<1>2. Control /\ TreeTypes /\ Settled /\ Guarded /\ [Next]_vars
        => (Control /\ TreeTypes /\ Settled /\ Guarded)'
  BY ControlStep, TreeTypesStep, SettledStep, GuardedStep
<1>. QED BY <1>1, <1>2, PTL DEF Spec

(* Whatever fails and whatever signal arrives, prior evidence exists whole
   until the gate has decided to run its slots (Recoverable).              *)
THEOREM EvidenceSurvives == Spec => []Recoverable
<1>1. Control /\ Settled /\ Guarded => Recoverable
  BY DEF Control, Guarded, Placed, Uncommitted, Recoverable
<1>. QED BY <1>1, SafelyKept, PTL

(* A handler that is about to write signal metadata has this run's own tree
   under it, or restored evidence (SignedOnlySettled).                     *)
THEOREM SignalsWriteSettledTrees == Spec => []SignedOnlySettled
<1>1. Control /\ Settled /\ Guarded => SignedOnlySettled
  BY DEF Control, Settled, Guarded, Placed, Uncommitted, SignedOnlySettled
<1>. QED BY <1>1, SafelyKept, PTL

-----------------------------------------------------------------------------
(* The clean-up as the outcome at exit sees it.  A clean-up a trap runs is
   marked in progress from its start to its end, so nothing interrupts it.   *)

RestorePoints == SwapPoints \cup {"capture", "noteSwap", "dropDisplaced", "drop",
                                  "forget", "flag"}

Busy ==
  /\ "IN_PROGRESS" \in set => who # "main" /\ pc \in RestorePoints
  /\ who # "main" /\ pc \in RestorePoints => "IN_PROGRESS" \in set
  /\ pc = "handle" => who = "handler"

LEMMA GiveUpBusyFlag ==
  ASSUME NEW lost \in SUBSET SwapFlags, GiveUp(lost)
  PROVE  Busy'
BY DEF GiveUp, AfterFailure, Busy, RestorePoints, SwapPoints

LEMMA UnwindBusy ==
  ASSUME NEW n, NEW lost \in SUBSET SwapFlags, Unwind(n, lost)
  PROVE  Busy'
<1>1. lost \cup {"STAGING_DIR"} \in SUBSET SwapFlags
  BY DEF SwapFlags
<1>2. GiveUp(lost) \/ GiveUp(lost \cup {"STAGING_DIR"})
  BY DEF Unwind
<1>. QED BY <1>1, <1>2, GiveUpBusyFlag

LEMMA BusyStep ==
  ASSUME Control, Settled, Busy, [Next]_vars
  PROVE  Busy'
<1>1. CASE ArmAdmission
  BY <1>1
     DEF ArmAdmission, Busy, Control, Settled, GatePoints, SwapPoints, RestorePoints, Go, Assign, SwapFlags, treeVars
<1>2. CASE ArmOrdinary
  BY <1>2
     DEF ArmOrdinary, Busy, Control, Settled, GatePoints, SwapPoints, RestorePoints, Go, Assign, SwapFlags, treeVars
<1>3. CASE CopyBackup
  BY <1>3, GiveUpBusyFlag
     DEF CopyBackup, Busy, Control, Settled, GatePoints, SwapPoints, RestorePoints, Go, Assign, SwapFlags, treeVars
<1>4. CASE NoteBackup
  BY <1>4
     DEF NoteBackup, Busy, Control, Settled, GatePoints, SwapPoints, RestorePoints, Go, Assign, SwapFlags, treeVars
<1>5. CASE NoteLogDir
  BY <1>5
     DEF NoteLogDir, Busy, Control, Settled, GatePoints, SwapPoints, RestorePoints, Go, Assign, SwapFlags, treeVars
<1>6. CASE Open
  BY <1>6
     DEF Open, Busy, Control, Settled, GatePoints, SwapPoints, RestorePoints, Go, Assign, SwapFlags, treeVars
<1>7. CASE SetupLogs
  BY <1>7, GiveUpBusyFlag
     DEF SetupLogs, Busy, Control, Settled, GatePoints, SwapPoints, RestorePoints, Go, Assign, SwapFlags, treeVars
<1>8. CASE Admit
  BY <1>8
     DEF Admit, Busy, Control, Settled, GatePoints, SwapPoints, RestorePoints, Go, Assign, SwapFlags, treeVars
<1>9. CASE DecideRestore
  BY <1>9
     DEF DecideRestore, Busy, Control, Settled, GatePoints, SwapPoints, RestorePoints, Go, Assign, SwapFlags, treeVars
<1>10. CASE DecideError
  BY <1>10, GiveUpBusyFlag
     DEF DecideError, Busy, Control, Settled, GatePoints, SwapPoints, RestorePoints, Go, Assign, SwapFlags, treeVars
<1>11. CASE DecideRun
  BY <1>11
     DEF DecideRun, Busy, Control, Settled, GatePoints, SwapPoints, RestorePoints, Go, Assign, SwapFlags, treeVars
<1>12. CASE RunSlots
  BY <1>12
     DEF RunSlots, Busy, Control, Settled, GatePoints, SwapPoints, RestorePoints, Go, Assign, SwapFlags, treeVars
<1>13. CASE Capture
  BY <1>13, GiveUpBusyFlag
     DEF Capture, Busy, Control, Settled, GatePoints, SwapPoints, RestorePoints, Go, Assign, SwapFlags, treeVars
<1>14. CASE Unstage
  BY <1>14, GiveUpBusyFlag
     DEF Unstage, Busy, Control, Settled, GatePoints, SwapPoints, RestorePoints, Go, Assign, SwapFlags, treeVars
<1>15. CASE MakeStaging
  BY <1>15, GiveUpBusyFlag
     DEF MakeStaging, Busy, Control, Settled, GatePoints, SwapPoints, RestorePoints, Go, Assign, SwapFlags, treeVars
<1>16. CASE FillStaging
  BY <1>16, UnwindBusy
     DEF FillStaging, Busy, Control, Settled, GatePoints, SwapPoints, RestorePoints, Go, Assign, SwapFlags, treeVars
<1>17. CASE Displace
  BY <1>17, UnwindBusy
     DEF Displace, Busy, Control, Settled, GatePoints, SwapPoints, RestorePoints, Go, Assign, SwapFlags, treeVars
<1>18. CASE NoteDisplaced
  BY <1>18
     DEF NoteDisplaced, Busy, Control, Settled, GatePoints, SwapPoints, RestorePoints, Go, Assign, SwapFlags, treeVars
<1>19. CASE Install
  BY <1>19, UnwindBusy
     DEF Install, Busy, Control, Settled, GatePoints, SwapPoints, RestorePoints, Go, Assign, SwapFlags, treeVars
<1>20. CASE NoteSwap
  BY <1>20
     DEF NoteSwap, Busy, Control, Settled, GatePoints, SwapPoints, RestorePoints, Go, Assign, SwapFlags, treeVars
<1>21. CASE DropDisplaced
  BY <1>21, GiveUpBusyFlag
     DEF DropDisplaced, Busy, Control, Settled, GatePoints, SwapPoints, RestorePoints, Go, Assign, SwapFlags, treeVars
<1>22. CASE DropBackup
  BY <1>22, GiveUpBusyFlag
     DEF DropBackup, Busy, Control, Settled, GatePoints, SwapPoints, RestorePoints, Go, Assign, SwapFlags, treeVars
<1>23. CASE ForgetBackup
  BY <1>23
     DEF ForgetBackup, Busy, Control, Settled, GatePoints, SwapPoints, RestorePoints, Go, Assign, SwapFlags, treeVars
<1>24. CASE SetRestored
  BY <1>24
     DEF SetRestored, Busy, Control, Settled, GatePoints, SwapPoints, RestorePoints, Go, Assign, SwapFlags, treeVars
<1>25. CASE Signal
  BY <1>25
     DEF Signal, Busy, Control, Settled, GatePoints, SwapPoints, RestorePoints, Go, Assign, SwapFlags, treeVars
<1>26. CASE Handle
  BY <1>26
     DEF Handle, Busy, Control, Settled, GatePoints, SwapPoints, RestorePoints, Go, Assign, SwapFlags, treeVars, Cleanup
<1>27. CASE SignRun
  BY <1>27
     DEF SignRun, Busy, Control, Settled, GatePoints, SwapPoints, RestorePoints, Go, Assign, SwapFlags, treeVars
<1>28. CASE DispatchExit
  BY <1>28
     DEF DispatchExit, Busy, Control, Settled, GatePoints, SwapPoints, RestorePoints, Go, Assign, SwapFlags, treeVars
<1>29. CASE CleanupAtExit
  BY <1>29
     DEF CleanupAtExit, Busy, Control, Settled, GatePoints, SwapPoints, RestorePoints, Go, Assign, SwapFlags, treeVars, Cleanup
<1>30. CASE Ended
  BY <1>30
     DEF Ended, Busy, Control, Settled, GatePoints, SwapPoints, RestorePoints, Go, Assign, SwapFlags, treeVars, vars
<1>31. CASE UNCHANGED vars
  BY <1>31 DEF vars, Busy, Control, Settled, GatePoints, SwapPoints, RestorePoints, Go, Assign, SwapFlags, treeVars
<1>. QED
  BY <1>1, <1>2, <1>3, <1>4, <1>5, <1>6, <1>7, <1>8, <1>9, <1>10, <1>11, <1>12, <1>13, <1>14, <1>15, <1>16, <1>17, <1>18, <1>19, <1>20, <1>21, <1>22, <1>23, <1>24, <1>25, <1>26, <1>27, <1>28, <1>29, <1>30, <1>31
     DEF Next, GateStep, RestoreStep, ExitStep

(* The transaction once registration has been admitted, run or restored.  As
   long as the backup is set it can be restored, except in the window in which
   the gate, on its way to the slots, has removed the backup and not yet reset
   the variables: there a restore finds nothing to keep registration.log in
   and gives up.  So RESTORED is only ever set over the prior evidence.       *)

OpeningPoints == {"start", "backup", "noteBackup", "noteLogDir", "open",
                  "setup", "admit"}

Discarding == who = "main" /\ "committed" \in past

Swapped ==
  /\ "SWAP_COMPLETE" \in set => Kept /\ "BACKUP" \in set
  /\ "BACKUP" \in set /\ "SWAP_COMPLETE" \notin set =>
       \/ backup.logs = "whole"
       \/ backup = NoTree /\ "CAPTURED" \notin set /\ live.reg # "none"
  /\ pc \in {"capture", "decide", "noteSwap"} \cup SwapPoints => "BACKUP" \in set
  /\ pc \in {"decide"} \cup SwapPoints =>
       "SWAP_COMPLETE" \notin set /\ backup.logs = "whole"
  /\ pc = "decide" => "CAPTURED" \notin set /\ live.reg # "none"
  /\ pc \in {"displace", "noteDisplaced", "install", "reinstall"} => staging.logs = "whole"
  /\ pc = "noteSwap" => Kept
  /\ pc = "dropDisplaced" => "SWAP_COMPLETE" \in set
  /\ pc \in {"drop", "forget"} =>
       \/ "SWAP_COMPLETE" \in set
       \/ Discarding /\ "BACKUP" \in set /\ "CAPTURED" \notin set
          /\ live.reg # "none"
  /\ pc = "flag" => Kept \/ Discarding
  /\ "RESTORED" \in set => "BACKUP" \notin set /\ Kept /\ pc # "slots"

Honest ==
  /\ "admitted" \in past => pc \notin OpeningPoints
  /\ pc \in OpeningPoints => "CAPTURED" \notin set
  /\ pc \in {"setup", "admit"} /\ Uncommitted => "RESTORED" \notin set
  /\ pc \in {"start", "admit", "decide"} => Uncommitted
  /\ "admitted" \in past /\ "torn" \notin past => Swapped

LEMMA GiveUpHonest ==
  ASSUME Honest, NEW lost \in SUBSET {"STAGING_DIR", "DISPLACED_DIR"},
         GiveUp(lost), past' = past \/ "torn" \in past',
         "admitted" \in past' => "admitted" \in past,
         \/ "admitted" \notin past \/ "torn" \in past'
         \/ live' = live /\ backup' = backup
         \/ backup' = backup /\ "BACKUP" \in set /\ "SWAP_COMPLETE" \notin set
            /\ backup.logs = "whole"
         \/ live' = live /\ "SWAP_COMPLETE" \in set
  PROVE  Honest'
<1>1. \A f \in {"BACKUP", "SWAP_COMPLETE", "CAPTURED", "RESTORED"} :
        f \in set' <=> f \in set
  BY DEF GiveUp
<1>2. pc' \in {"dispatch", "cleanup", "done"}
  BY DEF GiveUp, AfterFailure
<1>3. CASE "admitted" \in past' /\ "torn" \notin past'
  <2>1. Swapped /\ past' = past
    BY <1>3 DEF Honest
  <2>2. Swapped'
    BY <1>1, <1>2, <1>3, <2>1 DEF Swapped, Discarding, Kept, SwapPoints
  <2>. QED BY <1>2, <2>2 DEF Honest, OpeningPoints
<1>4. CASE ~("admitted" \in past' /\ "torn" \notin past')
  BY <1>2, <1>4 DEF Honest, OpeningPoints
<1>. QED BY <1>3, <1>4

LEMMA UnwindHonest ==
  ASSUME Honest, NEW n, NEW lost \in SUBSET {"STAGING_DIR", "DISPLACED_DIR"},
         Unwind(n, lost), past' = past, backup' = backup,
         \/ "admitted" \notin past \/ "torn" \in past
         \/ "BACKUP" \in set /\ "SWAP_COMPLETE" \notin set
            /\ backup.logs = "whole"
  PROVE  Honest'
<1>1. lost \cup {"STAGING_DIR"} \in SUBSET {"STAGING_DIR", "DISPLACED_DIR"}
  OBVIOUS
<1>2. GiveUp(lost) \/ GiveUp(lost \cup {"STAGING_DIR"})
  BY DEF Unwind
<1>. QED BY <1>1, <1>2, GiveUpHonest

LEMMA HonestStep ==
  ASSUME Control, TreeTypes, Settled, Guarded, Busy, Honest, [Next]_vars
  PROVE  Honest'
<1>1. CASE ArmAdmission
  BY <1>1
     DEF ArmAdmission, Honest, Swapped, Discarding, Uncommitted, Kept, SwapPoints, OpeningPoints, Go, Assign, SwapFlags, treeVars
<1>2. CASE ArmOrdinary
  BY <1>2
     DEF ArmOrdinary, Honest, Swapped, Discarding, Uncommitted, Kept, SwapPoints, OpeningPoints, Go, Assign, SwapFlags, treeVars
<1>3. CASE CopyBackup
  BY <1>3, GiveUpHonest
     DEF CopyBackup, Honest, Swapped, Discarding, Uncommitted, Kept, SwapPoints, OpeningPoints, Go, Assign, SwapFlags, treeVars
<1>4. CASE NoteBackup
  BY <1>4
     DEF NoteBackup, Honest, Swapped, Discarding, Uncommitted, Kept, SwapPoints, OpeningPoints, Go, Assign, SwapFlags, treeVars
<1>5. CASE NoteLogDir
  BY <1>5
     DEF NoteLogDir, Honest, Swapped, Discarding, Uncommitted, Kept, SwapPoints, OpeningPoints, Go, Assign, SwapFlags, treeVars
<1>6. CASE Open
  BY <1>6
     DEF Open, Honest, Swapped, Discarding, Uncommitted, Kept, SwapPoints, OpeningPoints, Go, Assign, SwapFlags, treeVars
<1>7. CASE SetupLogs
  BY <1>7, GiveUpHonest
     DEF SetupLogs, Honest, Swapped, Discarding, Uncommitted, Kept, SwapPoints, OpeningPoints, Go, Assign, SwapFlags, treeVars
<1>8. CASE Admit
  BY <1>8
     DEF Admit, Honest, Swapped, Discarding, Uncommitted, Kept, SwapPoints, OpeningPoints, Go, Assign, SwapFlags, treeVars, Guarded, Placed, Reached
<1>9. CASE DecideRestore
  BY <1>9
     DEF DecideRestore, Honest, Swapped, Discarding, Uncommitted, Kept, SwapPoints, OpeningPoints, Go, Assign, SwapFlags, treeVars
<1>10. CASE DecideError
  BY <1>10, GiveUpHonest
     DEF DecideError, Honest, Swapped, Discarding, Uncommitted, Kept, SwapPoints, OpeningPoints, Go, Assign, SwapFlags, treeVars
<1>11. CASE DecideRun
  BY <1>11
     DEF DecideRun, Honest, Swapped, Discarding, Uncommitted, Kept, SwapPoints, OpeningPoints, Go, Assign, SwapFlags, treeVars, Control, GatePoints
<1>12. CASE RunSlots
  BY <1>12
     DEF RunSlots, Honest, Swapped, Discarding, Uncommitted, Kept, SwapPoints, OpeningPoints, Go, Assign, SwapFlags, treeVars
<1>13. CASE Capture
  BY <1>13, GiveUpHonest
     DEF Capture, Honest, Swapped, Discarding, Uncommitted, Kept, SwapPoints, OpeningPoints, Go, Assign, SwapFlags, treeVars
<1>14. CASE Unstage
  BY <1>14, GiveUpHonest
     DEF Unstage, Honest, Swapped, Discarding, Uncommitted, Kept, SwapPoints, OpeningPoints, Go, Assign, SwapFlags, treeVars
<1>15. CASE MakeStaging
  BY <1>15, GiveUpHonest
     DEF MakeStaging, Honest, Swapped, Discarding, Uncommitted, Kept, SwapPoints, OpeningPoints, Go, Assign, SwapFlags, treeVars
<1>16. CASE FillStaging
  <2>1. CASE Unwind(1, {})
    BY <1>16, <2>1, UnwindHonest DEF FillStaging, Honest, Swapped, SwapPoints
  <2>2. CASE ~Unwind(1, {})
    BY <1>16, <2>2 DEF FillStaging, Go, Honest, Swapped, Discarding, Kept, SwapPoints,
                      OpeningPoints, Uncommitted, TreeTypes, Trees, NoTree
  <2>. QED BY <1>16, <2>1, <2>2 DEF FillStaging, Go
<1>17. CASE Displace
  BY <1>17, UnwindHonest
     DEF Displace, Honest, Swapped, Discarding, Uncommitted, Kept, SwapPoints, OpeningPoints, Go, Assign, SwapFlags, treeVars
<1>18. CASE NoteDisplaced
  BY <1>18
     DEF NoteDisplaced, Honest, Swapped, Discarding, Uncommitted, Kept, SwapPoints, OpeningPoints, Go, Assign, SwapFlags, treeVars
<1>19. CASE Install
  BY <1>19, UnwindHonest
     DEF Install, Honest, Swapped, Discarding, Uncommitted, Kept, SwapPoints, OpeningPoints, Go, Assign, SwapFlags, treeVars
<1>20. CASE NoteSwap
  BY <1>20
     DEF NoteSwap, Honest, Swapped, Discarding, Uncommitted, Kept, SwapPoints, OpeningPoints, Go, Assign, SwapFlags, treeVars
<1>21. CASE DropDisplaced
  BY <1>21, GiveUpHonest
     DEF DropDisplaced, Honest, Swapped, Discarding, Uncommitted, Kept, SwapPoints, OpeningPoints, Go, Assign, SwapFlags, treeVars
<1>22. CASE DropBackup
  <2>1. CASE GiveUp({})
    <3>1. \/ live' = live /\ backup' = backup /\ past' = past
          \/ "torn" \in past' /\ live' = live
      BY <1>22, <2>1 DEF DropBackup, Go, GiveUp, AfterFailure
    <3>2. /\ past' = past \/ "torn" \in past'
          /\ "admitted" \in past' => "admitted" \in past
      BY <1>22, <2>1 DEF DropBackup, Go
    <3>. QED BY <2>1, <3>1, <3>2, GiveUpHonest
  <2>2. CASE ~GiveUp({})
    BY <1>22, <2>2 DEF DropBackup, Go, Honest, Swapped, Discarding, Kept, SwapPoints,
                      OpeningPoints, Uncommitted
  <2>. QED BY <1>22, <2>1, <2>2 DEF DropBackup, Go
<1>23. CASE ForgetBackup
  BY <1>23
     DEF ForgetBackup, Honest, Swapped, Discarding, Uncommitted, Kept, SwapPoints, OpeningPoints, Go, Assign, SwapFlags, treeVars
<1>24. CASE SetRestored
  BY <1>24
     DEF SetRestored, Honest, Swapped, Discarding, Uncommitted, Kept, SwapPoints, OpeningPoints, Go, Assign, SwapFlags, treeVars, Settled
<1>25. CASE Signal
  BY <1>25
     DEF Signal, Honest, Swapped, Discarding, Uncommitted, Kept, SwapPoints, OpeningPoints, Go, Assign, SwapFlags, treeVars
<1>26. CASE Handle
  BY <1>26
     DEF Handle, Honest, Swapped, Discarding, Uncommitted, Kept, SwapPoints, OpeningPoints, Go, Assign, SwapFlags, treeVars, Cleanup
<1>27. CASE SignRun
  BY <1>27
     DEF SignRun, Honest, Swapped, Discarding, Uncommitted, Kept, SwapPoints, OpeningPoints, Go, Assign, SwapFlags, treeVars
<1>28. CASE DispatchExit
  BY <1>28
     DEF DispatchExit, Honest, Swapped, Discarding, Uncommitted, Kept, SwapPoints, OpeningPoints, Go, Assign, SwapFlags, treeVars
<1>29. CASE CleanupAtExit
  BY <1>29
     DEF CleanupAtExit, Honest, Swapped, Discarding, Uncommitted, Kept, SwapPoints, OpeningPoints, Go, Assign, SwapFlags, treeVars, Cleanup
<1>30. CASE Ended
  BY <1>30
     DEF Ended, Honest, Swapped, Discarding, Uncommitted, Kept, SwapPoints, OpeningPoints, Go, Assign, SwapFlags, treeVars, vars
<1>31. CASE UNCHANGED vars
  BY <1>31 DEF vars, Honest, Swapped, Discarding, Uncommitted, Kept, SwapPoints, OpeningPoints, Go, Assign, SwapFlags, treeVars
<1>. QED
  BY <1>1, <1>2, <1>3, <1>4, <1>5, <1>6, <1>7, <1>8, <1>9, <1>10, <1>11, <1>12, <1>13, <1>14, <1>15, <1>16, <1>17, <1>18, <1>19, <1>20, <1>21, <1>22, <1>23, <1>24, <1>25, <1>26, <1>27, <1>28, <1>29, <1>30, <1>31
     DEF Next, GateStep, RestoreStep, ExitStep


(* At exit RESTORED stands over the prior evidence (RestoredIsWhole), also
   where a signal interrupts a gate that had decided to run its slots.        *)
THEOREM RestoredMeansWhole == Spec => []RestoredIsWhole
<1>1. Init => Control /\ TreeTypes /\ Settled /\ Guarded /\ Busy /\ Honest
  BY EvidenceAssumption
     DEF Init, Control, TreeTypes, Settled, Guarded, Placed, Reached, Kept,
         Uncommitted, SwapPoints, SwapFlags, Trees, Logs, Registrations, NoTree,
         Prior, Points, GatePoints, Flags, Busy, Honest, OpeningPoints
<1>2. Control /\ TreeTypes /\ Settled /\ Guarded /\ Busy /\ Honest
        /\ [Next]_vars
        => (Control /\ TreeTypes /\ Settled /\ Guarded /\ Busy /\ Honest)'
  BY ControlStep, TreeTypesStep, SettledStep, GuardedStep, BusyStep, HonestStep
<1>3. Honest => RestoredIsWhole
  BY DEF Honest, Swapped, RestoredIsWhole
<1>. QED BY <1>1, <1>2, <1>3, PTL DEF Spec

-----------------------------------------------------------------------------
(* What a run that has not decided on its slots leaves behind.  registration.
   log of its admission is in the log directory, then also next to the backup,
   then only there and in the staging tree, then in the log directory again.  *)

Registered ==
  /\ "CAPTURED" \notin set \/ "SWAP_COMPLETE" \in set => live.reg = "new"
  /\ "CAPTURED" \in set /\ "SWAP_COMPLETE" \notin set => saved = "new"
  /\ "BACKUP" \notin set => "CAPTURED" \notin set
  /\ pc \in {"displace", "noteDisplaced", "install", "reinstall"} => staging.reg = "new"
  /\ pc = "noteSwap" => live.reg = "new"
  /\ pc = "forget" => live.reg = "new"

(* A transaction is open between NoteBackup and NoteLogDir with nothing
   borrowed yet: a restore does nothing then, and fails.                      *)
Opening ==
  "BACKUP" \in set /\ "LOG_DIR" \notin set =>
    /\ pc \in {"noteLogDir", "handle", "dispatch", "cleanup", "capture", "done"}
    /\ Kept /\ "admitted" \notin past

(* Otherwise a clean-up fails only because a command does.                    *)
Pending == "BACKUP" \in set /\ "LOG_DIR" \in set

Counted ==
  /\ pc = "capture" /\ "SWAP_COMPLETE" \notin set => backup # NoTree
  /\ pc \in SwapPoints \cup {"noteSwap"} => "CAPTURED" \in set
  /\ "SWAP_COMPLETE" \in set => "CAPTURED" \in set
  /\ Pending /\ tries > 0 /\ (who = "handler" \/ tries = 2 \/ pc = "cleanup") =>
       faults >= 1
  /\ pc = "done" /\ Pending /\ "SWAP_COMPLETE" \notin set =>
       faults >= 2 \/ (tries = 0 /\ faults = 1)

Recorded ==
  Uncommitted => Opening /\ Counted /\ ("admitted" \in past => Registered)

LEMMA GiveUpRecorded ==
  ASSUME Control, TreeTypes, Recorded, Uncommitted' => Uncommitted,
         "admitted" \in past' => "admitted" \in past,
         NEW lost \in SUBSET {"STAGING_DIR", "DISPLACED_DIR"}, GiveUp(lost),
         \/ faults' \in Nat /\ faults' > faults /\ pc # "noteLogDir"
         \/ Opening /\ ~Pending /\ faults' = faults
         \/ who = "main" /\ faults' = faults /\ pc # "noteLogDir",
         saved' = saved \/ "SWAP_COMPLETE" \in set,
         \/ live' = live
         \/ pc \in SwapPoints /\ "CAPTURED" \in set /\ "SWAP_COMPLETE" \notin set
         \/ "admitted" \notin past /\ Pending
  PROVE  Recorded'
<1>1. \A f \in {"BACKUP", "SWAP_COMPLETE", "CAPTURED", "LOG_DIR", "EXITING"} :
        f \in set' <=> f \in set
  BY DEF GiveUp
<1>2. \/ pc' = "dispatch" /\ "EXITING" \notin set
      \/ pc' = "cleanup" /\ who = "exit" /\ tries = 1
      \/ pc' = "done" /\ "EXITING" \in set /\ (who # "exit" \/ tries # 1)
  BY DEF GiveUp, AfterFailure
<1>3. tries' = tries /\ who' = who
  BY DEF GiveUp
<1>4. SUFFICES ASSUME Uncommitted
               PROVE  Opening' /\ Counted' /\ ("admitted" \in past' => Registered')
  BY DEF Recorded
<1>5. Opening /\ Counted /\ ("admitted" \in past => Registered)
  BY <1>4 DEF Recorded
<1>6. Opening'
  BY <1>1, <1>2, <1>5 DEF Opening, Pending, Kept, SwapPoints
<1>7. Counted'
  <2>1. /\ faults \in Nat /\ tries \in 0..2 /\ faults' \in Nat
        /\ who \in {"main", "handler", "exit"}
    BY EvidenceAssumption DEF TreeTypes, Control
  <2>2. who = "main" => "EXITING" \notin set /\ tries = 0
    BY DEF Control
  <2>3. Pending' <=> Pending
    BY <1>1 DEF Pending
  <2>4. CASE faults' > faults
    BY <1>1, <1>2, <1>3, <1>5, <2>1, <2>2, <2>3, <2>4 DEF Counted, SwapPoints
  <2>5. CASE faults' = faults
    BY <1>1, <1>2, <1>3, <1>5, <2>1, <2>2, <2>3, <2>5 DEF Counted, SwapPoints
  <2>. QED BY <2>4, <2>5
<1>8. "admitted" \in past' => Registered'
  <2>. SUFFICES ASSUME "admitted" \in past
                PROVE  Registered'
    OBVIOUS
  <2>1. Registered
    BY <1>5
  <2>. QED BY <1>1, <1>2, <1>5, <2>1 DEF Registered, Counted, SwapPoints
<1>. QED BY <1>6, <1>7, <1>8

LEMMA UnwindRecorded ==
  ASSUME Control, TreeTypes, Guarded, Recorded, past' = past, pc \in SwapPoints,
         NEW n \in {1, 2}, NEW lost \in SUBSET {"STAGING_DIR", "DISPLACED_DIR"},
         Unwind(n, lost), saved' = saved
  PROVE  Recorded'
<1>1. lost \cup {"STAGING_DIR"} \in SUBSET {"STAGING_DIR", "DISPLACED_DIR"}
  OBVIOUS
<1>2. GiveUp(lost) \/ GiveUp(lost \cup {"STAGING_DIR"})
  BY DEF Unwind
<1>3. faults \in Nat /\ faults' \in Nat /\ faults' > faults
  BY EvidenceAssumption DEF TreeTypes, Unwind, Fault
<1>4. Uncommitted' <=> Uncommitted
  BY DEF Uncommitted
<1>5. ASSUME Uncommitted
      PROVE  \/ "CAPTURED" \in set /\ "SWAP_COMPLETE" \notin set
             \/ "admitted" \notin past /\ Pending
  BY <1>5 DEF Recorded, Opening, Pending, Counted, Guarded, Reached, SwapPoints
<1>6. CASE Uncommitted
  BY <1>1, <1>2, <1>3, <1>4, <1>5, <1>6, GiveUpRecorded DEF SwapPoints
<1>7. CASE ~Uncommitted
  BY <1>4, <1>7 DEF Recorded
<1>. QED BY <1>6, <1>7

LEMMA RecordedStep ==
  ASSUME Control, TreeTypes, Settled, Guarded, Busy, Honest, Recorded, [Next]_vars
  PROVE  Recorded'
<1>1. CASE ArmAdmission
  BY <1>1
     DEF ArmAdmission, Recorded, Opening, Pending, Counted, Registered, Uncommitted, Kept, SwapPoints, Go, Assign, SwapFlags, treeVars
<1>2. CASE ArmOrdinary
  BY <1>2
     DEF ArmOrdinary, Recorded, Opening, Pending, Counted, Registered, Uncommitted, Kept, SwapPoints, Go, Assign, SwapFlags, treeVars
<1>3. CASE CopyBackup
  BY <1>3, GiveUpRecorded, EvidenceAssumption
     DEF CopyBackup, Recorded, Opening, Pending, Counted, Registered, Uncommitted, Kept, SwapPoints, Go, Assign, SwapFlags, treeVars, Honest, OpeningPoints, Fault, TreeTypes
<1>4. CASE NoteBackup
  BY <1>4
     DEF NoteBackup, Recorded, Opening, Pending, Counted, Registered, Uncommitted, Kept, SwapPoints, Go, Assign, SwapFlags, treeVars, Honest, OpeningPoints, Guarded, Reached, Control, GatePoints
<1>5. CASE NoteLogDir
  BY <1>5
     DEF NoteLogDir, Recorded, Opening, Pending, Counted, Registered, Uncommitted, Kept, SwapPoints, Go, Assign, SwapFlags, treeVars, Control, GatePoints
<1>6. CASE Open
  BY <1>6
     DEF Open, Recorded, Opening, Pending, Counted, Registered, Uncommitted, Kept, SwapPoints, Go, Assign, SwapFlags, treeVars, Control, GatePoints
<1>7. CASE SetupLogs
  BY <1>7, GiveUpRecorded, EvidenceAssumption
     DEF SetupLogs, Recorded, Opening, Pending, Counted, Registered, Uncommitted, Kept, SwapPoints, Go, Assign, SwapFlags, treeVars, Honest, OpeningPoints, Guarded, Reached, Fault, TreeTypes
<1>8. CASE Admit
  BY <1>8
     DEF Admit, Recorded, Opening, Pending, Counted, Registered, Uncommitted, Kept, SwapPoints, Go, Assign, SwapFlags, treeVars, Honest, OpeningPoints, Guarded, Reached, Control, GatePoints
<1>9. CASE DecideRestore
  BY <1>9
     DEF DecideRestore, Recorded, Opening, Pending, Counted, Registered, Uncommitted, Kept, SwapPoints, Go, Assign, SwapFlags, treeVars, Guarded, Reached, Placed, NoTree
<1>10. CASE DecideError
  BY <1>10, GiveUpRecorded, EvidenceAssumption
     DEF DecideError, Recorded, Opening, Pending, Counted, Registered, Uncommitted, Kept, SwapPoints, Go, Assign, SwapFlags, treeVars, Control, GatePoints, Fault, TreeTypes
<1>11. CASE DecideRun
  BY <1>11
     DEF DecideRun, Recorded, Opening, Pending, Counted, Registered, Uncommitted, Kept, SwapPoints, Go, Assign, SwapFlags, treeVars
<1>12. CASE RunSlots
  BY <1>12
     DEF RunSlots, Recorded, Opening, Pending, Counted, Registered, Uncommitted, Kept, SwapPoints, Go, Assign, SwapFlags, treeVars
<1>13. CASE Capture
  BY <1>13, GiveUpRecorded, EvidenceAssumption
     DEF Capture, Recorded, Opening, Pending, Counted, Registered, Uncommitted, Kept, SwapPoints, Go, Assign, SwapFlags, treeVars, Guarded, Reached, Placed, NoTree, Fault, TreeTypes, Control, GatePoints
<1>14. CASE Unstage
  BY <1>14, GiveUpRecorded, EvidenceAssumption
     DEF Unstage, Recorded, Opening, Pending, Counted, Registered, Uncommitted, Kept, SwapPoints, Go, Assign, SwapFlags, treeVars, Fault, TreeTypes, Guarded, Reached
<1>15. CASE MakeStaging
  BY <1>15, GiveUpRecorded, EvidenceAssumption
     DEF MakeStaging, Recorded, Opening, Pending, Counted, Registered, Uncommitted, Kept, SwapPoints, Go, Assign, SwapFlags, treeVars, Fault, TreeTypes, Guarded, Reached
<1>16. CASE FillStaging
  BY <1>16, UnwindRecorded
     DEF FillStaging, Recorded, Opening, Pending, Counted, Registered, Uncommitted, Kept, SwapPoints, Go, Assign, SwapFlags, treeVars, Guarded, Reached, Placed, NoTree
<1>17. CASE Displace
  BY <1>17, UnwindRecorded
     DEF Displace, Recorded, Opening, Pending, Counted, Registered, Uncommitted, Kept, SwapPoints, Go, Assign, SwapFlags, treeVars, Guarded, Reached, Placed, NoTree
<1>18. CASE NoteDisplaced
  BY <1>18
     DEF NoteDisplaced, Recorded, Opening, Pending, Counted, Registered, Uncommitted, Kept, SwapPoints, Go, Assign, SwapFlags, treeVars
<1>19. CASE Install
  BY <1>19, UnwindRecorded
     DEF Install, Recorded, Opening, Pending, Counted, Registered, Uncommitted, Kept, SwapPoints, Go, Assign, SwapFlags, treeVars, Guarded, Reached, Placed, NoTree
<1>20. CASE NoteSwap
  BY <1>20
     DEF NoteSwap, Recorded, Opening, Pending, Counted, Registered, Uncommitted, Kept, SwapPoints, Go, Assign, SwapFlags, treeVars, Guarded, Reached
<1>21. CASE DropDisplaced
  BY <1>21, GiveUpRecorded, EvidenceAssumption
     DEF DropDisplaced, Recorded, Opening, Pending, Counted, Registered, Uncommitted, Kept, SwapPoints, Go, Assign, SwapFlags, treeVars, Fault, TreeTypes, Guarded, Reached
<1>22. CASE DropBackup
  BY <1>22, GiveUpRecorded, EvidenceAssumption
     DEF DropBackup, Recorded, Opening, Pending, Counted, Registered, Uncommitted, Kept, SwapPoints, Go, Assign, SwapFlags, treeVars, Fault, TreeTypes, Guarded, Reached, Placed, NoTree
<1>23. CASE ForgetBackup
  BY <1>23
     DEF ForgetBackup, Recorded, Opening, Pending, Counted, Registered, Uncommitted, Kept, SwapPoints, Go, Assign, SwapFlags, treeVars, Guarded, Reached
<1>24. CASE SetRestored
  BY <1>24
     DEF SetRestored, Recorded, Opening, Pending, Counted, Registered, Uncommitted, Kept, SwapPoints, Go, Assign, SwapFlags, treeVars, Settled, Control, GatePoints
<1>25. CASE Signal
  BY <1>25
     DEF Signal, Recorded, Opening, Pending, Counted, Registered, Uncommitted, Kept, SwapPoints, Go, Assign, SwapFlags, treeVars, Settled, Points, Busy, RestorePoints, Control, GatePoints, Guarded, Reached, Placed, NoTree
<1>26. CASE Handle
  BY <1>26
     DEF Handle, Recorded, Opening, Pending, Counted, Registered, Uncommitted, Kept, SwapPoints, Go, Assign, SwapFlags, treeVars, Cleanup, Busy, Settled, Control, GatePoints, Guarded, Reached, Placed, NoTree
<1>27. CASE SignRun
  BY <1>27
     DEF SignRun, Recorded, Opening, Pending, Counted, Registered, Uncommitted, Kept, SwapPoints, Go, Assign, SwapFlags, treeVars, Settled, Control, GatePoints
<1>28. CASE DispatchExit
  BY <1>28
     DEF DispatchExit, Recorded, Opening, Pending, Counted, Registered, Uncommitted, Kept, SwapPoints, Go, Assign, SwapFlags, treeVars, Control, GatePoints, Settled
<1>29. CASE CleanupAtExit
  BY <1>29
     DEF CleanupAtExit, Recorded, Opening, Pending, Counted, Registered, Uncommitted, Kept, SwapPoints, Go, Assign, SwapFlags, treeVars, Cleanup, Control, GatePoints, Settled, Busy, RestorePoints, Guarded, Reached, Placed, NoTree
<1>30. CASE Ended
  BY <1>30
     DEF Ended, Recorded, Opening, Pending, Counted, Registered, Uncommitted, Kept, SwapPoints, Go, Assign, SwapFlags, treeVars, vars
<1>31. CASE UNCHANGED vars
  BY <1>31 DEF vars, Recorded, Opening, Pending, Counted, Registered, Uncommitted, Kept, SwapPoints, Go, Assign, SwapFlags, treeVars
<1>. QED
  BY <1>1, <1>2, <1>3, <1>4, <1>5, <1>6, <1>7, <1>8, <1>9, <1>10, <1>11, <1>12, <1>13, <1>14, <1>15, <1>16, <1>17, <1>18, <1>19, <1>20, <1>21, <1>22, <1>23, <1>24, <1>25, <1>26, <1>27, <1>28, <1>29, <1>30, <1>31
     DEF Next, GateStep, RestoreStep, ExitStep

(* A process that exits without having decided on its slots leaves the prior
   logs and the registration.log of its admission in the log directory, when
   nothing fails, or one command does and the EXIT trap gets to its attempts,
   at whatever points signals arrive (RestoredAtExit).                        *)
THEOREM ExitRestores == Spec => []RestoredAtExit
<1>. DEFINE Inv == Control /\ TreeTypes /\ Settled /\ Guarded /\ Busy /\ Honest
                   /\ Recorded
<1>1. Init => Inv
  BY EvidenceAssumption
     DEF Init, Control, TreeTypes, Settled, Guarded, Placed, Reached, Kept,
         Uncommitted, SwapPoints, SwapFlags, Trees, Logs, Registrations, NoTree,
         Prior, Points, GatePoints, Flags, Busy, Honest, OpeningPoints, Recorded,
         Opening, Counted, Pending
<1>2. Inv /\ [Next]_vars => Inv'
  BY ControlStep, TreeTypesStep, SettledStep, GuardedStep, BusyStep, HonestStep,
     RecordedStep
<1>3. Inv => RestoredAtExit
  <2>. SUFFICES ASSUME Inv, pc = "done", Uncommitted,
                       faults = 0 \/ (faults = 1 /\ tries > 0)
                PROVE  Kept /\ ("admitted" \in past => live.reg = "new")
    BY DEF RestoredAtExit, Uncommitted
  <2>1. Placed /\ Opening /\ Counted /\ ("admitted" \in past => Registered)
    BY DEF Guarded, Recorded
  <2>2. CASE "BACKUP" \notin set \/ "SWAP_COMPLETE" \in set
    BY <2>1, <2>2 DEF Placed, Registered
  <2>3. CASE "BACKUP" \in set /\ "SWAP_COMPLETE" \notin set
    <3>1. tries \in 0..2
      BY DEF Control
    <3>2. ~Pending
      BY <2>1, <2>3, <3>1 DEF Counted
    <3>. QED BY <2>1, <2>3, <3>2 DEF Opening, Pending
  <2>. QED BY <2>2, <2>3
<1>. QED BY <1>1, <1>2, <1>3, PTL DEF Spec

=============================================================================
