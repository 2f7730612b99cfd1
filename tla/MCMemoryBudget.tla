---------------------------- MODULE MCMemoryBudget ----------------------------
(* Instances of MemoryBudget for TLC.                                          *)
EXTENDS MemoryBudget, TLC

CONSTANTS gate, tool, serial, a, b, t, u

(* A parallel gate with two slots beside one that runs its two one by one;   *)
(* two slots fit together, all four do not.                                   *)
GateSerial == (a :> gate) @@ (b :> gate) @@ (t :> serial) @@ (u :> serial)
GateSerialPeak == (a :> 1) @@ (b :> 2) @@ (t :> 1) @@ (u :> 2)

(* A parallel gate with two slots beside a tool with one of its own; the two  *)
(* lighter ones fit together.                                                   *)
GateTool == (a :> gate) @@ (b :> gate) @@ (t :> tool)
GateToolPeak == (a :> 1) @@ (b :> 2) @@ (t :> 1)
===============================================================================
