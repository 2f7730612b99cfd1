---------------------------- MODULE MCRatchetLedger ----------------------------
(* Instances of RatchetLedger for TLC.                                          *)
EXTENDS RatchetLedger, TLC

CONSTANTS p, q, t

(* Globs that match the file and globs that do not.                             *)
WideOrNarrow == {{p}, {}}

(* Findings that are only counted are at places of their own.                   *)
Apart == <<1, 2>>
=================================================================================
