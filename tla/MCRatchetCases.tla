---------------------------- MODULE MCRatchetCases ----------------------------
(* Instances of RatchetCases for TLC.                                           *)
EXTENDS RatchetCases, TLC

CONSTANTS p, q, t

(* Globs that match both files and globs that match one.                        *)
BothOrOne == {{p, q}, {p}}

(* Of the three functions of a file, the first two share a line and a label.     *)
TwoShare == <<1, 1, 2>>

(* No ratchet, or one of any metric: anything may be recorded of the first     *)
(* file, nothing or one finding of the second; the globs differ for one metric. *)
Docs ==
  LET one == [NoItem EXCEPT !.count = 1]
      first(m) == IF m = "message-count" THEN one
                  ELSE IF m = "effective-line-count" THEN [one EXCEPT !.level = 1]
                  ELSE [one EXCEPT !.level = 1, !.fns = [s \in Sites |-> IF s = 1 THEN 1 ELSE 0]]
      group(m, sc, i, j) == [metric |-> m, scope |-> sc, items |-> p :> i @@ q :> j]
      scopes(m) == IF m = "message-count" THEN {{p, q}, {p}} ELSE {{p, q}}
  IN  {t :> Gone} \cup
      UNION {{t :> group(m, sc, i, j) : i \in ItemsOf(m), j \in {NoItem, first(m)}, sc \in scopes(m)} :
               m \in Metrics}
================================================================================
