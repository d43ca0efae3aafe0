--------------------------- MODULE MCDefinitions ---------------------------
(***************************************************************************)
(* Instances of Definitions for TLC: which variables belong to which id.   *)
(***************************************************************************)
EXTENDS Definitions, TLC

CONSTANTS v1, v2, s1, s2, n1, n2, n3, t1, t2

\* The ids differ in more than '-' and '_'.
Disjoint == (v1 :> {n1, n2}) @@ (v2 :> {n3})

Single == (v1 :> {n1}) @@ (v2 :> {n2})

\* lab-a and lab_a have the same two variables.
Shared == (v1 :> {n1, n2}) @@ (v2 :> {n1, n2})

\* Without workers nothing depends on the environment or on the last answer, and
\* what has been read of vpns.yaml counts until it is written back.
Decisive == <<files, mem, row, call, IF At("write") THEN copy ELSE None>>
=============================================================================
