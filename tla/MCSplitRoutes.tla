--------------------------- MODULE MCSplitRoutes ---------------------------
(***************************************************************************)
(* Instances of SplitRoutes for TLC.                                       *)
(***************************************************************************)
EXTENDS SplitRoutes, Naturals

CONSTANTS zero, a1, a2

\* Networks other than those that start at 0.0.0.0.
Harmless == {r \in Include : r.addr # zero}

\* 0.0.0.0/1 and the like are accepted too.
Anything == Include
=============================================================================
