------------------------------- MODULE MCApi -------------------------------
(***************************************************************************)
(* An instance of Api for TLC.                                             *)
(***************************************************************************)
EXTENDS Api

CONSTANTS v1, v2, r1, r2

\* Every call against every other.
Everything == [r \in Request |-> AllCalls]

\* VPNs are alike, and so are threads that make the same calls.
Symmetry == Permutations(Vpn) \union Permutations(Request)
=============================================================================
