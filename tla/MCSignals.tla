----------------------------- MODULE MCSignals -----------------------------
(***************************************************************************)
(* Symmetry for TLC.                                                       *)
(***************************************************************************)
EXTENDS Signals, TLC

CONSTANTS v1, v2, p1, p2, p3, h1, h2

Symmetry == Permutations(Vpn) \union Permutations(Pid) \union Permutations(Helper)
=============================================================================
