----------------------------- MODULE MCEnvFile -----------------------------
(***************************************************************************)
(* An instance of EnvFile for TLC: two VPNs, one with both variables.      *)
(***************************************************************************)
EXTENDS EnvFile

CONSTANTS v1, v2, u1, p1, u2

Variables == (v1 :> <<u1, p1>>) @@ (v2 :> <<u2>>)
=============================================================================
