------------------------------- MODULE MCPage -------------------------------
(***************************************************************************)
(* Model values for TLC.                                                   *)
(***************************************************************************)
EXTENDS Page

CONSTANTS v1, v2, up, down, f1, f2
=============================================================================
