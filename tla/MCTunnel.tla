------------------------------ MODULE MCTunnel ------------------------------
(* Small instances of module Tunnel for TLC. *)
EXTENDS TunnelProperties, TLC

NoFaults == {}
Budgets  == {"stall"}
StopFaults == {"stopfail"}
Restarts == {"crash"}

\* Runs, threads and requests are interchangeable.
Symmetry == Permutations(Proc) \union Permutations(Thread) \union Permutations(Request)
=============================================================================
