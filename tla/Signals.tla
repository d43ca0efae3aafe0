------------------------------ MODULE Signals ------------------------------
(***************************************************************************)
(* Whom a disconnect signals.  The helper (scripts/vpnconnect-helper) runs *)
(* as root and knows an openconnect by nothing but a number in a pid file, *)
(* while processes come and go and numbers are used again.  Each command   *)
(* of cmd_disconnect is a step of its own.                                 *)
(*                                                                         *)
(* Module Tunnel has one identity per openconnect instead, and the workers *)
(* and rows that decide when a helper is started.                          *)
(***************************************************************************)
CONSTANTS
    Vpn,        \* ids
    Pid,        \* process numbers; they are used again
    Helper,     \* disconnect helpers (bound: how many live together)
    Faults,     \* which of AllFaults may happen
    Other,      \* a process that is not an openconnect
    None        \* no process, no pid, no helper

(***************************************************************************)
(* sibling  another openconnect gets a number that a pid file names        *)
(* race     a number is used again while a helper holds it                 *)
(* overrun  the app has stopped waiting for a helper, or has been started  *)
(*          anew, and goes on with its VPN                                 *)
(***************************************************************************)
AllFaults == {"sibling", "race", "overrun"}

ASSUME FaultsAssumption == Faults \subseteq AllFaults
ASSUME NoneAssumption   == None \notin Vpn \union Pid \union {Other} /\ Other \notin Vpn

VARIABLES
    proc,       \* proc[p]: whose process has the number p
    pidFile,    \* pidFile[v]: the number in <v>.pid; None if missing or empty
    helper,     \* helper[h]: a run of cmd_disconnect
    hit         \* the last signal: for which VPN, and who got it

vars == <<proc, pidFile, helper, hit>>

Steps == {"read", "name", "signal", "wait", "kill", "remove"}
Run   == [vpn : Vpn, pc : Steps, pid : Pid \union {None}]

TypeOK ==
    /\ proc \in [Pid -> Vpn \union {Other, None}]
    /\ pidFile \in [Vpn -> Pid \union {None}]
    /\ helper \in [Helper -> Run \union {None}]
    /\ \A h \in Helper : helper[h] # None /\ helper[h].pid = None
          => helper[h].pc \in {"read", "remove"}
    /\ hit \in [vpn : Vpn, owner : Vpn \union {Other, None}] \union {None}

Init ==
    /\ proc = [p \in Pid |-> None]
    /\ pidFile = [v \in Vpn |-> None]
    /\ helper = [h \in Helper |-> None]
    /\ hit = None

-----------------------------------------------------------------------------
(* The machine and the app.                                                *)

Held(p)     == \E h \in Helper : helper[h] # None /\ helper[h].pid = p
Attended(v) == \E h \in Helper : helper[h] # None /\ helper[h].vpn = v

\* The system hands out the number p.
Free(p) == proc[p] = None /\ (Held(p) => "race" \in Faults)

\* pid_alive: there is a process, whose ever it is.
PidAlive(v) == IF pidFile[v] = None THEN FALSE ELSE proc[pidFile[v]] # None

\* A number named by the pid file of another VPN.
Named(p, v) == \E u \in Vpn \ {v} : pidFile[u] = p

\* connect, and cmd_connect up to an openconnect that has detached.
Connect(v, p) ==
    /\ ~PidAlive(v) /\ (Attended(v) => "overrun" \in Faults)
    /\ Free(p) /\ (Named(p, v) => "sibling" \in Faults)
    /\ proc' = [proc EXCEPT ![p] = v]
    /\ pidFile' = [pidFile EXCEPT ![v] = p]
    /\ UNCHANGED <<helper, hit>>

ProgramStarts(p) ==
    /\ Free(p) /\ proc' = [proc EXCEPT ![p] = Other]
    /\ UNCHANGED <<pidFile, helper, hit>>

\* A process ends and leaves its pid file behind.
ProcessEnds(p) ==
    /\ proc[p] # None /\ proc' = [proc EXCEPT ![p] = None]
    /\ UNCHANGED <<pidFile, helper, hit>>

\* The machine restarts; the files stay.
Reboot ==
    /\ proc' = [p \in Pid |-> None] /\ helper' = [h \in Helper |-> None]
    /\ UNCHANGED <<pidFile, hit>>

\* refresh and _clear_files: the file of a process that is gone.
ClearFile(v) ==
    /\ pidFile[v] # None /\ ~PidAlive(v) /\ ~Attended(v)
    /\ pidFile' = [pidFile EXCEPT ![v] = None]
    /\ UNCHANGED <<proc, helper, hit>>

\* A worker calls the helper: on a disconnect, or to give a connect up, when
\* there may be no pid yet.
Disconnect(h, v) ==
    /\ helper[h] = None /\ (Attended(v) => "overrun" \in Faults)
    /\ helper' = [helper EXCEPT ![h] = [vpn |-> v, pc |-> "read", pid |-> None]]
    /\ UNCHANGED <<proc, pidFile, hit>>

-----------------------------------------------------------------------------
(* cmd_disconnect.                                                         *)

At(h, pc) == helper[h] # None /\ helper[h].pc = pc

Goes(h, pc) == helper' = [helper EXCEPT ![h].pc = pc]

\* Slip: the number is used before anyone looks whether there is one.
ReadPidAsItIs(h) ==
    /\ At(h, "read")
    /\ helper' = [helper EXCEPT ![h].pid = pidFile[helper[h].vpn], ![h].pc = "name"]
    /\ UNCHANGED <<proc, pidFile, hit>>

\* A missing or empty file leads straight to the end.
ReadPid(h) ==
    /\ At(h, "read")
    /\ LET p == pidFile[helper[h].vpn]
       IN  helper' = [helper EXCEPT ![h].pid = p, ![h].pc = IF p = None THEN "remove" ELSE "name"]
    /\ UNCHANGED <<proc, pidFile, hit>>

\* Slip: any process that is there will do.
CheckAlive(h) ==
    /\ At(h, "name")
    /\ Goes(h, IF proc[helper[h].pid] # None THEN "signal" ELSE "remove")
    /\ UNCHANGED <<proc, pidFile, hit>>

\* ps: the number must be that of an openconnect.
CheckName(h) ==
    /\ At(h, "name")
    /\ Goes(h, IF proc[helper[h].pid] \in Vpn THEN "signal" ELSE "remove")
    /\ UNCHANGED <<proc, pidFile, hit>>

Signals(h) == hit' = [vpn |-> helper[h].vpn, owner |-> proc[helper[h].pid]]

\* The process may take its time, or ignore it.
Term(h) == At(h, "signal") /\ Signals(h) /\ Goes(h, "wait") /\ UNCHANGED <<proc, pidFile>>

\* kill -0, until the process is gone or the grace period is over.
Wait(h) ==
    /\ At(h, "wait")
    /\ \/ proc[helper[h].pid] = None /\ Goes(h, "remove")
       \/ proc[helper[h].pid] # None /\ Goes(h, "kill")
    /\ UNCHANGED <<proc, pidFile, hit>>

\* Slip: after the grace period the process is left to itself.
GiveUp(h) == At(h, "kill") /\ Goes(h, "remove") /\ UNCHANGED <<proc, pidFile, hit>>

Kill(h) ==
    /\ At(h, "kill")
    /\ Signals(h)
    /\ proc' = [proc EXCEPT ![helper[h].pid] = None]
    /\ Goes(h, "remove")
    /\ UNCHANGED pidFile

RemoveFiles(h) ==
    /\ At(h, "remove")
    /\ pidFile' = [pidFile EXCEPT ![helper[h].vpn] = None]
    /\ helper' = [helper EXCEPT ![h] = None]
    /\ UNCHANGED <<proc, hit>>

Runs(h) == ReadPid(h) \/ CheckName(h) \/ Term(h) \/ Wait(h) \/ Kill(h) \/ RemoveFiles(h)

Next == \/ \E v \in Vpn, p \in Pid : Connect(v, p)
        \/ \E p \in Pid : ProgramStarts(p) \/ ProcessEnds(p)
        \/ \E v \in Vpn : ClearFile(v) \/ \E h \in Helper : Disconnect(h, v)
        \/ Reboot
        \/ \E h \in Helper : Runs(h)

Spec == Init /\ [][Next]_vars

-----------------------------------------------------------------------------
(* Properties.                                                             *)

\* Root never signals a program that is not an openconnect, even if a stale pid
\* file names it (vpnconnect-helper:134-136).
OnlyOpenconnect == hit = None \/ hit.owner # Other

\* While an openconnect runs, its pid file names it: it is the only way to stop
\* it, so no stop, late or early, may take the file away (tunnel.py:369-372).
FileNamesProcess == \A p \in Pid : proc[p] \in Vpn => pidFile[proc[p]] = p
=============================================================================
