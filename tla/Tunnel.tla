------------------------------- MODULE Tunnel -------------------------------
(***************************************************************************)
(* TunnelManager (src/app/services/tunnel.py) with everything it meets:    *)
(* the request threads of the API, one worker thread per connect or        *)
(* disconnect, the root helper it runs through sudo (src/app/services/     *)
(* runner.py, src/scripts/vpnconnect-helper), the openconnect processes    *)
(* and their connect script (src/scripts/vpnc-split.sh), and the pid,      *)
(* iface and log files through which the three of them talk.               *)
(*                                                                         *)
(* Covered: every operation of the manager that changes a row or a file,   *)
(* with the lock taken and released where the code does it; helpers that   *)
(* outlive the time budget of their caller; a restart of the app while     *)
(* tunnels run; processes that die by themselves.                          *)
(* Not covered here: the contents of vpns.yaml and .env (an edit is the    *)
(* refresh it starts with and the credentials it may fill in), messages    *)
(* and timestamps on a row, and the reuse of a pid by a foreign process.   *)
(*                                                                         *)
(* An operator introduced as a slip is a mistake the code does not make;   *)
(* it stands before the definition it could replace and shows that a       *)
(* property notices (PROJECT.json, "mutants").                             *)
(***************************************************************************)
EXTENDS Naturals

CONSTANTS
    Vpn,        \* ids that may be in vpns.yaml
    Proc,       \* runs of the helper's connect, each with its openconnect
    Thread,     \* worker threads (bound: how many may be alive together)
    Request,    \* request threads (bound: how many calls overlap)
    Faults,     \* which of AllFaults may happen
    None        \* no process

(***************************************************************************)
(* stall     a connect helper that does not return within its budget       *)
(* overrun   a disconnect helper that does not return within 30 s          *)
(* stopfail  a disconnect helper that exits nonzero without doing anything *)
(* crash     the app is stopped and started again at any moment            *)
(***************************************************************************)
AllFaults == {"stall", "overrun", "stopfail", "crash"}

ASSUME NoneAssumption   == None \notin Proc /\ None \notin Vpn
ASSUME FaultsAssumption == Faults \subseteq AllFaults

VARIABLES
    state,      \* state[v]: TunnelState.state, "absent" for an id not in the registry
    row,        \* row[v]: the run whose interface and address the row shows
    creds,      \* the VPNs with both credentials
    pidFile,    \* pidFile[v]: the process <id>.pid names (None: missing or empty)
    ifaceFile,  \* ifaceFile[v]: the run that recorded its interface in <id>.iface
    logFile,    \* logFile[v]: the run that writes the log now at <id>.log
    stage,      \* stage[p]: how far helper and openconnect of run p are
    said,       \* said[p]: has the connect script printed a line script_failure finds?
    network,    \* network[p]: does the tun device have its addresses and routes?
    vpnOf,      \* vpnOf[p]: the VPN run p was started for
    stragglers, \* targets of disconnect helpers whose worker is gone
    pc,         \* pc[t]: where worker t is
    kind,       \* kind[t]: _connect_worker or _disconnect_worker
    job,        \* job[t]: the VPN it works on
    run,        \* run[t]: the run it starts, has read or is stopping
    op,         \* op[r]: the call a request thread is in the middle of
    on          \* on[r]: the VPN of that call

rows     == <<state, row>>
files    == <<pidFile, ifaceFile, logFile>>
procs    == <<stage, said, network, vpnOf>>
workers  == <<pc, kind, job, run>>
requests == <<op, on>>
vars     == <<rows, creds, files, procs, stragglers, workers, requests>>

Busy      == {"connecting", "disconnecting"}
AtRest    == {"disconnected", "connected", "error"}
Mutable   == {"disconnected", "error"}
RowStates == Busy \union AtRest \union {"absent"}

(***************************************************************************)
(* The stages of a run:                                                    *)
(*   idle      not started (or an identity free for a new run)             *)
(*   prepare   the helper has started and not yet made its files           *)
(*   auth      openconnect runs in the foreground and logs in              *)
(*   scripted  its connect script is done, openconnect not yet detached    *)
(*   exited    openconnect ended in the foreground, the helper has not     *)
(*   failed    the helper returned nonzero                                 *)
(*   up        openconnect detached, its pid is written, helper returned 0 *)
(*   dead      the detached openconnect is gone                            *)
(***************************************************************************)
Stages  == {"idle", "prepare", "auth", "scripted", "exited", "failed", "up", "dead"}
Running == {"auth", "scripted", "up"}

Lines    == {"nothing", "complaint"}
\* unknown: the first script of the run failed, and one of a reconnect did not.
Networks == {"unset", "set", "unknown"}

ConnectPc    == {"probe", "launch", "call", "wait", "report"}
StopPc       == {"stop", "stopping", "stopped"}
PcStates     == {"idle"} \union ConnectPc \union StopPc

TypeOK ==
    /\ state \in [Vpn -> RowStates]
    /\ row \in [Vpn -> Proc \union {None}]
    /\ creds \subseteq Vpn
    /\ pidFile \in [Vpn -> Proc \union {None}]
    /\ ifaceFile \in [Vpn -> Proc \union {None}]
    /\ logFile \in [Vpn -> Proc \union {None}]
    /\ stage \in [Proc -> Stages]
    /\ said \in [Proc -> Lines]
    /\ network \in [Proc -> Networks]
    /\ vpnOf \in [Proc -> Vpn \union {None}]
    /\ stragglers \subseteq Proc
    /\ pc \in [Thread -> PcStates]
    /\ kind \in [Thread -> {"none", "connect", "disconnect"}]
    /\ job \in [Thread -> Vpn \union {None}]
    /\ run \in [Thread -> Proc \union {None}]
    /\ op \in [Request -> {"none", "connect", "disconnect"}]
    /\ on \in [Request -> Vpn \union {None}]

-----------------------------------------------------------------------------
(* What the files say.                                                     *)

Known(v) == state[v] # "absent"

\* read_pid and pid_alive: the pid file names a process that exists.
LivePid(v) == pidFile[v] # None /\ stage[pidFile[v]] \in Running

DeadPid(v) == pidFile[v] # None /\ stage[pidFile[v]] \notin Running

\* script_failure of the log: any line the connect script prints counts.
Refused(v) == logFile[v] # None /\ said[logFile[v]] # "nothing"

\* An identity nothing refers to any more may stand for a new process.
Free(p) == /\ stage[p] \in {"idle", "failed", "dead"}
           /\ p \notin stragglers
           /\ \A v \in Vpn : p \notin {row[v], pidFile[v], ifaceFile[v], logFile[v]}
           /\ \A t \in Thread : run[t] # p

-----------------------------------------------------------------------------
(* The dashboard starts: every row is disconnected, and the files are what *)
(* the previous instance left, tunnels that still run included.            *)

\* The .pid, .iface and .log that a run of v which got as far as a pid leaves:
\* the interface is recorded unless a script failed or the process has ended.
Leftover(v) ==
    LET p == pidFile[v]
    IN  /\ vpnOf[p] = v /\ logFile[v] = p /\ ifaceFile[v] \in {p, None}
        /\ \/ stage[p] = "dead" /\ network[p] = "unset"
           \/ /\ stage[p] = "up"
              /\ ifaceFile[v] = p => network[p] # "unset"
              /\ said[p] = "nothing" => ifaceFile[v] = p /\ network[p] = "set"

Init ==
    /\ state \in [Vpn -> {"absent", "disconnected"}]
    /\ row = [v \in Vpn |-> None]
    /\ creds \in SUBSET {v \in Vpn : Known(v)}
    /\ pidFile \in [Vpn -> Proc \union {None}]
    /\ \A v, w \in Vpn : pidFile[v] = pidFile[w] => v = w \/ pidFile[v] = None
    /\ ifaceFile \in [Vpn -> Proc \union {None}]
    /\ logFile \in [Vpn -> Proc \union {None}]
    /\ stage \in [Proc -> {"idle", "up", "dead"}]
    /\ said \in [Proc -> Lines]
    /\ network \in [Proc -> Networks]
    /\ vpnOf \in [Proc -> Vpn \union {None}]
    /\ \A v \in Vpn : IF pidFile[v] # None
                      THEN Known(v) /\ Leftover(v)
                      ELSE ifaceFile[v] = None /\ logFile[v] = None
    /\ \A p \in Proc : \/ \E v \in Vpn : pidFile[v] = p
                       \/ /\ stage[p] = "idle" /\ vpnOf[p] = None
                          /\ said[p] = "nothing" /\ network[p] = "unset"
    /\ stragglers = {}
    /\ pc = [t \in Thread |-> "idle"]
    /\ kind = [t \in Thread |-> "none"]
    /\ job = [t \in Thread |-> None]
    /\ run = [t \in Thread |-> None]
    /\ op = [r \in Request |-> "none"]
    /\ on = [r \in Request |-> None]

-----------------------------------------------------------------------------
(* refresh(): one pass over the registry.  Each VPN is handled under the   *)
(* lock; what it does to one VPN neither reads nor writes another one's    *)
(* row or files, so the pass is one step for all of them.  The rows it     *)
(* starts from are a parameter: a create refreshes after adding its own.   *)

\* Slip: not adopting out of an error.
AdoptedAtStart(s, v) == s[v] = "disconnected" /\ LivePid(v) /\ ifaceFile[v] # None

Adopted(s, v)      == s[v] \in Mutable /\ LivePid(v) /\ ifaceFile[v] # None
Unconfigured(s, v) == s[v] \in Mutable /\ LivePid(v) /\ ifaceFile[v] = None
Dropped(s, v)      == s[v] = "connected" /\ ~LivePid(v)
Stale(s, v)        == s[v] \in AtRest /\ DeadPid(v)

\* Slip: a tunnel that dropped is taken for one that was disconnected.
RefreshedQuietly(s, v) == CASE Adopted(s, v)      -> "connected"
                            [] Unconfigured(s, v) -> "error"
                            [] Dropped(s, v)      -> "disconnected"
                            [] OTHER              -> s[v]

RefreshedState(s, v) == CASE Adopted(s, v)      -> "connected"
                          [] Unconfigured(s, v) -> "error"
                          [] Dropped(s, v)      -> "error"
                          [] OTHER              -> s[v]
RefreshedRow(s, v)   == CASE Adopted(s, v)      -> ifaceFile[v]
                          [] Unconfigured(s, v) -> None
                          [] Dropped(s, v)      -> None
                          [] OTHER              -> row[v]

\* _clear_files on the entries with a dead pid.
RefreshFiles(s) ==
    /\ pidFile'   = [v \in Vpn |-> IF Stale(s, v) THEN None ELSE pidFile[v]]
    /\ ifaceFile' = [v \in Vpn |-> IF Stale(s, v) THEN None ELSE ifaceFile[v]]

Refresh(s) == /\ state' = [v \in Vpn |-> RefreshedState(s, v)]
              /\ row'   = [v \in Vpn |-> RefreshedRow(s, v)]
              /\ RefreshFiles(s)

-----------------------------------------------------------------------------
(* Requests.                                                               *)

\* GET of one VPN or of all of them, and the poll of the page: a refresh.
Read == /\ Refresh(state)
        /\ UNCHANGED <<creds, logFile, procs, stragglers, workers, requests>>

\* connect() and disconnect() look the id up and refresh without the lock...
Arrive(r, o, v) ==
    /\ op[r] = "none" /\ Known(v)
    /\ op' = [op EXCEPT ![r] = o]
    /\ on' = [on EXCEPT ![r] = v]
    /\ Refresh(state)
    /\ UNCHANGED <<creds, logFile, procs, stragglers, workers>>

Answer(r) == /\ op' = [op EXCEPT ![r] = "none"]
             /\ on' = [on EXCEPT ![r] = None]

SetRow(v, s, p) == /\ state' = [state EXCEPT ![v] = s]
                   /\ row'   = [row EXCEPT ![v] = p]

\* ... and decide under it, on what is there by then.
\* Slips: no look at the pid file; a busy row is no reason to refuse.
CanConnectUnchecked(v) == v \in creds /\ state[v] \in Mutable
CanConnectBusy(v)      == v \in creds /\ state[v] \in Mutable \union Busy /\ ~LivePid(v)

CanConnect(v) == v \in creds /\ state[v] \in Mutable /\ ~LivePid(v)
CanDisconnect(v) == /\ state[v] \in AtRest
                    /\ state[v] # "disconnected" \/ pidFile[v] # None

Spawn(t, k, v, p, l) == /\ pc'   = [pc EXCEPT ![t] = l]
                        /\ kind' = [kind EXCEPT ![t] = k]
                        /\ job'  = [job EXCEPT ![t] = v]
                        /\ run'  = [run EXCEPT ![t] = p]

\* The worker is given the identity of the process it is going to start.
AcceptConnect(r, t, p) ==
    /\ op[r] = "connect" /\ CanConnect(on[r])
    /\ pc[t] = "idle" /\ Free(p)
    /\ SetRow(on[r], "connecting", None)
    /\ Spawn(t, "connect", on[r], p, "probe")
    /\ Answer(r)
    /\ UNCHANGED <<creds, files, procs, stragglers>>

AcceptDisconnect(r, t) ==
    /\ op[r] = "disconnect" /\ CanDisconnect(on[r])
    /\ pc[t] = "idle"
    /\ SetRow(on[r], "disconnecting", None)
    /\ Spawn(t, "disconnect", on[r], None, "stop")
    /\ Answer(r)
    /\ UNCHANGED <<creds, files, procs, stragglers>>

\* UnknownVpn, MissingCredentials or InvalidTransition: 404, 400, 409.
Refuse(r) ==
    /\ \/ op[r] = "connect" /\ ~CanConnect(on[r])
       \/ op[r] = "disconnect" /\ ~CanDisconnect(on[r])
    /\ Answer(r)
    /\ UNCHANGED <<rows, creds, files, procs, stragglers, workers>>

\* Slip: a reload that builds every state anew.
CreateVpnForgets(v) ==
    /\ ~Known(v)
    /\ Refresh([w \in Vpn |-> IF w = v \/ Known(w) THEN "disconnected" ELSE "absent"])
    /\ creds' \in {creds \union {v}, creds \ {v}}
    /\ UNCHANGED <<logFile, procs, stragglers, workers, requests>>

\* create_vpn: the entry, its credentials (or not), reload, snapshot_one.
CreateVpn(v) ==
    /\ ~Known(v)
    /\ Refresh([state EXCEPT ![v] = "disconnected"])
    /\ creds' \in {creds \union {v}, creds \ {v}}
    /\ UNCHANGED <<logFile, procs, stragglers, workers, requests>>

\* edit_vpn: under the lock from the check to the reload.  It can fill in
\* credentials and not remove them.
EditVpn(v) ==
    /\ Known(v) /\ RefreshedState(state, v) \in Mutable
    /\ Refresh(state)
    /\ creds' \in {creds, creds \union {v}}
    /\ UNCHANGED <<logFile, procs, stragglers, workers, requests>>

\* Slip: a delete that trusts the row and does not look for a process.
DeleteVpnUnchecked(v) ==
    /\ Known(v) /\ RefreshedState(state, v) \in Mutable
    /\ state' = [w \in Vpn |-> IF w = v THEN "absent" ELSE RefreshedState(state, w)]
    /\ row'   = [w \in Vpn |-> IF w = v THEN None ELSE RefreshedRow(state, w)]
    /\ pidFile'   = [w \in Vpn |-> IF w = v \/ Stale(state, w) THEN None ELSE pidFile[w]]
    /\ ifaceFile' = [w \in Vpn |-> IF w = v \/ Stale(state, w) THEN None ELSE ifaceFile[w]]
    /\ logFile'   = [logFile EXCEPT ![v] = None]
    /\ creds'     = creds \ {v}
    /\ UNCHANGED <<procs, stragglers, workers, requests>>

\* delete_vpn, likewise; it also drops the files and the log.
DeleteVpn(v) ==
    /\ Known(v) /\ RefreshedState(state, v) \in Mutable /\ ~LivePid(v)
    /\ state' = [w \in Vpn |-> IF w = v THEN "absent" ELSE RefreshedState(state, w)]
    /\ row'   = [w \in Vpn |-> IF w = v THEN None ELSE RefreshedRow(state, w)]
    /\ pidFile'   = [w \in Vpn |-> IF w = v \/ Stale(state, w) THEN None ELSE pidFile[w]]
    /\ ifaceFile' = [w \in Vpn |-> IF w = v \/ Stale(state, w) THEN None ELSE ifaceFile[w]]
    /\ logFile'   = [logFile EXCEPT ![v] = None]
    /\ creds'     = creds \ {v}
    /\ UNCHANGED <<procs, stragglers, workers, requests>>

-----------------------------------------------------------------------------
(* _connect_worker and _wait_for_tunnel.                                   *)

Goto(t, l) == pc' = [pc EXCEPT ![t] = l] /\ UNCHANGED <<kind, job, run>>

Finish(t) == Spawn(t, "none", None, None, "idle")

ClearFiles(v) == /\ pidFile'   = [pidFile EXCEPT ![v] = None]
                 /\ ifaceFile' = [ifaceFile EXCEPT ![v] = None]
                 /\ UNCHANGED logFile

\* _ensure_servercert got a pin (or had one); then _clear_files.
Probed(t) ==
    /\ pc[t] = "probe"
    /\ ClearFiles(job[t])
    /\ Goto(t, "launch")
    /\ UNCHANGED <<rows, creds, procs, stragglers, requests>>

\* runner.connect: sudo starts the helper.
Launch(t) ==
    /\ pc[t] = "launch"
    /\ stage' = [stage EXCEPT ![run[t]] = "prepare"]
    /\ said'  = [said EXCEPT ![run[t]] = "nothing"]
    /\ vpnOf' = [vpnOf EXCEPT ![run[t]] = job[t]]
    /\ Goto(t, "call")
    /\ UNCHANGED <<rows, creds, files, network, stragglers, requests>>

ReturnsOk(t) ==
    /\ pc[t] = "call" /\ stage[run[t]] \in {"up", "dead"}
    /\ Goto(t, "wait")
    /\ UNCHANGED <<rows, creds, files, procs, stragglers, requests>>

\* Slip: a state the page and the API do not know.
ReturnsFailedOddly(t) ==
    /\ pc[t] = "call" /\ stage[run[t]] = "failed"
    /\ ClearFiles(job[t])
    /\ SetRow(job[t], "failed", None)
    /\ Finish(t)
    /\ UNCHANGED <<creds, procs, stragglers, requests>>

ReturnsFailed(t) ==
    /\ pc[t] = "call" /\ stage[run[t]] = "failed"
    /\ ClearFiles(job[t])
    /\ SetRow(job[t], "error", None)
    /\ Finish(t)
    /\ UNCHANGED <<creds, procs, stragglers, requests>>

\* HELPER_TIMEOUT_RC: the helper is abandoned, not stopped.
Stalls(t) ==
    /\ "stall" \in Faults
    /\ pc[t] = "call" /\ stage[run[t]] \notin {"up", "dead", "failed"}
    /\ Goto(t, "wait")
    /\ UNCHANGED <<rows, creds, files, procs, stragglers, requests>>

\* Slip: a live process is enough.
PollAlive(t) ==
    /\ pc[t] = "wait" /\ LivePid(job[t])
    /\ pc'  = [pc EXCEPT ![t] = "report"]
    /\ run' = [run EXCEPT ![t] = ifaceFile[job[t]]]
    /\ UNCHANGED <<rows, creds, files, procs, stragglers, kind, job, requests>>

\* One round of the loop.  The worker holds no lock: what it has read may be
\* out of date by the time it writes the row.
PollConnected(t) ==
    /\ pc[t] = "wait" /\ LivePid(job[t]) /\ ifaceFile[job[t]] # None
    /\ pc'  = [pc EXCEPT ![t] = "report"]
    /\ run' = [run EXCEPT ![t] = ifaceFile[job[t]]]
    /\ UNCHANGED <<rows, creds, files, procs, stragglers, kind, job, requests>>

Report(t) ==
    /\ pc[t] = "report"
    /\ SetRow(job[t], "connected", run[t])
    /\ Finish(t)
    /\ UNCHANGED <<creds, files, procs, stragglers, requests>>

PollDead(t) ==
    /\ pc[t] = "wait" /\ DeadPid(job[t])
    /\ ClearFiles(job[t])
    /\ SetRow(job[t], "error", None)
    /\ Finish(t)
    /\ UNCHANGED <<creds, procs, stragglers, requests>>

Undecided(v) == ~DeadPid(v) /\ (LivePid(v) => ifaceFile[v] = None)

PollRefused(t) ==
    /\ pc[t] = "wait" /\ Undecided(job[t]) /\ Refused(job[t])
    /\ Goto(t, "stop")
    /\ UNCHANGED <<rows, creds, files, procs, stragglers, requests>>

\* Slip: the deadline counts only once there is a process.
PollDeadlineAlive(t) ==
    /\ pc[t] = "wait" /\ Undecided(job[t]) /\ ~Refused(job[t]) /\ LivePid(job[t])
    /\ Goto(t, "stop")
    /\ UNCHANGED <<rows, creds, files, procs, stragglers, requests>>

\* The deadline may be reached in any round.
PollDeadline(t) ==
    /\ pc[t] = "wait" /\ Undecided(job[t]) /\ ~Refused(job[t])
    /\ Goto(t, "stop")
    /\ UNCHANGED <<rows, creds, files, procs, stragglers, requests>>

\* Slip: cleaning up although nothing has been stopped.
WorkerFailsTidily(t) ==
    /\ pc[t] \in {"probe", "launch", "wait", "stop", "stopped"}
    /\ ClearFiles(job[t])
    /\ SetRow(job[t], "error", None)
    /\ Finish(t)
    /\ UNCHANGED <<creds, procs, stragglers, requests>>

\* The exception handlers: no probe result, helper unavailable, an OSError.
\* The row says so and the files stay as they are.
WorkerFails(t) ==
    /\ pc[t] \in {"probe", "launch", "wait", "stop", "stopped"}
    /\ SetRow(job[t], "error", None)
    /\ Finish(t)
    /\ UNCHANGED <<creds, files, procs, stragglers, requests>>

-----------------------------------------------------------------------------
(* runner.disconnect, from either worker: the helper's cmd_disconnect.     *)

\* Nothing to signal: the helper removes the files and returns.
StopNothing(t) ==
    /\ pc[t] = "stop" /\ ~LivePid(job[t])
    /\ ClearFiles(job[t])
    /\ Goto(t, "stopped")
    /\ UNCHANGED <<rows, creds, procs, stragglers, requests>>

\* TERM to the process the pid file names, and wait.
StopSignals(t) ==
    /\ pc[t] = "stop" /\ LivePid(job[t])
    /\ pc'  = [pc EXCEPT ![t] = "stopping"]
    /\ run' = [run EXCEPT ![t] = pidFile[job[t]]]
    /\ UNCHANGED <<rows, creds, files, procs, stragglers, kind, job, requests>>

\* Slip: TERM is sent and not waited for.
StopReturnsAtOnce(t) ==
    /\ pc[t] = "stopping"
    /\ ClearFiles(job[t])
    /\ Goto(t, "stopped")
    /\ UNCHANGED <<rows, creds, procs, stragglers, requests>>

\* The process is gone: the helper removes the files and returns.
StopEnds(t) ==
    /\ pc[t] = "stopping" /\ stage[run[t]] \notin Running
    /\ ClearFiles(job[t])
    /\ Goto(t, "stopped")
    /\ UNCHANGED <<rows, creds, procs, stragglers, requests>>

\* 30 s are over and the worker goes on without the helper, which stays.
StopOverruns(t) ==
    /\ "overrun" \in Faults
    /\ pc[t] = "stopping"
    /\ stragglers' = stragglers \union {run[t]}
    /\ Goto(t, "stopped")
    /\ UNCHANGED <<rows, creds, files, procs, requests>>

\* The helper exits nonzero without having looked; nobody reads its code.
StopAborts(t) ==
    /\ "stopfail" \in Faults
    /\ pc[t] = "stop"
    /\ Goto(t, "stopped")
    /\ UNCHANGED <<rows, creds, files, procs, stragglers, requests>>

\* The rest of _wait_for_tunnel or of _disconnect_worker.
StopDone(t) ==
    /\ pc[t] = "stopped"
    /\ ClearFiles(job[t])
    /\ SetRow(job[t], IF kind[t] = "connect" THEN "error" ELSE "disconnected", None)
    /\ Finish(t)
    /\ UNCHANGED <<creds, procs, stragglers, requests>>

-----------------------------------------------------------------------------
(* cmd_connect of the helper, openconnect and its script, for run p.       *)

Advance(p, s) == stage' = [stage EXCEPT ![p] = s] /\ UNCHANGED vpnOf

\* Slip: the log of the last run is kept and appended to.
HelperKeepsLog(p) ==
    /\ stage[p] = "prepare"
    /\ Advance(p, "auth")
    /\ pidFile'   = [pidFile EXCEPT ![vpnOf[p]] = None]
    /\ ifaceFile' = [ifaceFile EXCEPT ![vpnOf[p]] = None]
    /\ logFile'   = [logFile EXCEPT ![vpnOf[p]] = IF @ = None THEN p ELSE @]
    /\ UNCHANGED <<rows, creds, said, network, stragglers, workers, requests>>

\* rm -f of the three files, then empty new ones: an empty pid file reads
\* as none.
HelperPrepares(p) ==
    /\ stage[p] = "prepare"
    /\ Advance(p, "auth")
    /\ pidFile'   = [pidFile EXCEPT ![vpnOf[p]] = None]
    /\ ifaceFile' = [ifaceFile EXCEPT ![vpnOf[p]] = None]
    /\ logFile'   = [logFile EXCEPT ![vpnOf[p]] = p]
    /\ UNCHANGED <<rows, creds, said, network, stragglers, workers, requests>>

\* exit 73, after the rm -f.
HelperCannotPrepare(p) ==
    /\ stage[p] = "prepare"
    /\ Advance(p, "failed")
    /\ pidFile'   = [pidFile EXCEPT ![vpnOf[p]] = None]
    /\ ifaceFile' = [ifaceFile EXCEPT ![vpnOf[p]] = None]
    /\ logFile'   = [logFile EXCEPT ![vpnOf[p]] = None]
    /\ UNCHANGED <<rows, creds, said, network, stragglers, workers, requests>>

\* Login refused, certificate rejected, network lost before detaching.  The tun
\* device goes with its process.
ForegroundFails(p) ==
    /\ stage[p] \in {"auth", "scripted"}
    /\ Advance(p, "exited")
    /\ network' = [network EXCEPT ![p] = "unset"]
    /\ UNCHANGED <<rows, creds, files, said, stragglers, workers, requests>>

HelperReportsFailure(p) ==
    /\ stage[p] = "exited"
    /\ Advance(p, "failed")
    /\ ClearFiles(vpnOf[p])
    /\ UNCHANGED <<rows, creds, said, network, stragglers, workers, requests>>

\* register_vpn_dns: DNS without a domain, or DNS that does not answer.  The
\* interface is recorded after that.
ScriptWarns(p) ==
    /\ stage[p] = "auth" /\ said[p] = "nothing"
    /\ said' = [said EXCEPT ![p] = "complaint"]
    /\ UNCHANGED <<rows, creds, files, stage, network, vpnOf, stragglers, workers, requests>>

ScriptConfigures(p) ==
    /\ stage[p] = "auth"
    /\ Advance(p, "scripted")
    /\ network'   = [network EXCEPT ![p] = "set"]
    /\ ifaceFile' = [ifaceFile EXCEPT ![vpnOf[p]] = p]
    /\ UNCHANGED <<rows, creds, pidFile, logFile, said, stragglers, workers, requests>>

\* A refusal or a failing vpnc-script; or vpnc-script is through and the iface
\* file cannot be made.
ScriptFails(p) ==
    /\ stage[p] = "auth"
    /\ Advance(p, "scripted")
    /\ said' = [said EXCEPT ![p] = "complaint"]
    /\ \/ said[p] = "nothing" /\ UNCHANGED <<network, ifaceFile>>
       \/ /\ network'   = [network EXCEPT ![p] = "set"]
          /\ ifaceFile' = [ifaceFile EXCEPT ![vpnOf[p]] = None]
    /\ UNCHANGED <<rows, creds, pidFile, logFile, stragglers, workers, requests>>

\* --background --pid-file: detach whatever the script returned.
Backgrounds(p) ==
    /\ stage[p] = "scripted"
    /\ Advance(p, "up")
    /\ pidFile' = [pidFile EXCEPT ![vpnOf[p]] = p]
    /\ UNCHANGED <<rows, creds, ifaceFile, logFile, said, network, stragglers, workers, requests>>

\* The script runs again after a reconnect, whatever it returned before.
\* Returning 0 it records the interface (or cannot: then the file is gone and
\* it says so); otherwise it says so and leaves the file that is there.  Nothing
\* in the source says whether vpnc-script sets up on a reconnect what it could
\* not set up on the connect.
Reconfigured(p) == [network EXCEPT ![p] = IF @ = "unset" THEN "unknown" ELSE @]

ReconnectSucceeds(p) ==
    /\ network' = Reconfigured(p)
    /\ \/ /\ ifaceFile' = [ifaceFile EXCEPT ![vpnOf[p]] = p]
          /\ said' \in {said, [said EXCEPT ![p] = "complaint"]}
       \/ /\ ifaceFile' = [ifaceFile EXCEPT ![vpnOf[p]] = None]
          /\ said' = [said EXCEPT ![p] = "complaint"]

ReconnectFails(p) ==
    /\ said' = [said EXCEPT ![p] = "complaint"]
    /\ UNCHANGED <<network, ifaceFile>>

Reconnects(p) ==
    /\ stage[p] = "up"
    /\ ReconnectSucceeds(p) \/ ReconnectFails(p)
    /\ UNCHANGED <<rows, creds, pidFile, logFile, stage, vpnOf, stragglers, workers, requests>>

\* A detached openconnect ends: in order (its script removes the iface file
\* and it may remove its pid file) or killed (the files stay).
ProcessEnds(p) ==
    /\ stage[p] = "up"
    /\ Advance(p, "dead")
    /\ network' = [network EXCEPT ![p] = "unset"]
    /\ \/ UNCHANGED <<pidFile, ifaceFile>>
       \/ /\ ifaceFile' = [ifaceFile EXCEPT ![vpnOf[p]] = None]
          /\ pidFile' \in {pidFile, [pidFile EXCEPT ![vpnOf[p]] = None]}
    /\ UNCHANGED <<rows, creds, logFile, said, stragglers, workers, requests>>

\* A disconnect helper waits for p, and after the grace period sends KILL.
Targeted(p) == p \in stragglers \/ \E t \in Thread : pc[t] = "stopping" /\ run[t] = p

HelperKills(p) == Targeted(p) /\ ProcessEnds(p)

\* A disconnect helper nobody waits for any more comes to its rm -f.
StragglerEnds(p) ==
    /\ p \in stragglers /\ stage[p] \notin Running
    /\ ClearFiles(vpnOf[p])
    /\ stragglers' = stragglers \ {p}
    /\ UNCHANGED <<rows, creds, procs, workers, requests>>

-----------------------------------------------------------------------------
(* The app stops and starts again: threads and rows are gone, helpers,     *)
(* processes and files are not.                                            *)
Crash ==
    /\ "crash" \in Faults
    /\ state' = [v \in Vpn |-> IF Known(v) THEN "disconnected" ELSE "absent"]
    /\ row'   = [v \in Vpn |-> None]
    /\ stragglers' = stragglers \union {run[t] : t \in {u \in Thread : pc[u] = "stopping"}}
    /\ pc'   = [t \in Thread |-> "idle"]
    /\ kind' = [t \in Thread |-> "none"]
    /\ job'  = [t \in Thread |-> None]
    /\ run'  = [t \in Thread |-> None]
    /\ op'   = [r \in Request |-> "none"]
    /\ on'   = [r \in Request |-> None]
    /\ UNCHANGED <<creds, files, procs>>

-----------------------------------------------------------------------------
Call(r) == \/ \E o \in {"connect", "disconnect"}, v \in Vpn : Arrive(r, o, v)
           \/ \E t \in Thread, p \in Proc : AcceptConnect(r, t, p)
           \/ \E t \in Thread : AcceptDisconnect(r, t)
           \/ Refuse(r)

Define(v) == CreateVpn(v) \/ EditVpn(v) \/ DeleteVpn(v)

Proceeds(t) == \/ Probed(t) \/ Launch(t)
               \/ ReturnsOk(t) \/ ReturnsFailed(t) \/ Stalls(t)
               \/ PollConnected(t) \/ Report(t) \/ PollDead(t)
               \/ PollRefused(t) \/ PollDeadline(t)
               \/ StopNothing(t) \/ StopSignals(t) \/ StopEnds(t)
               \/ StopOverruns(t) \/ StopAborts(t) \/ StopDone(t)

Work(t) == Proceeds(t) \/ WorkerFails(t)

Happens(p) == \/ HelperPrepares(p) \/ HelperCannotPrepare(p) \/ HelperReportsFailure(p)
              \/ ForegroundFails(p) \/ ScriptWarns(p) \/ ScriptConfigures(p)
              \/ ScriptFails(p) \/ Backgrounds(p) \/ Reconnects(p)
              \/ ProcessEnds(p) \/ HelperKills(p) \/ StragglerEnds(p)

Next == \/ Read
        \/ \E r \in Request : Call(r)
        \/ \E v \in Vpn : Define(v)
        \/ \E t \in Thread : Work(t)
        \/ \E p \in Proc : Happens(p)
        \/ Crash

Spec == Init /\ [][Next]_vars

(***************************************************************************)
(* Fairness.  A worker thread keeps running: the scheduler runs it, every  *)
(* call it makes has a timeout, its loop has a deadline.  It must get      *)
(* there without the help of an exception.  A process that was told to     *)
(* stop ends: the helper sends KILL after the grace period.                *)
(* The page polls (index.html, every 3 s), so reads keep coming.           *)
(* Logins, scripts and tunnels owe nobody any progress.                    *)
(***************************************************************************)
FairSpec == /\ Spec
            /\ WF_vars(Read)
            /\ \A t \in Thread : WF_vars(Proceeds(t))
            /\ \A p \in Proc : WF_vars(HelperKills(p))
=============================================================================
