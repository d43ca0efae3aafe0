-------------------------- MODULE TunnelProperties --------------------------
(***************************************************************************)
(* What must be true of the tunnel manager of module Tunnel.  Each property *)
(* relates what different actors have done: a row to the worker that will   *)
(* settle it, the processes to the files that are the only way to them, the *)
(* row a user sees to the process that runs.                                *)
(***************************************************************************)
EXTENDS Tunnel

Active(t) == pc[t] # "idle"

RunningOn(v) == {p \in Proc : vpnOf[p] = v /\ stage[p] \in Running}

\* A busy row has exactly one worker, of its kind, and a worker has a busy row:
\* "a worker owns this id right now" (tunnel.py:162), so refresh may skip it, a
\* delete or an edit cannot touch it, and no second worker is ever started.
\* No lock says so while the worker runs: the row itself is the lock, and every
\* handler that writes a row keeps to it.
OwnershipOf(t) ==
    /\ pc[t] = "idle" <=> kind[t] = "none"
    /\ pc[t] = "idle" <=> job[t] = None
    /\ kind[t] = "connect" => state[job[t]] = "connecting"
    /\ kind[t] = "disconnect" => state[job[t]] = "disconnecting"
    /\ pc[t] \in ConnectPc => kind[t] = "connect"
OneWorker == \A t, u \in Thread : job[t] = job[u] /\ job[t] # None => t = u
Owned == \A v \in Vpn : state[v] \in Busy => \E t \in Thread : job[t] = v
Ownership == (\A t \in Thread : OwnershipOf(t)) /\ OneWorker /\ Owned

\* At most one openconnect runs per VPN, from the moment the helper starts it
\* (tunnel.py:206-211: a connect is refused while one runs).
OneTunnel == \A p, q \in Proc :
    vpnOf[p] = vpnOf[q] /\ stage[p] \in Running /\ stage[q] \in Running => p = q

\* A detached openconnect is the one its VPN's pid file names: the pid file is
\* "the only handle on a process this user cannot signal" (tunnel.py:370-371).
PidFileIsTheHandle == \A p \in Proc : stage[p] = "up" => pidFile[vpnOf[p]] = p

(***************************************************************************)
(* Who may have a process running at which point, when helpers return in   *)
(* time and the app is not stopped: the strengthening of OneTunnel and     *)
(* PidFileIsTheHandle that every step preserves.                           *)
(***************************************************************************)

InForeground == {"prepare", "auth", "scripted", "exited"}

NothingRunsOn(v) == \A p \in Proc : vpnOf[p] = v => stage[p] \notin Running

\* A helper that has not returned has a worker that waits for it.
Attended == \A p \in Proc : stage[p] \in InForeground =>
    \E t \in Thread : pc[t] = "call" /\ run[t] = p /\ job[t] = vpnOf[p]

\* A pid file names a detached openconnect of its own VPN, alive or not.
PidFilesTrue == \A v \in Vpn : pidFile[v] # None =>
    stage[pidFile[v]] \in {"up", "dead"} /\ vpnOf[pidFile[v]] = v

\* The run a worker is going to start is nobody else's.
FreshRun(t) == pc[t] \in {"probe", "launch"} =>
    /\ run[t] # None /\ stage[run[t]] \in {"idle", "failed", "dead"}
    /\ \A v \in Vpn : pidFile[v] # run[t]
    /\ \A u \in Thread : pc[u] \in {"probe", "launch", "call", "stopping"} /\ run[u] = run[t]
                           => u = t

\* What may still run on the VPN of a worker, by where the worker is.
MayRun(t) ==
    /\ pc[t] \in {"probe", "launch", "stopped"} => NothingRunsOn(job[t])
    /\ pc[t] \in {"call", "stopping"} =>
          /\ run[t] # None /\ vpnOf[run[t]] = job[t]
          /\ \A p \in Proc : vpnOf[p] = job[t] /\ stage[p] \in Running => p = run[t]
    /\ pc[t] = "stopping" => stage[run[t]] \in {"up", "dead"}

\* An id that is not in the registry has no process.
NoOrphans == \A v \in Vpn : ~Known(v) => NothingRunsOn(v)

\* From accept to rest a VPN is handed over without a gap: from the worker to
\* the helper it waits for, from the helper to the detached process and its pid
\* file, and back to the worker that stops it.  None of them ever finds a
\* process of another run in its way, or leaves one behind.
Handover == /\ Attended /\ PidFileIsTheHandle /\ PidFilesTrue /\ NoOrphans
            /\ \A t \in Thread : FreshRun(t) /\ MayRun(t)
            /\ stragglers = {}

\* A connect script of the run has returned 0, and the run has not ended since.
Configured(p) == network[p] # "unset"

\* A connected row with a live process shows the interface of that very
\* process, and a script of that process has returned 0: a row never goes green
\* on what an earlier run left, nor on the tun device of a connect script that
\* failed and never ran again.  Only where a reconnect succeeded after that may
\* the device be without addresses and routes (OnlyConfiguredAppears, below).
ConnectedIsConfigured == \A v \in Vpn :
    state[v] = "connected" /\ LivePid(v) =>
        row[v] = pidFile[v] /\ Configured(pidFile[v])

\* The iface file was written by the run the log belongs to, so the reason
\* that is shown for a drop or a refusal is the one of the tunnel that was up
\* (_failure_message reads the log long after the run, tunnel.py:189, 403).
LogIsOfTheRun == \A v \in Vpn :
    /\ pidFile[v] # None => logFile[v] = pidFile[v]
    /\ ifaceFile[v] # None => logFile[v] = ifaceFile[v]

(* What every step preserves so that the two above hold, when no fault      *)
(* happens: whose log, whose iface file and whose lines are whose.          *)

\* While openconnect of p is there, and until its helper has returned, the log
\* of its VPN is its own.
RunLogs == \A p \in Proc :
    stage[p] \in {"auth", "scripted", "exited", "up"} => logFile[vpnOf[p]] = p

\* A run whose script has not run yet has recorded no interface, and one that is
\* about to start has recorded none either.
NotYetRun(p) == \/ stage[p] \in {"prepare", "auth"}
                \/ \E t \in Thread : pc[t] \in {"probe", "launch"} /\ run[t] = p
NotYetConfigured == \A p \in Proc : NotYetRun(p) => \A v \in Vpn : ifaceFile[v] # p

\* A recorded interface is the one of a run that has had a script return 0, as
\* long as the run lasts.
IfaceIsConfigured == \A v \in Vpn :
    ifaceFile[v] # None /\ stage[ifaceFile[v]] \in Running => Configured(ifaceFile[v])

\* What a worker has read without the lock is still true when it writes it.
ReportIsTrue == \A t \in Thread :
    pc[t] = "report" /\ LivePid(job[t]) =>
        run[t] = pidFile[job[t]] /\ Configured(run[t])

\* From the process that says a line to the row that shows it nothing is taken
\* for that of another run: the log, the iface file and what a worker has read
\* of them (tunnel.py:392-412).
Provenance == /\ LogIsOfTheRun /\ ConnectedIsConfigured
              /\ RunLogs /\ NotYetConfigured
              /\ IfaceIsConfigured /\ ReportIsTrue

\* The row goes from disconnecting to disconnected only when nothing runs
\* (tunnel.py:9, "helper done").
DisconnectStops ==
    [][\A v \in Vpn : state[v] = "disconnecting" /\ state'[v] = "disconnected"
                          => RunningOn(v) = {}]_vars

\* The detailed system does what the docstring's state machine promises.
Promise == INSTANCE Dashboard WITH shown <- state,
                                   running <- [v \in Vpn |-> RunningOn(v) # {}]
KeepsPromise == Promise!Spec

\* A busy row comes to rest: every wait of a worker is bounded, by the budget
\* of the helper call, by the deadline of the poll or by the KILL of the helper.
BusyComesToRest == \A v \in Vpn : state[v] \in Busy ~> state[v] \notin Busy

\* While no worker owns it, a row that contradicts the files is put right by
\* the reads that keep coming: a tunnel that dropped stops being shown, a process
\* behind a disconnected row is shown, as a tunnel or as an error, and a tunnel
\* behind an error is adopted once its interface is recorded.  What is not in
\* the files is not found: a tunnel whose pid file its own worker has removed
\* stays unknown (stall_loses_handle).
Contradicts(v) ==
    \/ state[v] = "connected" /\ ~LivePid(v)
    \/ state[v] = "disconnected" /\ LivePid(v)
    \/ state[v] = "error" /\ LivePid(v) /\ ifaceFile[v] # None
Reconciled == \A v \in Vpn : Contradicts(v) ~> ~Contradicts(v)

(* What comments say of the connect script and its code does not keep to.   *)

\* "No interface can appear after one of these lines" (status.py:28-30): once
\* the log holds a line that script_failure matches, no interface is recorded.
NoInterfaceAfterRefusal ==
    [][\A v \in Vpn : Refused(v) /\ ifaceFile[v] = None /\ logFile'[v] = logFile[v]
                          => ifaceFile'[v] = None]_vars

\* "openconnect ignores a failing connect script and backgrounds with an
\* unconfigured tun device, so no interface will ever appear" (tunnel.py:408):
\* only a device that its connect script has configured is ever recorded.
OnlyConfiguredAppears ==
    [][\A v \in Vpn : ifaceFile[v] = None /\ ifaceFile'[v] # None
                          => network'[ifaceFile'[v]] = "set"]_vars
=============================================================================
