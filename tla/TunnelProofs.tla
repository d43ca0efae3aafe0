---------------------------- MODULE TunnelProofs ----------------------------
(***************************************************************************)
(* Theorems about module Tunnel, for every number of VPNs, runs, threads   *)
(* and requests.  TypeOK and Ownership hold whatever faults may happen;    *)
(* Handover and Provenance, and with them OneTunnel, PidFileIsTheHandle,   *)
(* ConnectedIsConfigured and LogIsOfTheRun, when helpers return in time    *)
(* and the app is not stopped (Faults = {}).                               *)
(***************************************************************************)
EXTENDS TunnelProperties, TLAPS

-----------------------------------------------------------------------------
(* Types.                                                                  *)

LEMMA TypeInit == Init => TypeOK
BY DEF Init, TypeOK, RowStates, AtRest, Busy, Known, Stages, PcStates

\* refresh() leaves known states, runs and files behind, from whatever rows.
LEMMA RefreshTypes ==
    ASSUME TypeOK, NEW STATE s, s \in [Vpn -> RowStates], Refresh(s)
    PROVE  /\ state' \in [Vpn -> RowStates]
           /\ row' \in [Vpn -> Proc \union {None}]
           /\ pidFile' \in [Vpn -> Proc \union {None}]
           /\ ifaceFile' \in [Vpn -> Proc \union {None}]
<1>1. \A v \in Vpn : RefreshedState(s, v) \in RowStates
  BY DEF RefreshedState, RowStates, AtRest
<1>2. \A v \in Vpn : RefreshedRow(s, v) \in Proc \union {None}
  BY DEF RefreshedRow, TypeOK
<1> QED BY <1>1, <1>2 DEF Refresh, RefreshFiles, TypeOK

\* A worker waits for the end of a process only if there is one.
StopTarget == \A t \in Thread : pc[t] = "stopping" => run[t] # None

LEMMA TypeStep == TypeOK /\ Ownership /\ StopTarget /\ [Next]_vars => TypeOK'
<1> SUFFICES ASSUME TypeOK, Ownership, StopTarget, [Next]_vars PROVE TypeOK'
  OBVIOUS
<1>0. \A t \in Thread : pc[t] # "idle" => job[t] \in Vpn
  BY DEF Ownership, OwnershipOf, TypeOK
<1> USE DEF vars, rows, files, procs, workers, requests
<1>1. CASE Read
  BY <1>1, RefreshTypes DEF Read, TypeOK
<1>2. ASSUME NEW r \in Request, Call(r) PROVE TypeOK'
  <2>1. ASSUME NEW o \in {"connect", "disconnect"}, NEW v \in Vpn, Arrive(r, o, v)
        PROVE TypeOK'
    BY <2>1, RefreshTypes DEF Arrive, TypeOK
  <2>2. ASSUME NEW t \in Thread, NEW p \in Proc, AcceptConnect(r, t, p) PROVE TypeOK'
    BY <2>2 DEF AcceptConnect, TypeOK, SetRow, Spawn, Answer, RowStates, Busy, PcStates,
                ConnectPc
  <2>3. ASSUME NEW t \in Thread, AcceptDisconnect(r, t) PROVE TypeOK'
    BY <2>3 DEF AcceptDisconnect, TypeOK, SetRow, Spawn, Answer, RowStates, Busy, PcStates,
                StopPc
  <2>4. CASE Refuse(r)
    BY <2>4 DEF Refuse, Answer, TypeOK
  <2> QED BY <1>2, <2>1, <2>2, <2>3, <2>4 DEF Call
<1>3. ASSUME NEW v \in Vpn, Define(v) PROVE TypeOK'
  <2>1. CASE CreateVpn(v)
    <3>1. [state EXCEPT ![v] = "disconnected"] \in [Vpn -> RowStates]
      BY DEF TypeOK, RowStates, AtRest
    <3> QED BY <2>1, <3>1, RefreshTypes DEF CreateVpn, TypeOK
  <2>2. CASE EditVpn(v)
    BY <2>2, RefreshTypes DEF EditVpn, TypeOK
  <2>3. CASE DeleteVpn(v)
    <3>1. \A w \in Vpn : RefreshedState(state, w) \in RowStates
      BY DEF RefreshedState, RowStates, AtRest, TypeOK
    <3>2. \A w \in Vpn : RefreshedRow(state, w) \in Proc \union {None}
      BY DEF RefreshedRow, TypeOK
    <3>3. "absent" \in RowStates
      BY DEF RowStates
    <3> QED BY <2>3, <3>1, <3>2, <3>3 DEF DeleteVpn, TypeOK
  <2> QED BY <1>3, <2>1, <2>2, <2>3 DEF Define
<1>4. ASSUME NEW t \in Thread, Work(t) PROVE TypeOK'
  <2> USE DEF Goto, PcStates, ConnectPc, StopPc
  <2>1. CASE Probed(t)
    BY <2>1 DEF Probed, TypeOK, ClearFiles
  <2>2. CASE Launch(t)
    BY <2>2 DEF Launch, TypeOK, Stages, Lines
  <2>3. CASE ReturnsOk(t)
    BY <2>3 DEF ReturnsOk, TypeOK
  <2>4. CASE ReturnsFailed(t) \/ PollDead(t)
    BY <2>4 DEF ReturnsFailed, PollDead, TypeOK, ClearFiles, SetRow, Finish, Spawn,
       RowStates, AtRest
  <2>5. CASE Stalls(t)
    BY <2>5 DEF Stalls, TypeOK
  <2>6. CASE PollConnected(t)
    BY <1>0, <2>6 DEF PollConnected, TypeOK
  <2>7. CASE Report(t)
    BY <2>7 DEF Report, TypeOK, SetRow, Finish, Spawn, RowStates, AtRest
  <2>8. CASE PollRefused(t) \/ PollDeadline(t)
    BY <2>8 DEF PollRefused, PollDeadline, TypeOK
  <2>9. CASE WorkerFails(t)
    BY <2>9 DEF WorkerFails, TypeOK, SetRow, Finish, Spawn, RowStates, AtRest
  <2>10. CASE StopNothing(t) \/ StopEnds(t)
    BY <2>10 DEF StopNothing, StopEnds, TypeOK, ClearFiles
  <2>11. CASE StopSignals(t)
    BY <1>0, <2>11 DEF StopSignals, TypeOK
  <2>12. CASE StopOverruns(t)
    <3>1. run[t] \in Proc
      BY <2>12 DEF StopOverruns, StopTarget, TypeOK
    <3> QED BY <2>12, <3>1 DEF StopOverruns, TypeOK
  <2>13. CASE StopAborts(t)
    BY <2>13 DEF StopAborts, TypeOK
  <2>14. CASE StopDone(t)
    BY <2>14 DEF StopDone, TypeOK, ClearFiles, SetRow, Finish, Spawn, RowStates, AtRest
  <2> QED BY <1>4, <2>1, <2>2, <2>3, <2>4, <2>5, <2>6, <2>7, <2>8, <2>9, <2>10,
             <2>11, <2>12, <2>13, <2>14 DEF Work, Proceeds
<1>5. ASSUME NEW p \in Proc, Happens(p) PROVE TypeOK'
  <2> USE DEF Advance, ClearFiles, TypeOK, Stages, Lines, Networks
  <2>1. CASE HelperPrepares(p) \/ HelperCannotPrepare(p) \/ HelperReportsFailure(p)
    BY <2>1 DEF HelperPrepares, HelperCannotPrepare, HelperReportsFailure
  <2>2. CASE ForegroundFails(p) \/ ScriptWarns(p) \/ ScriptConfigures(p) \/ ScriptFails(p)
    BY <2>2 DEF ForegroundFails, ScriptWarns, ScriptConfigures, ScriptFails
  <2>3. CASE Backgrounds(p) \/ Reconnects(p)
    BY <2>3 DEF Backgrounds, Reconnects, ReconnectSucceeds, ReconnectFails, Reconfigured
  <2>4. CASE ProcessEnds(p) \/ HelperKills(p)
    BY <2>4 DEF ProcessEnds, HelperKills
  <2>5. CASE StragglerEnds(p)
    BY <2>5 DEF StragglerEnds
  <2> QED BY <1>5, <2>1, <2>2, <2>3, <2>4, <2>5 DEF Happens
<1>6. CASE Crash
  <2>1. {run[t] : t \in {u \in Thread : pc[u] = "stopping"}} \subseteq Proc
    BY DEF StopTarget, TypeOK
  <2> QED BY <1>6, <2>1 DEF Crash, TypeOK, RowStates, AtRest, PcStates, Known
<1>7. CASE UNCHANGED vars
  BY <1>7 DEF TypeOK
<1> QED BY <1>1, <1>2, <1>3, <1>4, <1>5, <1>6, <1>7 DEF Next


-----------------------------------------------------------------------------
(* Ownership.  Every step either leaves workers and busy rows alone, moves *)
(* one worker on, starts one on a row at rest, or brings one to its end.   *)

\* A call in progress is about some VPN.
CallTarget == \A r \in Request : op[r] # "none" => on[r] # None

LEMMA OwnershipInit == Init => Ownership /\ StopTarget /\ CallTarget
BY DEF Init, Ownership, OwnershipOf, OneWorker, Owned, StopTarget, CallTarget,
       Busy, ConnectPc

LEMMA OwnershipKept ==
    ASSUME TypeOK, Ownership, UNCHANGED <<pc, kind, job>>,
           \A v \in Vpn : state[v] \in Busy \/ state'[v] \in Busy => state'[v] = state[v]
    PROVE  Ownership'
<1>1. \A t \in Thread : OwnershipOf(t)'
  <2> SUFFICES ASSUME NEW t \in Thread PROVE OwnershipOf(t)'
    OBVIOUS
  <2>1. OwnershipOf(t)
    BY DEF Ownership
  <2>2. job[t] # None => job[t] \in Vpn
    BY DEF TypeOK
  <2> QED BY <2>1, <2>2 DEF OwnershipOf, Busy
<1>2. OneWorker'
  BY DEF Ownership, OneWorker
<1>3. Owned'
  BY DEF Ownership, Owned
<1> QED BY <1>1, <1>2, <1>3 DEF Ownership

LEMMA OwnershipMoves ==
    ASSUME TypeOK, Ownership, NEW t \in Thread, NEW l \in PcStates \ {"idle"},
           pc[t] # "idle", l \in ConnectPc => kind[t] = "connect",
           pc' = [pc EXCEPT ![t] = l], UNCHANGED <<kind, job, state>>
    PROVE  Ownership'
<1>1. \A u \in Thread : OwnershipOf(u)'
  BY DEF Ownership, OwnershipOf, TypeOK
<1>2. OneWorker' /\ Owned'
  BY DEF Ownership, OneWorker, Owned
<1> QED BY <1>1, <1>2 DEF Ownership

LEMMA OwnershipStarts ==
    ASSUME TypeOK, Ownership, NEW t \in Thread, NEW v \in Vpn, NEW p,
           pc[t] = "idle", state[v] \notin Busy,
           \/ SetRow(v, "connecting", None) /\ Spawn(t, "connect", v, p, "probe")
           \/ SetRow(v, "disconnecting", None) /\ Spawn(t, "disconnect", v, p, "stop")
    PROVE  Ownership'
<1>1. ASSUME NEW u \in Thread, job[u] = v PROVE FALSE
  <2>1. kind[u] = "connect" \/ kind[u] = "disconnect"
    BY <1>1, NoneAssumption DEF Ownership, OwnershipOf, TypeOK
  <2> QED BY <1>1, <2>1 DEF Ownership, OwnershipOf, Busy
<1>2. \A u \in Thread : OwnershipOf(u)'
  <2> SUFFICES ASSUME NEW u \in Thread PROVE OwnershipOf(u)'
    OBVIOUS
  <2>1. CASE u = t
    BY <2>1, NoneAssumption DEF OwnershipOf, TypeOK, SetRow, Spawn, ConnectPc
  <2>2. CASE u # t
    <3>1. OwnershipOf(u) /\ job[u] # v
      BY <1>1 DEF Ownership
    <3>2. pc'[u] = pc[u] /\ kind'[u] = kind[u] /\ job'[u] = job[u]
      BY <2>2 DEF Spawn, TypeOK
    <3>3. state'[job[u]] = state[job[u]] \/ job[u] = None
      BY <3>1 DEF SetRow, TypeOK
    <3> QED BY <3>1, <3>2, <3>3 DEF OwnershipOf
  <2> QED BY <2>1, <2>2
<1>3. OneWorker'
  BY <1>1 DEF Ownership, OneWorker, TypeOK, Spawn
<1>4. Owned'
  <2> SUFFICES ASSUME NEW w \in Vpn, state'[w] \in Busy
               PROVE  \E u \in Thread : job'[u] = w
    BY DEF Owned
  <2>1. CASE w = v
    BY <2>1 DEF Spawn, TypeOK
  <2>2. CASE w # v
    <3>1. state[w] \in Busy
      BY <2>2 DEF SetRow, TypeOK
    <3>2. PICK u \in Thread : job[u] = w
      BY <3>1 DEF Ownership, Owned
    <3>3. u # t
      BY <3>2, NoneAssumption DEF Ownership, OwnershipOf
    <3> QED BY <3>2, <3>3 DEF Spawn, TypeOK
  <2> QED BY <2>1, <2>2
<1> QED BY <1>2, <1>3, <1>4 DEF Ownership

LEMMA OwnershipEnds ==
    ASSUME TypeOK, Ownership, NEW t \in Thread, NEW s \in AtRest, NEW p,
           pc[t] # "idle", SetRow(job[t], s, p), Finish(t)
    PROVE  Ownership'
<1>0. job[t] \in Vpn
  BY DEF Ownership, OwnershipOf, TypeOK
<1>1. \A u \in Thread : u # t => job[u] # job[t]
  BY <1>0, NoneAssumption DEF Ownership, OneWorker
<1>2. \A u \in Thread : OwnershipOf(u)'
  <2> SUFFICES ASSUME NEW u \in Thread PROVE OwnershipOf(u)'
    OBVIOUS
  <2>1. CASE u = t
    BY <2>1 DEF OwnershipOf, TypeOK, Finish, Spawn, ConnectPc
  <2>2. CASE u # t
    <3>1. OwnershipOf(u) /\ job[u] # job[t]
      BY <1>1, <2>2 DEF Ownership
    <3>2. pc'[u] = pc[u] /\ kind'[u] = kind[u] /\ job'[u] = job[u]
      BY <2>2 DEF Finish, Spawn, TypeOK
    <3>3. state'[job[u]] = state[job[u]] \/ job[u] = None
      BY <3>1 DEF SetRow, TypeOK
    <3> QED BY <3>1, <3>2, <3>3 DEF OwnershipOf
  <2> QED BY <2>1, <2>2
<1>3. OneWorker'
  BY <1>1 DEF Ownership, OneWorker, TypeOK, Finish, Spawn
<1>4. Owned'
  <2> SUFFICES ASSUME NEW w \in Vpn, state'[w] \in Busy
               PROVE  \E u \in Thread : job'[u] = w
    BY DEF Owned
  <2>1. w # job[t] /\ state[w] \in Busy
    BY DEF SetRow, TypeOK, AtRest, Busy
  <2>2. PICK u \in Thread : job[u] = w
    BY <2>1 DEF Ownership, Owned
  <2> QED BY <2>1, <2>2 DEF Finish, Spawn, TypeOK
<1> QED BY <1>2, <1>3, <1>4 DEF Ownership

\* A refresh touches no busy row and makes none busy.
LEMMA RefreshSparesBusy ==
    ASSUME NEW STATE s, NEW v
    PROVE  RefreshedState(s, v) \in Busy \/ s[v] \in Busy => RefreshedState(s, v) = s[v]
BY DEF RefreshedState, Adopted, Unconfigured, Dropped, Busy, Mutable

LEMMA OwnershipStep ==
    TypeOK /\ Ownership /\ StopTarget /\ CallTarget /\ [Next]_vars => Ownership'
<1> SUFFICES ASSUME TypeOK, Ownership, StopTarget, CallTarget, [Next]_vars
             PROVE  Ownership'
  OBVIOUS
<1> USE DEF vars, rows, files, procs, workers, requests
<1>1. CASE Read
  BY <1>1, OwnershipKept, RefreshSparesBusy DEF Read, Refresh
<1>2. ASSUME NEW r \in Request, Call(r) PROVE Ownership'
  <2>1. ASSUME NEW o \in {"connect", "disconnect"}, NEW v \in Vpn, Arrive(r, o, v)
        PROVE Ownership'
    BY <2>1, OwnershipKept, RefreshSparesBusy DEF Arrive, Refresh
  <2>2. ASSUME NEW t \in Thread, NEW p \in Proc, AcceptConnect(r, t, p)
        PROVE Ownership'
    <3>1. on[r] \in Vpn /\ state[on[r]] \notin Busy
      BY <2>2 DEF AcceptConnect, CanConnect, TypeOK, Mutable, Busy
    <3> QED BY <2>2, <3>1, OwnershipStarts DEF AcceptConnect
  <2>3. ASSUME NEW t \in Thread, AcceptDisconnect(r, t) PROVE Ownership'
    <3>1. on[r] \in Vpn /\ state[on[r]] \notin Busy
      BY <2>3 DEF AcceptDisconnect, CanDisconnect, CallTarget, TypeOK, AtRest, Busy
    <3> QED BY <2>3, <3>1, OwnershipStarts DEF AcceptDisconnect
  <2>4. CASE Refuse(r)
    BY <2>4, OwnershipKept DEF Refuse
  <2> QED BY <1>2, <2>1, <2>2, <2>3, <2>4 DEF Call
<1>3. ASSUME NEW v \in Vpn, Define(v) PROVE Ownership'
  <2>1. CASE CreateVpn(v)
    <3> DEFINE s == [state EXCEPT ![v] = "disconnected"]
    <3>1. \A w \in Vpn : state'[w] = RefreshedState(s, w)
      BY <2>1 DEF CreateVpn, Refresh
    <3>2. \A w \in Vpn : s[w] \in Busy \/ state[w] \in Busy => s[w] = state[w]
      BY <2>1 DEF CreateVpn, Known, Busy, TypeOK
    <3> HIDE DEF s
    <3>3. \A w \in Vpn : state[w] \in Busy \/ state'[w] \in Busy => state'[w] = state[w]
      BY <3>1, <3>2, RefreshSparesBusy
    <3> QED BY <2>1, <3>3, OwnershipKept DEF CreateVpn
  <2>2. CASE EditVpn(v)
    BY <2>2, OwnershipKept, RefreshSparesBusy DEF EditVpn, Refresh
  <2>3. CASE DeleteVpn(v)
    <3>1. state[v] \notin Busy
      BY <2>3, RefreshSparesBusy DEF DeleteVpn, Mutable, Busy
    <3>2. \A w \in Vpn : state[w] \in Busy \/ state'[w] \in Busy => state'[w] = state[w]
      BY <2>3, <3>1, RefreshSparesBusy DEF DeleteVpn, Busy
    <3> QED BY <2>3, <3>2, OwnershipKept DEF DeleteVpn
  <2> QED BY <1>3, <2>1, <2>2, <2>3 DEF Define
<1>4. ASSUME NEW t \in Thread, Work(t) PROVE Ownership'
  <2>0. pc[t] \in ConnectPc => kind[t] = "connect"
    BY DEF Ownership, OwnershipOf
  <2> USE DEF PcStates, ConnectPc, StopPc
  <2>1. CASE Probed(t) \/ Launch(t) \/ ReturnsOk(t) \/ Stalls(t)
    BY <2>0, <2>1, OwnershipMoves DEF Probed, Launch, ReturnsOk, Stalls, Goto
  <2>2. CASE PollConnected(t) \/ PollRefused(t) \/ PollDeadline(t)
    BY <2>0, <2>2, OwnershipMoves DEF PollConnected, PollRefused, PollDeadline, Goto
  <2>3. CASE StopNothing(t) \/ StopSignals(t) \/ StopEnds(t) \/ StopOverruns(t) \/ StopAborts(t)
    BY <2>3, OwnershipMoves
       DEF StopNothing, StopSignals, StopEnds, StopOverruns, StopAborts, Goto
  <2>4. CASE ReturnsFailed(t) \/ Report(t) \/ PollDead(t) \/ WorkerFails(t)
    BY <2>4, OwnershipEnds DEF ReturnsFailed, Report, PollDead, WorkerFails, AtRest
  <2>5. CASE StopDone(t)
    BY <2>5, OwnershipEnds DEF StopDone, AtRest
  <2> QED BY <1>4, <2>1, <2>2, <2>3, <2>4, <2>5 DEF Work, Proceeds
<1>5. ASSUME NEW p \in Proc, Happens(p) PROVE Ownership'
  <2>1. UNCHANGED <<state, pc, kind, job>>
    BY <1>5 DEF Happens, HelperPrepares, HelperCannotPrepare, HelperReportsFailure,
         ForegroundFails, ScriptWarns, ScriptConfigures, ScriptFails, Backgrounds,
         Reconnects, ProcessEnds, HelperKills, StragglerEnds
  <2> QED BY <2>1, OwnershipKept
<1>6. CASE Crash
  BY <1>6 DEF Crash, Ownership, OwnershipOf, OneWorker, Owned, Busy, ConnectPc, Known, TypeOK
<1>7. CASE UNCHANGED vars
  BY <1>7, OwnershipKept
<1> QED BY <1>1, <1>2, <1>3, <1>4, <1>5, <1>6, <1>7 DEF Next

LEMMA TargetsStep ==
    TypeOK /\ Ownership /\ StopTarget /\ CallTarget /\ [Next]_vars
        => StopTarget' /\ CallTarget'
<1> SUFFICES ASSUME TypeOK, Ownership, StopTarget, CallTarget, [Next]_vars
             PROVE  StopTarget' /\ CallTarget'
  OBVIOUS
<1> USE DEF vars, rows, files, procs, workers, requests
<1>1. ASSUME UNCHANGED <<pc, run, op, on>> PROVE StopTarget' /\ CallTarget'
  BY <1>1 DEF StopTarget, CallTarget
<1>2. CASE Read
  BY <1>1, <1>2 DEF Read
<1>3. ASSUME NEW r \in Request, Call(r) PROVE StopTarget' /\ CallTarget'
  <2>1. ASSUME NEW o \in {"connect", "disconnect"}, NEW v \in Vpn, Arrive(r, o, v)
        PROVE StopTarget' /\ CallTarget'
    BY <2>1, NoneAssumption DEF Arrive, StopTarget, CallTarget, TypeOK
  <2>2. ASSUME NEW t \in Thread, NEW p \in Proc, AcceptConnect(r, t, p)
        PROVE StopTarget' /\ CallTarget'
    BY <2>2 DEF AcceptConnect, Spawn, Answer, StopTarget, CallTarget, TypeOK
  <2>3. ASSUME NEW t \in Thread, AcceptDisconnect(r, t) PROVE StopTarget' /\ CallTarget'
    BY <2>3 DEF AcceptDisconnect, Spawn, Answer, StopTarget, CallTarget, TypeOK
  <2>4. CASE Refuse(r)
    BY <2>4 DEF Refuse, Answer, StopTarget, CallTarget, TypeOK
  <2> QED BY <1>3, <2>1, <2>2, <2>3, <2>4 DEF Call
<1>4. ASSUME NEW v \in Vpn, Define(v) PROVE StopTarget' /\ CallTarget'
  BY <1>1, <1>4 DEF Define, CreateVpn, EditVpn, DeleteVpn
<1>5. ASSUME NEW t \in Thread, Work(t) PROVE StopTarget' /\ CallTarget'
  <2>1. CASE StopSignals(t)
    <3>1. pidFile[job[t]] # None
      BY <2>1 DEF StopSignals, LivePid
    <3> QED BY <2>1, <3>1 DEF StopSignals, StopTarget, CallTarget, TypeOK
  <2>2. CASE ~StopSignals(t)
    <3>1. /\ UNCHANGED <<op, on>>
          /\ \E l \in PcStates \ {"stopping"} : pc' = [pc EXCEPT ![t] = l]
          /\ \E p : run' = [run EXCEPT ![t] = p]
      <4>1. [run EXCEPT ![t] = run[t]] = run
        BY DEF TypeOK
      <4> QED BY <1>5, <2>2, <4>1
           DEF Work, Proceeds, Probed, Launch, ReturnsOk, ReturnsFailed, Stalls, PollConnected,
               Report,
               PollDead, PollRefused, PollDeadline, WorkerFails, StopNothing, StopEnds,
               StopOverruns, StopAborts, StopDone, Goto, Finish, Spawn, PcStates,
               ConnectPc, StopPc
    <3> QED BY <3>1 DEF StopTarget, CallTarget, TypeOK
  <2> QED BY <2>1, <2>2
<1>6. ASSUME NEW p \in Proc, Happens(p) PROVE StopTarget' /\ CallTarget'
  BY <1>1, <1>6 DEF Happens, HelperPrepares, HelperCannotPrepare, HelperReportsFailure,
       ForegroundFails, ScriptWarns, ScriptConfigures, ScriptFails, Backgrounds,
       Reconnects, ProcessEnds, HelperKills, StragglerEnds
<1>7. CASE Crash
  BY <1>7 DEF Crash, StopTarget, CallTarget
<1>8. CASE UNCHANGED vars
  BY <1>1, <1>8
<1> QED BY <1>2, <1>3, <1>4, <1>5, <1>6, <1>7, <1>8 DEF Next

\* A run that was ever started belongs to a VPN.
Assigned == \A p \in Proc : stage[p] # "idle" => vpnOf[p] # None

LEMMA AssignedInit == Init => Assigned
BY NoneAssumption DEF Init, Leftover, Assigned

LEMMA AssignedStep == TypeOK /\ Ownership /\ Assigned /\ [Next]_vars => Assigned'
<1> SUFFICES ASSUME TypeOK, Ownership, Assigned, [Next]_vars PROVE Assigned'
  OBVIOUS
<1> USE DEF vars, rows, files, procs, workers, requests
<1>1. ASSUME UNCHANGED <<stage, vpnOf>> PROVE Assigned'
  BY <1>1 DEF Assigned
<1>2. CASE Read \/ Crash \/ UNCHANGED vars
  BY <1>1, <1>2 DEF Read, Crash
<1>3. ASSUME NEW r \in Request, Call(r) PROVE Assigned'
  BY <1>1, <1>3 DEF Call, Arrive, AcceptConnect, AcceptDisconnect, Refuse
<1>4. ASSUME NEW v \in Vpn, Define(v) PROVE Assigned'
  BY <1>1, <1>4 DEF Define, CreateVpn, EditVpn, DeleteVpn
<1>5. ASSUME NEW t \in Thread, Work(t) PROVE Assigned'
  <2>1. CASE Launch(t)
    <3>1. job[t] # None
      BY <2>1 DEF Launch, Ownership, OwnershipOf
    <3> QED BY <2>1, <3>1 DEF Launch, Assigned, TypeOK
  <2>2. CASE ~Launch(t)
    BY <1>1, <1>5, <2>2
       DEF Work, Proceeds, Probed, ReturnsOk, ReturnsFailed, Stalls, PollConnected, Report,
           PollDead, PollRefused, PollDeadline, WorkerFails, StopNothing, StopSignals,
           StopEnds, StopOverruns, StopAborts, StopDone
  <2> QED BY <2>1, <2>2
<1>6. ASSUME NEW p \in Proc, Happens(p) PROVE Assigned'
  <2>1. /\ UNCHANGED vpnOf
        /\ \/ UNCHANGED stage
           \/ \E s : stage[p] # "idle" /\ stage' = [stage EXCEPT ![p] = s]
    BY <1>6 DEF Happens, HelperPrepares, HelperCannotPrepare, HelperReportsFailure,
         ForegroundFails, ScriptWarns, ScriptConfigures, ScriptFails, Backgrounds,
         Reconnects, ProcessEnds, HelperKills, StragglerEnds, Advance
  <2> QED BY <2>1 DEF Assigned, TypeOK
<1> QED BY <1>2, <1>3, <1>4, <1>5, <1>6 DEF Next

Owning == TypeOK /\ Ownership /\ StopTarget /\ CallTarget /\ Assigned

LEMMA OwningInit == Init => Owning
BY TypeInit, OwnershipInit, AssignedInit DEF Owning

LEMMA OwningStep == Owning /\ [Next]_vars => Owning'
BY TypeStep, OwnershipStep, TargetsStep, AssignedStep DEF Owning

LEMMA OwningInvariant == Spec => []Owning
BY OwningInit, OwningStep, PTL DEF Spec

\* Every row, file, process and worker keeps to the states the code has for it,
\* whatever faults happen.
THEOREM TypeCorrect == Spec => []TypeOK
BY OwningInvariant, PTL DEF Owning

\* A busy row has exactly one worker, whatever faults happen: helpers that
\* overrun, disconnects that fail silently and restarts included.
THEOREM OwnershipHolds == Spec => []Ownership
BY OwningInvariant, PTL DEF Owning

-----------------------------------------------------------------------------
(* Handover: who may have a process running, when no fault happens.  The   *)
(* argument is in three lemmas: what a step may do that only tidies up     *)
(* files, that moves a worker, or that moves a helper on.                  *)

\* A VPN without a live pid file and without a helper that is waited for has
\* nothing running: the pid file is the handle.
LEMMA NoPidNothingRuns ==
    ASSUME Owning, Handover, NEW v \in Vpn, ~LivePid(v),
           \A t \in Thread : pc[t] = "call" => job[t] # v
    PROVE  NothingRunsOn(v)
<1> SUFFICES ASSUME NEW p \in Proc, vpnOf[p] = v, stage[p] \in Running PROVE FALSE
  BY DEF NothingRunsOn
<1>1. CASE stage[p] = "up"
  BY <1>1, NoneAssumption DEF Handover, PidFileIsTheHandle, LivePid, Running
<1>2. CASE stage[p] \in {"auth", "scripted"}
  BY <1>2 DEF Handover, Attended, InForeground
<1> QED BY <1>1, <1>2 DEF Running

\* Other workers are on other VPNs.
LEMMA OtherJobs ==
    ASSUME Owning, NEW t \in Thread, pc[t] # "idle"
    PROVE  job[t] \in Vpn /\ \A u \in Thread : job[u] = job[t] => u = t
BY NoneAssumption DEF Owning, Ownership, OwnershipOf, OneWorker, TypeOK

\* Removing pid files that name no live process.
TidyFiles == \A v \in Vpn :
    \/ pidFile'[v] = pidFile[v]
    \/ pidFile'[v] = None /\ ~LivePid(v)

LEMMA HandoverTidied ==
    ASSUME Owning, Handover, TidyFiles, UNCHANGED <<stage, vpnOf>>
    PROVE  PidFileIsTheHandle' /\ PidFilesTrue'
<1>1. ASSUME NEW p \in Proc, stage[p] = "up" PROVE pidFile'[vpnOf[p]] = p
  <2>1. vpnOf[p] \in Vpn /\ pidFile[vpnOf[p]] = p
    BY <1>1 DEF Owning, Assigned, TypeOK, Handover, PidFileIsTheHandle
  <2>2. LivePid(vpnOf[p])
    BY <1>1, <2>1, NoneAssumption DEF LivePid, Running
  <2> QED BY <2>1, <2>2 DEF TidyFiles
<1>2. PidFilesTrue'
  BY DEF Handover, PidFilesTrue, TidyFiles
<1> QED BY <1>1, <1>2 DEF PidFileIsTheHandle

LEMMA HandoverKept ==
    ASSUME Owning, Handover, TidyFiles,
           UNCHANGED <<stage, vpnOf, pc, run, job, stragglers>>,
           \A v \in Vpn : state'[v] = "absent" => NothingRunsOn(v)
    PROVE  Handover'
<1>1. Attended' /\ NoOrphans'
  BY DEF Handover, Attended, NoOrphans, NothingRunsOn, Known
<1>2. ASSUME NEW t \in Thread PROVE FreshRun(t)' /\ MayRun(t)'
  <2>1. FreshRun(t) /\ MayRun(t)
    BY DEF Handover
  <2>2. run[t] # None => \A v \in Vpn : pidFile[v] # run[t] => pidFile'[v] # run[t]
    BY DEF TidyFiles
  <2> QED BY <2>1, <2>2 DEF FreshRun, MayRun, NothingRunsOn
<1> QED BY <1>1, <1>2, HandoverTidied DEF Handover

\* Worker t goes from where it is to l, with run q and job v.
LEMMA HandoverMoves ==
    ASSUME Owning, Handover, TidyFiles, UNCHANGED <<stage, vpnOf, stragglers>>,
           NEW t \in Thread, NEW l, NEW q, NEW v,
           pc' = [pc EXCEPT ![t] = l], run' = [run EXCEPT ![t] = q],
           job' = [job EXCEPT ![t] = v],
           \A w \in Vpn : state'[w] = "absent" => state[w] = "absent",
           pc[t] = "call" => stage[run[t]] \notin InForeground,
           l \in {"probe", "launch", "call", "stopping"} =>
               \A u \in Thread \ {t} : pc[u] \in {"probe", "launch"} => run[u] # q,
           FreshRun(t)', MayRun(t)'
    PROVE  Handover'
<1> USE DEF Owning, TypeOK
<1>1. Attended'
  BY DEF Handover, Attended
<1>2. NoOrphans'
  BY DEF Handover, NoOrphans, NothingRunsOn, Known
<1>3. ASSUME NEW u \in Thread, u # t PROVE FreshRun(u)' /\ MayRun(u)'
  <2>1. FreshRun(u) /\ MayRun(u)
    BY DEF Handover
  <2>2. pc'[u] = pc[u] /\ run'[u] = run[u] /\ job'[u] = job[u]
    BY <1>3
  <2>3. FreshRun(u)'
    <3>1. SUFFICES ASSUME pc[u] \in {"probe", "launch"} PROVE FreshRun(u)'
      BY <2>2 DEF FreshRun
    <3>2. /\ run[u] # None /\ stage[run[u]] \in {"idle", "failed", "dead"}
          /\ \A w \in Vpn : pidFile[w] # run[u]
          /\ \A w \in Thread : pc[w] \in {"probe", "launch", "call", "stopping"}
                               /\ run[w] = run[u] => w = u
      BY <2>1, <3>1 DEF FreshRun
    <3>3. \A w \in Vpn : pidFile'[w] # run[u]
      BY <3>2 DEF TidyFiles
    <3>4. \A w \in Thread : pc'[w] \in {"probe", "launch", "call", "stopping"}
                            /\ run'[w] = run[u] => w = u
      BY <1>3, <3>1, <3>2
    <3> QED BY <2>2, <3>2, <3>3, <3>4 DEF FreshRun
  <2>4. MayRun(u)'
    BY <2>1, <2>2 DEF MayRun, NothingRunsOn
  <2> QED BY <2>3, <2>4
<1> QED BY <1>1, <1>2, <1>3, HandoverTidied DEF Handover

\* The helper of run p goes on to stage s; p is waited for by a worker of its
\* VPN, on which nothing else may run.
LEMMA HelperMoves ==
    ASSUME Owning, Handover, NEW p \in Proc, stage[p] \in InForeground,
           NEW s \in {"auth", "scripted", "exited", "failed", "up"},
           stage' = [stage EXCEPT ![p] = s],
           UNCHANGED <<state, vpnOf, pc, run, job, stragglers>>,
           \/ s # "up" /\ UNCHANGED pidFile
           \/ s # "up" /\ pidFile' = [pidFile EXCEPT ![vpnOf[p]] = None]
           \/ s = "up" /\ pidFile' = [pidFile EXCEPT ![vpnOf[p]] = p]
    PROVE  Handover'
<1> USE DEF Owning, TypeOK
<1>1. PICK t \in Thread : pc[t] = "call" /\ run[t] = p /\ job[t] = vpnOf[p]
  BY DEF Handover, Attended
<1>2. vpnOf[p] \in Vpn /\ Known(vpnOf[p]) /\ \A u \in Thread : job[u] = vpnOf[p] => u = t
  <2>1. kind[t] = "connect"
    BY <1>1 DEF Ownership, OwnershipOf, ConnectPc
  <2> QED BY <1>1, <2>1, OtherJobs DEF Ownership, OwnershipOf, Known
<1>3. \A q \in Proc : vpnOf[q] = vpnOf[p] /\ stage[q] \in Running => q = p
  BY <1>1 DEF Handover, MayRun
<1>4. \A v \in Vpn : pidFile[v] # p
  BY NoneAssumption DEF Handover, PidFilesTrue, InForeground
<1>5. Attended'
  BY <1>1 DEF Handover, Attended, InForeground
<1>6. PidFileIsTheHandle'
  <2> SUFFICES ASSUME NEW q \in Proc, stage'[q] = "up" PROVE pidFile'[vpnOf[q]] = q
    BY DEF PidFileIsTheHandle
  <2>1. CASE q = p
    BY <1>2, <2>1
  <2>2. CASE q # p
    <3>1. stage[q] = "up" /\ pidFile[vpnOf[q]] = q /\ vpnOf[q] # vpnOf[p]
      BY <1>3, <2>2 DEF Handover, PidFileIsTheHandle, Running
    <3> QED BY <3>1 DEF Assigned
  <2> QED BY <2>1, <2>2
<1>7. PidFilesTrue'
  BY <1>2, <1>4 DEF Handover, PidFilesTrue
<1>8. NoOrphans'
  BY <1>2 DEF Handover, NoOrphans, NothingRunsOn, Known
<1>9. ASSUME NEW u \in Thread PROVE FreshRun(u)' /\ MayRun(u)'
  <2>1. FreshRun(u) /\ MayRun(u)
    BY DEF Handover
  <2>2. FreshRun(u)'
    <3>1. pc[u] \in {"probe", "launch"} => run[u] # p
      BY <1>1, <2>1 DEF FreshRun
    <3>2. pc[u] \in {"probe", "launch"} => \A v \in Vpn : pidFile'[v] # run[u]
      BY <2>1, <3>1 DEF FreshRun
    <3> QED BY <2>1, <3>1, <3>2 DEF FreshRun
  <2>3. CASE u = t
    BY <1>1, <1>3, <2>1, <2>2, <2>3 DEF MayRun
  <2>4. CASE u # t
    <3>1. job[u] # vpnOf[p]
      BY <1>2, <2>4
    <3>2. pc[u] = "stopping" => run[u] # p
      BY <2>1 DEF MayRun, InForeground
    <3> QED BY <2>1, <2>2, <3>1, <3>2 DEF MayRun, NothingRunsOn
  <2> QED BY <2>3, <2>4
<1> QED BY <1>5, <1>6, <1>7, <1>8, <1>9 DEF Handover

\* A detached process ends; what it may remove is its own pid file.
LEMMA HandoverEnds ==
    ASSUME Owning, Handover, NEW p \in Proc, ProcessEnds(p)
    PROVE  Handover'
<1> USE DEF Owning, TypeOK
<1>1. /\ stage[p] = "up" /\ stage' = [stage EXCEPT ![p] = "dead"]
      /\ UNCHANGED <<state, vpnOf, pc, run, job, stragglers>>
      /\ pidFile' = pidFile \/ pidFile' = [pidFile EXCEPT ![vpnOf[p]] = None]
  BY DEF ProcessEnds, Advance, rows, workers
<1>2. pidFile[vpnOf[p]] = p
  BY <1>1 DEF Handover, PidFileIsTheHandle
<1>3. Attended' /\ NoOrphans'
  BY <1>1 DEF Handover, Attended, NoOrphans, NothingRunsOn, Known, InForeground, Running
<1>4. PidFileIsTheHandle'
  <2> SUFFICES ASSUME NEW q \in Proc, stage'[q] = "up" PROVE pidFile'[vpnOf[q]] = q
    BY <1>1 DEF PidFileIsTheHandle
  <2>1. stage[q] = "up" /\ q # p
    BY <1>1
  <2>2. pidFile[vpnOf[q]] = q /\ vpnOf[q] \in Vpn
    BY <2>1 DEF Handover, PidFileIsTheHandle, Assigned
  <2>3. vpnOf[q] # vpnOf[p]
    BY <1>2, <2>1, <2>2
  <2> QED BY <1>1, <2>2, <2>3
<1>5. PidFilesTrue'
  BY <1>1 DEF Handover, PidFilesTrue
<1>6. ASSUME NEW u \in Thread PROVE FreshRun(u)' /\ MayRun(u)'
  <2>1. FreshRun(u) /\ MayRun(u)
    BY DEF Handover
  <2>2. FreshRun(u)'
    BY <1>1, <2>1 DEF FreshRun
  <2>3. MayRun(u)'
    BY <1>1, <2>1 DEF MayRun, NothingRunsOn, Running
  <2> QED BY <2>2, <2>3
<1> QED BY <1>1, <1>3, <1>4, <1>5, <1>6 DEF Handover

LEMMA HandoverLaunches ==
    ASSUME Owning, Handover, NEW t \in Thread, Launch(t)
    PROVE  Handover'
<1> USE DEF Owning, TypeOK
<1> DEFINE p == run[t]
<1>1. /\ pc[t] = "launch" /\ pc' = [pc EXCEPT ![t] = "call"]
      /\ stage' = [stage EXCEPT ![p] = "prepare"] /\ vpnOf' = [vpnOf EXCEPT ![p] = job[t]]
      /\ UNCHANGED <<state, pidFile, run, job, stragglers>>
  BY DEF Launch, Goto, rows, files
<1>2. /\ p \in Proc /\ stage[p] \in {"idle", "failed", "dead"}
      /\ \A v \in Vpn : pidFile[v] # p
      /\ \A u \in Thread : pc[u] \in {"probe", "launch", "call", "stopping"} /\ run[u] = p
                             => u = t
  BY <1>1 DEF Handover, FreshRun
<1>3. NothingRunsOn(job[t]) /\ job[t] \in Vpn
  BY <1>1, OtherJobs DEF Handover, MayRun
<1>4. \A q \in Proc : q # p => stage'[q] = stage[q] /\ vpnOf'[q] = vpnOf[q]
  BY <1>1
<1>5. stage'[p] = "prepare" /\ vpnOf'[p] = job[t]
  BY <1>1, <1>2
<1> HIDE DEF p
<1>6. Attended'
  <2> SUFFICES ASSUME NEW q \in Proc, stage'[q] \in InForeground
               PROVE  \E u \in Thread : pc'[u] = "call" /\ run'[u] = q /\ job'[u] = vpnOf'[q]
    BY DEF Attended
  <2>1. CASE q = p
    BY <1>1, <1>5, <2>1 DEF p
  <2>2. CASE q # p
    <3>1. PICK u \in Thread : pc[u] = "call" /\ run[u] = q /\ job[u] = vpnOf[q]
      BY <1>4, <2>2 DEF Handover, Attended
    <3> QED BY <1>1, <1>4, <2>2, <3>1
  <2> QED BY <2>1, <2>2
<1>7. PidFileIsTheHandle' /\ PidFilesTrue'
  BY <1>1, <1>2, <1>4, <1>5 DEF Handover, PidFileIsTheHandle, PidFilesTrue
<1>8. NoOrphans'
  BY <1>1, <1>4, <1>5 DEF Handover, NoOrphans, NothingRunsOn, Known, Running
<1>9. ASSUME NEW u \in Thread PROVE FreshRun(u)' /\ MayRun(u)'
  <2>1. FreshRun(u) /\ MayRun(u)
    BY DEF Handover
  <2>2. CASE u = t
    <3>1. pc'[u] = "call" /\ run'[u] = p /\ job'[u] = job[t]
      BY <1>1, <2>2 DEF p
    <3>2. \A q \in Proc : vpnOf'[q] = job[t] /\ stage'[q] \in Running => q = p
      BY <1>3, <1>4 DEF NothingRunsOn
    <3> QED BY <1>2, <1>5, <3>1, <3>2, NoneAssumption DEF FreshRun, MayRun
  <2>3. CASE u # t
    <3>1. pc'[u] = pc[u] /\ run'[u] = run[u] /\ job'[u] = job[u]
      BY <1>1, <2>3
    <3>2. pc[u] \in {"probe", "launch", "call", "stopping"} => run[u] # p
      BY <1>2, <2>3
    <3>3. FreshRun(u)'
      BY <1>1, <1>4, <2>1, <2>3, <3>1, <3>2, <1>2 DEF FreshRun
    <3>4. MayRun(u)'
      BY <1>4, <1>5, <2>1, <3>1, <3>2 DEF MayRun, NothingRunsOn, Running
    <3> QED BY <3>3, <3>4
  <2> QED BY <2>2, <2>3
<1> QED BY <1>1, <1>6, <1>7, <1>8, <1>9 DEF Handover

LEMMA HandoverInit == Init => Handover
<1> SUFFICES ASSUME Init PROVE Handover
  OBVIOUS
<1>1. \A t \in Thread : FreshRun(t) /\ MayRun(t)
  BY DEF Init, FreshRun, MayRun
<1>2. Attended /\ PidFilesTrue
  BY DEF Init, Leftover, Attended, PidFilesTrue, InForeground
<1>3. PidFileIsTheHandle
  BY NoneAssumption DEF Init, Leftover, PidFileIsTheHandle
<1>4. NoOrphans
  <2> SUFFICES ASSUME NEW v \in Vpn, ~Known(v), NEW p \in Proc, vpnOf[p] = v,
                      stage[p] \in Running
               PROVE  FALSE
    BY DEF NoOrphans, NothingRunsOn
  <2>1. PICK w \in Vpn : pidFile[w] = p
    BY DEF Init, Running
  <2>2. Known(w) /\ vpnOf[p] = w
    BY <2>1, NoneAssumption DEF Init, Leftover
  <2> QED BY <2>2
<1> QED BY <1>1, <1>2, <1>3, <1>4 DEF Init, Handover

\* A refresh only removes pid files with a dead pid, and makes no row absent.
LEMMA RefreshTidies ==
    ASSUME NEW STATE s, Refresh(s)
    PROVE  TidyFiles /\ \A v \in Vpn : state'[v] = "absent" => s[v] = "absent"
<1>1. TidyFiles
  BY DEF Refresh, RefreshFiles, Stale, DeadPid, LivePid, TidyFiles
<1>2. \A v \in Vpn : state'[v] = "absent" => s[v] = "absent"
  BY DEF Refresh, RefreshedState
<1> QED BY <1>1, <1>2

\* _clear_files tidies up when nothing runs on the VPN.
LEMMA ClearTidies ==
    ASSUME Owning, Handover, NEW v \in Vpn, ClearFiles(v), NothingRunsOn(v) \/ ~LivePid(v)
    PROVE  TidyFiles
<1>1. ~LivePid(v)
  BY DEF Handover, PidFilesTrue, LivePid, NothingRunsOn, Owning, TypeOK
<1> QED BY <1>1 DEF ClearFiles, TidyFiles, Owning, TypeOK

LEMMA HandoverWorks ==
    ASSUME Owning, Handover, Faults = {}, NEW t \in Thread, Work(t)
    PROVE  Handover'
<1> USE DEF Owning, TypeOK, rows, files, procs, workers
<1>1. FreshRun(t) /\ MayRun(t)
  BY DEF Handover
<1>2. /\ pc[t] # "idle"
      /\ job[t] \in Vpn /\ \A u \in Thread : job[u] = job[t] => u = t
      /\ [run EXCEPT ![t] = run[t]] = run /\ [job EXCEPT ![t] = job[t]] = job
  <2>1. pc[t] # "idle"
    BY DEF Work, Proceeds, Probed, Launch, ReturnsOk, ReturnsFailed, Stalls, PollConnected,
           Report,
           PollDead, PollRefused, PollDeadline, WorkerFails, StopNothing, StopSignals,
           StopEnds, StopOverruns, StopAborts, StopDone
  <2> QED BY <2>1, OtherJobs
<1>3. \A u \in Thread \ {t} : run[t] # None /\ pc[u] \in {"probe", "launch"}
         /\ pc[t] \in {"probe", "launch", "call", "stopping"} => run[u] # run[t]
  BY DEF Handover, FreshRun
\* Where a worker is done, only its row, and the files if nothing runs, change.
<1>4. ASSUME TidyFiles, UNCHANGED <<stage, vpnOf, stragglers>>,
             NEW s \in {"error", "connected", "disconnected"}, NEW p,
             SetRow(job[t], s, p), Finish(t),
             pc[t] = "call" => stage[run[t]] \notin InForeground
      PROVE  Handover'
  <2>1. \A w \in Vpn : state'[w] = "absent" => state[w] = "absent"
    BY <1>4 DEF SetRow
  <2>2. FreshRun(t)' /\ MayRun(t)'
    BY <1>4 DEF Finish, Spawn, FreshRun, MayRun
  <2> QED BY <1>4, <2>1, <2>2, HandoverMoves DEF Finish, Spawn
<1>5. CASE Probed(t)
  <2>1. NothingRunsOn(job[t]) /\ TidyFiles
    BY <1>1, <1>2, <1>5, ClearTidies DEF Probed, MayRun
  <2>2. FreshRun(t)' /\ MayRun(t)'
    BY <1>1, <1>5, <2>1 DEF Probed, Goto, ClearFiles, TidyFiles, FreshRun, MayRun, NothingRunsOn
  <2>3. run[t] # None
    BY <1>1, <1>5 DEF Probed, FreshRun
  <2> QED BY <1>2, <1>3, <1>5, <2>1, <2>2, <2>3, HandoverMoves DEF Probed, Goto
<1>6. CASE Launch(t)
  BY <1>6, HandoverLaunches
<1>7. CASE ReturnsOk(t) \/ PollRefused(t) \/ PollDeadline(t) \/ PollConnected(t)
  <2>1. /\ TidyFiles /\ UNCHANGED <<state, stage, vpnOf, stragglers, job>>
        /\ \E l \in {"wait", "stop", "report"} : pc' = [pc EXCEPT ![t] = l]
        /\ \E q : run' = [run EXCEPT ![t] = q]
        /\ pc[t] = "call" => stage[run[t]] \notin InForeground
    BY <1>2, <1>7 DEF ReturnsOk, PollRefused, PollDeadline, PollConnected, Goto, TidyFiles,
       InForeground
  <2>2. FreshRun(t)' /\ MayRun(t)'
    BY <2>1 DEF FreshRun, MayRun
  <2> QED BY <1>2, <2>1, <2>2, HandoverMoves
<1>8. CASE ReturnsFailed(t)
  <2>1. NothingRunsOn(job[t])
    BY <1>1, <1>8 DEF ReturnsFailed, MayRun, NothingRunsOn, Running
  <2>2. TidyFiles
    BY <1>2, <1>8, <2>1, ClearTidies DEF ReturnsFailed
  <2> QED BY <1>4, <1>8, <2>2 DEF ReturnsFailed, InForeground
<1>9. CASE PollDead(t)
  <2>1. TidyFiles
    BY <1>2, <1>9, ClearTidies DEF PollDead, DeadPid, LivePid
  <2> QED BY <1>4, <1>9, <2>1 DEF PollDead
<1>10. CASE Report(t) \/ WorkerFails(t)
  BY <1>4, <1>10 DEF Report, WorkerFails, TidyFiles
<1>11. CASE StopNothing(t) \/ StopEnds(t)
  <2>1. NothingRunsOn(job[t])
    <3>1. CASE StopNothing(t)
      BY <1>2, <3>1, NoPidNothingRuns DEF StopNothing
    <3>2. CASE StopEnds(t)
      BY <1>1, <3>2 DEF StopEnds, MayRun, NothingRunsOn
    <3> QED BY <1>11, <3>1, <3>2
  <2>2. TidyFiles
    BY <1>2, <1>11, <2>1, ClearTidies DEF StopNothing, StopEnds
  <2>3. FreshRun(t)' /\ MayRun(t)'
    BY <1>11, <2>1 DEF StopNothing, StopEnds, Goto, FreshRun, MayRun, NothingRunsOn
  <2> QED BY <1>2, <1>11, <2>2, <2>3, HandoverMoves DEF StopNothing, StopEnds, Goto
<1>12. CASE StopSignals(t)
  <2> DEFINE q == pidFile[job[t]]
  <2>1. q \in Proc /\ stage[q] = "up" /\ vpnOf[q] = job[t]
    BY <1>2, <1>12 DEF StopSignals, LivePid, Handover, PidFilesTrue, Running
  <2>2. ASSUME NEW p \in Proc, vpnOf[p] = job[t], stage[p] \in Running PROVE p = q
    <3>1. stage[p] = "up"
      BY <1>2, <1>12, <2>2 DEF StopSignals, Handover, Attended, InForeground, Running
    <3> QED BY <2>2, <3>1 DEF Handover, PidFileIsTheHandle
  <2>3. \A u \in Thread : pc[u] \in {"probe", "launch"} => run[u] # q
    BY <1>2 DEF Handover, FreshRun
  <2> HIDE DEF q
  <2>4. pc' = [pc EXCEPT ![t] = "stopping"] /\ run' = [run EXCEPT ![t] = q]
        /\ UNCHANGED <<state, pidFile, stage, vpnOf, job, stragglers>> /\ pc[t] = "stop"
    BY <1>12 DEF StopSignals, q
  <2>5. FreshRun(t)' /\ MayRun(t)'
    BY <2>1, <2>2, <2>4, NoneAssumption DEF FreshRun, MayRun
  <2> QED BY <1>2, <2>3, <2>4, <2>5, HandoverMoves DEF TidyFiles
<1>13. CASE StopDone(t)
  <2>1. TidyFiles
    BY <1>1, <1>2, <1>13, ClearTidies DEF StopDone, MayRun
  <2> QED BY <1>4, <1>13, <2>1 DEF StopDone
<1>14. ~(Stalls(t) \/ StopOverruns(t) \/ StopAborts(t))
  BY DEF Stalls, StopOverruns, StopAborts
<1> QED BY <1>5, <1>6, <1>7, <1>8, <1>9, <1>10, <1>11, <1>12, <1>13, <1>14 DEF Work, Proceeds

LEMMA HandoverStep == Faults = {} /\ Owning /\ Handover /\ [Next]_vars => Handover'
<1> SUFFICES ASSUME Faults = {}, Owning, Handover, [Next]_vars PROVE Handover'
  OBVIOUS
<1> USE DEF vars, rows, files, procs, workers, requests
<1>0. ASSUME TidyFiles, UNCHANGED <<stage, vpnOf, pc, run, job, stragglers>>,
             \A v \in Vpn : state'[v] = "absent" => state[v] = "absent"
      PROVE  Handover'
  BY <1>0, HandoverKept DEF Handover, NoOrphans, Known
<1>1. CASE Read
  BY <1>0, <1>1, RefreshTidies DEF Read
<1>2. ASSUME NEW r \in Request, Call(r) PROVE Handover'
  <2>1. ASSUME NEW o \in {"connect", "disconnect"}, NEW v \in Vpn, Arrive(r, o, v)
        PROVE Handover'
    BY <1>0, <2>1, RefreshTidies DEF Arrive
  <2>2. ASSUME NEW t \in Thread, NEW p \in Proc, AcceptConnect(r, t, p) PROVE Handover'
    <3> DEFINE v == on[r]
    <3>1. v \in Vpn /\ state[v] \notin Busy /\ ~LivePid(v)
      BY <2>2 DEF AcceptConnect, CanConnect, Owning, TypeOK, Mutable, Busy
    <3>2. \A u \in Thread : job[u] # v
      BY <3>1, NoneAssumption DEF Owning, Ownership, OwnershipOf, Busy, TypeOK
    <3>3. NothingRunsOn(v)
      BY <3>1, <3>2, NoPidNothingRuns
    <3>4. /\ pc' = [pc EXCEPT ![t] = "probe"] /\ run' = [run EXCEPT ![t] = p]
          /\ job' = [job EXCEPT ![t] = v] /\ pc[t] = "idle" /\ Free(p)
          /\ UNCHANGED <<stage, vpnOf, pidFile, stragglers>>
          /\ state' = [state EXCEPT ![v] = "connecting"]
      BY <2>2 DEF AcceptConnect, SetRow, Spawn
    <3> HIDE DEF v
    <3>5. FreshRun(t)' /\ MayRun(t)'
      BY <3>3, <3>4, NoneAssumption DEF Free, FreshRun, MayRun, NothingRunsOn, Owning, TypeOK
    <3>6. /\ \A w \in Vpn : state'[w] = "absent" => state[w] = "absent"
          /\ \A u \in Thread : run[u] # p
          /\ TidyFiles
      BY <3>4 DEF Free, TidyFiles, Owning, TypeOK
    <3> QED BY <3>4, <3>5, <3>6, HandoverMoves
  <2>3. ASSUME NEW t \in Thread, AcceptDisconnect(r, t) PROVE Handover'
    <3>1. /\ pc' = [pc EXCEPT ![t] = "stop"] /\ run' = [run EXCEPT ![t] = None]
          /\ job' = [job EXCEPT ![t] = on[r]] /\ pc[t] = "idle"
          /\ UNCHANGED <<stage, vpnOf, pidFile, stragglers>>
          /\ state' = [state EXCEPT ![on[r]] = "disconnecting"]
      BY <2>3 DEF AcceptDisconnect, SetRow, Spawn
    <3>2. FreshRun(t)' /\ MayRun(t)' /\ TidyFiles
      BY <3>1 DEF FreshRun, MayRun, TidyFiles, Owning, TypeOK
    <3>3. \A w \in Vpn : state'[w] = "absent" => state[w] = "absent"
      BY <3>1 DEF Owning, TypeOK
    <3> QED BY <3>1, <3>2, <3>3, HandoverMoves
  <2>4. CASE Refuse(r)
    BY <1>0, <2>4 DEF Refuse, TidyFiles
  <2> QED BY <1>2, <2>1, <2>2, <2>3, <2>4 DEF Call
<1>3. ASSUME NEW v \in Vpn, Define(v) PROVE Handover'
  <2>1. CASE CreateVpn(v)

       <3>1. \A w \in Vpn :
                [state EXCEPT ![v] = "disconnected"][w] = "absent" => state[w] = "absent"
      BY DEF Owning, TypeOK
    <3> QED BY <1>0, <2>1, <3>1, RefreshTidies DEF CreateVpn
  <2>2. CASE EditVpn(v)
    BY <1>0, <2>2, RefreshTidies DEF EditVpn
  <2>3. CASE DeleteVpn(v)
    <3>1. state[v] \notin Busy /\ ~LivePid(v)
      BY <2>3, RefreshSparesBusy DEF DeleteVpn, Mutable, Busy
    <3>2. \A u \in Thread : job[u] # v
      BY <3>1, NoneAssumption DEF Owning, Ownership, OwnershipOf, Busy, TypeOK
    <3>3. NothingRunsOn(v)
      BY <3>1, <3>2, NoPidNothingRuns
    <3>4. \A w \in Vpn : state'[w] = "absent" => NothingRunsOn(w)
      BY <2>3, <3>3 DEF DeleteVpn, RefreshedState, Handover, NoOrphans, Known
    <3>5. TidyFiles
      BY <2>3 DEF DeleteVpn, Stale, DeadPid, LivePid, TidyFiles
    <3> QED BY <2>3, <3>4, <3>5, HandoverKept DEF DeleteVpn
  <2> QED BY <1>3, <2>1, <2>2, <2>3 DEF Define
<1>4. ASSUME NEW t \in Thread, Work(t) PROVE Handover'
  BY <1>4, HandoverWorks
<1>5. ASSUME NEW p \in Proc, Happens(p) PROVE Handover'
  <2>1. CASE HelperPrepares(p) \/ HelperCannotPrepare(p) \/ HelperReportsFailure(p)
    BY <2>1, HelperMoves DEF HelperPrepares, HelperCannotPrepare, HelperReportsFailure,
       Advance, ClearFiles, InForeground
  <2>2. CASE ForegroundFails(p) \/ Backgrounds(p)
    BY <2>2, HelperMoves DEF ForegroundFails, Backgrounds, Advance, InForeground
  <2>3. CASE ScriptConfigures(p) \/ ScriptFails(p)
    BY <2>3, HelperMoves DEF ScriptConfigures, ScriptFails, Advance, InForeground
  <2>4. CASE ScriptWarns(p) \/ Reconnects(p)
    BY <1>0, <2>4 DEF ScriptWarns, Reconnects, TidyFiles
  <2>5. CASE ProcessEnds(p) \/ HelperKills(p)
    BY <2>5, HandoverEnds DEF HelperKills
  <2>6. CASE StragglerEnds(p)
    BY <2>6 DEF StragglerEnds, Handover
  <2> QED BY <1>5, <2>1, <2>2, <2>3, <2>4, <2>5, <2>6 DEF Happens
<1>6. CASE Crash
  BY <1>6 DEF Crash
<1>7. CASE UNCHANGED vars
  BY <1>0, <1>7 DEF TidyFiles
<1> QED BY <1>1, <1>2, <1>3, <1>4, <1>5, <1>6, <1>7 DEF Next

LEMMA HandoverImpliesOneTunnel == Owning /\ Handover => OneTunnel
<1> SUFFICES ASSUME Owning, Handover, NEW p \in Proc, NEW q \in Proc,
                    vpnOf[p] = vpnOf[q], stage[p] \in Running, stage[q] \in Running
             PROVE  p = q
  BY DEF OneTunnel
<1>1. ASSUME NEW x \in {p, q}, stage[x] \in {"auth", "scripted"} PROVE p = q
  <2>1. PICK t \in Thread : pc[t] = "call" /\ run[t] = x /\ job[t] = vpnOf[x]
    BY <1>1 DEF Handover, Attended, InForeground
  <2> QED BY <2>1 DEF Handover, MayRun
<1>2. CASE stage[p] = "up" /\ stage[q] = "up"
  BY <1>2 DEF Handover, PidFileIsTheHandle
<1> QED BY <1>1, <1>2 DEF Running

LEMMA HandoverInvariant == ASSUME Faults = {} PROVE Spec => [](Owning /\ Handover)
<1>1. Init => Owning /\ Handover
  BY OwningInit, HandoverInit
<1>2. Owning /\ Handover /\ [Next]_vars => (Owning /\ Handover)'
  BY OwningStep, HandoverStep
<1> QED BY <1>1, <1>2, PTL DEF Spec

\* With helpers that return in time and an app that is not stopped, whatever
\* else happens: at most one openconnect runs per VPN, ...
THEOREM OneTunnelHolds == ASSUME Faults = {} PROVE Spec => []OneTunnel
BY HandoverInvariant, HandoverImpliesOneTunnel, PTL

\* ... and a detached one is always the one its VPN's pid file names, so the
\* app can always stop it.
THEOREM PidFileHolds == ASSUME Faults = {} PROVE Spec => []PidFileIsTheHandle
<1>1. Handover => PidFileIsTheHandle
  BY DEF Handover
<1> QED BY <1>1, HandoverInvariant, PTL

\* The invariant behind both: a VPN is handed over without a gap.
THEOREM HandoverHolds == ASSUME Faults = {} PROVE Spec => []Handover
BY HandoverInvariant, PTL

\* A row goes from disconnecting to disconnected only when nothing runs on the
\* VPN any more: the row can be believed.
THEOREM DisconnectHolds == ASSUME Faults = {} PROVE Spec => DisconnectStops
<1> DEFINE Stopping(v) == state[v] = "disconnecting" /\ state'[v] = "disconnected"
<1>1. ASSUME Owning, Handover, [Next]_vars, NEW v \in Vpn, Stopping(v)
      PROVE  NothingRunsOn(v)
  <2> USE DEF vars, rows, files, procs, workers, requests
  <2>1. ASSUME NEW t \in Thread, Work(t) PROVE NothingRunsOn(v)
    <3>1. CASE StopDone(t)
      <4>1. v = job[t]
        <5>1. \E s : state' = [state EXCEPT ![job[t]] = s]
          BY <3>1 DEF StopDone, SetRow
        <5> QED BY <1>1, <5>1 DEF Owning, TypeOK
      <4> QED BY <1>1, <3>1, <4>1 DEF StopDone, Handover, MayRun
    <3>2. CASE ~StopDone(t)
      <4>1. state' = state \/ \E p : SetRow(job[t], "error", p) \/ SetRow(job[t], "connected", p)
        BY <2>1, <3>2 DEF Work, Proceeds, Probed, Launch, ReturnsOk, ReturnsFailed, Stalls,
                          PollConnected,
           Report, PollDead, PollRefused, PollDeadline, WorkerFails, StopNothing, StopSignals,
           StopEnds, StopOverruns, StopAborts
      <4> QED BY <1>1, <4>1 DEF SetRow, Owning, TypeOK
    <3> QED BY <3>1, <3>2
  <2>2. ASSUME NEW STATE s, Refresh(s), s[v] = state[v] PROVE FALSE
    BY <1>1, <2>2 DEF Refresh, RefreshedState, Adopted, Unconfigured, Dropped, Mutable
  <2>3. CASE Read
    BY <2>2, <2>3 DEF Read
  <2>4. ASSUME NEW r \in Request, Call(r) PROVE NothingRunsOn(v)
    <3>1. CASE state' = state
      BY <1>1, <3>1
    <3>2. ASSUME NEW w, NEW s \in {"connecting", "disconnecting"}, SetRow(w, s, None) PROVE FALSE
      BY <1>1, <3>2 DEF SetRow, Owning, TypeOK
    <3> QED BY <2>2, <2>4, <3>1, <3>2
         DEF Call, Arrive, AcceptConnect, AcceptDisconnect, Refuse
  <2>5. ASSUME NEW w \in Vpn, Define(w) PROVE NothingRunsOn(v)
    <3>1. CASE CreateVpn(w)
      <4>1. [state EXCEPT ![w] = "disconnected"][v] = state[v]
        BY <1>1, <3>1 DEF CreateVpn, Known, Owning, TypeOK
      <4> QED BY <2>2, <3>1, <4>1 DEF CreateVpn
    <3>2. CASE EditVpn(w)
      BY <2>2, <3>2 DEF EditVpn
    <3>3. CASE DeleteVpn(w)
      BY <1>1, <3>3 DEF DeleteVpn, RefreshedState, Adopted, Unconfigured, Dropped, Mutable
    <3> QED BY <2>5, <3>1, <3>2, <3>3 DEF Define
  <2>6. ASSUME NEW p \in Proc, Happens(p) PROVE NothingRunsOn(v)
    BY <1>1, <2>6 DEF Happens, HelperPrepares, HelperCannotPrepare, HelperReportsFailure,
       ForegroundFails, ScriptWarns, ScriptConfigures, ScriptFails, Backgrounds,
       Reconnects, ProcessEnds, HelperKills, StragglerEnds
  <2>7. ~Crash
    BY DEF Crash
  <2> QED BY <1>1, <2>1, <2>3, <2>4, <2>5, <2>6, <2>7 DEF Next
<1>2. Owning /\ Handover /\ [Next]_vars =>
        [\A v \in Vpn : Stopping(v) => RunningOn(v) = {}]_vars
  <2> SUFFICES ASSUME Owning, Handover, [Next]_vars, NEW v \in Vpn, Stopping(v)
               PROVE  RunningOn(v) = {}
    OBVIOUS
  <2> QED BY <1>1 DEF NothingRunsOn, RunningOn
<1> HIDE DEF Stopping
<1>3. Spec => [][\A v \in Vpn : Stopping(v) => RunningOn(v) = {}]_vars
  BY <1>2, HandoverInvariant, PTL DEF Spec
<1> QED BY <1>3 DEF DisconnectStops, Stopping

-----------------------------------------------------------------------------
(* Provenance: whose interface a row shows and whose log a reason is read  *)
(* from, when no fault happens.  On Handover rests that the run that       *)
(* writes a file is the only one on its VPN.                               *)

\* A helper that has not returned belongs to a row that says connecting, and no
\* other process runs on its VPN, in the foreground or detached.
LEMMA AloneOnVpn ==
    ASSUME Owning, Handover, NEW p \in Proc, stage[p] \in InForeground
    PROVE  /\ vpnOf[p] \in Vpn /\ state[vpnOf[p]] = "connecting"
           /\ \A q \in Proc : vpnOf[q] = vpnOf[p] /\ stage[q] \in Running \union InForeground
                                => q = p
           /\ \A t \in Thread : pc[t] = "report" => job[t] # vpnOf[p]
<1>1. PICK t \in Thread : pc[t] = "call" /\ run[t] = p /\ job[t] = vpnOf[p]
  BY DEF Handover, Attended
<1>2. kind[t] = "connect" /\ job[t] \in Vpn /\ \A u \in Thread : job[u] = job[t] => u = t
  BY <1>1, OtherJobs DEF Owning, Ownership, OwnershipOf, ConnectPc
<1>3. ASSUME NEW q \in Proc, vpnOf[q] = vpnOf[p], stage[q] \in Running \union InForeground
      PROVE  q = p
  <2>1. CASE stage[q] \in InForeground
    BY <1>1, <1>2, <1>3, <2>1 DEF Handover, Attended
  <2>2. CASE stage[q] \in Running
    BY <1>1, <1>3, <2>2 DEF Handover, MayRun
  <2> QED BY <1>3, <2>1, <2>2
<1> QED BY <1>1, <1>2, <1>3 DEF Owning, Ownership, OwnershipOf

\* A pid file whose process is alive names a detached openconnect of its VPN.
LEMMA LiveIsUp ==
    ASSUME Owning, Handover, NEW v \in Vpn, LivePid(v)
    PROVE  pidFile[v] \in Proc /\ stage[pidFile[v]] = "up" /\ vpnOf[pidFile[v]] = v
BY DEF Owning, TypeOK, Handover, PidFilesTrue, LivePid, Running

LEMMA UpIsLive ==
    ASSUME Owning, Handover, NEW p \in Proc, stage[p] = "up"
    PROVE  vpnOf[p] \in Vpn /\ pidFile[vpnOf[p]] = p /\ LivePid(vpnOf[p])
BY NoneAssumption DEF Owning, TypeOK, Assigned, Handover, PidFileIsTheHandle, LivePid, Running

\* With a live process, an interface that is recorded is the one of that
\* process, and that process is configured.
LEMMA RecordedIsConfigured ==
    ASSUME Owning, Handover, LogIsOfTheRun, IfaceIsConfigured,
           NEW v \in Vpn, LivePid(v), ifaceFile[v] # None
    PROVE  ifaceFile[v] = pidFile[v] /\ Configured(pidFile[v])
BY LiveIsUp DEF LogIsOfTheRun, IfaceIsConfigured, Configured, LivePid

LEMMA ProvenanceInit == Init => Provenance
<1> SUFFICES ASSUME Init PROVE Provenance
  OBVIOUS
<1>1. LogIsOfTheRun /\ IfaceIsConfigured
  BY DEF Init, Leftover, LogIsOfTheRun, IfaceIsConfigured, Configured, Running
<1>2. RunLogs
  BY NoneAssumption DEF Init, Leftover, RunLogs
<1>3. NotYetConfigured
  BY NoneAssumption DEF Init, NotYetConfigured, NotYetRun
<1>4. ConnectedIsConfigured /\ ReportIsTrue
  BY DEF Init, ConnectedIsConfigured, ReportIsTrue
<1> QED BY <1>1, <1>2, <1>3, <1>4 DEF Provenance

\* Files that stay or are removed.
OnlyRemoved == \A v \in Vpn : /\ pidFile'[v] \in {pidFile[v], None}
                              /\ ifaceFile'[v] \in {ifaceFile[v], None}

LEMMA ProvenanceTidied ==
    ASSUME Owning, Handover, Provenance, OnlyRemoved, UNCHANGED <<logFile, procs>>
    PROVE  /\ LogIsOfTheRun' /\ RunLogs' /\ IfaceIsConfigured'
           /\ \A v \in Vpn : LivePid(v)' => LivePid(v) /\ pidFile'[v] = pidFile[v]
<1> USE DEF Provenance, OnlyRemoved, procs
<1>1. LogIsOfTheRun'
  BY DEF LogIsOfTheRun
<1>2. RunLogs'
  BY DEF RunLogs
<1>3. IfaceIsConfigured'
  BY DEF IfaceIsConfigured, Configured
<1>4. \A v \in Vpn : LivePid(v)' => LivePid(v) /\ pidFile'[v] = pidFile[v]
  BY DEF LivePid
<1> QED BY <1>1, <1>2, <1>3, <1>4

\* What holds of rows and workers goes on holding when files are removed and the
\* rows and workers that are new are true.
LEMMA ProvenanceKept ==
    ASSUME Owning, Handover, Provenance, OnlyRemoved, UNCHANGED <<logFile, procs>>,
           \A v \in Vpn : state'[v] = "connected" /\ LivePid(v) =>
               \/ state[v] = "connected" /\ row'[v] = row[v]
               \/ row'[v] = pidFile[v] /\ Configured(pidFile[v]),
           \A t \in Thread : pc'[t] = "report" /\ LivePid(job'[t]) =>
               \/ pc[t] = "report" /\ run'[t] = run[t] /\ job'[t] = job[t]
               \/ run'[t] = pidFile[job'[t]] /\ Configured(run'[t]),
           \A t \in Thread : pc'[t] \in {"probe", "launch"} =>
               \/ pc[t] \in {"probe", "launch"} /\ run'[t] = run[t]
               \/ \A v \in Vpn : ifaceFile[v] # run'[t],
           \A t \in Thread : pc'[t] = "report" => job'[t] \in Vpn
    PROVE  Provenance'
<1>1. /\ LogIsOfTheRun' /\ RunLogs' /\ IfaceIsConfigured'
      /\ \A v \in Vpn : LivePid(v)' => LivePid(v) /\ pidFile'[v] = pidFile[v]
  BY ProvenanceTidied
<1>2. ConnectedIsConfigured'
  <2> SUFFICES ASSUME NEW v \in Vpn, state'[v] = "connected", LivePid(v)'
               PROVE  (row[v] = pidFile[v] /\ Configured(pidFile[v]))'
    BY DEF ConnectedIsConfigured
  <2>1. LivePid(v) /\ pidFile'[v] = pidFile[v] /\ pidFile[v] \in Proc
    BY <1>1, LiveIsUp
  <2>2. row'[v] = pidFile[v] /\ Configured(pidFile[v])
    BY <2>1 DEF Provenance, ConnectedIsConfigured
  <2> QED BY <2>1, <2>2 DEF Configured, procs
<1>3. ReportIsTrue'
  <2> SUFFICES ASSUME NEW t \in Thread, pc'[t] = "report", LivePid(job[t])'
               PROVE  (run[t] = pidFile[job[t]] /\ Configured(run[t]))'
    BY DEF ReportIsTrue
  <2>1. job'[t] \in Vpn /\ LivePid(job'[t]) /\ pidFile'[job'[t]] = pidFile[job'[t]]
    BY <1>1 DEF LivePid
  <2>2. run'[t] = pidFile[job'[t]] /\ Configured(run'[t])
    BY <2>1 DEF Provenance, ReportIsTrue
  <2> QED BY <2>1, <2>2 DEF Configured, procs
<1>4. NotYetConfigured'
  <2> SUFFICES ASSUME NEW p \in Proc, NotYetRun(p)', NEW v \in Vpn PROVE ifaceFile'[v] # p
    BY DEF NotYetConfigured
  <2>1. ifaceFile[v] # p
    BY DEF Provenance, NotYetConfigured, NotYetRun, procs
  <2> QED BY <2>1, NoneAssumption DEF OnlyRemoved
<1> QED BY <1>1, <1>2, <1>3, <1>4 DEF Provenance

\* A row that a refresh leaves connected was so before, or shows what it adopts.
LEMMA RefreshedRowIsTrue ==
    ASSUME Owning, Handover, Provenance, NEW STATE s, NEW v \in Vpn, LivePid(v),
           s[v] = "connected" => state[v] = "connected", RefreshedState(s, v) = "connected"
    PROVE  \/ state[v] = "connected" /\ RefreshedRow(s, v) = row[v]
           \/ RefreshedRow(s, v) = pidFile[v] /\ Configured(pidFile[v])
<1>1. CASE Adopted(s, v)
  <2>1. RefreshedRow(s, v) = ifaceFile[v]
    BY <1>1 DEF RefreshedRow, Adopted, Unconfigured, Dropped
  <2> QED BY <1>1, <2>1, RecordedIsConfigured DEF Adopted, Provenance
<1>2. CASE ~Adopted(s, v)
  <2>1. ~Unconfigured(s, v) /\ ~Dropped(s, v) /\ s[v] = "connected"
    BY <1>2 DEF RefreshedState, Dropped
  <2> QED BY <1>2, <2>1 DEF RefreshedRow
<1> QED BY <1>1, <1>2

LEMMA ProvenanceRefreshed ==
    ASSUME Owning, Handover, Provenance, NEW STATE s, Refresh(s),
           \A v \in Vpn : s[v] = "connected" => state[v] = "connected",
           UNCHANGED <<logFile, procs, workers>>
    PROVE  Provenance'
<1>1. OnlyRemoved
  BY DEF Refresh, RefreshFiles, OnlyRemoved
<1>2. ASSUME NEW v \in Vpn, state'[v] = "connected", LivePid(v)
      PROVE  \/ state[v] = "connected" /\ row'[v] = row[v]
             \/ row'[v] = pidFile[v] /\ Configured(pidFile[v])
  BY <1>2, RefreshedRowIsTrue DEF Refresh
<1>3. \A t \in Thread : pc[t] = "report" => job[t] \in Vpn
  BY OtherJobs
<1> QED BY <1>1, <1>2, <1>3, ProvenanceKept DEF workers

\* A worker at its end leaves a row that shows no tunnel, or the one it has read.
LEMMA ProvenanceFinished ==
    ASSUME Owning, Handover, Provenance, OnlyRemoved, UNCHANGED <<logFile, procs>>,
           NEW t \in Thread, pc[t] # "idle", NEW s, NEW p, SetRow(job[t], s, p), Finish(t),
           s = "connected" => pc[t] = "report" /\ p = run[t]
    PROVE  Provenance'
<1>1. job[t] \in Vpn
  BY OtherJobs
<1>2. ASSUME NEW v \in Vpn, state'[v] = "connected", LivePid(v)
      PROVE  \/ state[v] = "connected" /\ row'[v] = row[v]
             \/ row'[v] = pidFile[v] /\ Configured(pidFile[v])
  BY <1>1, <1>2 DEF SetRow, Owning, TypeOK, Provenance, ReportIsTrue
<1>3. ASSUME NEW u \in Thread PROVE pc'[u] = "idle" \/ UNCHANGED <<pc[u], job[u], run[u]>>
  BY DEF Finish, Spawn, Owning, TypeOK
<1>4. \A u \in Thread : pc'[u] = "report" => job'[u] \in Vpn
  BY <1>3, OtherJobs
<1> QED BY <1>2, <1>3, <1>4, ProvenanceKept

\* A worker that moves on without a row, and not to the start of a run.
LEMMA ProvenanceMoves ==
    ASSUME Owning, Handover, Provenance, OnlyRemoved, UNCHANGED <<logFile, procs, rows, job>>,
           NEW t \in Thread, pc[t] # "idle", NEW l, NEW q,
           pc' = [pc EXCEPT ![t] = l], run' = [run EXCEPT ![t] = q],
           l = "report" /\ LivePid(job[t]) => q = pidFile[job[t]] /\ Configured(q),
           l \in {"probe", "launch"} => pc[t] \in {"probe", "launch"} /\ q = run[t]
    PROVE  Provenance'
<1>1. \A v \in Vpn : state'[v] = "connected" =>
          state[v] = "connected" /\ row'[v] = row[v]
  BY DEF rows
<1>2. ASSUME NEW u \in Thread PROVE \/ u = t /\ pc'[u] = l /\ run'[u] = q
                                    \/ pc'[u] = pc[u] /\ run'[u] = run[u]
  BY DEF Owning, TypeOK
<1>3. \A u \in Thread : pc'[u] = "report" => job'[u] \in Vpn
  BY <1>2, OtherJobs
<1> QED BY <1>1, <1>2, <1>3, ProvenanceKept

LEMMA ProvenanceLaunches ==
    ASSUME Owning, Handover, Provenance, NEW t \in Thread, Launch(t)
    PROVE  Provenance'
<1> USE DEF Owning, TypeOK, Provenance, rows, files
<1> DEFINE p == run[t]
<1>1. /\ pc[t] = "launch" /\ pc' = [pc EXCEPT ![t] = "call"]
      /\ stage' = [stage EXCEPT ![p] = "prepare"] /\ vpnOf' = [vpnOf EXCEPT ![p] = job[t]]
      /\ UNCHANGED <<network, state, row, pidFile, ifaceFile, logFile, run, job>>
  BY DEF Launch, Goto
<1>2. p \in Proc /\ stage[p] \in {"idle", "failed", "dead"} /\ \A v \in Vpn : pidFile[v] # p
  BY <1>1 DEF Handover, FreshRun
<1>3. \A v \in Vpn : ifaceFile[v] # p
  BY <1>1, <1>2 DEF NotYetConfigured, NotYetRun
<1>4. /\ stage'[p] = "prepare"
      /\ \A q \in Proc : q # p => UNCHANGED <<stage[q], vpnOf[q]>>
  BY <1>1, <1>2
<1> HIDE DEF p
<1>5. LogIsOfTheRun'
  BY <1>1 DEF LogIsOfTheRun
<1>6. RunLogs' /\ IfaceIsConfigured'
  BY <1>1, <1>3, <1>4 DEF RunLogs, IfaceIsConfigured, Configured
<1>7. NotYetConfigured'
  <2> SUFFICES ASSUME NEW q \in Proc, NotYetRun(q)', NEW v \in Vpn PROVE ifaceFile'[v] # q
    BY DEF NotYetConfigured
  <2>1. q # p => NotYetRun(q)
    BY <1>1, <1>4 DEF NotYetRun
  <2> QED BY <1>1, <1>3, <2>1 DEF NotYetConfigured
<1>8. \A v \in Vpn : LivePid(v)' => LivePid(v)
  BY <1>1, <1>2, <1>4 DEF LivePid
<1>9. ConnectedIsConfigured'
  BY <1>1, <1>8 DEF ConnectedIsConfigured, Configured
<1>10. ReportIsTrue'
  <2> SUFFICES ASSUME NEW u \in Thread, pc'[u] = "report", LivePid(job[u])'
               PROVE  (run[u] = pidFile[job[u]] /\ Configured(run[u]))'
    BY DEF ReportIsTrue
  <2>1. pc[u] = "report" /\ job[u] \in Vpn
    BY <1>1, OtherJobs
  <2>2. LivePid(job[u])
    BY <1>1, <1>8, <2>1 DEF LivePid
  <2> QED BY <1>1, <2>1, <2>2 DEF ReportIsTrue, Configured
<1> QED BY <1>5, <1>6, <1>7, <1>9, <1>10

LEMMA ProvenanceWorks ==
    ASSUME Owning, Handover, Provenance, Faults = {}, NEW t \in Thread, Work(t)
    PROVE  Provenance'
<1> USE DEF rows, files, workers
<1>1. /\ pc[t] # "idle"
      /\ job[t] \in Vpn /\ [run EXCEPT ![t] = run[t]] = run
  <2>1. pc[t] # "idle"
    BY DEF Work, Proceeds, Probed, Launch, ReturnsOk, ReturnsFailed, Stalls, PollConnected,
           Report,
           PollDead, PollRefused, PollDeadline, WorkerFails, StopNothing, StopSignals,
           StopEnds, StopOverruns, StopAborts, StopDone
  <2> QED BY <2>1, OtherJobs DEF Owning, TypeOK
<1>2. ClearFiles(job[t]) => OnlyRemoved /\ UNCHANGED logFile
  BY DEF ClearFiles, OnlyRemoved, Owning, TypeOK
<1>3. UNCHANGED files => OnlyRemoved /\ UNCHANGED logFile
  BY DEF OnlyRemoved
<1>4. CASE Launch(t)
  BY <1>4, ProvenanceLaunches
<1>5. CASE Probed(t) \/ StopNothing(t) \/ StopEnds(t)
  BY <1>1, <1>2, <1>5, ProvenanceMoves DEF Probed, StopNothing, StopEnds, Goto
<1>6. CASE ReturnsOk(t) \/ PollRefused(t) \/ PollDeadline(t) \/ StopSignals(t)
  BY <1>1, <1>3, <1>6, ProvenanceMoves DEF ReturnsOk, PollRefused, PollDeadline, StopSignals,
     Goto
<1>7. CASE PollConnected(t)
  <2>1. ifaceFile[job[t]] = pidFile[job[t]] /\ Configured(pidFile[job[t]])
    BY <1>1, <1>7, RecordedIsConfigured DEF PollConnected, Provenance
  <2> QED BY <1>1, <1>3, <1>7, <2>1, ProvenanceMoves DEF PollConnected
<1>8. CASE ReturnsFailed(t) \/ PollDead(t)
  BY <1>1, <1>2, <1>8, ProvenanceFinished DEF ReturnsFailed, PollDead
<1>9. CASE Report(t) \/ WorkerFails(t)
  BY <1>1, <1>3, <1>9, ProvenanceFinished DEF Report, WorkerFails
<1>10. CASE StopDone(t)
  <2>1. (IF kind[t] = "connect" THEN "error" ELSE "disconnected") # "connected"
    OBVIOUS
  <2> QED BY <1>1, <1>2, <1>10, <2>1, ProvenanceFinished DEF StopDone
<1>11. ~(Stalls(t) \/ StopOverruns(t) \/ StopAborts(t))
  BY DEF Stalls, StopOverruns, StopAborts
<1> QED BY <1>4, <1>5, <1>6, <1>7, <1>8, <1>9, <1>10, <1>11 DEF Work, Proceeds

\* The pid file stays, and what its process has configured too.
StaysConfigured(v) == /\ pidFile'[v] = pidFile[v]
                      /\ Configured(pidFile[v]) => network'[pidFile[v]] # "unset"

\* Helper, openconnect or script of run p takes a step that changes what it says
\* or how far it is: rows and workers stay, and a pid file that is alive after
\* the step was so before it, unless its VPN is being connected.
LEMMA RowsStayTrue ==
    ASSUME Owning, Handover, Provenance, UNCHANGED <<rows, workers>>,
           \A v \in Vpn : LivePid(v)' =>
               \/ LivePid(v) /\ StaysConfigured(v)
               \/ state[v] = "connecting" /\ \A t \in Thread : pc[t] = "report" => job[t] # v
    PROVE  ConnectedIsConfigured' /\ ReportIsTrue'
<1> USE DEF rows, workers, Provenance
<1>1. ASSUME NEW v \in Vpn, state'[v] = "connected", LivePid(v)'
      PROVE  (row[v] = pidFile[v] /\ Configured(pidFile[v]))'
  BY <1>1 DEF ConnectedIsConfigured, Configured, StaysConfigured
<1>2. ASSUME NEW t \in Thread, pc'[t] = "report", LivePid(job[t])'
      PROVE  (run[t] = pidFile[job[t]] /\ Configured(run[t]))'
  <2>1. job[t] \in Vpn /\ LivePid(job[t])
        /\ StaysConfigured(job[t])
    BY <1>2, OtherJobs DEF LivePid
  <2> QED BY <1>2, <2>1 DEF ReportIsTrue, Configured, StaysConfigured
<1> QED BY <1>1, <1>2 DEF ConnectedIsConfigured, ReportIsTrue

LEMMA ProvenanceOfHelper ==
    ASSUME Owning, Handover, Provenance, NEW p \in Proc,
           HelperPrepares(p) \/ HelperCannotPrepare(p)
    PROVE  Provenance'
<1> USE DEF Owning, TypeOK, Provenance
<1> DEFINE v == vpnOf[p]
<1>1. PICK s \in {"auth", "failed"}, l \in {p, None} :
         /\ stage' = [stage EXCEPT ![p] = s]
         /\ pidFile' = [pidFile EXCEPT ![v] = None] /\ ifaceFile' = [ifaceFile EXCEPT ![v] = None]
         /\ logFile' = [logFile EXCEPT ![v] = l]
         /\ s = "auth" => l = p
         /\ UNCHANGED <<rows, network, vpnOf, workers>>
  BY DEF HelperPrepares, HelperCannotPrepare, Advance
<1>2. stage[p] = "prepare"
  BY DEF HelperPrepares, HelperCannotPrepare
<1>3. v \in Vpn /\ \A q \in Proc : vpnOf[q] = v /\ stage[q] \in Running \union InForeground => q = p
  BY <1>2, AloneOnVpn DEF InForeground
<1> HIDE DEF v
<1>4. LogIsOfTheRun'
  BY <1>1 DEF LogIsOfTheRun
<1>5. RunLogs'
  <2> SUFFICES ASSUME NEW q \in Proc, stage'[q] \in {"auth", "scripted", "exited", "up"}
               PROVE  logFile'[vpnOf[q]] = q
    BY <1>1 DEF RunLogs
  <2>1. CASE q = p
    BY <1>1, <1>2, <1>3, <2>1 DEF v
  <2>2. CASE q # p
    <3>1. stage[q] \in {"auth", "scripted", "exited", "up"} /\ vpnOf[q] # v
      BY <1>1, <1>3, <2>2 DEF InForeground, Running
    <3> QED BY <1>1, <3>1 DEF RunLogs, Assigned
  <2> QED BY <2>1, <2>2
<1>6. IfaceIsConfigured'
  BY <1>1, <1>2, NoneAssumption DEF IfaceIsConfigured, NotYetConfigured, NotYetRun, Configured
<1>7. NotYetConfigured'
  BY <1>1, <1>2, NoneAssumption DEF NotYetConfigured, NotYetRun, workers
<1>8. \A w \in Vpn : LivePid(w)' =>
         LivePid(w) /\ StaysConfigured(w)
  BY <1>1, <1>2 DEF LivePid, Running, Handover, PidFilesTrue, StaysConfigured, Configured
<1>9. ConnectedIsConfigured' /\ ReportIsTrue'
  BY <1>1, <1>8, RowsStayTrue
<1> QED BY <1>4, <1>5, <1>6, <1>7, <1>9

\* The foreground run p goes on to stage s and may say something, or record its
\* interface; the files stay as they are apart from that.
LEMMA ProvenanceOfForeground ==
    ASSUME Owning, Handover, Provenance, NEW p \in Proc,
           \/ ForegroundFails(p) \/ ScriptWarns(p) \/ ScriptFails(p) \/ ScriptConfigures(p)
           \/ HelperReportsFailure(p)
    PROVE  Provenance'
<1> USE DEF Owning, TypeOK, Provenance
<1> DEFINE v == vpnOf[p]
<1>0. stage[p] \in {"auth", "scripted", "exited"}
  BY DEF ForegroundFails, ScriptWarns, ScriptFails, ScriptConfigures, HelperReportsFailure
<1>1. v \in Vpn /\ \A q \in Proc : vpnOf[q] = v /\ stage[q] \in Running \union InForeground => q = p
  BY <1>0, AloneOnVpn DEF InForeground
<1>2. logFile[v] = p
  BY <1>0 DEF RunLogs
<1>3. PICK s \in {"auth", "scripted", "exited", "failed"},
           m \in {network[p], "set", "unset"}, i \in {ifaceFile[v], None, p} :
         /\ stage' = [stage EXCEPT ![p] = s] /\ network' = [network EXCEPT ![p] = m]
         /\ ifaceFile' = [ifaceFile EXCEPT ![v] = i]
         /\ UNCHANGED <<rows, logFile, vpnOf, workers>>
         /\ \A u \in Vpn : pidFile'[u] \in {pidFile[u], None}
         /\ s \in {"auth", "scripted"} => stage[p] = "auth"
         /\ i = p => i = ifaceFile[v] \/ (s = "scripted" /\ m = "set")
  <2>1. /\ [stage EXCEPT ![p] = stage[p]] = stage /\ [network EXCEPT ![p] = network[p]] = network
        /\ [ifaceFile EXCEPT ![v] = ifaceFile[v]] = ifaceFile
    BY <1>1
  <2>2. CASE ForegroundFails(p)
    BY <2>1, <2>2 DEF ForegroundFails, Advance, files
  <2>3. CASE ScriptWarns(p)
    <3>1. stage' = [stage EXCEPT ![p] = "auth"] /\ stage[p] = "auth"
      BY <2>1, <2>3 DEF ScriptWarns
    <3> QED BY <2>1, <2>3, <3>1 DEF ScriptWarns, files
  <2>4. CASE ScriptFails(p)
    BY <2>1, <2>4, NoneAssumption DEF ScriptFails, Advance
  <2>5. CASE ScriptConfigures(p)
    BY <2>1, <2>5 DEF ScriptConfigures, Advance
  <2>6. CASE HelperReportsFailure(p)
    <3>1. /\ stage' = [stage EXCEPT ![p] = "failed"]
          /\ network' = [network EXCEPT ![p] = network[p]]
          /\ ifaceFile' = [ifaceFile EXCEPT ![v] = None]
          /\ UNCHANGED <<rows, logFile, vpnOf, workers>>
          /\ \A u \in Vpn : pidFile'[u] \in {pidFile[u], None}
      BY <2>1, <2>6 DEF HelperReportsFailure, Advance, ClearFiles
    <3> WITNESS "failed" \in {"auth", "scripted", "exited", "failed"},
                network[p] \in {network[p], "set", "unset"},
                None \in {ifaceFile[v], None, p}
    <3> QED BY <3>1, NoneAssumption
  <2> QED BY <2>2, <2>3, <2>4, <2>5, <2>6
<1> HIDE DEF v
<1>4. LogIsOfTheRun'
  BY <1>1, <1>2, <1>3 DEF LogIsOfTheRun
<1>5. RunLogs'
  BY <1>0, <1>3 DEF RunLogs
<1>7. NotYetConfigured'
  <2> SUFFICES ASSUME NEW q \in Proc, NotYetRun(q)', NEW u \in Vpn PROVE ifaceFile'[u] # q
    BY DEF NotYetConfigured
  <2>1. NotYetRun(q)
    BY <1>3 DEF NotYetRun, workers
  <2>2. ifaceFile[u] # q
    BY <2>1 DEF NotYetConfigured
  <2>3. q = p => stage[p] \in {"auth"} /\ stage'[p] = "auth"
    <3> SUFFICES ASSUME q = p, stage'[p] # "auth" PROVE FALSE
      BY <1>3
    <3>1. PICK t \in Thread : pc[t] \in {"probe", "launch"} /\ run[t] = p
      BY <1>3 DEF NotYetRun, workers
    <3> QED BY <1>0, <3>1 DEF Handover, FreshRun
  <2> QED BY <1>3, <2>2, <2>3, NoneAssumption
<1>8. IfaceIsConfigured'
  <2> SUFFICES ASSUME NEW u \in Vpn, ifaceFile'[u] # None, stage'[ifaceFile'[u]] \in Running
               PROVE  network'[ifaceFile'[u]] # "unset"
    BY DEF IfaceIsConfigured, Configured
  <2>1. CASE ifaceFile'[u] # p
    <3>1. ifaceFile'[u] = ifaceFile[u] /\ ifaceFile[u] \in Proc
      BY <1>3, <2>1
    <3> QED BY <1>3, <2>1, <3>1 DEF IfaceIsConfigured, Configured
  <2>2. CASE ifaceFile'[u] = p
    <3>1. stage[p] = "auth" /\ s \in {"auth", "scripted"}
      BY <1>3, <2>2 DEF Running
    <3>2. \A w \in Vpn : ifaceFile[w] # p
      BY <3>1 DEF NotYetConfigured, NotYetRun
    <3>3. m = "set"
      BY <1>1, <1>3, <2>2, <3>2
    <3> QED BY <1>3, <2>2, <3>3
  <2> QED BY <2>1, <2>2
<1>9. \A u \in Vpn : LivePid(u)' => LivePid(u) /\ StaysConfigured(u)
  BY <1>0, <1>3 DEF LivePid, Running, Handover, PidFilesTrue, StaysConfigured, Configured
<1>10. ConnectedIsConfigured' /\ ReportIsTrue'
  BY <1>3, <1>9, RowsStayTrue
<1> QED BY <1>4, <1>5, <1>7, <1>8, <1>10

LEMMA ProvenanceOfDetached ==
    ASSUME Owning, Handover, Provenance, NEW p \in Proc,
           Backgrounds(p) \/ Reconnects(p) \/ ProcessEnds(p)
    PROVE  Provenance'
<1> USE DEF Owning, TypeOK, Provenance
<1> DEFINE v == vpnOf[p]
<1>0. stage[p] \in {"scripted", "up"}
  BY DEF Backgrounds, Reconnects, ProcessEnds
<1>1. v \in Vpn /\ logFile[v] = p
  BY <1>0, AloneOnVpn, UpIsLive DEF InForeground, RunLogs
<1>2. PICK s \in {"up", "dead"}, n \in {pidFile[v], p, None}, i \in {ifaceFile[v], p, None},
           m \in {network[p], "unknown", "unset"} :
         /\ stage' = [stage EXCEPT ![p] = s] /\ network' = [network EXCEPT ![p] = m]
         /\ pidFile' = [pidFile EXCEPT ![v] = n] /\ ifaceFile' = [ifaceFile EXCEPT ![v] = i]
         /\ UNCHANGED <<rows, logFile, vpnOf, workers>>
         /\ n = p => n = pidFile[v] \/ stage[p] = "scripted"
         /\ i = p => i = ifaceFile[v] \/ m # "unset"
         /\ s = "up" /\ m = "unset" => ~Configured(p)
         /\ stage[p] = "up" => s = "dead" \/ n = pidFile[v]
  <2>1. /\ [pidFile EXCEPT ![v] = pidFile[v]] = pidFile
        /\ [ifaceFile EXCEPT ![v] = ifaceFile[v]] = ifaceFile
        /\ [stage EXCEPT ![p] = stage[p]] = stage /\ [network EXCEPT ![p] = network[p]] = network
    BY <1>1
  <2>2. CASE Backgrounds(p)
    BY <2>1, <2>2 DEF Backgrounds, Advance, Configured
  <2>3. CASE Reconnects(p)
    <3>1. \/ /\ network' = [network EXCEPT ![p] = IF network[p] = "unset" THEN "unknown"
                                                                     ELSE network[p]]
             /\ \E i \in {p, None} : ifaceFile' = [ifaceFile EXCEPT ![v] = i]
          \/ UNCHANGED <<network, ifaceFile>>
      BY <2>3 DEF Reconnects, ReconnectSucceeds, ReconnectFails, Reconfigured
    <3>2. stage[p] = "up" /\ UNCHANGED <<rows, pidFile, stage, logFile, vpnOf, workers>>
      BY <2>3 DEF Reconnects
    <3> QED BY <2>1, <3>1, <3>2, NoneAssumption DEF Configured
  <2>4. CASE ProcessEnds(p)
    BY <2>1, <2>4, NoneAssumption DEF ProcessEnds, Advance
  <2> QED BY <2>2, <2>3, <2>4
<1> HIDE DEF v
<1>3. LogIsOfTheRun'
  BY <1>1, <1>2 DEF LogIsOfTheRun
<1>4. RunLogs'
  BY <1>0, <1>2 DEF RunLogs
<1>5. NotYetConfigured'
  <2> SUFFICES ASSUME NEW q \in Proc, NotYetRun(q)', NEW u \in Vpn PROVE ifaceFile'[u] # q
    BY DEF NotYetConfigured
  <2>1. q # p /\ NotYetRun(q)
    <3>1. q # p
      BY <1>0, <1>2 DEF NotYetRun, workers, Handover, FreshRun
    <3> QED BY <1>2, <3>1 DEF NotYetRun, workers
  <2> QED BY <1>2, <2>1, NoneAssumption DEF NotYetConfigured
<1>6. IfaceIsConfigured'
  <2> SUFFICES ASSUME NEW u \in Vpn, ifaceFile'[u] # None, stage'[ifaceFile'[u]] \in Running
               PROVE  network'[ifaceFile'[u]] # "unset"
    BY DEF IfaceIsConfigured, Configured
  <2>1. CASE ifaceFile'[u] # p
    <3>1. ifaceFile'[u] = ifaceFile[u] /\ ifaceFile[u] \in Proc
      BY <1>2, <2>1
    <3> QED BY <1>2, <2>1, <3>1 DEF IfaceIsConfigured, Configured
  <2>2. CASE ifaceFile'[u] = p
    <3>1. s = "up" /\ stage[p] \in Running
      BY <1>0, <1>2, <2>2 DEF Running
    <3>2. ifaceFile[u] = p \/ m # "unset"
      BY <1>1, <1>2, <2>2
    <3>3. ifaceFile[u] = p => Configured(p)
      BY <3>1, NoneAssumption DEF IfaceIsConfigured, Configured
    <3> QED BY <1>2, <2>2, <3>1, <3>2, <3>3
  <2> QED BY <2>1, <2>2
<1>7. \A u \in Vpn : LivePid(u)' =>
         \/ LivePid(u) /\ StaysConfigured(u)
         \/ state[u] = "connecting" /\ \A t \in Thread : pc[t] = "report" => job[t] # u
  <2> SUFFICES ASSUME NEW u \in Vpn, LivePid(u)',
                      ~(LivePid(u) /\ StaysConfigured(u))
               PROVE  state[u] = "connecting" /\ \A t \in Thread : pc[t] = "report" => job[t] # u
    OBVIOUS
  <2>1. pidFile'[u] = p
    BY <1>2 DEF LivePid, StaysConfigured, Configured
  <2>2. u = v
    <3>1. CASE u # v
      <4>1. pidFile[u] = p
        BY <1>2, <2>1, <3>1
      <4> QED BY <3>1, <4>1, NoneAssumption DEF Handover, PidFilesTrue, v
    <3> QED BY <3>1
  <2>3. stage[p] = "scripted"
    <3>1. CASE stage[p] = "up"
      <4>1. pidFile[v] = p /\ LivePid(v)
        BY <3>1, UpIsLive DEF v
      <4>2. s = "up" /\ n = pidFile[v]
        BY <1>2, <2>1, <3>1, NoneAssumption DEF LivePid, Running
      <4>3. StaysConfigured(v)
        BY <1>1, <1>2, <4>1, <4>2 DEF StaysConfigured
      <4> QED BY <2>2, <4>1, <4>3
    <3> QED BY <1>0, <3>1
  <2> QED BY <2>2, <2>3, AloneOnVpn DEF InForeground, v
<1>8. ConnectedIsConfigured' /\ ReportIsTrue'
  BY <1>2, <1>7, RowsStayTrue
<1> QED BY <1>3, <1>4, <1>5, <1>6, <1>8

LEMMA ProvenanceDeletes ==
    ASSUME Owning, Handover, Provenance, NEW v \in Vpn, DeleteVpn(v)
    PROVE  Provenance'
<1> USE DEF Owning, TypeOK, Provenance, procs, workers
<1>1. state[v] \notin Busy /\ ~LivePid(v)
  BY RefreshSparesBusy DEF DeleteVpn, Mutable, Busy
<1>2. \A q \in Proc : stage[q] \in {"auth", "scripted", "exited", "up"} => vpnOf[q] # v
  BY <1>1, AloneOnVpn, UpIsLive DEF InForeground, Busy
<1>3. /\ OnlyRemoved /\ pidFile'[v] = None /\ ifaceFile'[v] = None
      /\ logFile' = [logFile EXCEPT ![v] = None] /\ UNCHANGED <<procs, workers>>
  BY DEF DeleteVpn, OnlyRemoved
<1>4. LogIsOfTheRun'
  BY <1>3 DEF OnlyRemoved, LogIsOfTheRun
<1>5. RunLogs'
  BY <1>2, <1>3 DEF RunLogs, Assigned
<1>6. NotYetConfigured' /\ IfaceIsConfigured'
  BY <1>3, NoneAssumption
     DEF OnlyRemoved, NotYetConfigured, NotYetRun, IfaceIsConfigured, Configured
<1>7. \A u \in Vpn : LivePid(u)' => LivePid(u) /\ pidFile'[u] = pidFile[u] /\ u # v
  BY <1>3 DEF LivePid, OnlyRemoved
<1>8. ConnectedIsConfigured'
  <2> SUFFICES ASSUME NEW u \in Vpn, state'[u] = "connected", LivePid(u)'
               PROVE  (row[u] = pidFile[u] /\ Configured(pidFile[u]))'
    BY DEF ConnectedIsConfigured
  <2>1. /\ LivePid(u) /\ pidFile'[u] = pidFile[u]
        /\ state'[u] = RefreshedState(state, u) /\ row'[u] = RefreshedRow(state, u)
    BY <1>7 DEF DeleteVpn
  <2>2. row'[u] = pidFile[u] /\ Configured(pidFile[u])
    BY <2>1, RefreshedRowIsTrue DEF ConnectedIsConfigured
  <2> QED BY <1>3, <2>1, <2>2 DEF Configured
<1>9. ReportIsTrue'
  <2> SUFFICES ASSUME NEW t \in Thread, pc'[t] = "report", LivePid(job[t])'
               PROVE  (run[t] = pidFile[job[t]] /\ Configured(run[t]))'
    BY DEF ReportIsTrue
  <2>1. job[t] \in Vpn /\ pc[t] = "report" /\ UNCHANGED <<job[t], run[t]>>
    BY <1>3, OtherJobs
  <2>2. LivePid(job[t]) /\ pidFile'[job[t]] = pidFile[job[t]]
    BY <1>3, <1>7, <2>1 DEF LivePid
  <2> QED BY <1>3, <2>1, <2>2 DEF ReportIsTrue, Configured
<1> QED BY <1>4, <1>5, <1>6, <1>8, <1>9

LEMMA ProvenanceStep ==
    Faults = {} /\ Owning /\ Handover /\ Provenance /\ [Next]_vars => Provenance'
<1> SUFFICES ASSUME Faults = {}, Owning, Handover, Provenance, [Next]_vars PROVE Provenance'
  OBVIOUS
<1> USE DEF vars, rows, files, workers, requests
<1>0. \A u \in Thread : pc[u] = "report" => job[u] \in Vpn
  BY OtherJobs
<1>1. CASE Read
  BY <1>1, ProvenanceRefreshed DEF Read
<1>2. ASSUME NEW r \in Request, Call(r) PROVE Provenance'
  <2>1. ASSUME NEW o \in {"connect", "disconnect"}, NEW v \in Vpn, Arrive(r, o, v)
        PROVE Provenance'
    BY <2>1, ProvenanceRefreshed DEF Arrive
  <2>2. ASSUME NEW t \in Thread, NEW p \in Proc, AcceptConnect(r, t, p) PROVE Provenance'
    <3>1. OnlyRemoved
      BY <2>2 DEF AcceptConnect, OnlyRemoved
    <3>2. \A v \in Vpn : state'[v] = "connected" => state[v] = "connected" /\ row'[v] = row[v]
      BY <2>2 DEF AcceptConnect, SetRow, Owning, TypeOK
    <3>3. \A u \in Thread : \/ pc'[u] = "probe" /\ run'[u] = p
                            \/ UNCHANGED <<pc[u], run[u], job[u]>>
      BY <2>2 DEF AcceptConnect, Spawn, Owning, TypeOK
    <3>4. \A v \in Vpn : ifaceFile[v] # p
      BY <2>2 DEF AcceptConnect, Free
    <3> QED BY <1>0, <2>2, <3>1, <3>2, <3>3, <3>4, ProvenanceKept DEF AcceptConnect
  <2>3. ASSUME NEW t \in Thread, AcceptDisconnect(r, t) PROVE Provenance'
    <3>1. OnlyRemoved
      BY <2>3 DEF AcceptDisconnect, OnlyRemoved
    <3>2. \A v \in Vpn : state'[v] = "connected" => state[v] = "connected" /\ row'[v] = row[v]
      BY <2>3 DEF AcceptDisconnect, SetRow, Owning, TypeOK
    <3>3. \A u \in Thread : pc'[u] = "stop" \/ UNCHANGED <<pc[u], run[u], job[u]>>
      BY <2>3 DEF AcceptDisconnect, Spawn, Owning, TypeOK
    <3> QED BY <1>0, <2>3, <3>1, <3>2, <3>3, ProvenanceKept DEF AcceptDisconnect
  <2>4. CASE Refuse(r)
    BY <1>0, <2>4, ProvenanceKept DEF Refuse, OnlyRemoved
  <2> QED BY <1>2, <2>1, <2>2, <2>3, <2>4 DEF Call
<1>3. ASSUME NEW v \in Vpn, Define(v) PROVE Provenance'
  <2>1. CASE CreateVpn(v)
    <3>1. \A w \in Vpn : [state EXCEPT ![v] = "disconnected"][w] = "connected" =>
             state[w] = "connected"
      BY DEF Owning, TypeOK
    <3> QED BY <2>1, <3>1, ProvenanceRefreshed DEF CreateVpn
  <2>2. CASE EditVpn(v)
    BY <2>2, ProvenanceRefreshed DEF EditVpn
  <2>3. CASE DeleteVpn(v)
    BY <2>3, ProvenanceDeletes
  <2> QED BY <1>3, <2>1, <2>2, <2>3 DEF Define
<1>4. ASSUME NEW t \in Thread, Work(t) PROVE Provenance'
  BY <1>4, ProvenanceWorks
<1>5. ASSUME NEW p \in Proc, Happens(p) PROVE Provenance'
  <2>1. CASE StragglerEnds(p)
    BY <2>1 DEF StragglerEnds, Handover
  <2> QED BY <1>5, <2>1, ProvenanceOfHelper, ProvenanceOfForeground, ProvenanceOfDetached
       DEF Happens, HelperKills
<1>6. CASE Crash
  BY <1>6 DEF Crash
<1>7. CASE UNCHANGED vars
  BY <1>0, <1>7, ProvenanceKept DEF OnlyRemoved
<1> QED BY <1>1, <1>2, <1>3, <1>4, <1>5, <1>6, <1>7 DEF Next

LEMMA ProvenanceInvariant == ASSUME Faults = {} PROVE Spec => []Provenance
<1>1. Owning /\ Handover /\ Provenance /\ [Next]_vars => Provenance'
  BY ProvenanceStep
<1> QED BY <1>1, ProvenanceInit, HandoverInvariant, PTL DEF Spec

\* When helpers return in time and the app is not stopped, a green row shows the
\* interface of the process the pid file names, and a connect script of that
\* process has returned 0 (its first one or one of a reconnect, whatever the
\* others returned), although the worker reports what it read without a lock and
\* a refresh may adopt a tunnel at any moment.
THEOREM ConnectedHolds == ASSUME Faults = {} PROVE Spec => []ConnectedIsConfigured
<1>1. Provenance => ConnectedIsConfigured
  BY DEF Provenance
<1> QED BY <1>1, ProvenanceInvariant, PTL

\* Under the same assumption the log of a VPN is the one of the run its pid file
\* and its iface file speak of, so a reason read from it is that run's reason.
THEOREM LogHolds == ASSUME Faults = {} PROVE Spec => []LogIsOfTheRun
<1>1. Provenance => LogIsOfTheRun
  BY DEF Provenance
<1> QED BY <1>1, ProvenanceInvariant, PTL

\* The invariant behind the two.
THEOREM ProvenanceHolds == ASSUME Faults = {} PROVE Spec => []Provenance
BY ProvenanceInvariant
=============================================================================
