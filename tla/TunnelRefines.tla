---------------------------- MODULE TunnelRefines ----------------------------
(***************************************************************************)
(* The tunnel manager with its workers, helpers, processes and files does  *)
(* what module Dashboard promises of a row and of the process behind it,   *)
(* for every number of VPNs, runs, threads and requests, as long as        *)
(* helpers return in time and the app is not stopped.  The argument is the *)
(* invariant Handover of TunnelProofs: whoever moves a row knows what runs.*)
(***************************************************************************)
EXTENDS TunnelProofs

\* The steps of a row that start and end no process of its VPN.
Moves(v) ==
    \/ state'[v] = state[v]
    \/ state[v] \in Mutable /\ NothingRunsOn(v) /\ state'[v] = "connecting"
    \/ state[v] \in AtRest /\ state'[v] = "disconnecting"
    \/ state[v] = "connecting" /\ state'[v] = "connected"
    \/ state[v] = "disconnecting" /\ NothingRunsOn(v) /\ state'[v] = "disconnected"
    \/ state[v] \in Busy /\ state'[v] = "error"
    \/ state[v] \in Mutable /\ ~NothingRunsOn(v) /\ state'[v] \in {"connected", "error"}
    \/ state[v] = "connected" /\ NothingRunsOn(v) /\ state'[v] = "error"
    \/ state[v] = "absent" /\ state'[v] = "disconnected"
    \/ state[v] \in AtRest /\ NothingRunsOn(v) /\ state'[v] = "absent"

LEMMA NothingRuns == \A v : NothingRunsOn(v) <=> RunningOn(v) = {}
BY DEF NothingRunsOn, RunningOn

LEMMA MovesAreSteps ==
    ASSUME NEW v \in Vpn, Moves(v), RunningOn(v)' = RunningOn(v)
    PROVE  Promise!Step(v)
BY NothingRuns
   DEF Moves, Mutable, AtRest, Busy, Promise!Mutable, Promise!Step, Promise!Keeps,
       Promise!Connect, Promise!Disconnect, Promise!Connected, Promise!Disconnected,
       Promise!Fails, Promise!Finds, Promise!Drops, Promise!Create, Promise!Delete,
       Promise!Rests

\* Processes move, rows do not.
LEMMA StartIsAStep ==
    ASSUME NEW v \in Vpn, state' = state, state[v] = "connecting",
           RunningOn(v) = {}, RunningOn(v)' # {}
    PROVE  Promise!Step(v)
BY DEF Promise!Step, Promise!Starts

LEMMA EndIsAStep ==
    ASSUME NEW v \in Vpn, state' = state, RunningOn(v) # {}, RunningOn(v)' = {}
    PROVE  Promise!Step(v)
BY DEF Promise!Step, Promise!Ends

-----------------------------------------------------------------------------
(* Rows.                                                                   *)

\* A row at rest whose pid file names no live process has nothing running.
LEMMA RestingWithoutPid ==
    ASSUME Owning, Handover, NEW v \in Vpn, state[v] \in AtRest, ~LivePid(v)
    PROVE  NothingRunsOn(v)
<1>1. ASSUME NEW t \in Thread, pc[t] = "call", job[t] = v PROVE FALSE
  BY <1>1 DEF Owning, Ownership, OwnershipOf, ConnectPc, AtRest
<1> QED BY <1>1, NoPidNothingRuns

LEMMA LivePidRuns ==
    ASSUME Handover, NEW v \in Vpn, LivePid(v), TypeOK
    PROVE  ~NothingRunsOn(v)
BY DEF Handover, PidFilesTrue, LivePid, NothingRunsOn, TypeOK

\* What a refresh finds out about a row.
LEMMA RefreshMoves ==
    ASSUME Owning, Handover, NEW v \in Vpn, NEW STATE s, s[v] = state[v],
           state'[v] = RefreshedState(s, v)
    PROVE  Moves(v)
<1>1. CASE Adopted(s, v) \/ Unconfigured(s, v)
  <2>1. state[v] \in Mutable /\ state'[v] \in {"connected", "error"} /\ LivePid(v)
    BY <1>1 DEF Adopted, Unconfigured, RefreshedState
  <2> QED BY <2>1, LivePidRuns DEF Moves, Owning
<1>2. CASE Dropped(s, v) /\ ~Adopted(s, v) /\ ~Unconfigured(s, v)
  <2>1. state[v] = "connected" /\ state'[v] = "error" /\ ~LivePid(v)
    BY <1>2 DEF Dropped, RefreshedState
  <2> QED BY <2>1, RestingWithoutPid DEF Moves, AtRest
<1>3. CASE ~Adopted(s, v) /\ ~Unconfigured(s, v) /\ ~Dropped(s, v)
  BY <1>3 DEF RefreshedState, Moves
<1> QED BY <1>1, <1>2, <1>3

LEMMA CallMoves ==
    ASSUME Owning, Handover, NEW r \in Request, Call(r), NEW v \in Vpn
    PROVE  Moves(v)
<1> USE DEF rows, workers
<1>1. ASSUME NEW o, NEW w, Arrive(r, o, w) PROVE Moves(v)
  BY <1>1, RefreshMoves DEF Arrive, Refresh
<1>2. ASSUME NEW t \in Thread, NEW p \in Proc, AcceptConnect(r, t, p) PROVE Moves(v)
  <2>1. CASE v = on[r]
    <3>1. state[v] \in Mutable /\ ~LivePid(v) /\ state'[v] = "connecting"
      BY <1>2, <2>1 DEF AcceptConnect, CanConnect, SetRow, Owning, TypeOK
    <3> QED BY <3>1, RestingWithoutPid DEF Moves, Mutable, AtRest
  <2>2. CASE v # on[r]
    BY <1>2, <2>2 DEF AcceptConnect, SetRow, Moves, Owning, TypeOK
  <2> QED BY <2>1, <2>2
<1>3. ASSUME NEW t \in Thread, AcceptDisconnect(r, t) PROVE Moves(v)
  BY <1>3 DEF AcceptDisconnect, CanDisconnect, SetRow, Moves, Owning, TypeOK
<1>4. CASE Refuse(r)
  BY <1>4 DEF Refuse, Moves
<1> QED BY <1>1, <1>2, <1>3, <1>4 DEF Call

LEMMA DefineMoves ==
    ASSUME Owning, Handover, NEW w \in Vpn, Define(w), NEW v \in Vpn
    PROVE  Moves(v)
<1>1. CASE CreateVpn(w)
  <2> DEFINE s == [state EXCEPT ![w] = "disconnected"]
  <2>1. state'[v] = RefreshedState(s, v)
    BY <1>1 DEF CreateVpn, Refresh
  <2>2. CASE v = w
    <3>1. state[v] = "absent" /\ s[v] = "disconnected"
      BY <1>1, <2>2 DEF CreateVpn, Known, Owning, TypeOK
    <3>2. ~LivePid(v)
      BY <3>1, LivePidRuns DEF Handover, NoOrphans, Known, Owning
    <3>3. state'[v] = "disconnected"
      BY <2>1, <3>1, <3>2 DEF RefreshedState, Adopted, Unconfigured, Dropped
    <3> QED BY <3>1, <3>3 DEF Moves
  <2>3. CASE v # w
    <3>1. s[v] = state[v]
      BY <2>3 DEF Owning, TypeOK
    <3> QED BY <2>1, <3>1, RefreshMoves
  <2> QED BY <2>2, <2>3
<1>2. CASE EditVpn(w)
  BY <1>2, RefreshMoves DEF EditVpn, Refresh
<1>3. CASE DeleteVpn(w)
  <2>1. CASE v = w
    <3>1. state'[v] = "absent" /\ state[v] \in AtRest /\ ~LivePid(v)
      BY <1>3, <2>1 DEF DeleteVpn, RefreshedState, Adopted, Unconfigured, Dropped, Mutable,
                        AtRest
    <3> QED BY <3>1, RestingWithoutPid DEF Moves
  <2>2. CASE v # w
    BY <1>3, <2>2, RefreshMoves DEF DeleteVpn
  <2> QED BY <2>1, <2>2
<1> QED BY <1>1, <1>2, <1>3 DEF Define

LEMMA WorkMoves ==
    ASSUME Owning, Handover, NEW t \in Thread, Work(t), NEW v \in Vpn
    PROVE  Moves(v)
<1> USE DEF rows
<1>1. /\ job[t] \in Vpn
      /\ kind[t] = "connect" => state[job[t]] = "connecting"
      /\ kind[t] # "connect" => state[job[t]] = "disconnecting"
      /\ pc[t] = "report" => kind[t] = "connect"
  <2>1. pc[t] # "idle"
    BY DEF Work, Proceeds, Probed, Launch, ReturnsOk, ReturnsFailed, Stalls, PollConnected,
           Report,
           PollDead, PollRefused, PollDeadline, WorkerFails, StopNothing, StopSignals,
           StopEnds, StopOverruns, StopAborts, StopDone
  <2> QED BY <2>1 DEF Owning, Ownership, OwnershipOf, TypeOK, ConnectPc
<1>2. CASE StopDone(t)
  <2>1. NothingRunsOn(job[t])
    BY <1>2 DEF StopDone, Handover, MayRun
  <2> QED BY <1>1, <1>2, <2>1 DEF StopDone, SetRow, Moves, Busy, Owning, TypeOK
<1>3. CASE Report(t)
  BY <1>1, <1>3 DEF Report, SetRow, Moves, Owning, TypeOK
<1>4. CASE ReturnsFailed(t) \/ PollDead(t) \/ WorkerFails(t)
  <2>1. SetRow(job[t], "error", None)
    BY <1>4 DEF ReturnsFailed, PollDead, WorkerFails
  <2> QED BY <1>1, <2>1 DEF SetRow, Moves, Busy, Owning, TypeOK
<1>5. CASE state' = state
  BY <1>5 DEF Moves
<1> QED BY <1>2, <1>3, <1>4, <1>5
    DEF Work, Proceeds, Probed, Launch, ReturnsOk, Stalls, PollConnected, PollRefused,
        PollDeadline,
        StopNothing, StopSignals, StopEnds, StopOverruns, StopAborts

-----------------------------------------------------------------------------
(* Processes.                                                              *)

\* A worker that starts its helper has nothing running yet.
LEMMA WorkRunsNothing ==
    ASSUME Owning, Handover, NEW t \in Thread, Work(t), NEW v
    PROVE  RunningOn(v)' = RunningOn(v)
<1>1. CASE Launch(t)
  <2>1. run[t] \in Proc /\ stage[run[t]] \notin Running
    BY <1>1, NoneAssumption DEF Launch, Handover, FreshRun, Owning, TypeOK, Running
  <2> QED BY <1>1, <2>1 DEF Launch, RunningOn, Running, Owning, TypeOK
<1>2. CASE UNCHANGED <<stage, vpnOf>>
  BY <1>2 DEF RunningOn
<1> QED BY <1>1, <1>2
    DEF Work, Proceeds, Probed, ReturnsOk, ReturnsFailed, Stalls, PollConnected, Report,
        PollDead, PollRefused, PollDeadline, WorkerFails, StopNothing, StopSignals,
        StopEnds, StopOverruns, StopAborts, StopDone, procs

\* A run moves on: what runs on a VPN changes only if this run starts or ends.
LEMMA RunMoves ==
    ASSUME TypeOK, NEW p \in Proc, NEW s, Advance(p, s), NEW v,
           (stage[p] \in Running <=> s \in Running) \/ vpnOf[p] # v
    PROVE  RunningOn(v)' = RunningOn(v)
BY DEF Advance, RunningOn, TypeOK

LEMMA HappensSteps ==
    ASSUME Owning, Handover, NEW p \in Proc, Happens(p), NEW v \in Vpn
    PROVE  Promise!Step(v)
<1> USE DEF rows, procs, Owning
<1>1. state' = state
  BY DEF Happens, HelperPrepares, HelperCannotPrepare, HelperReportsFailure,
         ForegroundFails, ScriptWarns, ScriptConfigures, ScriptFails, Backgrounds,
         Reconnects, ProcessEnds, HelperKills, StragglerEnds
<1>2. ASSUME RunningOn(v)' = RunningOn(v) PROVE Promise!Step(v)
  BY <1>1, <1>2, MovesAreSteps DEF Moves
<1>3. CASE HelperPrepares(p)
  <2>1. CASE vpnOf[p] = v
    <3>1. PICK t \in Thread : pc[t] = "call" /\ run[t] = p /\ job[t] = v
      BY <1>3, <2>1 DEF HelperPrepares, Handover, Attended, InForeground
    <3>2. state[v] = "connecting"
      BY <3>1 DEF Ownership, OwnershipOf, ConnectPc
    <3>3. RunningOn(v) = {}
      BY <1>3, <3>1 DEF HelperPrepares, Handover, MayRun, RunningOn, Running
    <3>4. p \in RunningOn(v)'
      BY <1>3, <2>1 DEF HelperPrepares, Advance, RunningOn, Running, TypeOK
    <3> QED BY <1>1, <3>2, <3>3, <3>4, StartIsAStep
  <2>2. CASE vpnOf[p] # v
    BY <1>2, <1>3, <2>2, RunMoves DEF HelperPrepares
  <2> QED BY <2>1, <2>2
<1>4. CASE ForegroundFails(p) \/ ProcessEnds(p)
  <2>1. PICK s \in {"exited", "dead"} : Advance(p, s)
    BY <1>4 DEF ForegroundFails, ProcessEnds
  <2>2. stage[p] \in Running
    BY <1>4 DEF ForegroundFails, ProcessEnds, Running
  <2>3. CASE vpnOf[p] = v
    <3>1. RunningOn(v) = {p}
      BY <2>2, <2>3, HandoverImpliesOneTunnel DEF OneTunnel, RunningOn
    <3>2. RunningOn(v)' = {}
      BY <2>1, <3>1 DEF Advance, RunningOn, Running, TypeOK
    <3> QED BY <1>1, <3>1, <3>2, EndIsAStep
  <2>4. CASE vpnOf[p] # v
    BY <1>2, <2>1, <2>4, RunMoves
  <2> QED BY <2>3, <2>4
<1>5. CASE \/ HelperCannotPrepare(p) \/ HelperReportsFailure(p) \/ ScriptConfigures(p)
           \/ ScriptFails(p) \/ Backgrounds(p)
  <2>1. PICK s : Advance(p, s) /\ (stage[p] \in Running <=> s \in Running)
    BY <1>5 DEF HelperCannotPrepare, HelperReportsFailure, ScriptConfigures, ScriptFails,
                Backgrounds, Running
  <2> QED BY <1>2, <2>1, RunMoves
<1>6. CASE ScriptWarns(p) \/ Reconnects(p) \/ StragglerEnds(p)
  <2>1. UNCHANGED <<stage, vpnOf>>
    BY <1>6 DEF ScriptWarns, Reconnects, StragglerEnds
  <2> QED BY <1>2, <2>1 DEF RunningOn
<1> QED BY <1>3, <1>4, <1>5, <1>6 DEF Happens, HelperKills

-----------------------------------------------------------------------------
(* Initial states map to initial states, steps to steps.                   *)

LEMMA PromiseInit == Init => Promise!Init
<1> SUFFICES ASSUME Init PROVE Promise!Init
  OBVIOUS
<1>1. ASSUME NEW v \in Vpn, state[v] = "absent" PROVE RunningOn(v) = {}
  BY <1>1, HandoverInit, NothingRuns DEF Handover, NoOrphans, Known
<1>2. state \in [Vpn -> {"absent", "disconnected"}]
  BY DEF Init
<1> QED BY <1>1, <1>2 DEF Promise!Init

LEMMA PromiseStep ==
    ASSUME Faults = {}, Owning, Handover, [Next]_vars
    PROVE  [Promise!Next]_(Promise!vars)
<1> USE DEF vars, rows, procs
<1>1. ASSUME UNCHANGED <<stage, vpnOf>>, NEW v \in Vpn PROVE RunningOn(v)' = RunningOn(v)
  BY <1>1 DEF RunningOn
<1>2. ASSUME Next, NEW v \in Vpn PROVE Promise!Step(v)
  <2>1. CASE Read
    BY <1>1, <2>1, RefreshMoves, MovesAreSteps DEF Read, Refresh
  <2>2. ASSUME NEW r \in Request, Call(r) PROVE Promise!Step(v)
    <3>1. UNCHANGED <<stage, vpnOf>>
      BY <2>2 DEF Call, Arrive, AcceptConnect, AcceptDisconnect, Refuse
    <3> QED BY <1>1, <2>2, <3>1, CallMoves, MovesAreSteps
  <2>3. ASSUME NEW w \in Vpn, Define(w) PROVE Promise!Step(v)
    <3>1. UNCHANGED <<stage, vpnOf>>
      BY <2>3 DEF Define, CreateVpn, EditVpn, DeleteVpn
    <3> QED BY <1>1, <2>3, <3>1, DefineMoves, MovesAreSteps
  <2>4. ASSUME NEW t \in Thread, Work(t) PROVE Promise!Step(v)
    BY <2>4, WorkMoves, WorkRunsNothing, MovesAreSteps
  <2>5. ASSUME NEW p \in Proc, Happens(p) PROVE Promise!Step(v)
    BY <2>5, HappensSteps
  <2>6. ~Crash
    BY DEF Crash
  <2> QED BY <1>2, <2>1, <2>2, <2>3, <2>4, <2>5, <2>6 DEF Next
<1>3. CASE Next
  BY <1>2, <1>3 DEF Promise!Next
<1>4. CASE UNCHANGED vars
  BY <1>1, <1>4 DEF Promise!vars
<1> QED BY <1>3, <1>4

\* Every behaviour of the manager, when helpers return in time and the app is
\* not stopped, is one the docstring's state machine allows: a connect starts
\* where nothing runs, openconnect starts under a connecting row only, a row
\* turns disconnected or disappears only when nothing runs, and what a refresh
\* makes of a row agrees with what runs.
THEOREM Implements == ASSUME Faults = {} PROVE Spec => KeepsPromise
<1>1. Init => Promise!Init
  BY PromiseInit
<1>2. Owning /\ Handover /\ [Next]_vars => [Promise!Next]_(Promise!vars)
  BY PromiseStep
<1> QED BY <1>1, <1>2, HandoverInvariant, PTL DEF Spec, Promise!Spec, KeepsPromise
=============================================================================
