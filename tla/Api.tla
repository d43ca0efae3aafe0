-------------------------------- MODULE Api --------------------------------
(***************************************************************************)
(* The calls of the REST API (src/app/api/vpns.py) over a manager whose    *)
(* list of VPNs other requests change while a call is under way.           *)
(*                                                                         *)
(* The manager decides under its lock, but lookups and the loops over the  *)
(* registry run without it: a call holds an id, or a list of ids, that it  *)
(* has read before.  Create, edit and delete hold the lock throughout and  *)
(* are one step; Definitions has their steps.  A row changes under a call  *)
(* as workers and refreshes please (World); Tunnel has the reasons.        *)
(***************************************************************************)
EXTENDS SequencesExt

CONSTANTS
    Vpn,        \* ids
    Request,    \* request threads
    Calls,      \* Calls[r]: which of AllCalls the thread makes
    None

ForOne   == {"get", "log", "connect", "disconnect", "edit", "delete"}
Bulk     == {"connect_all", "disconnect_all"}
AllCalls == ForOne \union Bulk \union {"list", "create", "bad_create", "bad_edit"}

ASSUME CallsAssumption == Calls \in [Request -> SUBSET AllCalls]
ASSUME VpnAssumption   == IsFiniteSet(Vpn)

VARIABLES
    ids,        \* registry.vpns
    row,        \* _states
    creds,      \* VPNs with both credentials
    call        \* what each request thread does

vars == <<ids, row, creds, call>>

Rest == {"disconnected", "error", "connected"}
Code == {200, 201, 202, 204, 400, 404, 409, 500}

\* todo: the list read by a loop, less what is done.  seen: what it has reported.
\* Two ghosts: start, the ids that were listed when a loop began, and since, the
\* ids that were listed when the call began and that nobody has deleted since.
Call == [op : AllCalls, vpn : Vpn \union {None}, pc : {"next", "locked", "describe", "done"},
         todo : Seq(Vpn), seen : Seq(Vpn), start : SUBSET Vpn,
         since : SUBSET Vpn, code : Code \union {None}]

ASSUME NoneAssumption == None \notin Vpn \union Call \union Code

TypeOK ==
    /\ ids \in Seq(Vpn) /\ IsInjective(ids)
    /\ row \in [Vpn -> Rest \union {"busy", "absent"}]
    /\ \A v \in Vpn : row[v] # "absent" <=> v \in Range(ids)
    /\ creds \subseteq Vpn
    /\ call \in [Request -> Call \union {None}]

Init ==
    /\ ids \in UNION {SetToSeqs(s) : s \in SUBSET Vpn}
    /\ row = [v \in Vpn |-> IF v \in Range(ids) THEN "disconnected" ELSE "absent"]
    /\ creds \in SUBSET Vpn
    /\ call = [r \in Request |-> None]

-----------------------------------------------------------------------------
Known(v) == v \in Range(ids)

\* The handler returns.
Answered(c, code) == [c EXCEPT !.pc = "done", !.todo = <<>>, !.code = code]

\* body_fields: the shape of the body is wrong.
BadBody(op) == op \in {"bad_create", "bad_edit"}

\* Where a call goes after its first, unlocked look at the registry.
Begun(c) ==
    CASE BadBody(c.op)                                  -> Answered(c, 400)
      [] c.op \in ForOne /\ ~Known(c.vpn)               -> Answered(c, 404)
      [] c.op = "log" /\ Known(c.vpn)                   -> Answered(c, 200)
      [] c.op = "get" /\ Known(c.vpn)                   -> [c EXCEPT !.pc = "describe"]
      [] c.op \in Bulk \union {"list"}                  -> [c EXCEPT !.todo = ids]
      [] OTHER                                          -> [c EXCEPT !.pc = "locked"]

Arrive(r) ==
    /\ call[r] # None => call[r].pc = "done"
    /\ \E op \in Calls[r] : \E v \in IF op \in ForOne \union {"create"} THEN Vpn ELSE {None} :
          call' = [call EXCEPT ![r] = Begun([op |-> op, vpn |-> v, pc |-> "next", todo |-> <<>>,
                                             seen |-> <<>>,
                                             start |-> IF op \in ForOne THEN {} ELSE Range(ids),
                                             since |-> Range(ids), code |-> None])]
    /\ UNCHANGED <<ids, row, creds>>

At(r, pc) == call[r] # None /\ call[r].pc = pc

\* Slip: the loop indexes the list of the registry, whatever it is by now.
RemainingLive(c) == SubSeq(ids, Len(c.seen) + 2, Len(ids))

Remaining(c) == Tail(c.todo)

\* One round of a loop is over.
Reported(c) == [c EXCEPT !.pc = "next", !.seen = Append(@, c.todo[1]), !.todo = Remaining(c)]

\* The end of the loop, or the next id of it: list describes it, the bulk calls
\* connect or disconnect it, which begins with a lookup nobody catches.
LoopStep(r) ==
    /\ At(r, "next")
    /\ LET c == call[r]
       IN  call' = [call EXCEPT ![r] =
              CASE c.todo = <<>>                -> Answered(c, IF c.op = "list" THEN 200 ELSE 202)
                [] c.todo # <<>> /\ c.op = "list" ->
                      IF row[c.todo[1]] = "absent" THEN Answered(c, 500) ELSE Reported(c)
                [] OTHER                        ->
                      IF Known(c.todo[1]) THEN [c EXCEPT !.pc = "locked"] ELSE Answered(c, 500)]
    /\ UNCHANGED <<ids, row, creds>>

\* snapshot_one after its lookup: state_of has no row for an id that is gone.
Describe(r) ==
    /\ At(r, "describe")
    /\ call' = [call EXCEPT ![r] = Answered(@, IF row[@.vpn] = "absent" THEN 500 ELSE 200)]
    /\ UNCHANGED <<ids, row, creds>>

-----------------------------------------------------------------------------
(* Sections under the lock.                                                *)

Target(c) == IF c.op \in Bulk THEN c.todo[1] ELSE c.vpn

\* A bulk call catches a refusal and reports it; an unknown id ends it.
Outcome(c, code) ==
    IF c.op \notin Bulk THEN Answered(c, code)
    ELSE IF code = 404 THEN Answered(c, 500) ELSE Reported(c)

\* pid: the pid file of v names a process (Tunnel says when).
ConnectCode(v, pid) ==
    CASE ~Known(v)                                                -> 404
      [] Known(v) /\ v \notin creds                               -> 400
      [] Known(v) /\ v \in creds /\ (row[v] \in {"busy", "connected"} \/ pid) -> 409
      [] OTHER                                                    -> 202

DisconnectCode(v, pid) ==
    CASE ~Known(v)                                           -> 404
      [] Known(v) /\ (row[v] = "busy" \/ (row[v] = "disconnected" /\ ~pid)) -> 409
      [] OTHER                                               -> 202

\* connect and disconnect, alone or in a loop.
Act(r) ==
    /\ At(r, "locked")
    /\ \E pid \in BOOLEAN : LET
           c == call[r]
           v == Target(c)
           connects == c.op \in {"connect", "connect_all"}
           code == IF connects THEN ConnectCode(v, pid) ELSE DisconnectCode(v, pid)
       IN  /\ c.op \in Bulk \union {"connect", "disconnect"}
           /\ call' = [call EXCEPT ![r] = Outcome(c, code)]
           /\ row' = IF code = 202 THEN [row EXCEPT ![v] = "busy"] ELSE row
    /\ UNCHANGED <<ids, creds>>

\* What a change of the registry makes of the calls under way (ghost).
Without(v) == [q \in Request |-> IF call[q] = None THEN None
                                 ELSE [call[q] EXCEPT !.since = @ \ {v}]]

Create(r) ==
    /\ At(r, "locked") /\ call[r].op = "create"
    /\ LET v == call[r].vpn
       IN  /\ call' = [call EXCEPT ![r] = Answered(@, IF Known(v) THEN 409 ELSE 201)]
           /\ IF Known(v) THEN UNCHANGED <<ids, row, creds>>
              ELSE /\ ids' = Append(ids, v) /\ row' = [row EXCEPT ![v] = "disconnected"]
                   /\ creds' \in {creds, creds \union {v}}

Mutable(v) == Known(v) /\ row[v] \in {"disconnected", "error"}

\* A field may be invalid; a password may be among the fields.
Edit(r) ==
    /\ At(r, "locked") /\ call[r].op = "edit" /\ Mutable(call[r].vpn)
    /\ \/ /\ call' = [call EXCEPT ![r] = Answered(@, 400)]
          /\ UNCHANGED creds
       \/ /\ call' = [call EXCEPT ![r] = Answered(@, 200)]
          /\ creds' \in {creds, creds \union {call[r].vpn}}
    /\ UNCHANGED <<ids, row>>

\* remove_vpn deletes the entry that _find has found.
Entry(v) == CHOOSE i \in DOMAIN ids : ids[i] = v

\* Slip: the other rows are dropped and come back with the next refresh.
DeleteDropsRows(r) ==
    /\ At(r, "locked") /\ call[r].op = "delete" /\ Mutable(call[r].vpn)
    /\ LET v == call[r].vpn
       IN  /\ call' = [Without(v) EXCEPT ![r] = Answered(@, 204)]
           /\ ids' = <<>>
           /\ row' = [u \in Vpn |-> "absent"]
           /\ creds' = creds \ {v}

\* Slip: the id goes and its row stays.
DeleteKeepsRow(r) ==
    /\ At(r, "locked") /\ call[r].op = "delete" /\ Mutable(call[r].vpn)
    /\ LET v == call[r].vpn
       IN  /\ call' = [Without(v) EXCEPT ![r] = Answered(@, 204)]
           /\ ids' = RemoveAt(ids, Entry(v))
           /\ creds' = creds \ {v}
    /\ UNCHANGED row

Delete(r) ==
    /\ At(r, "locked") /\ call[r].op = "delete" /\ Mutable(call[r].vpn)
    /\ LET v == call[r].vpn
       IN  /\ call' = [Without(v) EXCEPT ![r] = Answered(@, 204)]
           /\ ids' = RemoveAt(ids, Entry(v))
           /\ row' = [row EXCEPT ![v] = "absent"]
           /\ creds' = creds \ {v}

\* A delete is refused too while the pid file names a process.
Refused(r) ==
    /\ At(r, "locked") /\ call[r].op \in {"edit", "delete"}
    /\ Mutable(call[r].vpn) => call[r].op = "delete"
    /\ call' = [call EXCEPT ![r] = Answered(@, IF Known(@.vpn) THEN 409 ELSE 404)]
    /\ UNCHANGED <<ids, row, creds>>

\* A worker ends, a tunnel drops or is adopted.
World(v) ==
    /\ row[v] # "absent"
    /\ \E s \in Rest : row' = [row EXCEPT ![v] = s]
    /\ UNCHANGED <<ids, creds, call>>

Runs(r) == LoopStep(r) \/ Describe(r) \/ Act(r) \/ Create(r) \/ Edit(r)
           \/ Delete(r) \/ Refused(r)

Next == \/ \E r \in Request : Arrive(r) \/ Runs(r)
        \/ \E v \in Vpn : World(v)

Spec == Init /\ [][Next]_vars

-----------------------------------------------------------------------------
(* Properties.                                                             *)

\* The VPNs that were listed when the call began and that somebody has deleted
\* since, less those the call had dealt with before.
DeletedUnder(c) == (c.start \ c.since) \ Range(c.seen)

\* A list, a connect_all and a disconnect_all report every VPN that was there
\* during the whole call, and none twice, whatever is added and deleted
\* meanwhile; one fails half-way only when a VPN that was listed as it began,
\* and that it had not come to, was deleted under it (connect_all and
\* disconnect_all, tunnel.py:227-251).
LoopsMissNothing ==
    \A r \in Request : At(r, "done") /\ call[r].op \in Bulk \union {"list"}
        => /\ call[r].code = 500 => DeletedUnder(call[r]) # {}
           /\ call[r].code # 500 => call[r].since \subseteq Range(call[r].seen)
           /\ IsInjective(call[r].seen)

\* A call about a VPN that is there during the whole call is neither answered
\* "unknown" nor fails, whatever happens to the other VPNs.
StableIdsAreKnown ==
    \A r \in Request : At(r, "done") /\ call[r].op \in ForOne /\ call[r].vpn \in call[r].since
        => call[r].code \notin {404, 500}
=============================================================================
