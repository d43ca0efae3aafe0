----------------------------- MODULE Definitions -----------------------------
(***************************************************************************)
(* Where a VPN's definition lives, and how create, edit, delete and the    *)
(* certificate pin of a connect change it: vpns.yaml, .env, the process    *)
(* environment and the list in memory (src/app/services/registry.py,       *)
(* credentials.py, and the mutations of tunnel.py).                        *)
(*                                                                         *)
(* A mutation holds the manager's lock from its first check to the reload, *)
(* so at most one is under way (call).  The lock does not hold off an      *)
(* editor, an operating system that refuses a write, or a stop of the app, *)
(* so each read and each write of a file is a step of its own.             *)
(*                                                                         *)
(* An entry is its server and its pin; the pin stands for the server it    *)
(* was probed from.  Server None is an entry parse_vpn rejects, whatever   *)
(* field is to blame.  The other fields are treated like the server, less  *)
(* the pin.  A worker is seen only in what it does to the definition and   *)
(* to its row; module Tunnel has the rest of it.                           *)
(***************************************************************************)
CONSTANTS
    Vpn,        \* ids that may be in vpns.yaml
    Server,     \* servers an entry may name
    Name,       \* names of variables in .env
    NamesOf,    \* NamesOf[v]: the variables of v (env_var_names)
    Thread,     \* connect workers (bound: how many live together)
    Hand,       \* what a person may do to the files while the app runs
    Faults,     \* which of AllFaults may happen
    None        \* no entry, no server, no pin, no call

(***************************************************************************)
(* Hand:   remove, add, server, invalid (an entry loses its server);       *)
(*         line (a line of .env is set, emptied or removed)                *)
(* Faults: oserror  a write of a file fails                                *)
(*         crash    the app is stopped and started again at any moment     *)
(***************************************************************************)
AllHand   == {"remove", "add", "server", "invalid", "line"}
AllFaults == {"oserror", "crash"}

ASSUME NamesAssumption == NamesOf \in [Vpn -> SUBSET Name]
ASSUME HandAssumption  == Hand \subseteq AllHand /\ Faults \subseteq AllFaults

VARIABLES
    yaml,       \* yaml[v]: the entry of v in vpns.yaml
    dotenv,     \* dotenv[n]: the line of n in .env
    environ,    \* environ[n]: n in os.environ
    mem,        \* mem[v]: the VpnDef of v in registry.vpns
    row,        \* row[v]: its TunnelState in _states
    worker,     \* worker[t]: the VPN and the VpnDef a connect worker works on
    call,       \* the mutation that holds the lock
    copy,       \* vpns.yaml as that mutation has read it
    answer      \* the code of the last finished request

files == <<yaml, dotenv>>
app   == <<environ, mem, row, worker>>
vars  == <<files, app, call, copy, answer>>

Entry == [server : Server \union {None}, pin : Server \union {None}]
Def   == [server : Server, pin : Server \union {None}, creds : BOOLEAN]
Line  == {"missing", "empty", "set"}
Lines == [Name -> Line]
Steps == {"read", "write", "lines", "text", "dotenv", "reload", "memory"}

\* server   the one supplied (None: left out)
\* fit      are the fields that are supplied such as parse_vpn takes?
\* given    the variables whose values are supplied
\* seen     .env as a create has searched it for lines of the VPN (None: not yet)
\* text     .env as it is going to be rewritten (None: not read)
\* wrote    has this mutation changed a file? (history, for RejectedChangesNothing)
Call  == [op : {"create", "edit", "delete", "pin"}, vpn : Vpn, step : Steps,
          server : Server \union {None}, fit : BOOLEAN, given : SUBSET Name,
          seen : Lines \union {None}, text : Lines \union {None}, wrote : BOOLEAN,
          by : Thread \union {None}]
Job   == [vpn : Vpn, def : Def \union {None}]

ASSUME NoneAssumption == /\ None \notin Vpn \union Server \union {400, 409, 500}
                         /\ None \notin Entry \union Def \union Call \union Job \union Lines

TypeOK ==
    /\ yaml \in [Vpn -> Entry \union {None}] /\ copy \in [Vpn -> Entry \union {None}]
    /\ dotenv \in Lines /\ environ \in Lines
    /\ mem \in [Vpn -> Def \union {None}]
    /\ row \in [Vpn -> {"absent", "idle", "busy", "up"}]
    /\ worker \in [Thread -> Job \union {None}]
    /\ call \in Call \union {None}
    /\ answer \in {None, 200, 400, 404, 409, 500}

-----------------------------------------------------------------------------
(* load_registry.                                                          *)

\* Slip: an entry without a server is loaded.
LoadableAnyhow(f) == TRUE

\* One bad entry and nothing is loaded.
Loadable(f) == \A v \in Vpn : f[v] # None => f[v].server # None

Has(e, v) == \A n \in NamesOf[v] : e[n] = "set"

Parse(f, e) == [v \in Vpn |->
    IF f[v] = None THEN None
    ELSE [server |-> f[v].server, pin |-> f[v].pin, creds |-> Has(e, v)]]

\* Slip: a reload that builds every row anew.
ReloadedAnew(f) == [v \in Vpn |-> IF f[v] = None THEN "absent" ELSE "idle"]

\* Rows of a reload: ids that stay keep theirs.
Reloaded(f) == [v \in Vpn |-> IF f[v] = None THEN "absent"
                              ELSE IF row[v] = "absent" THEN "idle" ELSE row[v]]

Init ==
    /\ yaml \in [Vpn -> {None} \union [server : Server, pin : {None}]]
    /\ dotenv \in Lines
    /\ environ = dotenv
    /\ mem = Parse(yaml, dotenv)
    /\ row = [v \in Vpn |-> IF yaml[v] = None THEN "absent" ELSE "idle"]
    /\ worker = [t \in Thread |-> None]
    /\ call = None /\ copy = yaml /\ answer = None

-----------------------------------------------------------------------------
(* Requests: the checks before anything is read.                           *)

Started(o, v, step, s, f, g, t) ==
    [op |-> o, vpn |-> v, step |-> step, server |-> s, fit |-> f, given |-> g,
     seen |-> None, text |-> None, wrote |-> FALSE, by |-> t]

Begin(o, v, s, f, g, t) == call' = Started(o, v, "read", s, f, g, t)

Create(v, s, g) ==
    /\ call = None
    /\ Begin("create", v, s, TRUE, g, None)
    /\ UNCHANGED <<files, app, copy, answer>>

\* Slip: an edit that does not look at the row.
EditUnchecked(v, s, f, g) ==
    /\ call = None /\ mem[v] # None
    /\ Begin("edit", v, s, f, g, None)
    /\ UNCHANGED <<files, app, copy, answer>>

\* _require_mutable.
Edit(v, s, f, g) ==
    /\ call = None /\ mem[v] # None /\ row[v] = "idle"
    /\ Begin("edit", v, s, f, g, None)
    /\ UNCHANGED <<files, app, copy, answer>>

\* (A process behind an idle row makes this a 409 too; see module Tunnel.)
Delete(v) ==
    /\ call = None /\ mem[v] # None /\ row[v] = "idle"
    /\ Begin("delete", v, None, TRUE, {}, None)
    /\ UNCHANGED <<files, app, copy, answer>>

Refuse(v) ==
    /\ call = None
    /\ \/ mem[v] = None /\ answer' = 404
       \/ mem[v] # None /\ row[v] # "idle" /\ answer' = 409
    /\ UNCHANGED <<files, app, call, copy>>

-----------------------------------------------------------------------------
(* The lock holder, step by step.                                          *)

At(step) == call # None /\ call.step = step

GoOn(step) == call' = [call EXCEPT !.step = step] /\ UNCHANGED answer

\* A worker that gets the exception gives its work up, and ends later.
End(code) == /\ call' = None
             /\ IF call.op = "pin"
                THEN worker' = [worker EXCEPT ![call.by].def = None] /\ UNCHANGED answer
                ELSE answer' = code /\ UNCHANGED worker

\* The server after the change: a field left out is kept.
Merged(e) == CASE ~call.fit                         -> None
               [] call.fit /\ call.server # None    -> call.server
               [] call.fit /\ call.server = None    -> IF e = None THEN None ELSE e.server

\* Slip: only the reload looks at the entry.
RejectionLeftToReload(f) ==
    LET e == f[call.vpn]
    IN  CASE call.op = "create" /\ e # None -> 409
          [] call.op = "edit" /\ e = None   -> 400
          [] call.op = "delete" /\ e = None -> 500
          [] call.op = "pin" /\ e = None    -> 500
          [] OTHER                          -> None

\* _read_file, _find and parse_vpn of the changed entry.
Rejection(f) ==
    LET e == f[call.vpn]
    IN  CASE call.op = "create" /\ Merged(None) = None            -> 400
          [] call.op = "create" /\ Merged(None) # None /\ e # None -> 409
          [] call.op = "edit" /\ (e = None \/ Merged(e) = None)   -> 400
          [] call.op = "delete" /\ e = None                       -> 500
          [] call.op = "pin" /\ e = None                          -> 500
          [] OTHER                                                -> None

ReadFile ==
    /\ At("read")
    /\ IF Rejection(yaml) = None THEN GoOn("write") /\ UNCHANGED worker
                                 ELSE End(Rejection(yaml))
    /\ copy' = yaml
    /\ UNCHANGED <<files, environ, mem, row>>

\* Slip: the pin of the old server is kept.
ChangedKeepsPin(e) ==
    CASE call.op = "create" -> [server |-> Merged(None), pin |-> None]
      [] call.op = "edit"   -> [server |-> Merged(e), pin |-> e.pin]
      [] call.op = "delete" -> None
      [] call.op = "pin"    -> [e EXCEPT !.pin = worker[call.by].def.server]

\* add_vpn, update_vpn, remove_vpn, save_servercert: the entry after the change.
Changed(e) ==
    CASE call.op = "create" -> [server |-> Merged(None), pin |-> None]
      [] call.op = "edit"   -> [server |-> Merged(e),
                                pin |-> IF Merged(e) = e.server THEN e.pin ELSE None]
      [] call.op = "delete" -> None
      [] call.op = "pin"    -> [e EXCEPT !.pin = worker[call.by].def.server]

\* The whole file is replaced by what was read, with one entry changed.  Next
\* come the credentials, if there is anything to do about them.
WriteFile ==
    /\ At("write")
    /\ yaml' = [copy EXCEPT ![call.vpn] = Changed(@)]
    /\ call' = [call EXCEPT
           !.step  = CASE call.op = "pin"                       -> "memory"
                       [] call.op = "create"                    -> "lines"
                       [] call.op = "edit" /\ call.given = {}   -> "reload"
                       [] OTHER                                 -> "text",
           !.wrote = yaml' # yaml]
    /\ UNCHANGED <<dotenv, app, copy, answer>>

\* Slip: a line that is not supplied is missing.
AllMissing(f) == NamesOf[call.vpn]

\* What .env has no line of, a create adds.
Missing(f) == {n \in NamesOf[call.vpn] : f[n] = "missing"}

\* _present.
ReadLines ==
    /\ At("lines")
    /\ call' = [call EXCEPT
           !.seen = dotenv,
           !.step = IF call.given \union Missing(dotenv) = {} THEN "reload" ELSE "text"]
    /\ UNCHANGED <<files, app, copy, answer>>

\* _rewrite reads the file ...
ReadText ==
    /\ At("text")
    /\ call' = [call EXCEPT !.text = dotenv, !.step = "dotenv"]
    /\ UNCHANGED <<files, app, copy, answer>>

\* scaffold_credentials, set_credentials, remove_credentials: what they write.
Credentials ==
    LET ns == NamesOf[call.vpn]
    IN  CASE call.op = "create" ->
                  [n \in call.given \union Missing(call.seen) |->
                      IF n \in call.given THEN "set" ELSE "empty"]
          [] call.op = "edit"   -> [n \in call.given |-> "set"]
          [] call.op = "delete" -> [n \in ns |-> "missing"]

Over(f, e) == [n \in Name |-> IF n \in DOMAIN f THEN f[n] ELSE e[n]]

Rewritten == [call EXCEPT !.step = "reload", !.seen = None, !.text = None,
                          !.wrote = call.wrote \/ dotenv' # dotenv]

\* Slip: .env is written and the environment is not.
WriteCredentialsToFile ==
    /\ At("dotenv")
    /\ dotenv' = Over(Credentials, call.text)
    /\ call' = Rewritten
    /\ UNCHANGED <<yaml, environ, mem, row, worker, copy, answer>>

\* ... and replaces it by what it has read, with the lines changed; then comes
\* the environment, and nobody reads the one between the two.
WriteCredentials ==
    /\ At("dotenv")
    /\ dotenv'  = Over(Credentials, call.text)
    /\ environ' = Over(Credentials, environ)
    /\ call' = Rewritten
    /\ UNCHANGED <<yaml, mem, row, worker, copy, answer>>

Reload ==
    /\ At("reload") /\ Loadable(yaml)
    /\ mem' = Parse(yaml, environ)
    /\ row' = Reloaded(yaml)
    /\ call' = None /\ answer' = 200
    /\ UNCHANGED <<files, environ, worker, copy>>

\* RegistryError: a create and an edit answer 400, a delete does not catch it.
ReloadFails ==
    /\ At("reload") /\ ~Loadable(yaml)
    /\ End(IF call.op = "delete" THEN 500 ELSE 400)
    /\ UNCHANGED <<files, environ, mem, row, copy>>

\* A write that the system refuses leaves the old file.
WriteFails ==
    /\ "oserror" \in Faults
    /\ At("write") \/ At("dotenv")
    /\ End(500)
    /\ UNCHANGED <<files, environ, mem, row, copy>>

-----------------------------------------------------------------------------
(* Connect workers: _ensure_servercert, and the row when they are done.    *)

StartWorker(t, v) ==
    /\ call = None /\ worker[t] = None
    /\ mem[v] # None /\ mem[v].creds /\ row[v] = "idle"
    /\ row' = [row EXCEPT ![v] = "busy"]
    /\ worker' = [worker EXCEPT ![t] = [vpn |-> v, def |-> mem[v]]]
    /\ UNCHANGED <<files, environ, mem, call, copy, answer>>

Unpinned(t) == worker[t] # None /\ worker[t].def # None /\ worker[t].def.pin = None

\* Slip: the pin goes into a list that was read before.
StorePinStale(t) ==
    /\ call = None /\ Unpinned(t) /\ copy[worker[t].vpn] # None
    /\ call' = Started("pin", worker[t].vpn, "write", None, TRUE, {}, t)
    /\ UNCHANGED <<files, app, copy, answer>>

\* The probe of a VPN without a pin has an answer; the lock is taken.
StorePin(t) ==
    /\ call = None /\ Unpinned(t)
    /\ Begin("pin", worker[t].vpn, None, TRUE, {}, t)
    /\ UNCHANGED <<files, app, copy, answer>>

\* The list in memory gets the definition of the worker, if it still has the id.
PinInMemory ==
    /\ At("memory")
    /\ LET v == call.vpn
           w == worker[call.by].def
           d == [w EXCEPT !.pin = w.server]
       IN  /\ mem' = [mem EXCEPT ![v] = IF @ = None THEN None ELSE d]
           /\ worker' = [worker EXCEPT ![call.by].def = d]
    /\ call' = None
    /\ UNCHANGED <<files, environ, row, copy, answer>>

\* _set makes the row anew if a reload has dropped it.
WorkerEnds(t) ==
    /\ worker[t] # None
    /\ call = None
    /\ row' \in {[row EXCEPT ![worker[t].vpn] = s] : s \in {"idle", "up"}}
    /\ worker' = [worker EXCEPT ![t] = None]
    /\ UNCHANGED <<files, environ, mem, call, copy, answer>>

\* A disconnect, or a drop that a refresh has seen.
GoesDown(v) ==
    /\ call = None /\ row[v] = "up"
    /\ row' = [row EXCEPT ![v] = "idle"]
    /\ UNCHANGED <<files, environ, mem, worker, call, copy, answer>>

-----------------------------------------------------------------------------
(* The world outside the lock.                                             *)

HandEditsLine(n) ==
    /\ "line" \in Hand
    /\ \E l \in Line : dotenv' = [dotenv EXCEPT ![n] = l]
    /\ UNCHANGED <<yaml, app, call, copy, answer>>

HandEdits(v) ==
    /\ \/ "remove" \in Hand /\ yaml[v] # None /\ yaml' = [yaml EXCEPT ![v] = None]
       \/ /\ "add" \in Hand /\ yaml[v] = None
          /\ \E s \in Server : yaml' = [yaml EXCEPT ![v] = [server |-> s, pin |-> None]]
       \/ /\ "server" \in Hand /\ yaml[v] # None
          /\ \E s \in Server : yaml' = [yaml EXCEPT ![v].server = s]
       \/ "invalid" \in Hand /\ yaml[v] # None /\ yaml' = [yaml EXCEPT ![v].server = None]
    /\ UNCHANGED <<dotenv, app, call, copy, answer>>

\* Stopped anywhere and started again: load_dotenv, load_registry, new rows.
Crash ==
    /\ "crash" \in Faults /\ Loadable(yaml)
    /\ environ' = dotenv
    /\ mem' = Parse(yaml, dotenv)
    /\ row' = [v \in Vpn |-> IF yaml[v] = None THEN "absent" ELSE "idle"]
    /\ worker' = [t \in Thread |-> None]
    /\ call' = None /\ copy' = yaml /\ answer' = None
    /\ UNCHANGED files

Request(v) ==
    \/ \E s \in Server \union {None}, g \in SUBSET NamesOf[v] :
          Create(v, s, g) \/ (\E f \in BOOLEAN : Edit(v, s, f, g))
    \/ Delete(v) \/ Refuse(v)

Mutate == \/ ReadFile \/ WriteFile \/ ReadLines \/ ReadText
          \/ WriteCredentials \/ Reload \/ ReloadFails \/ WriteFails \/ PinInMemory

Work(t) == (\E v \in Vpn : StartWorker(t, v)) \/ StorePin(t) \/ WorkerEnds(t)

Next == \/ \E v \in Vpn : Request(v) \/ GoesDown(v) \/ HandEdits(v)
        \/ \E n \in Name : HandEditsLine(n)
        \/ Mutate
        \/ \E t \in Thread : Work(t)
        \/ Crash

Spec == Init /\ [][Next]_vars

-----------------------------------------------------------------------------
(* Properties.                                                             *)

\* A pin is only ever used against the server it was probed from, in the file,
\* in memory and in the hands of a worker (tunnel.py:282-284).
PinsMatch ==
    LET Own(d) == d # None => d.pin \in {None, d.server}
    IN  /\ \A v \in Vpn : Own(yaml[v]) /\ Own(mem[v])
        /\ \A t \in Thread : worker[t] # None => Own(worker[t].def)

\* Between two mutations the app has in memory what a restart would load:
\* nothing that was acknowledged is lost, nothing comes back.
RestartChangesNothing == call = None => mem = Parse(yaml, dotenv)

\* While a connect worker lives its row says so: nobody edits, deletes or
\* starts a second worker on its VPN.
WorkerOwnsRow ==
    /\ \A t \in Thread : worker[t] # None => row[worker[t].vpn] = "busy"
    /\ \A t, u \in Thread : worker[t] # None /\ worker[u] # None /\ t # u
          => worker[t].vpn # worker[u].vpn

\* Two mutations never undo each other: a write changes one entry.
OthersUntouched ==
    [][\A v \in Vpn : yaml'[v] # yaml[v] => call # None /\ call.vpn = v]_vars

\* A request that is answered 400 or 409 has changed neither file: whatever
\* parse_vpn or load_registry would reject is found out before anything is
\* written, so a reload never fails on what the request itself has written.
RejectedChangesNothing ==
    [][call # None /\ call' = None /\ call.op # "pin" /\ answer' \in {400, 409}
          => ~call.wrote /\ UNCHANGED files]_vars

\* Credentials that a person has saved in .env while a mutation was rewriting it:
\* after _rewrite had read the file, or after a create had found no line of them.
SavedMeanwhile(v) ==
    \/ ~Has(call.text, v)
    \/ /\ call.op = "create" /\ call.vpn = v
       /\ \E n \in NamesOf[v] : call.seen[n] = "missing" /\ call.text[n] = "set"

\* Whatever is done to the other VPNs, whatever fails and whatever was edited by
\* hand before, the app loses the credentials of a VPN only by deleting that VPN.
\* No lock holds off an editor, so the exception is what it saves meanwhile.
CredentialsKept ==
    [][\A v \in Vpn : Has(dotenv, v) /\ ~Has(dotenv, v)' /\ call' # call
          => (call.op = "delete" /\ call.vpn = v) \/ SavedMeanwhile(v)]_vars
=============================================================================
