# A TLA+ model of vpnconnect

vpnconnect is a Flask dashboard that runs several `openconnect` tunnels at
once. This directory models the part of it that is hard to get right and hard
to test: what its request threads, worker threads, root helper, openconnect
processes and state files do to each other; how the definition of a VPN changes
in two files, the environment and memory; what reaches the routing table; and
what a page that polls shows of it. TLC checks the model on small instances,
TLAPS proves its main safety properties for every size. Paths below
are relative to the repository (`src/`), line numbers are of this commit.

## 1. The system

| component | state it keeps | operations | correct when |
|---|---|---|---|
| **tunnel manager** `app/services/tunnel.py` | one row per VPN: state, interface, address, message; a lock | `refresh`, `connect`, `disconnect`, `create_vpn`, `edit_vpn`, `delete_vpn`, `reload`, the bulk calls, the connect and the disconnect worker | a busy row has exactly one worker; rows agree with processes; nothing is started twice, left behind or shown wrongly; busy rows come to rest |
| **helper runner** `app/services/runner.py` | none | run the helper under `sudo -n` with a time budget; on a timeout abandon it, never signal it | the caller knows what it does not know: rc 124 means the tunnel may still come up |
| **file status** `app/services/status.py` | none | read `<id>.pid`, `<id>.iface`, `<id>.log`; find the failure line of a log | a reader never takes an empty, stale or foreign file for a tunnel |
| **privileged helper** `scripts/vpnconnect-helper` (root) | creates and removes the pid, iface and log file | `probe`, `connect`, `disconnect` | only openconnect is ever signalled, a failed connect leaves only the log |
| **split-routing script** `scripts/vpnc-split.sh` (root, run by openconnect) | routes, DNS entry, iface file, log lines | `connect`, `reconnect`, `disconnect` | never the default route; iface written only for a configured tunnel |
| **registry** `app/services/registry.py` | `vpns.yaml` and the list in memory | load, add, update, remove, save a pin | file, memory and pins agree; ids are unique |
| **credentials** `app/services/credentials.py` | `.env` and the environment | set, scaffold, remove | other lines survive; a value comes back as it was |
| **REST API** `app/api/vpns.py` | none | one handler per call; the page polls every 3 s (`app/templates/index.html:296`) | every outcome has the documented status code |
| **dashboard page** `app/templates/index.html` | the table as drawn, the open logs | refresh every 3 s and after every button, show or hide a log | the table says what the server says |
| app factory `app/__init__.py`, config | deployment settings | start-up: load `.env` and `vpns.yaml`, build the rows | a restart loses nothing that was acknowledged |
| health, API docs, install and start scripts | none | | not modelled (section 7) |

How they interact. A request thread calls the manager. `connect()` and
`disconnect()` look the VPN up and refresh *without* the lock, then decide under
it, mark the row busy and start a worker thread. The worker runs without the
lock: it calls the helper, which is root and cannot be signalled by the app,
and then polls files. The helper creates the files; openconnect writes its pid
when it detaches; its script writes the iface file before that. `refresh()`,
run by every read, compares files and rows and skips the busy ones. Everybody
may remove files: the worker, `refresh()`, `delete_vpn()`, the helper,
openconnect and its script. There is no lock over the files; what keeps them
consistent is *whose turn it is*, and that is what the model is about.

A definition has a path of its own. A create, an edit or a delete holds the
manager's lock and goes, in this order, through `vpns.yaml` (read, check,
replace), `.env`, the environment, and a reload of list and rows; a connect
worker takes the lock once to store the pin it has probed. The lock does not
hold off a person with an editor, a full disk, or the end of the app.

Hard behaviours: overlapping calls on one VPN, reads that interleave with a
worker, files of an earlier run, helpers that outlive the budget of their
caller, disconnects that do not disconnect, processes that die at any point,
restarts of the app over running tunnels, late processes that appear after
everybody gave up; changes that stop half-way, edits by hand in the middle of a
change; loops over a list that others change; process numbers that are used
again; refreshes that overlap. The list with lines is in `PROJECT.json`,
"hazards".

## 2. Modules

| module | what it is |
|---|---|
| `Dashboard` | abstract specification: per VPN the row and whether an openconnect runs, and which changes of the two are allowed. The docstring's state machine plus what it takes for a user to believe it |
| `Tunnel` | the detailed system: manager, workers, helper, openconnect, script, files, restart |
| `TunnelProperties` | invariants, action and liveness properties, the refinement mapping to `Dashboard` |
| `MCTunnel` | constants and symmetry for TLC |
| `TunnelProofs` | type correctness, ownership, handover, provenance and what follows from them, proved |
| `TunnelRefines` | that `Tunnel` without faults implements `Dashboard`, proved |
| `Definitions`, `MCDefinitions` | `vpns.yaml`, `.env`, environment, memory and rows under create, edit, delete, pins, edits by hand, failing writes and restarts |
| `DefinitionsProofs` | its types and its credentials under everything, the rest of its safety without edits by hand and failing writes, proved |
| `CredentialMap` | abstract specification of `.env`: a map in which an operation on one VPN changes that VPN's variables |
| `EnvFile`, `MCEnvFile` | the line-by-line rewriting of `credentials.py`, shown to implement that map |
| `EnvFileProofs` | that it implements it for files of any length, and what a restart reads and a rewrite keeps, proved |
| `SplitRoutes`, `MCSplitRoutes` | the routing decision, resolvers and iface file of `vpnc-split.sh` over a session |
| `SplitRoutesProofs` | the split-routing guarantee and what a session leaves behind, proved |
| `Api`, `MCApi` | every handler of `api/vpns.py` over ids that come and go |
| `ApiProofs` | the lists of the registry, complete loops and stable ids, proved |
| `Signals`, `MCSignals` | `cmd_disconnect` command by command, over process numbers that are used again |
| `SignalsProofs` | whom root signals, and that the pid file stays, proved |
| `Page`, `MCPage` | the refreshes of the page |
| `PageProofs` | its type correctness, proved |

The modules divide the system by question. `Tunnel` has one identity per run and
atomic changes of the registry; `Definitions` has the steps of those changes and
sees of a worker only its row and its definition; `Signals` has process numbers
and sees of the manager only when it starts a helper; `Api` has the ids a call
holds and sees rows change as they please. Where one module merges what another
one splits, the sections below say so.

### How `Tunnel` corresponds to the code

* `state`, `row`: `_states`; `row[v]` is the run whose interface and address the
  row shows. `"absent"` is an id that is not in the registry. `creds` are the
  VPNs whose username and password are both set.
* `pidFile`, `ifaceFile`, `logFile`: the three files of each VPN. A file is the
  run that wrote it. The empty pid file the helper creates reads as `None`
  (`status.py:62`), and the disconnect helper treats it like a missing one. An
  openconnect whose log was removed keeps writing to the removed file, so a log
  belongs to exactly one run.
* `stage[p]`, `said[p]`, `vpnOf[p]`: one run of the helper's `connect` with its
  openconnect and script, from the start of the helper to the end of the
  process. `said` is what matters of the log: has the script printed a line that
  `script_failure` finds? Both a failure and a DNS warning are one.
* `network[p]`: does the tun device have its addresses and routes? It goes with
  its process. The script runs again on every reconnect (`Reconnects`), whatever it
  returned before: when vpnc-script returns 0 it records the interface, otherwise it
  prints a line and leaves the iface file that is there. Nothing in the source says
  whether vpnc-script sets up on a reconnect what it could not set up on the connect,
  so such a device is `"unknown"`.
* A detached process ends in order (its script removes the iface file, and it may
  remove its pid file) or dies, and then its files stay (`ProcessEnds`).
* `pc`, `kind`, `job`, `run`: one worker thread, at the calls and lock
  boundaries of `_connect_worker`, `_wait_for_tunnel` and `_disconnect_worker`.
* `op`, `on`: a `connect()` or `disconnect()` between its unlocked refresh and
  its locked section. The other calls hold the lock from check to write and are
  one action each.
* `stragglers`: processes a disconnect helper is still waiting for although its
  worker has gone on, or the app has been restarted.
* The disconnect helper does not wait after its KILL. `StopEnds` takes the process
  for gone when the helper returns: the system does not run it again after a KILL.

Atomicity, where the model merges steps of the code:

* A refresh is one step for all VPNs. The code takes the lock once per VPN, and
  one VPN's turn reads and writes only its own row and files, so any
  interleaving between the turns is also one of the model's with several reads.
* A worker's thread starts with the lock already released (`tunnel.py:213`);
  nobody else acts on a busy row, so accepting and starting are one step.
  A thread that cannot be started is not modelled.
* `_clear_files` and the `_set` that follows it are one step: no one else reads
  the files of a busy VPN, except through the helper of a fault (section 4).
* One poll of `_wait_for_tunnel` is one read of pid, iface and log. *Acting* on
  it is a separate step: between `PollConnected` and `Report` the process may
  die, between a refusal or the deadline and the stop it may become configured.

Data that is abstracted: a pid is its run, and a new run never has the identity
of one that something still names (`Free`), so there is no pid reuse here;
messages, timestamps and the route count are left out; a probe either gives a
pin or fails (`Probed`, `WorkerFails`).

### How `Definitions` corresponds to the code

* `yaml`, `dotenv`: the two files. An entry is its server and its pin, and a pin
  is the server it was probed from, so "the pin belongs to the server" can be
  said. A server of `None` stands for any entry `parse_vpn` rejects. Name,
  authgroup and routes are treated by the code like the server, less the pin.
* `environ`, `mem`, `row`: `os.environ`, `registry.vpns`, `_states` (idle for
  disconnected and error, busy for connecting and disconnecting).
* `call` is the mutation under the lock, with where it is: `read` (`_read_file`,
  `_find`, `parse_vpn`), `write` (`_write_file` of the file as it was read, in
  `copy`), `lines` (`_present`: a create looks for lines of the VPN), `text` (`_rewrite`
  reads `.env`), `dotenv` (it replaces `.env` by what it has read, with the lines
  changed; and the environment, which nobody reads in between), `reload`; a pin goes
  `read`, `write`, `memory` (`_ensure_servercert`). `fit` says whether `parse_vpn` takes
  the fields that an edit supplies; a server of `None` is one left out. `wrote` is
  history, for `RejectedChangesNothing`. `answer` is the code. A create without a
  server, an edit that does not fit and a request for an unknown or busy VPN end in
  `Rejection` or `Refuse`.
* `worker[t]` is what a connect worker carries: its VPN and the `VpnDef` it was
  started with. If storing the pin raises, its work is over (`def` None).
* `HandEdits`, `HandEditsLine`, `WriteFails` and `Crash` are the world: `vpns.yaml` and
  any line of `.env` may be saved by hand between any two steps; `Hand` and `Faults` say
  which of it an instance has. A restart needs a file that loads: otherwise the
  app does not start.

### How `EnvFile` and `CredentialMap` correspond to the code

`text` is `.env` as a sequence of lines, each an assignment of a name of
interest or any other line; what an assignment looks like (`export`, spaces) is
left out, since `_assignment` accepts what it will replace. `Apply` is `_apply`:
the first assignment of a changed name is replaced in its place (`Updated`) or
dropped, later ones are dropped, and what no line assigns is appended (`Unwritten`).
`Operation` is one call for one VPN. `Select`, a subsequence by its indices, is a
recursive function, and not `SelectSeq`, so that it can be proved about.
`Loaded` is what python-dotenv makes of the file (the last assignment counts). A
value is a sequence of parts, split by the characters at which
`str.splitlines` ends a line and `_quote` does not escape. What `_quote` does
escape is read back as it was and is left out; `${` is refused before anything
is written. `ImplementsMap` maps `creds` to `Loaded(text)`.

### How `SplitRoutes` corresponds to the code

`session` is the environment openconnect gives to every run of the script: the
list of the server, the configured routes, the pushed resolvers, whether there
is a domain. `Usable`, `Listed`, `HostIncludes`, `Includes` follow
`usable_server_split`, the `case` of lines 126-143, and `add_dns_includes`; lists
are sets because the script only asks what is in them. `Takes` is what
`vpnc-script` takes for a default route, as the comment at 37-39 says of it;
`Plain` and `TakesAll` are `vpnc-script` as the script relies on it. `Connect` is the
run that sets the interface up, `Reconnect` a later one, which may or may not add the
routes again, `VpncScriptFails` a run in which vpnc-script returns an error,
`Disconnect` the orderly end. `Dies` is every end without a script, by itself or by
KILL: the routes go with the device, the iface file and the resolvers stay.
`Sweep` is whoever removes the iface file then, as `Tunnel` says. `setup` is what the
scripts of the session have come to; `dead` and `orphan` are ghosts: the last session
has died; the resolvers are those of one that died.

### How `Api` corresponds to the code

A call is at `next` (in a loop, outside the lock), `describe` (between the
lookup of `snapshot_one` and its row), `locked` (about to take the lock) or
`done`. `todo` is the rest of the list object a loop has taken from the
registry: a reload makes a new list, so the loop keeps the old one. `Entry` is the
place `_find` gives, at which a delete takes an id out of the list. `start`, `since`
and `seen` are there for the properties: what the registry held when the call began,
which of that it has held ever since, what has been reported. `DeletedUnder(c)` is what
has gone in between. Create, edit and delete are one step here.
A row at rest may have a process behind it (`pid` in `Act`, the refusal of a
delete in `Refused`): `Tunnel` says when.

### How `Signals` corresponds to the code

`proc[p]` says whose process has the number `p`: the openconnect of a VPN, any
other program, or none. Each helper goes through `cmd_disconnect`: read the
number, check the name, TERM, wait, KILL, remove the files. `Connect`, `ClearFile`
and `Disconnect` are what the manager does, with its guards seen from the pid
file: no connect over a live number, one helper per VPN unless one has been left
behind. `Free` says when the system may hand a number out again.

### How `Page` corresponds to the code

`flight[f]` is one call of `refresh()`: the list has been asked for, has been
answered, or the logs are being fetched; the table is drawn when the last log is
there, and not at all when one is missing. `server` is what `GET /vpns` would
return at the moment; a row is what it looks like (`Look`).

## 3. What the runs check

| run | instance | question | result |
|---|---|---|---|
| `tunnel_safety` | 1 VPN, 2 runs, 2 workers, 2 calls, no faults | do overlapping calls, edits, reads and dying processes keep rows, workers, processes and files consistent? | holds |
| `tunnel_two` | 2 VPNs, 2 runs, 2 workers, 1 call, no faults | does anything done to one VPN (a create with its reload of the whole table, a refresh over all) disturb the other? | holds |
| `tunnel_live` | 1 VPN, 2 runs, 1 worker, 1 call, every fault | under overruns, silent failures and restarts, does a busy row come to rest, and is a row that contradicts the files put right? | holds |
| `stall_loses_handle` | as above, time budgets run out | is the pid file kept when a connect helper outlives its budget? | **violated** |
| `definitions` | 2 VPNs, 2 servers, 2 workers, restarts between any two steps | do files, environment, memory, rows and workers agree under create, edit, delete and pins, and has a request that is refused written nothing? | holds |
| `definitions_hand` | 2 VPNs, no workers, every edit of both files by hand, writes that fail | are credentials lost only by deleting their VPN, or by saving them during a rewrite? | holds |
| `env_file` | 2 VPNs, 3 variables, any file of up to 3 lines | is the rewriting of lines a map that keeps the rest? | holds |
| `split_routes` | 3 addresses, 2 resolvers, all lists, script failures, reconnects, processes that die | is the default route never taken, does an iface file mean routes, are resolvers routed, and what does a session leave behind? | holds |
| `default_by_route` | networks that start at 0.0.0.0 | is the default route never taken? | **violated** |
| `api` | 2 VPNs, every call against every call | does a loop report each VPN that stays, once, and fail only over one that was deleted, and is a VPN that stays known to every call? | holds |
| `signals` | 2 VPNs, 3 numbers, 2 helpers, numbers of siblings | does root signal openconnect only, and does a running one keep its pid file? | holds |
| `page` | 2 VPNs, 2 overlapping refreshes, logs | does the table come to say what the server says? | holds |

Properties:

* `Ownership`: the row is the lock of a busy VPN. Exactly one worker of the
  matching kind for each busy row. Everything else rests on it.
* `OneTunnel`, `PidFileIsTheHandle`: one openconnect per VPN, and the one that
  is detached is named by the pid file, which is the only way to it.
* `Handover`: the inductive strengthening of these two (section 5).
* `ConnectedIsConfigured`, `LogIsOfTheRun`: what a row shows is of the run that
  is up: its interface, its log, and a device for which a script of that run has
  returned 0. `Provenance` is their
  inductive strengthening (section 5).
* `DisconnectStops`, `KeepsPromise`: the row machine of the docstring, and the
  whole of `Dashboard`, under the mapping "shown is `state`, running is: some
  openconnect of this VPN runs".
* `BusyComesToRest`, `Reconciled`: liveness.
* `PinsMatch`, `RestartChangesNothing`, `WorkerOwnsRow`: a pin, a definition and
  a row each exist in several places, and the places agree: in the file, in
  memory and in the hands of a worker; in memory and on disk between two calls;
  in the table and in the worker.
* `OthersUntouched`, `RejectedChangesNothing`, `CredentialsKept`: what a change may do
  to the rest. A request that is answered 400 or 409, for its fields too, has written
  neither file. Credentials go only with a delete of their VPN, whatever fails
  and whatever is edited, with one exception that no lock can rule out: what an editor
  saves in `.env` while a mutation is rewriting it (`SavedMeanwhile`).
* `RestartReadsTheSame`, `OtherLinesKept`, `ImplementsMap`: `.env` as a store.
* `NeverTheDefaultRoute`, `LeavesNothing`, `ResolversAreRouted`,
  `IfaceMeansRouted`: the guarantee of the README, and what a session leaves.
* `LoopsMissNothing`, `StableIdsAreKnown`: calls over a list that others change. A
  loop fails only over a VPN that the registry held when it began and that has been
  deleted since.
* `OnlyOpenconnect`, `FileNamesProcess`: whom a number names.
* `FollowsServer`: liveness of the page.

Bounds. One VPN is enough for most questions because VPNs share nothing but the
lock and the loops over the registry, which `tunnel_two` exercises. Two runs
allow a tunnel and the one after it, or a late one and its successor; identities
are reused once nothing names them, so a behaviour may have any number of runs.
A busy row admits one worker at a time, so two workers are one more than the
system should ever use. The liveness run has one, whose faults it is about; that a
second one is never started under faults either is proved (`OwnershipHolds`). Two
overlapping calls are what a race needs. `Proc`,
`Thread` and `Request` are symmetric; symmetry is not used for the liveness run.
There is no bound on the length of behaviours.

In `Definitions` two VPNs let one be changed while the other is bystander, two
servers let one be left for the other, and two workers are one more than a VPN
should have; with edits by hand one server does, since credentials do not look
at it. That run identifies states by `Decisive`: without workers, the environment and
the last answer decide nothing. `EnvFile` starts from every file of up to three lines, enough for a
duplicate around another line; a fourth would only add more of the same.
`SplitRoutes` needs the address 0.0.0.0 and two others, and the lengths 0 and 32,
all that the script compares. `Api` loops over two VPNs, so that the current one
or the next may go and come back; two threads make one race. `Signals` needs one
number more than VPNs, for a stranger. `Page` overlaps two refreshes, and more
can only arrive in more orders of the same two kinds, older and newer.

Each property has a mutant in `PROJECT.json`: an operator marked *Slip* in
its module, a plausible mistake in the handler, that TLC must catch with that
property.

### Fairness

`FairSpec` assumes that a worker thread keeps running (`WF` on `Proceeds(t)`, all
its steps but the exceptions, which owe nobody to happen): every
call it makes has a timeout (`runner.py:82-87`), its loop has a deadline
(`tunnel.py:414`). For this the connect budget must be able to run out, so the
liveness run has the fault `"stall"`, and the others on top. It assumes that a process being stopped
ends (`WF` on `HelperKills(p)`: KILL after the grace period, helper 147-149) and
that reads keep coming (`WF` on `Read`: the page polls every 3 s). Without an
open page nothing is reconciled, which is how the code works. Nothing is assumed
of servers, logins, scripts and tunnels, nor of requests.

In `Page`, the specification assumes that the timer fires (`setInterval`,
`index.html:296`) and that a request once sent is answered. Without the timer or
the server a table is simply old.

## 4. Findings and known limits

Two runs state what a comment of the code says and find it violated:

1. `stall_loses_handle`. After a helper timeout the worker waits, and at the
   deadline runs `disconnect`, which finds no pid yet; openconnect then detaches,
   and the worker removes the pid file (`tunnel.py:420-428`). The comment at
   369-372 says the pid file is left alone *because it is the only handle*.
2. `default_by_route`. A configured network that starts at 0.0.0.0, such as
   0.0.0.0/8 or 0.0.0.0/1, is accepted (`registry.py:126`) and makes vpnc-script
   take the default route, although the script "never" does (`vpnc-split.sh:10-12`).

The other limits are in the model too, as what an instance excludes or what a
property names. Each line says what to change in a cfg to see TLC find it.

| limit | where | to see it |
|---|---|---|
| a restart during a login finds an empty pid file, shows "disconnected" and accepts a second connect | `tunnel.py:119` | `tunnel_safety`, `Faults <- Restarts`: `OneTunnel` |
| the return code of `runner.disconnect` is not looked at; a helper that refuses (exit 65) still yields "disconnected" | `tunnel.py:421`, `432` | `tunnel_safety`, `Faults <- StopFaults`: `DisconnectStops` |
| the two DNS warnings of the script are taken for a refusal after which "no interface can appear", and the iface file is written nevertheless | `status.py:28-34`, `vpnc-split.sh:174`, `187`, `236` | `tunnel_safety`, in its `PROPERTIES`: `NoInterfaceAfterRefusal` |
| openconnect goes on with an unconfigured device after a failed connect script, and "no interface will ever appear" (`tunnel.py:408-409`); the script of a reconnect that returns 0 records it, and a refresh adopts it | `vpnc-split.sh:236` | `tunnel_safety`, in its `PROPERTIES`: `OnlyConfiguredAppears` |
| a delete whose `.env` write fails leaves a row that can be connected; the next reload drops it while it is busy | `tunnel.py:312-313` | `definitions`, `"oserror"` in `Faults`: `WorkerOwnsRow` |
| a pin is stored by id: the worker of a VPN that was removed by hand and created anew stores the old pin under the new server | `tunnel.py:463` | `definitions`, `Hand = {"remove"}`: `PinsMatch` |
| a create or edit is answered 400 because of *another*, hand-made entry, after it has been written | `tunnel.py:277`, `295` | `definitions`, `Hand = {"invalid"}`: `RejectedChangesNothing` |
| `lab-a` and `lab_a` share their variables: deleting one deletes the credentials of the other | `registry.py:104` | `definitions_hand`, `NamesOf <- Shared`: `CredentialsKept` |
| a save of `vpns.yaml` from an editor between read and replace is overwritten | `registry.py:202` | `WriteFile` writes `copy` |
| credentials saved in `.env` while a mutation rewrites it are lost, though no VPN is deleted | `credentials.py:147` | `SavedMeanwhile` in `CredentialsKept` |
| after a write that fails, memory and files disagree until the next reload | `tunnel.py:269` | `definitions`, `"oserror"` in `Faults`: `RestartChangesNothing` |
| a delete answers 500 when the entry is gone from the file: the handler does not catch `RegistryError` | `api/vpns.py:419-424` | `answer` in `ReloadFails`, `Rejection` |
| `splitlines` cuts a value at a unicode line separator, a form feed or a vertical tab | `credentials.py:128` | `env_file`, `MaxParts = 2`: `RestartReadsTheSame` |
| a pushed resolver 0.0.0.0 becomes an include after the list was checked | `vpnc-split.sh:114` | `split_routes`, `zero` in `Dns`: `NeverTheDefaultRoute` |
| an openconnect that dies, or is killed, leaves its resolvers registered until the next orderly end, and its iface file until a refresh, a worker or a helper removes it | `vpnc-split.sh:200`, `tunnel.py:186` | `dead` in `LeavesNothing` |
| a GET that races a delete is answered 500, and so is a bulk call, which leaves out the rest of its list | `tunnel.py:131`, `236`, `247` | `Describe`, `DeletedUnder` in `LoopsMissNothing` |
| the name is not checked again before KILL | `vpnconnect-helper:148` | `signals`, `"race"` in `Faults`: `OnlyOpenconnect` |
| a helper nobody waits for removes the pid file of the next run | `vpnconnect-helper:150` | `signals`, `"overrun"` in `Faults`: `FileNamesProcess` |
| the check of the name does not tell one VPN's openconnect from another's | `vpnconnect-helper:138` | `hit` may be a sibling in `signals` |
| a VPN that goes while its log is shown makes every refresh fail before the table is drawn | `index.html:215-217` | `Stuck` in `FollowsServer` |

What still holds in their presence: `Ownership` under every fault (proved);
`Reconciled` and `BusyComesToRest` under every fault (`tunnel_live`): a late tunnel is
adopted once it is configured, unless its own worker has removed its files, as
`stall_loses_handle` shows: what no file names is not found; `CredentialsKept`, with its
exception, under every edit by hand and failing write (`definitions_hand`); the whole of
`definitions` under restarts.

## 5. What is proved

`TunnelProofs` and `TunnelRefines`, for every `Vpn`, `Proc`, `Thread` and
`Request`, from `NoneAssumption` (the value "no process" is not a VPN or a
process):

* `TypeCorrect`, `OwnershipHolds`: for **every** set of faults. The invariant is
  `Owning`: types, ownership, that a worker waiting for a process has one, that
  a call in progress has a VPN, that a started run has a VPN. Every step leaves
  busy rows and workers alone, moves one worker, starts one on a row at rest, or
  ends one (`OwnershipKept`, `-Moves`, `-Starts`, `-Ends`).
* `HandoverHolds`, `OneTunnelHolds`, `PidFileHolds`, `DisconnectHolds`: for
  `Faults = {}`, and section 4 shows that the assumption is needed.
  `OneTunnel` alone is not inductive: whether a second process may start depends
  on where the worker is and on what the files say. `Handover` adds it: a helper
  that has not returned has a worker waiting for it (`Attended`); a pid file
  names a detached process of its own VPN (`PidFilesTrue`); a process that is up
  is named (`PidFileIsTheHandle`); what may run on a worker's VPN is a function
  of where the worker is (`MayRun`); the identity it is going to use is unused
  (`FreshRun`); an unlisted id has no process (`NoOrphans`). Then a VPN with no
  live pid file and no waiting worker has nothing running (`NoPidNothingRuns`),
  which is exactly what `connect()`, `delete_vpn()` and the disconnect helper
  conclude from the pid file.
* `ProvenanceHolds`, `ConnectedHolds`, `LogHolds`: for `Faults = {}`, on top of
  `Handover`. That a connected row shows the right interface depends on a chain
  of reads without the lock: the process writes a line and its iface file, a
  worker or a refresh reads them, the worker writes the row. `Provenance` has one
  conjunct for each link: a log is that of the process that is there (`RunLogs`);
  before its script has run a process has recorded no interface (`NotYetConfigured`);
  an iface file of a run that lasts is that of a run which has had a script return 0
  (`IfaceIsConfigured`), at the connect or, after that has failed, at a reconnect,
  and reconnects may succeed or fail at any time; and what a worker has read is still
  true when it reports it (`ReportIsTrue`), unless the process has died in between.
  What a reconnect that returned 0 after a failed connect has set up is left open.
* `Implements`: `Tunnel` with `Faults = {}` implements `Dashboard`: the initial
  states map to initial states, and every step to a step in which each VPN makes
  one of the abstract moves or rests.

`DefinitionsProofs`, for every set of ids, servers, variables and workers:

* `TypeCorrect`: for **every** `Hand` and `Faults`. The invariant `TypeInv` adds
  that what is about to be written has passed the checks (`Decided`), that a
  pin is being stored for a worker that lives and has none (`PinCall`), and what a
  mutation has read of `.env` by the step it is at.
* `PinsHold`, `RowsAreOwned`, `OneEntryAtATime`, `RefusalChangesNothing`: under
  `Peace`, no edits of either file by hand and no failing writes, with restarts at any
  step; section 4 shows that both halves of `Peace` are needed. `RefusalChangesNothing`
  rests on the checks coming before the writes: what is written has been parsed, so a
  reload never fails on it, and what is rejected, an edit whose fields do not fit
  included, has written nothing. The invariant `Calm` says that
  file and memory agree on all but the entry under change (`Frame`), that what is
  written back is what the file holds (`AsRead`),
  that rows are those of the list (`Rows`), that a worker's definition is the one
  in memory (`InHand`), and that nothing is changed that a worker works on
  (`AtRest`). `PinsMatch` alone is not inductive: a worker's pin is right only
  because the entry it goes to still names the worker's server.
* `CredentialsSafe`: for **every** `Hand` and `Faults`, from `DistinctNames`, that
  no two ids share a variable (section 4 shows `lab-a` and `lab_a`). It needs that
  a request supplies variables of its own VPN only (`OwnNames`): then a rewrite of
  `.env` changes the lines of one VPN, and takes away only in a delete, or what
  was not yet there when the file was read or searched (`SavedMeanwhile`).
* `RestartIsHarmless`: under `Peace` and `DistinctNames`. `Calm` is strengthened by
  `Synced`: the environment is what `.env` says, and what memory and workers say
  of the credentials is true of `.env`, but for the VPN whose lines have just
  been written, and that what a mutation has read of `.env` is still in it (`Mirrored`).
  At rest `Frame` and `Synced` leave nothing in memory that a
  restart would read otherwise.

`SplitRoutesProofs`, for all addresses, lists and routes:

* `SplitRouting`, `InterfaceIsRouted`: under `Harmless`, neither a configured
  network nor a pushed resolver is 0.0.0.0 (section 4), however a session ends. An
  iface file during a session is of that session, because the helper removes the one
  that a dead session has left before it starts openconnect, and it means routes
  unless only a reconnect has succeeded.
* `NothingIsLeft` without assumptions, `ResolversHold` under `Harmless`: a session
  whose script failed half-way has fewer routes than its list, and an orderly end
  removes the list (`Accounted`). What a session that died leaves is told apart by
  the ghosts `dead` and `orphan`: its iface file and its resolvers.

`SignalsProofs`, for all numbers, VPNs and helpers: `SignalsOpenconnect` unless a
number is used again under a helper, by the invariant that a number past the name
check is that of an openconnect or of nobody; `HandleIsKept` unless a helper is
left behind, by the invariant that there is one helper per VPN (`Alone`) and that
it holds the number of the file until nothing runs (`Sure`).

`ApiProofs`, for every finite set of VPNs, any number of threads and of calls:
`TypeCorrect`, `LoopsComplete`, `StableIdsSafe`, without further assumptions
(`VpnAssumption`, that the set is finite, is there because the first list holds
ids once each). `LoopsMissNothing` speaks of calls that are done, so the invariant
says what holds on the way (`IInv`): what was there all along has been reported or
is still to come, nothing is reported twice, and what has been reported is not
to come (`LoopUnderWay`); a call that stops at an unknown VPN had it in the list it took,
so it has been deleted since; a call takes for lasting only what is in the list now.
The lemmas on sequences say what `Tail`, `Append` and a removal do to the elements
of a list and that they keep it free of repetition.

`EnvFileProofs`, for all VPNs, variables and values and files of any length:
`TypeCorrect` without assumptions; `RestartReads`, `OthersKept` and `Implements` for
`MaxParts = 1`: values without a character at which `splitlines` cuts and `_quote`
does not escape, and section 4 shows that this is needed. The argument goes
through the text: what `Select` keeps is the subsequence of the chosen lines, and
there is only one way to list a set of numbers in order (`SelectFacts`,
`OneEnumeration`); so a rewrite is the lines that are kept, in order and with their new
values, followed by one line for each value that had none (`ApplyFacts`); so the last assignment
of a name is the new line if it was changed, and the old one otherwise
(`LoadedRewritten`); so `Loaded(text)` changes as `CredentialMap` says. The
induction over the length of the text is by the least number of a set
(`LeastNumber`, from the library's `WFMin`), which is first-order: the induction
rules of the library take an operator as a parameter and are beyond these
provers.

`PageProofs`: `TypeCorrect`, for all VPNs and any number of refreshes.

Every invariant and every safety property over steps that a passing run checks
is stated by one of these theorems. Model-checked only is liveness,
`BusyComesToRest`, `Reconciled` and `FollowsServer`: neither this nor `ENABLED` is
within reach of the prover.

## 6. Plan

Done: all modules of section 2 and the theorems of section 5. What could be
added:

1. Which faults, taken alone, leave `OneTunnel` and `Handover` true, to have
   those in place of `Faults = {}`.
2. Whether `OneEntryAtATime` of `Definitions` needs that writes do not fail.
3. The steps of `Reconciled` and `FollowsServer` that are safety: that a refresh
   which starts late enough cannot draw something older.

## 7. Not modelled

The health endpoint, the API documentation, the installation and start scripts
and the configuration have no state that several actors share. The same-origin
guard of the API and the clamp of the log length are stateless. `count_routes`,
`parse_failure` and `pin_from_probe` parse text and decide nothing but a message,
or that a probe has failed (`Probed`, `WorkerFails`). The parsing of YAML and the
quoting of values are left to what is read back. Of the page, the form, the
toasts and the rendering of a row are left out.

Two VPNs that route the same network are left out: "the first route added wins"
(`README.md:224`), so which table they share is a matter of the system.

openconnect itself is modelled only by what the helper and the script rely on: it
may end in the foreground, detaches after its script whatever the script
returned, writes its pid then, and on an orderly end runs the script again and
may remove its pid file. `vpnc-script` is modelled by the routes it adds for a
list and removes for the same list, and by when it takes the default route; what
it does on a reconnect is left open.
