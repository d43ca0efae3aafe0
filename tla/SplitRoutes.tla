---------------------------- MODULE SplitRoutes ----------------------------
(***************************************************************************)
(* What scripts/vpnc-split.sh does to the routing table and to the         *)
(* resolvers of the machine: which includes it hands to vpnc-script when   *)
(* openconnect connects, reconnects and disconnects, when it refuses, and  *)
(* what it registers afterwards.                                           *)
(*                                                                         *)
(* An include is an address and a mask length; lists are sets, since the   *)
(* script only asks what is in them.  A session is the environment of one  *)
(* openconnect, which hands it to every run of the script.                 *)
(***************************************************************************)
CONSTANTS
    Addr, Len,      \* addresses and mask lengths
    Zero, Host,     \* 0.0.0.0 and 32
    Dns,            \* resolvers a gateway may push
    Route,          \* routes a user may have in vpns.yaml
    None            \* no session

Include == [addr : Addr, len : Len]

ASSUME AddrAssumption   == Zero \in Addr /\ Host \in Len \ {0} /\ Dns \subseteq Addr
ASSUME RouteAssumption  == Route \subseteq Include

VARIABLES
    session,    \* what the gateway pushed and what is configured, or None
    setup,      \* what the scripts of the session have made of its interface
    table,      \* the network routes that go through the tunnel
    default,    \* does the default route?
    resolver,   \* servers registered with scutil for the interface
    iface,      \* is there an iface file?
    orphan,     \* were the resolvers registered by a session that died? (ghost)
    dead        \* did the last session end without its script? (ghost)

vars == <<session, setup, table, default, resolver, iface, orphan, dead>>

\* none: no script has run; done: vpnc-script has configured the interface;
\* failed: the connect script has failed; unknown: it has, and a later
\* reconnect has not.
Setup == {"none", "done", "failed", "unknown"}

\* Slip: any network is accepted.
AcceptedAll == Route

\* parse_vpn: a mask length of 0 is a default route.
Accepted == {r \in Route : r.len # 0}

Session == [server : SUBSET Include, routes : SUBSET Accepted,
            dns : SUBSET Dns, domain : BOOLEAN]

ASSUME NoneAssumption == None \notin Session

Init ==
    /\ session = None /\ setup = "none" /\ table = {} /\ default = FALSE
    /\ resolver = {} /\ iface = FALSE /\ orphan = FALSE /\ dead = FALSE

-----------------------------------------------------------------------------
\* vpnc-script: an include that makes it take the default route.
Takes(i) == i.addr = Zero \/ i.len = 0

\* Slip: only the address is looked at.
UsableByAddress(s) == s.server # {} /\ \A i \in s.server : i.addr # Zero

\* usable_server_split.
Usable(s) == s.server # {} /\ \A i \in s.server : ~Takes(i)

\* unset_server_split, inject_routes.
Listed(s) == IF Usable(s) THEN s.server ELSE s.routes

HostIncludes(list, dns) ==
    {[addr |-> d, len |-> Host] : d \in {e \in dns : \A i \in list : i.addr # e}}

\* Slip: resolvers are routed only next to a list of the server.
IncludesOfServer(s) ==
    Listed(s) \union (IF Usable(s) THEN HostIncludes(Listed(s), s.dns) ELSE {})

\* add_dns_includes: not without a list.
Includes(s) == Listed(s) \union (IF Listed(s) = {} THEN {} ELSE HostIncludes(Listed(s), s.dns))

\* What vpnc-script makes of them; without any it is a full tunnel.
Plain(s)     == {i \in Includes(s) : ~Takes(i)}
TakesAll(s)  == Includes(s) = {} \/ \E i \in Includes(s) : Takes(i)

-----------------------------------------------------------------------------
\* cmd_connect removes the iface file that is there and runs openconnect.
Start(s) ==
    /\ session = None
    /\ session' = s /\ setup' = "none" /\ iface' = FALSE /\ dead' = FALSE
    /\ UNCHANGED <<table, default, resolver, orphan>>

\* The connect script has failed; a later one changes nothing of what is set up.
Failed == IF setup = "none" THEN "failed" ELSE setup

Refuses(s) == ~Usable(s) /\ s.routes = {}

\* exit 1 before vpnc-script; openconnect goes on without a configured device.
Refuse ==
    /\ session # None /\ Refuses(session)
    /\ setup' = Failed
    /\ UNCHANGED <<session, table, default, resolver, iface, orphan, dead>>

\* register_vpn_dns: only with a domain, only what answers, and else nothing.
Registers(answering) == session.domain /\ answering # {}

\* vpnc-script has returned 0: the resolvers are registered, the iface file is
\* replaced, or removed when the new one cannot be created.
Succeeds ==
    /\ \E answering \in SUBSET session.dns :
          IF Registers(answering) THEN resolver' = answering /\ orphan' = FALSE
          ELSE UNCHANGED <<resolver, orphan>>
    /\ iface' \in BOOLEAN
    /\ UNCHANGED <<session, dead>>

AddsRoutes ==
    /\ table' = table \union Plain(session)
    /\ default' = (default \/ TakesAll(session))

\* The script of a new interface.
Connect ==
    /\ session # None /\ ~Refuses(session) /\ setup = "none"
    /\ AddsRoutes
    /\ setup' = "done"
    /\ Succeeds

\* The script of an interface openconnect already has.  Nothing in the source
\* says whether vpnc-script adds the routes again, so it may do either.
Reconnect ==
    /\ session # None /\ ~Refuses(session) /\ setup # "none"
    /\ AddsRoutes \/ UNCHANGED <<table, default>>
    /\ setup' = IF setup = "failed" THEN "unknown" ELSE setup
    /\ Succeeds

\* Slip: the iface file is written whatever vpnc-script returned.
VpncScriptFailsQuietly ==
    /\ session # None /\ ~Refuses(session)
    /\ \E added \in SUBSET Plain(session) : table' = table \union added
    /\ default' \in {default, default \/ TakesAll(session)}
    /\ setup' = Failed /\ iface' = TRUE
    /\ UNCHANGED <<session, resolver, orphan, dead>>

\* vpnc-script returns an error, of connect or reconnect, half-way; the iface
\* file of an earlier run stays.
VpncScriptFails ==
    /\ session # None /\ ~Refuses(session)
    /\ \E added \in SUBSET Plain(session) : table' = table \union added
    /\ default' \in {default, default \/ TakesAll(session)}
    /\ setup' = Failed
    /\ UNCHANGED <<session, resolver, iface, orphan, dead>>

\* Slip: the list of the server is taken as it is on the way out.
DisconnectAsPushed ==
    /\ session # None
    /\ table' = table \ {i \in session.server : ~Takes(i)}
    /\ default' = (default /\ ~TakesAll(session))
    /\ session' = None /\ setup' = "none" /\ resolver' = {} /\ iface' = FALSE
    /\ orphan' = FALSE /\ dead' = FALSE

\* An orderly end: the same list again, and vpnc-script removes it.
Disconnect ==
    /\ session # None
    /\ table' = table \ Plain(session)
    /\ default' = (default /\ ~TakesAll(session))
    /\ session' = None /\ setup' = "none" /\ resolver' = {} /\ iface' = FALSE
    /\ orphan' = FALSE /\ dead' = FALSE

\* openconnect dies, or is killed after the grace period: no script runs.  The
\* interface goes with its routes, the iface file stays.
Dies ==
    /\ session # None
    /\ session' = None /\ setup' = "none" /\ table' = {} /\ default' = FALSE
    /\ orphan' = (resolver # {}) /\ dead' = TRUE
    /\ UNCHANGED <<resolver, iface>>

\* The helper, a refresh or a worker removes the iface file (Tunnel says when).
Sweep ==
    /\ iface /\ iface' = FALSE
    /\ UNCHANGED <<session, setup, table, default, resolver, orphan, dead>>

Next == \/ \E s \in Session : Start(s)
        \/ Refuse \/ Connect \/ Reconnect \/ VpncScriptFails
        \/ Disconnect \/ Dies \/ Sweep

Spec == Init /\ [][Next]_vars

-----------------------------------------------------------------------------
(* Properties.                                                             *)

TypeOK ==
    /\ session # None => session \in Session /\ \A r \in session.routes : r.len # 0
    /\ setup \in Setup /\ (session = None => setup = "none")
    /\ table \subseteq Include /\ default \in BOOLEAN
    /\ resolver \subseteq Dns /\ iface \in BOOLEAN
    /\ orphan \in BOOLEAN /\ dead \in BOOLEAN

\* Whatever the gateway pushes and however a session ends, the default route of
\* the machine never goes through a tunnel (vpnc-split.sh:9-12).
NeverTheDefaultRoute == ~default

\* A session that has ended in order, connected or not, reconnected or not,
\* leaves no route, no resolver and no iface file (vpnc-split.sh:138, 23-25); one
\* that died leaves no route, but its resolvers until the next orderly end and
\* its iface file until it is swept or the next session starts.
LeavesNothing == session = None => table = {} /\ (~dead => resolver = {} /\ ~iface)

\* What a session registers is reached through its tunnel, as long as it is
\* registered (vpnc-split.sh:13-16, 20-23), unless only a reconnect has
\* succeeded of its scripts.
ResolversAreRouted ==
    ~orphan /\ setup # "unknown" => \A d \in resolver : \E i \in table : i.addr = d

\* The iface file that is there during a session, which the dashboard shows as
\* a connection, is of that session, is not there before a script of it has
\* succeeded, and means that every route of it is in place, unless only a
\* reconnect has succeeded (vpnc-split.sh:234-246, vpnconnect-helper:95).
IfaceMeansRouted ==
    iface /\ session # None =>
        \/ setup = "done" /\ Includes(session) \subseteq table
        \/ setup = "unknown"
=============================================================================
