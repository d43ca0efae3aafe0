------------------------- MODULE SplitRoutesProofs -------------------------
(***************************************************************************)
(* The guarantees of vpnc-split.sh, for all addresses, lists and routes.   *)
(***************************************************************************)
EXTENDS SplitRoutes, TLAPS

\* What the guarantee takes of the data: no configured network and no pushed
\* resolver is the address that vpnc-script takes for the default route.
Harmless == Zero \notin Dns /\ \A r \in Route : r.addr # Zero

-----------------------------------------------------------------------------
(* The includes of a session.                                              *)

LEMMA IncludesTyped ==
    ASSUME NEW s \in Session
    PROVE  Includes(s) \subseteq Include /\ Plain(s) \subseteq Include
  BY AddrAssumption, RouteAssumption
     DEF Session, Includes, Listed, HostIncludes, Accepted, Include, Plain

\* Unless the script refuses, vpnc-script is handed a list without a default route.
LEMMA NoInclude ==
    ASSUME Harmless, NEW s \in Session, ~Refuses(s)
    PROVE  Includes(s) # {} /\ \A i \in Includes(s) : ~Takes(i)
  <1>1. Listed(s) # {} /\ \A i \in Listed(s) : ~Takes(i)
    <2>1. CASE Usable(s)
      BY <2>1 DEF Listed, Usable
    <2>2. CASE ~Usable(s)
      BY <2>2 DEF Listed, Refuses, Session, Accepted, Takes, Harmless
    <2> QED BY <2>1, <2>2
  <1>2. \A i \in HostIncludes(Listed(s), s.dns) : ~Takes(i)
    BY AddrAssumption DEF HostIncludes, Takes, Harmless, Session
  <1> QED BY <1>1, <1>2 DEF Includes

\* Every resolver of the session is an address the list covers.
LEMMA ResolversListed ==
    ASSUME Harmless, NEW s \in Session, ~Refuses(s), NEW d \in s.dns
    PROVE  \E i \in Plain(s) : i.addr = d
  <1>1. \E i \in Includes(s) : i.addr = d
    <2>1. Listed(s) # {}
      BY NoInclude DEF Includes
    <2>2. CASE \E i \in Listed(s) : i.addr = d
      BY <2>2 DEF Includes
    <2>3. CASE \A i \in Listed(s) : i.addr # d
      <3>1. [addr |-> d, len |-> Host] \in HostIncludes(Listed(s), s.dns)
        BY <2>3 DEF HostIncludes
      <3> QED BY <3>1, <2>1 DEF Includes
    <2> QED BY <2>2, <2>3
  <1> QED BY <1>1, NoInclude DEF Plain

-----------------------------------------------------------------------------
\* The variables keep their types, however a session ends.
THEOREM TypeCorrect == Spec => []TypeOK
  <1>1. Init => TypeOK
    BY DEF Init, TypeOK, Setup
  <1>2. TypeOK /\ [Next]_vars => TypeOK'
    <2> SUFFICES ASSUME TypeOK, [Next]_vars PROVE TypeOK'
      OBVIOUS
    <2>1. ASSUME NEW s \in Session, Start(s) PROVE TypeOK'
      BY <2>1 DEF Start, TypeOK, Session, Accepted, Setup
    <2>2. CASE Refuse
      BY <2>2 DEF Refuse, Failed, TypeOK, Setup
    <2>3. ASSUME Connect \/ Reconnect PROVE TypeOK'
      <3>1. session \in Session /\ Plain(session) \subseteq Include
        BY <2>3, IncludesTyped DEF Connect, Reconnect, TypeOK
      <3>2. resolver' \subseteq Dns /\ orphan' \in BOOLEAN /\ UNCHANGED <<session, dead>>
            /\ iface' \in BOOLEAN
        BY <2>3, <3>1 DEF Connect, Reconnect, Succeeds, TypeOK, Session
      <3>3. table' \subseteq Include /\ default' \in BOOLEAN
        BY <2>3, <3>1 DEF Connect, Reconnect, AddsRoutes, TypeOK
      <3>4. setup' \in Setup /\ session # None
        BY <2>3 DEF Connect, Reconnect, TypeOK, Setup
      <3> QED BY <3>1, <3>2, <3>3, <3>4 DEF TypeOK
    <2>4. CASE VpncScriptFails
      BY <2>4, IncludesTyped DEF VpncScriptFails, Failed, TypeOK, Setup
    <2>5. CASE Disconnect
      BY <2>5 DEF Disconnect, TypeOK, Setup
    <2>6. CASE Dies
      BY <2>6 DEF Dies, TypeOK, Setup
    <2>7. CASE Sweep \/ UNCHANGED vars
      BY <2>7 DEF Sweep, vars, TypeOK
    <2> QED BY <2>1, <2>2, <2>3, <2>4, <2>5, <2>6, <2>7 DEF Next
  <1> QED BY <1>1, <1>2, PTL DEF Spec

-----------------------------------------------------------------------------
(* What holds however a session ends.                                      *)

\* What the scripts of the session have reached stays: the routes of a
\* configured interface, and an iface file only after one of them succeeded.
Guaranteed ==
    /\ NeverTheDefaultRoute
    /\ setup = "done" => Includes(session) \subseteq table
    /\ iface /\ session # None => setup \in {"done", "unknown"}

LEMMA GuaranteedStep ==
    ASSUME Harmless, TypeOK, Guaranteed, [Next]_vars
    PROVE  Guaranteed'
  <1> USE DEF Guaranteed, NeverTheDefaultRoute
  <1>1. ASSUME NEW s \in Session, Start(s) PROVE Guaranteed'
    BY <1>1 DEF Start
  <1>2. CASE Refuse
    <2>1. session' = session /\ Includes(session)' = Includes(session)
      BY <1>2 DEF Refuse, Includes, Listed, HostIncludes, Usable
    <2> QED BY <1>2, <2>1 DEF Refuse, Failed
  <1>3. CASE Connect \/ Reconnect
    <2>1. session \in Session /\ ~Refuses(session) /\ UNCHANGED session
      BY <1>3 DEF Connect, Reconnect, Succeeds, TypeOK
    <2>2. ~TakesAll(session) /\ Includes(session) = Plain(session)
      BY <2>1, NoInclude DEF TakesAll, Plain
    <2>3. Includes(session)' = Includes(session)
      BY <2>1 DEF Includes, Listed, HostIncludes, Usable
    <2>4. ~default' /\ table \subseteq table'
      <3>1. CASE AddsRoutes
        <4>1. default' = (default \/ TakesAll(session)) /\ table \subseteq table'
          BY <3>1 DEF AddsRoutes
        <4> QED BY <2>2, <4>1
      <3>2. CASE UNCHANGED <<table, default>>
        BY <3>2
      <3> QED BY <1>3, <3>1, <3>2 DEF Connect, Reconnect
    <2>5. setup' = "done" => Includes(session) \subseteq table'
      BY <1>3, <2>2, <2>4 DEF Connect, Reconnect, AddsRoutes
    <2>6. setup' \in {"done", "unknown"}
      BY <1>3 DEF Connect, Reconnect, TypeOK, Setup
    <2> QED BY <2>3, <2>4, <2>5, <2>6
  <1>4. CASE VpncScriptFails
    <2>1. session \in Session /\ ~Refuses(session) /\ UNCHANGED session
      BY <1>4 DEF VpncScriptFails, TypeOK
    <2>2. ~TakesAll(session) /\ Includes(session)' = Includes(session)
      BY <2>1, NoInclude DEF TakesAll, Includes, Listed, HostIncludes, Usable
    <2>3. ~default' /\ table \subseteq table' /\ UNCHANGED iface
      BY <1>4, <2>2 DEF VpncScriptFails
    <2>4. setup \in {"done", "unknown"} => UNCHANGED setup
      BY <1>4 DEF VpncScriptFails, Failed
    <2>5. setup' = "done" => setup = "done"
      BY <1>4 DEF VpncScriptFails, Failed
    <2> QED BY <2>1, <2>2, <2>3, <2>4, <2>5
  <1>5. CASE Disconnect
    BY <1>5 DEF Disconnect
  <1>6. CASE Dies
    BY <1>6 DEF Dies
  <1>7. CASE Sweep \/ UNCHANGED vars
    BY <1>7 DEF Sweep, vars, Includes, Listed, HostIncludes, Usable
  <1> QED BY <1>1, <1>2, <1>3, <1>4, <1>5, <1>6, <1>7 DEF Next

LEMMA GuaranteedHolds == Harmless => (Spec => []Guaranteed)
  <1> SUFFICES ASSUME Harmless PROVE Spec => []Guaranteed
    OBVIOUS
  <1>1. Init => Guaranteed
    BY DEF Init, Guaranteed, NeverTheDefaultRoute
  <1>2. TypeOK /\ Guaranteed /\ [Next]_vars => Guaranteed'
    BY GuaranteedStep
  <1> QED BY <1>1, <1>2, TypeCorrect, PTL DEF Spec

\* The split-routing guarantee: for every list a gateway may push and every list
\* of configured networks, the default route stays where it is.
THEOREM SplitRouting == Harmless => (Spec => []NeverTheDefaultRoute)
  <1>1. Guaranteed => NeverTheDefaultRoute
    BY DEF Guaranteed
  <1> QED BY <1>1, GuaranteedHolds, PTL

\* An iface file that is there during a session was written after a script of
\* that session had succeeded, never by an earlier session, and with all its
\* routes in place, unless its connect script had failed and only a reconnect
\* succeeded (vpnc-split.sh:234-246, vpnconnect-helper:95).
THEOREM InterfaceIsRouted == Harmless => (Spec => []IfaceMeansRouted)
  <1>1. Guaranteed => IfaceMeansRouted
    BY DEF Guaranteed, IfaceMeansRouted
  <1> QED BY <1>1, GuaranteedHolds, PTL

-----------------------------------------------------------------------------
(* What a session accounts for.                                            *)

\* All there is on the machine is what the session accounts for, but for what
\* one that died has left.
Accounted ==
    /\ LeavesNothing
    /\ session = None /\ resolver # {} => orphan
    /\ session # None => table \subseteq Plain(session)
    /\ session # None /\ ~orphan => resolver \subseteq session.dns
    /\ session # None /\ ~orphan /\ resolver # {} =>
          setup \in {"done", "unknown"} /\ ~Refuses(session)
    /\ setup = "done" => Plain(session) \subseteq table

LEMMA AccountedStep ==
    ASSUME TypeOK, Accounted, [Next]_vars
    PROVE  Accounted'
  <1> USE DEF Accounted, LeavesNothing
  <1>1. ASSUME NEW s \in Session, Start(s) PROVE Accounted'
    BY <1>1, NoneAssumption DEF Start
  <1>2. CASE Refuse
    <2>1. UNCHANGED <<session, table, resolver, orphan, dead, iface>> /\ session # None
          /\ Refuses(session) /\ setup' = Failed
      BY <1>2 DEF Refuse
    <2>2. Plain(session)' = Plain(session) /\ Refuses(session)' = Refuses(session)
      BY <2>1 DEF Plain, Includes, Listed, HostIncludes, Usable, Refuses
    <2> QED BY <2>1, <2>2 DEF Failed
  <1>3. CASE Connect \/ Reconnect
    <2>1. session # None /\ UNCHANGED session /\ ~Refuses(session)
      BY <1>3 DEF Connect, Reconnect, Succeeds
    <2>2. Plain(session)' = Plain(session) /\ Refuses(session)' = Refuses(session)
      BY <2>1 DEF Plain, Includes, Listed, HostIncludes, Usable, Refuses
    <2>3. table \subseteq table' /\ table' \subseteq Plain(session)
      BY <1>3, <2>1 DEF Connect, Reconnect, AddsRoutes
    <2>4. setup' = "done" => Plain(session) \subseteq table'
      BY <1>3, <2>3 DEF Connect, Reconnect, AddsRoutes
    <2>5. setup' \in {"done", "unknown"}
      BY <1>3 DEF Connect, Reconnect, TypeOK, Setup
    <2>6. ~orphan' => resolver' \subseteq session.dns
      BY <1>3, <2>1 DEF Connect, Reconnect, Succeeds
    <2> QED BY <2>1, <2>2, <2>3, <2>4, <2>5, <2>6
  <1>4. CASE VpncScriptFails
    <2>1. session # None /\ UNCHANGED <<session, resolver, iface, orphan, dead>>
      BY <1>4 DEF VpncScriptFails
    <2>2. Plain(session)' = Plain(session) /\ Refuses(session)' = Refuses(session)
      BY <2>1 DEF Plain, Includes, Listed, HostIncludes, Usable, Refuses
    <2>3. table \subseteq table' /\ table' \subseteq Plain(session)
      BY <1>4, <2>1 DEF VpncScriptFails
    <2>4. /\ setup \in {"done", "unknown"} => setup' = setup
          /\ setup' = "done" => setup = "done"
      BY <1>4 DEF VpncScriptFails, Failed
    <2> QED BY <2>1, <2>2, <2>3, <2>4
  <1>5. CASE Disconnect
    <2>1. table' = {} /\ resolver' = {} /\ ~iface' /\ session' = None /\ setup' = "none"
      BY <1>5 DEF Disconnect
    <2> QED BY <2>1
  <1>6. CASE Dies
    <2>1. /\ session' = None /\ setup' = "none" /\ table' = {} /\ resolver' = resolver
          /\ dead' /\ (resolver # {} => orphan')
      BY <1>6 DEF Dies
    <2> QED BY <2>1
  <1>7. CASE Sweep \/ UNCHANGED vars
    BY <1>7 DEF Sweep, vars, Plain, Includes, Listed, HostIncludes, Usable, Refuses
  <1> QED BY <1>1, <1>2, <1>3, <1>4, <1>5, <1>6, <1>7 DEF Next

LEMMA AccountedHolds == Spec => [](TypeOK /\ Accounted)
  <1>1. Init => Accounted
    BY DEF Init, Accounted, LeavesNothing
  <1>2. TypeOK /\ Accounted /\ [Next]_vars => Accounted'
    BY AccountedStep
  <1> QED BY <1>1, <1>2, TypeCorrect, PTL DEF Spec

\* The list of the way out is the list of the way in: whatever the lists are
\* and however often scripts failed or ran again, an orderly end leaves nothing
\* behind, and the death of an openconnect no route: its resolvers and its
\* iface file are left to others (vpnc-split.sh:138, 247-249, tunnel.py:186).
THEOREM NothingIsLeft == Spec => []LeavesNothing
  <1>1. Accounted => LeavesNothing
    BY DEF Accounted
  <1> QED BY <1>1, AccountedHolds, PTL

\* No lookup is sent to a resolver that the tunnel of its session does not
\* reach, unless the connect script had failed and only a reconnect succeeded.
THEOREM ResolversHold == Harmless => (Spec => []ResolversAreRouted)
  <1> SUFFICES ASSUME Harmless PROVE Spec => []ResolversAreRouted
    OBVIOUS
  <1>1. TypeOK /\ Accounted => ResolversAreRouted
    <2> SUFFICES ASSUME TypeOK, Accounted, ~orphan, setup # "unknown", NEW d \in resolver
                 PROVE  \E i \in table : i.addr = d
      BY DEF ResolversAreRouted
    <2>1. session # None
      BY DEF Accounted, LeavesNothing
    <2>2. session \in Session /\ d \in session.dns
      BY <2>1 DEF TypeOK, Accounted
    <2>3. ~Refuses(session) /\ Plain(session) \subseteq table
      BY <2>1 DEF Accounted
    <2> QED BY <2>2, <2>3, ResolversListed
  <1> QED BY <1>1, AccountedHolds, PTL
=============================================================================
