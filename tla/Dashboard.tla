----------------------------- MODULE Dashboard -----------------------------
(***************************************************************************)
(* What the dashboard promises about one VPN, whatever its workers, its    *)
(* helper processes and its state files do in between: the state machine   *)
(* in the docstring of app/services/tunnel.py, together with the one fact  *)
(* about the machine that makes the rows worth reading, namely whether an  *)
(* openconnect process of that VPN is running.                             *)
(*                                                                         *)
(* The promise is a relation between consecutive pairs (row, running), per *)
(* VPN.  Several VPNs may move in one step: a refresh visits all of them.  *)
(***************************************************************************)

CONSTANT Vpn      \* ids the registry may hold

VARIABLES shown,      \* shown[v]: the state of the row, "absent" if not listed
          running     \* running[v]: does an openconnect process of v run?

vars == <<shown, running>>

RowStates == {"absent", "disconnected", "connecting", "connected",
              "disconnecting", "error"}

\* Nothing runs on these rows' behalf, so their definition may change.
Mutable == {"disconnected", "error"}

\* A dashboard that starts knows only what it finds: a tunnel that kept
\* running is not shown as connected until a read adopts it.
Init == /\ shown \in [Vpn -> {"absent", "disconnected"}]
        /\ running \in [Vpn -> BOOLEAN]
        /\ \A v \in Vpn : shown[v] = "absent" => ~running[v]

-----------------------------------------------------------------------------
(* What may happen to one VPN in a step.                                   *)

Keeps(v)  == running'[v] = running[v]

\* A connect is accepted only where nothing runs yet.
Connect(v)    == /\ shown[v] \in Mutable /\ ~running[v]
                 /\ shown'[v] = "connecting" /\ Keeps(v)
Disconnect(v) == /\ shown[v] \in Mutable \union {"connected"}
                 /\ shown'[v] = "disconnecting" /\ Keeps(v)

\* openconnect is started by a connect and by nothing else; it may end, on
\* its own or because it was told to, at any time.
Starts(v) == /\ shown[v] = "connecting" /\ ~running[v]
             /\ running'[v] /\ shown'[v] = shown[v]
Ends(v)   == running[v] /\ ~running'[v] /\ shown'[v] = shown[v]

\* How a connect and a disconnect come to rest.  "disconnected" is a promise.
Connected(v)    == /\ shown[v] = "connecting" /\ shown'[v] = "connected" /\ Keeps(v)
Disconnected(v) == /\ shown[v] = "disconnecting" /\ shown'[v] = "disconnected"
                   /\ ~running[v] /\ Keeps(v)
Fails(v)        == /\ shown[v] \in {"connecting", "disconnecting"}
                   /\ shown'[v] = "error" /\ Keeps(v)

\* What a read may find out: a tunnel that runs unnoticed, or one that is gone.
Finds(v) == /\ shown[v] \in Mutable /\ running[v]
            /\ shown'[v] \in {"connected", "error"} /\ Keeps(v)
Drops(v) == /\ shown[v] = "connected" /\ ~running[v]
            /\ shown'[v] = "error" /\ Keeps(v)

\* A definition goes only when nothing runs any more.
Create(v) == shown[v] = "absent" /\ shown'[v] = "disconnected" /\ Keeps(v)
Delete(v) == /\ shown[v] \in Mutable \union {"connected"} /\ ~running[v]
             /\ shown'[v] = "absent" /\ Keeps(v)

Rests(v) == shown'[v] = shown[v] /\ Keeps(v)

Step(v) == \/ Connect(v) \/ Disconnect(v) \/ Starts(v) \/ Ends(v)
           \/ Connected(v) \/ Disconnected(v) \/ Fails(v)
           \/ Finds(v) \/ Drops(v) \/ Create(v) \/ Delete(v) \/ Rests(v)

Next == \A v \in Vpn : Step(v)

Spec == Init /\ [][Next]_vars
=============================================================================
