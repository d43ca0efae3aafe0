-------------------------------- MODULE Page --------------------------------
(***************************************************************************)
(* The dashboard page (src/app/templates/index.html): refreshes that       *)
(* overlap, each a request for the list, one for every open log, and a     *)
(* table that is drawn when all of them have come back.                    *)
(*                                                                         *)
(* The server is what GET /vpns would return at the moment: for each id    *)
(* how its row looks, or None.  It changes by what the buttons do, by      *)
(* other clients, and by itself.                                           *)
(***************************************************************************)
CONSTANTS
    Vpn,        \* ids
    Look,       \* what a row may look like
    Flight,     \* refreshes under way (bound: how many overlap)
    None        \* no row, no refresh

ASSUME NoneAssumption == None \notin Look

VARIABLES
    server,     \* server[v]: what the server would say of v
    shown,      \* shown[v]: the row of v in the table
    openLogs,   \* ids whose log is shown
    flight      \* flight[f]: one call of refresh()

vars == <<server, shown, openLogs, flight>>

Table   == [Vpn -> Look \union {None}]
Refresh == [pc : {"asked", "answered", "logs"}, vpns : Table, want : SUBSET Vpn]

TypeOK ==
    /\ server \in Table /\ shown \in Table /\ openLogs \subseteq Vpn
    /\ flight \in [Flight -> Refresh \union {None}]
    /\ \A f \in Flight : flight[f] # None
          => (flight[f].want # {} <=> flight[f].pc = "logs")

Nothing == [v \in Vpn |-> None]

Asked == [pc |-> "asked", vpns |-> Nothing, want |-> {}]

\* The page is loaded and refreshes at once.
Init ==
    /\ server \in Table /\ shown = Nothing /\ openLogs = {}
    /\ \E f \in Flight : flight = [g \in Flight |-> IF g = f THEN Asked ELSE None]

-----------------------------------------------------------------------------
Changes(v) ==
    /\ \E l \in Look \union {None} : server' = [server EXCEPT ![v] = l]
    /\ UNCHANGED <<shown, openLogs, flight>>

Begins(f) == flight[f] = None /\ flight' = [flight EXCEPT ![f] = Asked]

\* setInterval, and the refresh() after every button but Log.
Poll(f) == Begins(f) /\ UNCHANGED <<server, shown, openLogs>>

\* The Log button of a row of the table.
Toggle(v, f) ==
    /\ shown[v] # None
    /\ openLogs' = IF v \in openLogs THEN openLogs \ {v} ELSE openLogs \union {v}
    /\ Begins(f)
    /\ UNCHANGED <<server, shown>>

At(f, pc) == flight[f] # None /\ flight[f].pc = pc

\* Slip: the answer may come from the browser's cache.
AnswerCached(f) ==
    /\ At(f, "asked")
    /\ flight' = [flight EXCEPT ![f].pc = "answered",
                                ![f].vpns = IF shown = Nothing THEN server ELSE shown]
    /\ UNCHANGED <<server, shown, openLogs>>

\* The server answers; the answer is on its way.
Answer(f) ==
    /\ At(f, "asked")
    /\ flight' = [flight EXCEPT ![f].pc = "answered", ![f].vpns = server]
    /\ UNCHANGED <<server, shown, openLogs>>

\* Slip: the table is drawn with the last log, and with no open log never.
ReceiveDrawsLater(f) ==
    /\ At(f, "answered")
    /\ flight' = [flight EXCEPT ![f].pc = "logs", ![f].want = openLogs]
    /\ UNCHANGED <<server, shown, openLogs>>

\* The list arrives: the open logs are asked for, and without any it is drawn.
Receive(f) ==
    /\ At(f, "answered")
    /\ IF openLogs = {}
       THEN shown' = flight[f].vpns /\ flight' = [flight EXCEPT ![f] = None]
       ELSE /\ flight' = [flight EXCEPT ![f].pc = "logs", ![f].want = openLogs]
            /\ UNCHANGED shown
    /\ UNCHANGED <<server, openLogs>>

\* A log arrives, and the last one draws the table.
Log(f, v) ==
    /\ At(f, "logs") /\ v \in flight[f].want /\ server[v] # None
    /\ IF flight[f].want = {v}
       THEN shown' = flight[f].vpns /\ flight' = [flight EXCEPT ![f] = None]
       ELSE flight' = [flight EXCEPT ![f].want = @ \ {v}] /\ UNCHANGED shown
    /\ UNCHANGED <<server, openLogs>>

\* 404: Promise.all rejects, and the refresh ends with a toast.
LogUnknown(f, v) ==
    /\ At(f, "logs") /\ v \in flight[f].want /\ server[v] = None
    /\ flight' = [flight EXCEPT ![f] = None]
    /\ UNCHANGED <<server, shown, openLogs>>

Flies(f) == Answer(f) \/ Receive(f) \/ \E v \in Vpn : Log(f, v) \/ LogUnknown(f, v)

Next == \/ \E v \in Vpn : Changes(v) \/ \E f \in Flight : Toggle(v, f)
        \/ \E f \in Flight : Poll(f) \/ Flies(f)

\* The timer fires and the server answers.
Spec == Init /\ [][Next]_vars
        /\ WF_vars(\E f \in Flight : Poll(f)) /\ \A f \in Flight : WF_vars(Flies(f))

-----------------------------------------------------------------------------
(* Properties.                                                             *)

\* A log is open of a VPN that has gone: its 404 ends every refresh.
Stuck == \E v \in openLogs : server[v] = None

\* Whatever order the answers of overlapping refreshes arrive in, when the
\* server has come to rest the table says what the server says, and keeps
\* saying it, unless the log of a VPN that has gone stays, or comes to be
\* again and again, open (index.html:211-224).
FollowsServer == []<><<server' # server>>_server \/ []<>Stuck \/ <>[](shown = server)
=============================================================================
