----------------------------- MODULE PageProofs -----------------------------
(***************************************************************************)
(* Proofs about Page, for any set of VPNs and any number of refreshes.     *)
(***************************************************************************)
EXTENDS Page, TLAPS

\* A refresh that moves on, or ends, is one of those the page can have.
LEMMA OneFlies ==
    ASSUME TypeOK, NEW f \in Flight, NEW x \in Refresh \union {None},
           x # None => (x.want # {} <=> x.pc = "logs"),
           flight' = [flight EXCEPT ![f] = x],
           server' \in Table, shown' \in Table, openLogs' \subseteq Vpn
    PROVE  TypeOK'
BY DEF TypeOK

LEMMA FlightFacts ==
    ASSUME TypeOK, NEW f \in Flight, NEW pc, At(f, pc)
    PROVE  /\ flight[f] \in Refresh /\ flight[f] # None /\ flight[f].pc = pc
           /\ flight[f].vpns \in Table /\ flight[f].want \subseteq Vpn
BY DEF TypeOK, At, Refresh

LEMMA AskedFacts == Asked \in Refresh /\ Asked.want = {} /\ Asked.pc = "asked"
BY DEF Asked, Refresh, Nothing, Table

LEMMA BeginsKeeps ==
    ASSUME TypeOK, NEW f \in Flight, Begins(f),
           server' \in Table, shown' \in Table, openLogs' \subseteq Vpn
    PROVE  TypeOK'
<1>1. flight' = [flight EXCEPT ![f] = Asked]
  BY DEF Begins
<1> QED BY <1>1, AskedFacts, OneFlies

LEMMA AnswerKeeps ==
    ASSUME TypeOK, NEW f \in Flight, Answer(f)
    PROVE  TypeOK'
<1> DEFINE x == [flight[f] EXCEPT !.pc = "answered", !.vpns = server]
<1>1. flight[f] \in Refresh /\ flight[f].pc = "asked" /\ flight[f] # None
  BY FlightFacts DEF Answer
<1>2. flight' = [flight EXCEPT ![f] = x] /\ UNCHANGED <<server, shown, openLogs>>
  BY DEF Answer, TypeOK
<1>3. x \in Refresh /\ x.pc = "answered" /\ x.want = {}
  BY <1>1 DEF TypeOK, Refresh
<1> HIDE DEF x
<1> QED BY <1>2, <1>3, OneFlies DEF TypeOK

LEMMA ReceiveKeeps ==
    ASSUME TypeOK, NEW f \in Flight, Receive(f)
    PROVE  TypeOK'
<1>1. /\ flight[f] \in Refresh /\ flight[f].pc = "answered" /\ flight[f].vpns \in Table
      /\ UNCHANGED <<server, openLogs>>
  BY FlightFacts DEF Receive
<1>2. CASE openLogs = {}
  <2>1. shown' = flight[f].vpns /\ flight' = [flight EXCEPT ![f] = None]
    BY <1>2 DEF Receive
  <2> QED BY <1>1, <2>1, OneFlies DEF TypeOK
<1>3. CASE openLogs # {}
  <2> DEFINE x == [flight[f] EXCEPT !.pc = "logs", !.want = openLogs]
  <2>1. flight' = [flight EXCEPT ![f] = x] /\ UNCHANGED shown
    BY <1>3 DEF Receive, TypeOK
  <2>2. x \in Refresh /\ x.pc = "logs" /\ x.want = openLogs
    BY <1>1 DEF TypeOK, Refresh
  <2> HIDE DEF x
  <2> QED BY <1>1, <1>3, <2>1, <2>2, OneFlies DEF TypeOK
<1> QED BY <1>2, <1>3

\* Only the last log draws the table, so a refresh that waits has one to come.
LEMMA LogKeeps ==
    ASSUME TypeOK, NEW f \in Flight, NEW v \in Vpn, Log(f, v)
    PROVE  TypeOK'
<1>1. /\ flight[f] \in Refresh /\ flight[f].pc = "logs" /\ flight[f].vpns \in Table
      /\ v \in flight[f].want /\ UNCHANGED <<server, openLogs>>
  BY FlightFacts DEF Log
<1>2. CASE flight[f].want = {v}
  <2>1. shown' = flight[f].vpns /\ flight' = [flight EXCEPT ![f] = None]
    BY <1>2 DEF Log
  <2> QED BY <1>1, <2>1, OneFlies DEF TypeOK
<1>3. CASE flight[f].want # {v}
  <2> DEFINE x == [flight[f] EXCEPT !.want = @ \ {v}]
  <2>1. flight' = [flight EXCEPT ![f] = x] /\ UNCHANGED shown
    BY <1>3 DEF Log, TypeOK
  <2>2. x \in Refresh /\ x.pc = "logs" /\ x.want = flight[f].want \ {v}
    BY <1>1 DEF Refresh
  <2> HIDE DEF x
  <2>3. x.want # {}
    BY <1>1, <1>3, <2>2
  <2> QED BY <1>1, <2>1, <2>2, <2>3, OneFlies DEF TypeOK
<1> QED BY <1>2, <1>3

LEMMA StepTypeOK == TypeOK /\ [Next]_vars => TypeOK'
<1> SUFFICES ASSUME TypeOK, [Next]_vars PROVE TypeOK'
  OBVIOUS
<1>1. ASSUME NEW v \in Vpn, Changes(v) PROVE TypeOK'
  <2>1. PICK l \in Look \union {None} : server' = [server EXCEPT ![v] = l]
    BY <1>1 DEF Changes
  <2>2. server' \in Table
    BY <2>1 DEF TypeOK, Table
  <2> QED BY <1>1, <2>2 DEF Changes, TypeOK
<1>2. ASSUME NEW v \in Vpn, NEW f \in Flight, Toggle(v, f) PROVE TypeOK'
  BY <1>2, BeginsKeeps DEF Toggle, TypeOK
<1>3. ASSUME NEW f \in Flight, Poll(f) PROVE TypeOK'
  BY <1>3, BeginsKeeps DEF Poll, TypeOK
<1>4. ASSUME NEW f \in Flight, NEW v \in Vpn, LogUnknown(f, v) PROVE TypeOK'
  BY <1>4, OneFlies DEF LogUnknown, TypeOK
<1>5. CASE UNCHANGED vars
  BY <1>5 DEF vars, TypeOK
<1> QED BY <1>1, <1>2, <1>3, <1>4, <1>5, AnswerKeeps, ReceiveKeeps, LogKeeps DEF Next, Flies

\* A refresh waits for logs exactly as long as it has logs to wait for, so the
\* last answer is what draws the table (index.html:211-224).
THEOREM TypeCorrect == Spec => []TypeOK
<1>1. Init => TypeOK
  BY AskedFacts DEF Init, TypeOK, Nothing, Table
<1> QED BY <1>1, StepTypeOK, PTL DEF Spec
=============================================================================
