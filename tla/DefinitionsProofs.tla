------------------------- MODULE DefinitionsProofs -------------------------
(***************************************************************************)
(* Proofs about Definitions, for all sets of ids, servers, variables and   *)
(* workers.                                                                *)
(***************************************************************************)
EXTENDS Definitions, TLAPS

\* What is written has been found good.
Decided == At("write") => Rejection(copy) = None

\* A pin is stored for a worker that has none.
PinCall == call # None /\ call.op = "pin" =>
    /\ call.by \in Thread /\ worker[call.by] # None
    /\ worker[call.by].vpn = call.vpn
    /\ worker[call.by].def # None /\ worker[call.by].def.pin = None
    /\ call.step \in {"read", "write", "memory"}

\* How far a mutation has come: only a pin goes to the memory; before anything is
\* decided nothing is written, before .env is written it is read.
Plain == call # None =>
    /\ call.op # "pin" => call.step # "memory"
    /\ call.step = "read" => ~call.wrote
    /\ call.step = "dotenv" => call.text \in Lines

TypeInv == TypeOK /\ Decided /\ PinCall /\ Plain

\* What is written to .env is lines of known variables.
LEMMA CredentialsType ==
    ASSUME TypeOK, At("dotenv"), call.op # "pin"
    PROVE  \A e \in Lines : Over(Credentials, e) \in Lines
<1>1. call \in Call /\ NamesOf[call.vpn] \subseteq Name /\ call.given \subseteq Name
      /\ Missing(call.seen) \subseteq Name
  BY NamesAssumption DEF TypeOK, At, Call, Missing
<1>2. CASE call.op = "create"
  BY <1>1, <1>2 DEF Credentials, Over, Line, Lines
<1>3. CASE call.op = "edit"
  BY <1>1, <1>3 DEF Credentials, Over, Line, Lines
<1>4. CASE call.op = "delete"
  BY <1>1, <1>4 DEF Credentials, Over, Line, Lines
<1>5. QED
  BY <1>1, <1>2, <1>3, <1>4 DEF Call

\* A file that loads gives definitions with a server.
LEMMA ParseType ==
    ASSUME NEW f \in [Vpn -> Entry \union {None}], NEW e, Loadable(f)
    PROVE  /\ Parse(f, e) \in [Vpn -> Def \union {None}]
           /\ \A v \in Vpn : Parse(f, e)[v] = None <=> f[v] = None
<1>1. \A v \in Vpn : Has(e, v) \in BOOLEAN
  BY DEF Has
<1>2. ASSUME NEW v \in Vpn, f[v] # None
      PROVE  [server |-> f[v].server, pin |-> f[v].pin, creds |-> Has(e, v)] \in Def
  BY <1>1, <1>2 DEF Loadable, Def, Entry
<1>3. QED
  BY <1>2, NoneAssumption DEF Parse

\* What a load keeps of an entry.
LEMMA ParseFields ==
    ASSUME NEW f \in [Vpn -> Entry \union {None}], NEW e, Loadable(f), NEW v \in Vpn
    PROVE  /\ Parse(f, e)[v] = None <=> f[v] = None
           /\ f[v] # None => /\ Parse(f, e)[v].server = f[v].server
                             /\ Parse(f, e)[v].pin = f[v].pin
                             /\ Parse(f, e)[v].creds = Has(e, v)
<1>1. Parse(f, e)[v] = None <=> f[v] = None
  BY ParseType
<1>2. f[v] # None => Parse(f, e)[v] = [server |-> f[v].server, pin |-> f[v].pin,
                                       creds |-> Has(e, v)]
  BY DEF Parse
<1>3. QED
  BY <1>1, <1>2

\* The entry that a mutation writes is an entry.
LEMMA ChangedType ==
    ASSUME TypeInv, At("write")
    PROVE  Changed(copy[call.vpn]) \in Entry \union {None}
<1>1. call \in Call /\ copy[call.vpn] \in Entry \union {None} /\ Rejection(copy) = None
  BY DEF TypeInv, TypeOK, At, Call, Decided
<1>2. CASE call.op = "create"
  <2>1. Merged(None) \in Server \union {None}
    BY <1>1 DEF Merged, Call
  <2>2. QED
    BY <1>2, <2>1 DEF Changed, Entry
<1>3. CASE call.op = "edit"
  BY <1>1, <1>3, NoneAssumption DEF Changed, Merged, Rejection, Entry, Call
<1>4. CASE call.op = "delete"
  BY <1>4 DEF Changed
<1>5. CASE call.op = "pin"
  <2>1. worker[call.by].def \in Def
    BY <1>5 DEF TypeInv, PinCall, TypeOK, At, Job
  <2>2. copy[call.vpn] \in Entry
    BY <1>1, <1>5, NoneAssumption DEF Rejection
  <2>3. QED
    BY <1>5, <2>1, <2>2 DEF Changed, Entry, Def
<1>6. QED
  BY <1>1, <1>2, <1>3, <1>4, <1>5 DEF Call

-----------------------------------------------------------------------------
(* Types, whatever fails and whatever is edited by hand.                   *)

LEMMA InitTypes == Init => TypeInv
<1> SUFFICES ASSUME Init PROVE TypeInv
  OBVIOUS
<1>1. yaml \in [Vpn -> Entry \union {None}] /\ Loadable(yaml)
  BY NoneAssumption DEF Init, Entry, Loadable
<1>2. mem \in [Vpn -> Def \union {None}]
  BY <1>1, ParseType DEF Init
<1>3. row \in [Vpn -> {"absent", "idle", "busy", "up"}]
  BY DEF Init
<1>4. QED
  BY <1>1, <1>2, <1>3 DEF Init, TypeInv, TypeOK, Decided, PinCall, Plain, At

LEMMA BeginTypes ==
    ASSUME TypeInv, NEW o \in {"create", "edit", "delete"}, NEW v \in Vpn,
           NEW s \in Server \union {None}, NEW f \in BOOLEAN, NEW g \in SUBSET NamesOf[v],
           Begin(o, v, s, f, g, None), UNCHANGED <<files, app, copy, answer>>
    PROVE  TypeInv'
<1>1. g \subseteq Name
  BY NamesAssumption
<1>2. call' \in Call
  BY <1>1 DEF Begin, Started, Call, Steps
<1>3. call'.op = o /\ call'.step = "read" /\ call'.wrote = FALSE
  BY DEF Begin, Started
<1>4. Decided' /\ PinCall' /\ Plain'
  BY <1>3 DEF Decided, PinCall, Plain, At
<1>5. UNCHANGED <<yaml, dotenv, environ, mem, row, worker, copy, answer>>
  BY DEF files, app
<1>6. TypeOK'
  BY <1>2, <1>5 DEF TypeInv, TypeOK
<1>7. QED
  BY <1>4, <1>6 DEF TypeInv

LEMMA RequestTypes == ASSUME TypeInv, NEW v \in Vpn, Request(v) PROVE TypeInv'
<1>1. ASSUME NEW s \in Server \union {None}, NEW g \in SUBSET NamesOf[v], Create(v, s, g)
      PROVE  TypeInv'
  BY <1>1, BeginTypes DEF Create
<1>2. ASSUME NEW s \in Server \union {None}, NEW f \in BOOLEAN, NEW g \in SUBSET NamesOf[v],
             Edit(v, s, f, g)
      PROVE  TypeInv'
  BY <1>2, BeginTypes DEF Edit
<1>3. CASE Delete(v)
  <2>1. Begin("delete", v, None, TRUE, {}, None) /\ UNCHANGED <<files, app, copy, answer>>
    BY <1>3 DEF Delete
  <2>2. None \in Server \union {None} /\ TRUE \in BOOLEAN /\ {} \in SUBSET NamesOf[v]
    OBVIOUS
  <2>3. QED
    BY ONLY TypeInv, v \in Vpn, <2>1, <2>2, BeginTypes, Zenon
<1>4. CASE Refuse(v)
  BY <1>4 DEF Refuse, TypeInv, TypeOK, Decided, PinCall, Plain, At, files, app
<1>5. QED
  BY <1>1, <1>2, <1>3, <1>4 DEF Request

\* The end of a mutation, whatever it answers.
LEMMA EndTypes ==
    ASSUME TypeInv, call # None, NEW c \in {400, 404, 409, 500}, End(c)
    PROVE  /\ worker' \in [Thread -> Job \union {None}] /\ call' = None
           /\ answer' \in {None, 200, 400, 404, 409, 500}
<1>1. CASE call.op = "pin"
  <2>1. call.by \in Thread /\ worker[call.by] \in Job
    BY <1>1 DEF TypeInv, TypeOK, PinCall
  <2>2. [worker[call.by] EXCEPT !.def = None] \in Job
    BY <2>1 DEF Job
  <2>3. QED
    BY <1>1, <2>1, <2>2 DEF End, TypeInv, TypeOK
<1>2. CASE call.op # "pin"
  BY <1>2 DEF End, TypeInv, TypeOK
<1>3. QED
  BY <1>1, <1>2

LEMMA RejectionCode == ASSUME NEW f, Rejection(f) # None PROVE Rejection(f) \in {400, 409, 500}
  BY DEF Rejection

\* The steps that leave the mutation under way, and what they change of it.
Advances == \/ ReadFile /\ Rejection(yaml) = None
            \/ WriteFile \/ ReadLines \/ ReadText \/ WriteCredentials

SameCall == /\ call' \in Call /\ call' # None
            /\ call'.op = call.op /\ call'.vpn = call.vpn /\ call'.server = call.server
            /\ call'.fit = call.fit /\ call'.given = call.given /\ call'.by = call.by

LEMMA Advance ==
    ASSUME TypeInv, Advances
    PROVE  /\ call \in Call /\ SameCall /\ answer' = answer
           /\ ReadFile => call'.step = "write"
           /\ WriteFile => /\ call'.step \in {"memory", "lines", "reload", "text"}
                           /\ call'.step = "memory" <=> call.op = "pin"
           /\ ReadLines => call'.step \in {"reload", "text"}
           /\ ReadText => call'.step = "dotenv" /\ call'.text = dotenv
           /\ WriteCredentials => call'.step = "reload"
<1>1. call \in Call /\ call # None
  BY DEF Advances, ReadFile, WriteFile, ReadLines, ReadText, WriteCredentials, At, TypeInv,
         TypeOK
<1>2. \A c \in Call : c # None
  BY NoneAssumption
<1>3. dotenv \in Lines /\ call.wrote \in BOOLEAN
  BY <1>1 DEF TypeInv, TypeOK, Call
<1>4. /\ ReadFile => call.step = "read"
      /\ WriteFile => call.step = "write"
      /\ ReadLines => call.step = "lines"
      /\ ReadText => call.step = "text"
      /\ WriteCredentials => call.step = "dotenv"
  BY DEF ReadFile, WriteFile, ReadLines, ReadText, WriteCredentials, At
<1>5. CASE ReadFile
  <2>1. call' = [call EXCEPT !.step = "write"] /\ answer' = answer
    BY <1>4, <1>5 DEF ReadFile, GoOn, Advances
  <2>2. SameCall /\ call'.step = "write"
    BY <1>1, <1>2, <2>1 DEF Call, Steps, SameCall
  <2>3. QED
    BY <1>1, <1>4, <1>5, <2>1, <2>2
<1>6. CASE WriteFile
  <2>1. PICK s \in {"memory", "lines", "reload", "text"}, b \in BOOLEAN :
            /\ call' = [call EXCEPT !.step = s, !.wrote = b]
            /\ s = "memory" <=> call.op = "pin"
    BY <1>1, <1>6 DEF WriteFile
  <2>2. SameCall /\ call'.step = s
    BY <1>1, <1>2, <2>1 DEF Call, Steps, SameCall
  <2>3. answer' = answer
    BY <1>6 DEF WriteFile
  <2>4. QED
    BY <1>1, <1>4, <1>6, <2>1, <2>2, <2>3
<1>7. CASE ReadLines
  <2>1. PICK s \in {"reload", "text"} : call' = [call EXCEPT !.seen = dotenv, !.step = s]
    BY <1>7 DEF ReadLines
  <2>2. SameCall /\ call'.step = s
    BY <1>1, <1>2, <1>3, <2>1 DEF Call, Steps, SameCall
  <2>3. answer' = answer
    BY <1>7 DEF ReadLines
  <2>4. QED
    BY <1>1, <1>4, <1>7, <2>1, <2>2, <2>3
<1>8. CASE ReadText
  <2>1. call' = [call EXCEPT !.text = dotenv, !.step = "dotenv"] /\ answer' = answer
    BY <1>8 DEF ReadText
  <2>2. SameCall /\ call'.step = "dotenv" /\ call'.text = dotenv
    BY <1>1, <1>2, <1>3, <2>1 DEF Call, Steps, SameCall
  <2>3. QED
    BY <1>1, <1>4, <1>8, <2>1, <2>2
<1>9. CASE WriteCredentials
  <2>1. PICK b \in BOOLEAN : call' = [call EXCEPT !.step = "reload", !.seen = None,
                                                  !.text = None, !.wrote = b]
    BY <1>3, <1>9 DEF WriteCredentials, Rewritten
  <2>2. SameCall /\ call'.step = "reload"
    BY <1>1, <1>2, <2>1 DEF Call, Steps, SameCall
  <2>3. answer' = answer
    BY <1>9 DEF WriteCredentials
  <2>4. QED
    BY <1>1, <1>4, <1>9, <2>1, <2>2, <2>3
<1>10. QED
  BY <1>5, <1>6, <1>7, <1>8, <1>9 DEF Advances

LEMMA MutateTypes == ASSUME TypeInv, Mutate PROVE TypeInv'
<1>1. CASE ReadFile
  <2>1. CASE Rejection(yaml) = None
    <3>1. UNCHANGED <<files, app>> /\ copy' = yaml
      BY <1>1, <2>1 DEF ReadFile, app, files
    <3>2. SameCall /\ call'.step = "write" /\ answer' = answer
      BY <1>1, <2>1, Advance DEF Advances
    <3>3. Rejection(copy)' = Rejection(yaml)
      BY <3>1, <3>2 DEF SameCall, Rejection, Merged
    <3>4. QED
      BY <1>1, <2>1, <3>1, <3>2, <3>3
      DEF ReadFile, SameCall, TypeInv, TypeOK, Decided, PinCall, Plain, At, app, files
  <2>2. CASE Rejection(yaml) # None
    <3>1. End(Rejection(yaml)) /\ call # None /\ copy' = yaml
          /\ UNCHANGED <<files, environ, mem, row>>
      BY <1>1, <2>2 DEF ReadFile, At
    <3>2. QED
      BY <2>2, <3>1, EndTypes, RejectionCode
      DEF TypeInv, TypeOK, Decided, PinCall, Plain, At, files
  <2>3. QED
    BY <2>1, <2>2
<1>2. CASE WriteFile
  <2>1. yaml' \in [Vpn -> Entry \union {None}]
    BY <1>2, ChangedType DEF WriteFile, TypeInv, TypeOK, At, Call
  <2>2. SameCall /\ call'.step \in {"memory", "lines", "reload", "text"}
        /\ (call'.step = "memory" <=> call.op = "pin")
    BY <1>2, Advance DEF Advances
  <2>3. QED
    BY <1>2, <2>1, <2>2
    DEF WriteFile, SameCall, TypeInv, TypeOK, Decided, PinCall, Plain, At, app
<1>3. CASE WriteCredentials
  <2>1. call # None /\ call.op # "pin"
    BY <1>3 DEF WriteCredentials, At, TypeInv, PinCall
  <2>2. dotenv' \in Lines /\ environ' \in Lines
    BY <1>3, <2>1, CredentialsType DEF WriteCredentials, TypeInv, TypeOK, Plain, At
  <2>3. SameCall /\ call'.step = "reload"
    BY <1>3, Advance DEF Advances
  <2>4. QED
    BY <1>3, <2>1, <2>2, <2>3
    DEF WriteCredentials, SameCall, TypeInv, TypeOK, Decided, PinCall, Plain, At
<1>8. CASE ReadLines \/ ReadText
  <2>1. SameCall /\ call'.step \in {"reload", "text", "dotenv"}
        /\ (call'.step = "dotenv" => call'.text = dotenv)
    BY <1>8, Advance DEF Advances
  <2>2. call.op # "pin"
    BY <1>8 DEF ReadLines, ReadText, At, TypeInv, PinCall
  <2>3. UNCHANGED <<files, app, copy, answer>>
    BY <1>8 DEF ReadLines, ReadText
  <2>4. QED
    BY <2>1, <2>2, <2>3
    DEF SameCall, TypeInv, TypeOK, Decided, PinCall, Plain, At, files, app
<1>4. CASE Reload
  <2>1. mem' \in [Vpn -> Def \union {None}]
    BY <1>4, ParseType DEF Reload, TypeInv, TypeOK
  <2>2. row' \in [Vpn -> {"absent", "idle", "busy", "up"}]
    BY <1>4 DEF Reload, Reloaded, TypeInv, TypeOK
  <2>3. QED
    BY <1>4, <2>1, <2>2
    DEF Reload, TypeInv, TypeOK, Decided, PinCall, Plain, At, files
<1>5. CASE ReloadFails
  <2>1. PICK c \in {400, 500} : End(c)
    BY <1>5 DEF ReloadFails
  <2>2. QED
    BY <1>5, <2>1, EndTypes
    DEF ReloadFails, TypeInv, TypeOK, Decided, PinCall, Plain, At, files
<1>6. CASE WriteFails
  BY <1>6, EndTypes DEF WriteFails, TypeInv, TypeOK, Decided, PinCall, Plain, At, files
<1>7. CASE PinInMemory
  <2> DEFINE v == call.vpn
             w == worker[call.by].def
             d == [w EXCEPT !.pin = w.server]
  <2>1. call # None /\ call.op = "pin" /\ call.by \in Thread /\ v \in Vpn
        /\ worker[call.by] \in Job /\ w \in Def
    BY <1>7 DEF PinInMemory, At, TypeInv, TypeOK, PinCall, Plain, Job, Call
  <2>2. d \in Def
    BY <2>1 DEF Def
  <2>3. [worker[call.by] EXCEPT !.def = d] \in Job
    BY <2>1, <2>2 DEF Job
  <2> HIDE DEF d, w
  <2>4. mem' = [mem EXCEPT ![v] = IF mem[v] = None THEN None ELSE d]
        /\ worker' = [worker EXCEPT ![call.by] = [worker[call.by] EXCEPT !.def = d]]
    BY <1>7 DEF PinInMemory, d, w
  <2>5. mem' \in [Vpn -> Def \union {None}] /\ worker' \in [Thread -> Job \union {None}]
    BY <2>1, <2>2, <2>3, <2>4 DEF TypeInv, TypeOK
  <2>6. QED
    BY <1>7, <2>5 DEF PinInMemory, TypeInv, TypeOK, Decided, PinCall, Plain, At, files
<1>9. QED
  BY <1>1, <1>2, <1>3, <1>4, <1>5, <1>6, <1>7, <1>8 DEF Mutate

LEMMA WorkTypes == ASSUME TypeInv, NEW t \in Thread, Work(t) PROVE TypeInv'
<1>1. ASSUME NEW v \in Vpn, StartWorker(t, v) PROVE TypeInv'
  <2>1. [vpn |-> v, def |-> mem[v]] \in Job
    BY DEF TypeInv, TypeOK, Job
  <2>2. QED
    BY <1>1, <2>1
    DEF StartWorker, TypeInv, TypeOK, Decided, PinCall, Plain, At, files
<1>2. CASE StorePin(t)
  <2>1. worker[t] \in Job /\ worker[t] # None /\ worker[t].def # None
        /\ worker[t].def.pin = None
    BY <1>2 DEF StorePin, Unpinned, TypeInv, TypeOK
  <2>2. call' = Started("pin", worker[t].vpn, "read", None, TRUE, {}, t)
    BY <1>2 DEF StorePin, Begin
  <2>3. call' \in Call
    BY <2>1, <2>2 DEF Started, Call, Steps, Job
  <2>4. QED
    BY <1>2, <2>1, <2>2, <2>3
    DEF StorePin, Started, TypeInv, TypeOK, Decided, PinCall, Plain, At, files, app
<1>3. CASE WorkerEnds(t)
  <2>1. worker[t].vpn \in Vpn /\ call = None
    BY <1>3 DEF WorkerEnds, TypeInv, TypeOK, Job
  <2>2. PICK s \in {"idle", "up"} : row' = [row EXCEPT ![worker[t].vpn] = s]
    BY <1>3 DEF WorkerEnds
  <2>3. QED
    BY <1>3, <2>1, <2>2
    DEF WorkerEnds, TypeInv, TypeOK, Decided, PinCall, Plain, At, files
<1>4. QED
  BY <1>1, <1>2, <1>3 DEF Work

LEMMA HandTypes == ASSUME TypeInv, NEW v \in Vpn, HandEdits(v) PROVE TypeInv'
<1>1. yaml' \in [Vpn -> Entry \union {None}]
  <2>1. yaml \in [Vpn -> Entry \union {None}]
    BY DEF TypeInv, TypeOK
  <2>2. ASSUME NEW s \in Server \union {None}, yaml[v] # None,
               yaml' = [yaml EXCEPT ![v].server = s]
        PROVE  yaml' \in [Vpn -> Entry \union {None}]
    BY <2>1, <2>2 DEF Entry
  <2>3. ASSUME NEW s \in Server, yaml' = [yaml EXCEPT ![v] = [server |-> s, pin |-> None]]
        PROVE  yaml' \in [Vpn -> Entry \union {None}]
    BY <2>1, <2>3 DEF Entry
  <2>4. CASE yaml' = [yaml EXCEPT ![v] = None]
    BY <2>1, <2>4
  <2>5. QED
    BY <2>2, <2>3, <2>4 DEF HandEdits
<1>2. QED
  BY <1>1 DEF HandEdits, TypeInv, TypeOK, Decided, PinCall, Plain, At, app,
              Rejection, Merged

LEMMA HandLineTypes == ASSUME TypeInv, NEW n \in Name, HandEditsLine(n) PROVE TypeInv'
<1>1. dotenv' \in Lines
  BY DEF HandEditsLine, TypeInv, TypeOK, Lines
<1>2. QED
  BY <1>1 DEF HandEditsLine, TypeInv, TypeOK, Decided, PinCall, Plain, At, app,
              Rejection, Merged

LEMMA CrashTypes == ASSUME TypeInv, Crash PROVE TypeInv'
<1>1. mem' \in [Vpn -> Def \union {None}]
  BY ParseType DEF Crash, TypeInv, TypeOK
<1>2. row' \in [Vpn -> {"absent", "idle", "busy", "up"}]
  BY DEF Crash
<1>3. QED
  BY <1>1, <1>2 DEF Crash, TypeInv, TypeOK, Decided, PinCall, Plain, At, files

LEMMA NextTypes == TypeInv /\ [Next]_vars => TypeInv'
<1> SUFFICES ASSUME TypeInv, [Next]_vars PROVE TypeInv'
  OBVIOUS
<1>1. ASSUME NEW v \in Vpn, GoesDown(v) PROVE TypeInv'
  BY <1>1 DEF GoesDown, TypeInv, TypeOK, Decided, PinCall, Plain, At, files
<1>2. CASE UNCHANGED vars
  BY <1>2 DEF vars, files, app, TypeInv, TypeOK, Decided, PinCall, Plain, At,
              Rejection, Merged
<1>3. QED
  BY <1>1, <1>2, RequestTypes, MutateTypes, WorkTypes, HandTypes, HandLineTypes,
     CrashTypes DEF Next

\* The files, the memory and the lock holder keep their types, under every fault
\* and every edit by hand (registry.py, credentials.py, tunnel.py:253-316, 450-465).
THEOREM TypeCorrect == Spec => []TypeOK
<1>1. TypeInv => TypeOK
  BY DEF TypeInv
<1>2. QED
  BY <1>1, InitTypes, NextTypes, PTL DEF Spec

-----------------------------------------------------------------------------
(* Without edits by hand and failing writes.                               *)

Agrees(v) == /\ yaml[v] = None <=> mem[v] = None
             /\ mem[v] # None => /\ mem[v].server = yaml[v].server
                                /\ mem[v].pin = yaml[v].pin

\* File and memory differ in nothing but the entry that is being changed.
Frame == \A v \in Vpn :
    (call # None /\ call.vpn = v => call.step \in {"read", "write"}) => Agrees(v)

AsRead == At("write") => copy = yaml

Rows == \A v \in Vpn : row[v] = "absent" <=> mem[v] = None

\* A worker holds the definition that is in memory.
InHand == \A t \in Thread : worker[t] # None =>
    LET m == mem[worker[t].vpn]
        d == worker[t].def
    IN  m # None /\ (d # None => d.server = m.server /\ d.pin = m.pin)

\* Nothing is changed that a worker works on.
AtRest ==
    /\ call # None /\ call.op \in {"edit", "delete"} => row[call.vpn] = "idle"
    /\ call # None /\ call.op = "create" /\ call.step # "read" => row[call.vpn] = "absent"

Pinned == At("memory") =>
    LET e == yaml[call.vpn]
        s == worker[call.by].def.server
    IN  e # None /\ mem[call.vpn] # None /\ e.server = s /\ e.pin = s

Calm == /\ TypeInv /\ Loadable(yaml) /\ Frame /\ AsRead /\ Rows /\ InHand
        /\ AtRest /\ Pinned /\ WorkerOwnsRow /\ PinsMatch

Peace == Hand = {} /\ "oserror" \notin Faults

LEMMA AgreesUnchanged ==
    ASSUME NEW v, UNCHANGED <<yaml, mem>> PROVE Agrees(v)' <=> Agrees(v)
  BY DEF Agrees

LEMMA InitCalm == Init => Calm
<1> SUFFICES ASSUME Init PROVE Calm
  OBVIOUS
<1>1. TypeInv
  BY InitTypes
<1>2. Loadable(yaml)
  BY NoneAssumption DEF Init, Loadable
<1>3. \A v \in Vpn : Agrees(v)
  <2>1. mem = Parse(yaml, dotenv) /\ yaml \in [Vpn -> Entry \union {None}]
    BY <1>1 DEF Init, TypeInv, TypeOK
  <2>2. QED
    BY <1>2, <2>1, ParseFields DEF Agrees
<1>4. Rows
  BY <1>3 DEF Init, Rows, Agrees
<1>5. PinsMatch
  BY <1>1, NoneAssumption DEF Init, PinsMatch, Parse
<1>6. QED
  BY <1>1, <1>2, <1>3, <1>4, <1>5
  DEF Init, Calm, Frame, AsRead, InHand, AtRest, Pinned, WorkerOwnsRow, At

\* A step that changes no definition, row or worker.
LEMMA StillCalm ==
    ASSUME Calm, UNCHANGED <<yaml, mem, row, worker>>
    PROVE  /\ Loadable(yaml)' /\ Rows' /\ InHand' /\ WorkerOwnsRow' /\ PinsMatch'
           /\ \A v : Agrees(v)' <=> Agrees(v)
<1>1. Loadable(yaml)' /\ Rows' /\ InHand'
  BY DEF Calm, Loadable, Rows, InHand
<1>2. WorkerOwnsRow' /\ PinsMatch'
  BY DEF Calm, WorkerOwnsRow, PinsMatch
<1>3. QED
  BY <1>1, <1>2 DEF Agrees

\* A request that begins.
LEMMA BeginCalm ==
    ASSUME Calm, TypeInv', call = None,
           NEW o \in {"create", "edit", "delete", "pin"}, NEW v \in Vpn,
           NEW s, NEW f, NEW g, NEW t,
           Begin(o, v, s, f, g, t), UNCHANGED <<files, app, copy, answer>>,
           o \in {"edit", "delete"} => row[v] = "idle"
    PROVE  Calm'
<1>1. Frame'
  BY AgreesUnchanged DEF Calm, Frame, files, app
<1>2. QED
  BY <1>1 DEF Calm, Begin, Started, AsRead, Rows, InHand, AtRest, Pinned, WorkerOwnsRow,
              PinsMatch, Loadable, At, files, app

LEMMA RequestCalm ==
    ASSUME Calm, TypeInv', NEW v \in Vpn, Request(v) PROVE Calm'
<1>1. ASSUME NEW s, NEW g, Create(v, s, g) PROVE Calm'
  BY <1>1, BeginCalm DEF Create
<1>2. ASSUME NEW s, NEW f, NEW g, Edit(v, s, f, g) PROVE Calm'
  BY <1>2, BeginCalm DEF Edit
<1>3. CASE Delete(v)
  BY <1>3, BeginCalm DEF Delete
<1>4. CASE Refuse(v)
  <2>1. Frame'
    BY <1>4, AgreesUnchanged DEF Calm, Frame, Refuse, files, app
  <2>2. QED
    BY <1>4, <2>1 DEF Calm, Refuse, AsRead, Rows, InHand, AtRest, Pinned, WorkerOwnsRow,
                      PinsMatch, Loadable, At, files, app
<1>5. QED
  BY <1>1, <1>2, <1>3, <1>4 DEF Request

\* The lock holder never has a worker's VPN, but for that worker's pin.
LEMMA NotAWorkers ==
    ASSUME Calm, call # None, call.op # "pin", call.step # "read",
           NEW t \in Thread, worker[t] # None
    PROVE  worker[t].vpn # call.vpn
  BY DEF Calm, TypeInv, TypeOK, Call, AtRest, WorkerOwnsRow

LEMMA ReadFileCalm == ASSUME Calm, TypeInv', ReadFile PROVE Calm'
<1>1. call \in Call /\ call.step = "read" /\ copy' = yaml /\ UNCHANGED <<files, environ, mem, row>>
  BY DEF ReadFile, At, Calm, TypeInv, TypeOK
<1>2. Agrees(call.vpn) /\ \A v \in Vpn : Agrees(v)
  BY <1>1 DEF Calm, Frame, Call
<1>3. Frame'
  BY <1>1, <1>2, AgreesUnchanged DEF Frame, files
<1>4. CASE Rejection(yaml) = None
  <2>1. SameCall /\ call'.step = "write" /\ worker' = worker
    BY <1>4, Advance DEF Advances, ReadFile, Calm
  <2>2. call.op = "create" => row[call.vpn] = "absent"
    BY <1>1, <1>2, <1>4, NoneAssumption DEF Rejection, Agrees, Calm, Rows, Call
  <2>3. AsRead' /\ AtRest' /\ Pinned'
    <3>1. call'.step = "write" /\ call'.op = call.op /\ call'.vpn = call.vpn
      BY <2>1 DEF SameCall
    <3>2. AtRest
      BY DEF Calm
    <3>3. AtRest'
      BY <1>1, <2>2, <3>1, <3>2 DEF AtRest, ReadFile, At
    <3>4. AsRead' /\ Pinned'
      BY <1>1, <3>1 DEF AsRead, Pinned, At, files
    <3>5. QED
      BY <3>3, <3>4
  <2>4. QED
    BY <1>1, <1>3, <2>1, <2>3, StillCalm DEF Calm, files
<1>5. CASE Rejection(yaml) # None
  <2>1. call.op # "pin"
    <3>1. SUFFICES ASSUME call.op = "pin" PROVE FALSE
      OBVIOUS
    <3>2. mem[call.vpn] # None
      BY <3>1 DEF Calm, TypeInv, PinCall, InHand, ReadFile, At
    <3>3. QED
      BY <1>2, <1>5, <3>1, <3>2 DEF Rejection, Agrees
  <2>2. call' = None /\ worker' = worker
    BY <1>5, <2>1 DEF ReadFile, End
  <2>3. AsRead' /\ AtRest' /\ Pinned'
    BY <2>2 DEF AsRead, AtRest, Pinned, At
  <2>4. QED
    BY <1>1, <1>3, <2>2, <2>3, StillCalm DEF Calm, files
<1>6. QED
  BY <1>4, <1>5

\* What the changed entry is, operation by operation.
LEMMA WrittenEntry ==
    ASSUME Calm, At("write")
    PROVE  LET e == yaml[call.vpn]
               f == Changed(copy[call.vpn])
           IN  /\ f # None => f.server # None /\ f.pin \in {None, f.server}
               /\ call.op = "pin" => /\ f # None /\ mem[call.vpn] # None
                                     /\ f.server = worker[call.by].def.server
                                     /\ f.pin = worker[call.by].def.server
<1> DEFINE e == yaml[call.vpn]
           f == Changed(copy[call.vpn])
<1>1. call \in Call /\ copy = yaml /\ Rejection(copy) = None /\ Agrees(call.vpn)
      /\ call.step = "write" /\ e \in Entry \union {None}
  BY DEF Calm, TypeInv, TypeOK, Decided, AsRead, At, Frame, Call
<1>2. e # None => e.server # None /\ e.pin \in {None, e.server}
  BY <1>1 DEF Calm, Loadable, PinsMatch, Call
<1>3. CASE call.op = "create"
  BY <1>1, <1>3, NoneAssumption DEF Changed, Merged, Rejection
<1>4. CASE call.op = "edit"
  BY <1>1, <1>2, <1>4, NoneAssumption DEF Changed, Merged, Rejection
<1>5. CASE call.op = "delete"
  BY <1>5 DEF Changed
<1>6. CASE call.op = "pin"
  <2>1. e # None
    BY <1>1, <1>6, NoneAssumption DEF Rejection
  <2>2. worker[call.by].def # None /\ worker[call.by].vpn = call.vpn /\ call.by \in Thread
        /\ worker[call.by] # None
    BY <1>1, <1>6, NoneAssumption DEF Calm, TypeInv, PinCall, At
  <2>3. worker[call.by].def.server = mem[call.vpn].server
    BY <2>2 DEF Calm, InHand
  <2>4. f = [e EXCEPT !.pin = worker[call.by].def.server]
    BY <1>1, <1>6 DEF Changed
  <2>5. mem[call.vpn] # None /\ worker[call.by].def.server = e.server
    BY <1>1, <2>1, <2>3 DEF Agrees
  <2>6. f \in Entry /\ f.server = e.server /\ f.pin = e.server
    BY <1>1, <2>1, <2>4, <2>5 DEF Entry
  <2>7. QED
    BY <1>2, <2>1, <2>5, <2>6, NoneAssumption
<1>7. QED
  BY <1>1, <1>3, <1>4, <1>5, <1>6 DEF Call

LEMMA WriteFileCalm == ASSUME Calm, TypeInv', WriteFile PROVE Calm'
<1> DEFINE v == call.vpn
           f == Changed(copy[v])
<1>1. call # None /\ call.step = "write" /\ call \in Call /\ v \in Vpn /\ copy = yaml
      /\ UNCHANGED <<mem, row, worker, copy>>
  BY DEF WriteFile, At, Calm, TypeInv, TypeOK, Call, AsRead, app
<1>2. yaml' = [yaml EXCEPT ![v] = f] /\ yaml \in [Vpn -> Entry \union {None}]
  BY <1>1 DEF WriteFile, Calm, TypeInv, TypeOK
<1>3. /\ SameCall /\ call'.step \in {"memory", "lines", "reload", "text"}
      /\ call'.step = "memory" <=> call.op = "pin"
  BY Advance DEF Advances, Calm
<1>4. call' # None /\ call'.op = call.op /\ call'.vpn = v /\ call'.by = call.by
  BY <1>3 DEF SameCall
<1>5. /\ f # None => f.server # None /\ f.pin \in {None, f.server}
      /\ call.op = "pin" => /\ f # None /\ mem[v] # None
                            /\ f.server = worker[call.by].def.server
                            /\ f.pin = worker[call.by].def.server
  BY WrittenEntry DEF WriteFile
<1> HIDE DEF f, v
<1>6. \A u \in Vpn \ {v} : yaml'[u] = yaml[u]
  BY <1>1, <1>2
<1>7. yaml'[v] = f
  BY <1>1, <1>2
<1>8. Frame'
  <2> SUFFICES ASSUME NEW u \in Vpn, u # v PROVE Agrees(u)'
    BY <1>3, <1>4 DEF Frame
  <2>1. Agrees(u)
    BY <1>1 DEF Calm, Frame, v
  <2>2. QED
    BY <1>1, <1>6, <2>1 DEF Agrees
<1>9. Loadable(yaml)' /\ PinsMatch'
  BY <1>1, <1>5, <1>6, <1>7 DEF Calm, Loadable, PinsMatch
<1>10. AsRead' /\ AtRest' /\ Pinned'
  BY <1>1, <1>3, <1>4, <1>5, <1>7 DEF Calm, AsRead, AtRest, Pinned, At, v
<1>11. Rows' /\ InHand' /\ WorkerOwnsRow'
  BY <1>1 DEF Calm, Rows, InHand, WorkerOwnsRow
<1>12. QED
  BY <1>8, <1>9, <1>10, <1>11 DEF Calm

\* The steps on .env.
LEMMA EnvFileCalm ==
    ASSUME Calm, TypeInv', ReadLines \/ ReadText \/ WriteCredentials PROVE Calm'
<1>1. call # None /\ call.step \in {"lines", "text", "dotenv"}
      /\ UNCHANGED <<yaml, mem, row, worker, copy>>
  BY DEF ReadLines, ReadText, WriteCredentials, At, files, app
<1>2. call' # None /\ call'.step \in {"text", "dotenv", "reload"} /\ call'.op = call.op
      /\ call'.vpn = call.vpn
  BY Advance DEF Advances, SameCall, Calm
<1>3. Frame'
  <2> SUFFICES ASSUME NEW v \in Vpn, v # call.vpn PROVE Agrees(v)'
    BY <1>2 DEF Frame
  <2>1. Agrees(v)
    BY DEF Calm, Frame
  <2>2. QED
    BY <1>1, <2>1, AgreesUnchanged
<1>4. AsRead' /\ Pinned' /\ AtRest'
  BY <1>1, <1>2 DEF Calm, AsRead, Pinned, AtRest, At
<1>5. QED
  BY <1>1, <1>3, <1>4, StillCalm DEF Calm

LEMMA ReloadCalm == ASSUME Calm, TypeInv', Reload PROVE Calm'
<1>1. call # None /\ call.step = "reload" /\ call.op # "pin" /\ call \in Call
      /\ UNCHANGED <<yaml, worker>> /\ call' = None
  BY DEF Reload, At, Calm, TypeInv, TypeOK, PinCall, files
<1>2. mem' = Parse(yaml, environ) /\ yaml \in [Vpn -> Entry \union {None}] /\ Loadable(yaml)
  BY DEF Reload, Calm, TypeInv, TypeOK
<1>3. \A v \in Vpn : Agrees(v)'
  BY <1>1, <1>2, ParseFields DEF Agrees
<1>4. \A v \in Vpn : row'[v] = IF yaml[v] = None THEN "absent"
                               ELSE IF row[v] = "absent" THEN "idle" ELSE row[v]
  BY DEF Reload, Reloaded
<1>5. Rows'
  BY <1>1, <1>3, <1>4 DEF Rows, Agrees
<1>6. ASSUME NEW t \in Thread, worker[t] # None
      PROVE  /\ worker[t].vpn \in Vpn /\ Agrees(worker[t].vpn)
             /\ mem[worker[t].vpn] # None /\ row[worker[t].vpn] = "busy"
  <2>1. worker[t].vpn # call.vpn /\ worker[t].vpn \in Vpn
    BY <1>1, <1>6, NotAWorkers DEF Calm, TypeInv, TypeOK, Job
  <2>2. QED
    BY <1>6, <2>1 DEF Calm, Frame, InHand, WorkerOwnsRow
<1>7. WorkerOwnsRow'
  BY <1>1, <1>4, <1>6 DEF Calm, WorkerOwnsRow, Agrees
<1>8. InHand'
  BY <1>1, <1>3, <1>6 DEF Calm, InHand, Agrees
<1>9. PinsMatch'
  BY <1>1, <1>3 DEF Calm, PinsMatch, Agrees
<1>10. Frame' /\ AsRead' /\ AtRest' /\ Pinned' /\ Loadable(yaml)'
  BY <1>1, <1>2, <1>3 DEF Frame, AsRead, AtRest, Pinned, At
<1>11. QED
  BY <1>5, <1>7, <1>8, <1>9, <1>10 DEF Calm

LEMMA PinInMemoryCalm == ASSUME Calm, TypeInv', PinInMemory PROVE Calm'
<1> DEFINE v == call.vpn
           w == worker[call.by].def
           d == [w EXCEPT !.pin = w.server]
<1>1. call # None /\ call.step = "memory" /\ call.op = "pin" /\ call.by \in Thread /\ v \in Vpn
      /\ worker[call.by] \in Job /\ w \in Def /\ worker[call.by].vpn = v
  BY DEF PinInMemory, At, Calm, TypeInv, TypeOK, PinCall, Plain, Job, Call
<1>2. mem[v] # None /\ yaml[v] # None /\ yaml[v].server = w.server /\ yaml[v].pin = w.server
  BY DEF PinInMemory, Calm, Pinned
<1>3. d \in Def /\ d.server = w.server /\ d.pin = w.server
  BY <1>1 DEF Def
<1>4. UNCHANGED <<yaml, row, copy>> /\ call' = None
  BY DEF PinInMemory, files
<1>5. \A u \in Vpn : mem'[u] = IF u = v THEN d ELSE mem[u]
  BY <1>1, <1>2 DEF PinInMemory, Calm, TypeInv, TypeOK
<1>6. \A t \in Thread : worker'[t] = IF t = call.by THEN [worker[t] EXCEPT !.def = d] ELSE worker[t]
  BY <1>1 DEF PinInMemory, Calm, TypeInv, TypeOK
<1> HIDE DEF d
<1>7. worker'[call.by].vpn = v /\ worker'[call.by].def = d /\ worker[call.by] # None
      /\ worker'[call.by] # None /\ d # None
  <2>1. worker'[call.by] \in Job /\ worker'[call.by].vpn = v /\ worker'[call.by].def = d
    BY <1>1, <1>3, <1>6 DEF Job
  <2>2. QED
    BY <1>1, <1>3, <2>1, NoneAssumption
<1>8. \A t \in Thread \ {call.by} : worker'[t] # None => worker[t].vpn # v /\ worker[t].vpn \in Vpn
  BY <1>1, <1>6, <1>7 DEF Calm, WorkerOwnsRow, TypeInv, TypeOK, Job
<1>9. \A u \in Vpn : Agrees(u)'
  BY <1>1, <1>2, <1>3, <1>4, <1>5, <1>7 DEF Calm, Frame, Agrees
<1>10. Rows'
  BY <1>2, <1>4, <1>5, <1>7 DEF Calm, Rows
<1>11. InHand'
  <2> SUFFICES ASSUME NEW t \in Thread, worker'[t] # None
               PROVE  /\ mem'[worker'[t].vpn] # None
                      /\ worker'[t].def # None =>
                            /\ worker'[t].def.server = mem'[worker'[t].vpn].server
                            /\ worker'[t].def.pin = mem'[worker'[t].vpn].pin
    BY DEF InHand
  <2>1. CASE t = call.by
    BY <1>1, <1>5, <1>7, <2>1
  <2>2. CASE t # call.by
    <3>1. worker'[t] = worker[t] /\ mem'[worker[t].vpn] = mem[worker[t].vpn]
      BY <1>5, <1>6, <1>8, <2>2
    <3>2. QED
      BY <3>1 DEF Calm, InHand
  <2>3. QED
    BY <2>1, <2>2
<1>12. WorkerOwnsRow'
  <2>1. \A t \in Thread : /\ worker'[t] # None <=> worker[t] # None
                          /\ worker[t] # None => worker'[t].vpn = worker[t].vpn
    BY <1>1, <1>6, <1>7
  <2>2. QED
    BY <1>4, <2>1 DEF Calm, WorkerOwnsRow
<1>13. PinsMatch'
  BY <1>3, <1>4, <1>5, <1>6, <1>7 DEF Calm, PinsMatch
<1>14. Frame' /\ AsRead' /\ AtRest' /\ Pinned' /\ Loadable(yaml)'
  BY <1>4, <1>9 DEF Calm, Frame, AsRead, AtRest, Pinned, At, Loadable
<1>15. QED
  BY <1>10, <1>11, <1>12, <1>13, <1>14 DEF Calm

LEMMA WorkCalm == ASSUME Calm, TypeInv', NEW t \in Thread, Work(t) PROVE Calm'
<1>1. ASSUME NEW v \in Vpn, StartWorker(t, v) PROVE Calm'
  <2>1. UNCHANGED <<yaml, mem, copy, call>> /\ call = None /\ mem[v] # None /\ row[v] = "idle"
    BY <1>1 DEF StartWorker, files
  <2>2. \A u \in Vpn : row'[u] = IF u = v THEN "busy" ELSE row[u]
    BY <1>1 DEF StartWorker, Calm, TypeInv, TypeOK
  <2>3. \A u \in Thread : worker'[u] = IF u = t THEN [vpn |-> v, def |-> mem[v]] ELSE worker[u]
    BY <1>1 DEF StartWorker, Calm, TypeInv, TypeOK
  <2>4. \A u \in Thread : worker[u] # None => worker[u].vpn \in Vpn /\ worker[u].vpn # v
    BY <2>1 DEF Calm, WorkerOwnsRow, TypeInv, TypeOK, Job
  <2>5. Rows' /\ WorkerOwnsRow'
    BY <2>1, <2>2, <2>3, <2>4 DEF Calm, Rows, WorkerOwnsRow
  <2>6. InHand' /\ PinsMatch'
    BY <2>1, <2>3, <2>4 DEF Calm, InHand, PinsMatch
  <2>7. Frame' /\ AsRead' /\ AtRest' /\ Pinned' /\ Loadable(yaml)'
    BY <2>1, AgreesUnchanged DEF Calm, Frame, AsRead, AtRest, Pinned, At, Loadable
  <2>8. QED
    BY <2>5, <2>6, <2>7 DEF Calm
<1>2. CASE StorePin(t)
  <2>1. /\ call = None /\ UNCHANGED <<files, app, copy, answer>> /\ worker[t] # None
        /\ Begin("pin", worker[t].vpn, None, TRUE, {}, t)
    BY <1>2 DEF StorePin, Unpinned
  <2>2. worker[t].vpn \in Vpn
    BY <2>1 DEF Calm, TypeInv, TypeOK, Job
  <2>3. QED
    BY <2>1, <2>2, BeginCalm
<1>3. CASE WorkerEnds(t)
  <2> DEFINE v == worker[t].vpn
  <2>1. UNCHANGED <<yaml, mem, copy, call>> /\ call = None /\ worker[t] # None
    BY <1>3 DEF WorkerEnds, files
  <2>2. v \in Vpn /\ mem[v] # None
    BY <2>1 DEF Calm, TypeInv, TypeOK, Job, InHand
  <2>3. PICK s \in {"idle", "up"} : \A u \in Vpn : row'[u] = IF u = v THEN s ELSE row[u]
    BY <1>3, <2>2 DEF WorkerEnds, Calm, TypeInv, TypeOK
  <2>4. \A u \in Thread : worker'[u] = IF u = t THEN None ELSE worker[u]
    BY <1>3 DEF WorkerEnds, Calm, TypeInv, TypeOK
  <2>5. \A u \in Thread \ {t} : worker[u] # None => worker[u].vpn \in Vpn /\ worker[u].vpn # v
    BY <2>1 DEF Calm, WorkerOwnsRow, TypeInv, TypeOK, Job
  <2>6. Rows' /\ WorkerOwnsRow'
    BY <2>1, <2>2, <2>3, <2>4, <2>5 DEF Calm, Rows, WorkerOwnsRow
  <2>7. InHand' /\ PinsMatch'
    BY <2>1, <2>4 DEF Calm, InHand, PinsMatch
  <2>8. Frame' /\ AsRead' /\ AtRest' /\ Pinned' /\ Loadable(yaml)'
    BY <2>1, AgreesUnchanged DEF Calm, Frame, AsRead, AtRest, Pinned, At, Loadable
  <2>9. QED
    BY <2>6, <2>7, <2>8 DEF Calm
<1>4. QED
  BY <1>1, <1>2, <1>3 DEF Work

LEMMA GoesDownCalm == ASSUME Calm, TypeInv', NEW v \in Vpn, GoesDown(v) PROVE Calm'
<1>1. UNCHANGED <<yaml, mem, worker, copy, call>> /\ call = None /\ row[v] = "up"
  BY DEF GoesDown, files
<1>2. \A u \in Vpn : row'[u] = IF u = v THEN "idle" ELSE row[u]
  BY DEF GoesDown, Calm, TypeInv, TypeOK
<1>3. \A t \in Thread : worker[t] # None => worker[t].vpn \in Vpn
  BY DEF Calm, TypeInv, TypeOK, Job
<1>4. Rows' /\ WorkerOwnsRow'
  BY <1>1, <1>2, <1>3 DEF Calm, Rows, WorkerOwnsRow
<1>5. InHand' /\ PinsMatch'
  BY <1>1 DEF Calm, InHand, PinsMatch
<1>6. Frame' /\ AsRead' /\ AtRest' /\ Pinned' /\ Loadable(yaml)'
  BY <1>1, AgreesUnchanged DEF Calm, Frame, AsRead, AtRest, Pinned, At, Loadable
<1>7. QED
  BY <1>4, <1>5, <1>6 DEF Calm

LEMMA CrashCalm == ASSUME Calm, TypeInv', Crash PROVE Calm'
<1>1. mem' = Parse(yaml, dotenv) /\ yaml \in [Vpn -> Entry \union {None}] /\ Loadable(yaml)
      /\ yaml' = yaml /\ call' = None /\ \A t \in Thread : worker'[t] = None
  BY DEF Crash, Calm, TypeInv, TypeOK, files
<1>2. \A v \in Vpn : Agrees(v)'
  BY <1>1, ParseFields DEF Agrees
<1>3. Rows'
  BY <1>1, <1>2 DEF Crash, Rows, Agrees
<1>4. PinsMatch'
  BY <1>1, <1>2 DEF Calm, PinsMatch, Agrees
<1>5. InHand' /\ WorkerOwnsRow'
  BY <1>1 DEF InHand, WorkerOwnsRow
<1>6. Frame' /\ AsRead' /\ AtRest' /\ Pinned' /\ Loadable(yaml)'
  BY <1>1, <1>2 DEF Frame, AsRead, AtRest, Pinned, At
<1>7. QED
  BY <1>3, <1>4, <1>5, <1>6 DEF Calm

LEMMA NextCalm == ASSUME Peace, Calm, [Next]_vars PROVE Calm'
<1>1. TypeInv'
  BY NextTypes DEF Calm
<1>2. ASSUME NEW v \in Vpn, HandEdits(v) PROVE FALSE
  BY <1>2 DEF HandEdits, Peace
<1>6. ASSUME NEW n \in Name, HandEditsLine(n) PROVE FALSE
  BY <1>6 DEF HandEditsLine, Peace
<1>3. CASE Mutate
  <2>1. ~ReloadFails /\ ~WriteFails
    BY DEF ReloadFails, WriteFails, Calm, Peace
  <2>2. QED
    BY <1>1, <1>3, <2>1, ReadFileCalm, WriteFileCalm, EnvFileCalm, ReloadCalm,
       PinInMemoryCalm DEF Mutate
<1>4. CASE UNCHANGED vars
  <2>1. UNCHANGED <<yaml, mem, row, worker, call, copy>>
    BY <1>4 DEF vars, files, app
  <2>2. Frame' /\ AsRead' /\ AtRest' /\ Pinned'
    BY <2>1, AgreesUnchanged DEF Calm, Frame, AsRead, AtRest, Pinned, At
  <2>3. QED
    BY <1>1, <2>1, <2>2, StillCalm DEF Calm
<1>5. QED
  BY <1>1, <1>2, <1>3, <1>4, <1>6, RequestCalm, WorkCalm, GoesDownCalm, CrashCalm DEF Next

\* A pin is only used against the server it was probed from, when nobody edits
\* the files by hand while the app runs and no write fails (tunnel.py:282-284,
\* 450-465; registry.py:208-217, 236-253): at every crash and every interleaving.
THEOREM PinsHold == ASSUME Peace PROVE Spec => []PinsMatch
<1>1. Calm /\ [Next]_vars => Calm'
  BY NextCalm
<1>2. Calm => PinsMatch
  BY DEF Calm
<1>3. QED
  BY <1>1, <1>2, InitCalm, PTL DEF Spec

\* Under the same conditions nobody edits, deletes or connects a VPN while a
\* connect worker has it (tunnel.py:194-213, 253-264, 318-326).
THEOREM RowsAreOwned == ASSUME Peace PROVE Spec => []WorkerOwnsRow
<1>1. Calm /\ [Next]_vars => Calm'
  BY NextCalm
<1>2. Calm => WorkerOwnsRow
  BY DEF Calm
<1>3. QED
  BY <1>1, <1>2, InitCalm, PTL DEF Spec

LEMMA WritesOne ==
    ASSUME Peace, Calm, [Next]_vars, NEW v \in Vpn, yaml'[v] # yaml[v]
    PROVE  call # None /\ call.vpn = v
<1>1. ASSUME NEW u \in Vpn, HandEdits(u) PROVE FALSE
  BY <1>1 DEF HandEdits, Peace
<1>2. CASE WriteFile
  <2>1. copy = yaml /\ call # None /\ yaml' = [copy EXCEPT ![call.vpn] = Changed(@)]
    BY <1>2 DEF WriteFile, At, Calm, AsRead
  <2>2. QED
    BY <2>1 DEF Calm, TypeInv, TypeOK
<1>3. CASE UNCHANGED yaml
  BY <1>3
<1>4. WriteFile \/ UNCHANGED yaml
  BY <1>1 DEF Next, Request, Create, Edit, Delete, Refuse, GoesDown, Mutate, ReadFile,
     HandEditsLine, ReadLines, ReadText, WriteCredentials, Reload, ReloadFails, WriteFails,
     PinInMemory, Work, StartWorker, StorePin, WorkerEnds, Crash, vars, files
<1>5. QED
  BY <1>2, <1>3, <1>4

\* Two mutations never undo each other: what is written back is what the file
\* held, but for one entry (registry.py:196-261 under the lock of tunnel.py).
THEOREM OneEntryAtATime == ASSUME Peace PROVE Spec => OthersUntouched
<1>1. Calm /\ [Next]_vars => Calm'
  BY NextCalm
<1>2. Calm /\ [Next]_vars =>
          [\A v \in Vpn : yaml'[v] # yaml[v] => call # None /\ call.vpn = v]_vars
  BY WritesOne
<1>3. QED
  BY <1>1, <1>2, InitCalm, PTL DEF Spec, OthersUntouched

LEMMA RefusedWithoutWrite ==
    ASSUME Peace, Calm, [Next]_vars, call # None, call' = None, call.op # "pin",
           answer' \in {400, 409}
    PROVE  ~call.wrote /\ UNCHANGED files
<1>1. ReadFile \/ ReloadFails \/ WriteFails \/ Reload \/ Crash \/ PinInMemory
  <2>1. ASSUME NEW v \in Vpn, HandEdits(v) PROVE FALSE
    BY <2>1 DEF HandEdits, Peace
  <2>2. ~WriteFile /\ ~ReadLines /\ ~ReadText /\ ~WriteCredentials
    BY Advance DEF Advances, SameCall, Calm
  <2>3. \A n \in Name : ~HandEditsLine(n)
    BY DEF HandEditsLine
  <2>4. \A v \in Vpn : ~Request(v) /\ ~GoesDown(v)
    BY DEF Request, Create, Edit, Delete, Refuse, GoesDown
  <2>5. \A t \in Thread : ~Work(t)
    BY DEF Work, StartWorker, StorePin, WorkerEnds
  <2>6. QED
    BY <2>1, <2>2, <2>3, <2>4, <2>5 DEF Next, Mutate, vars
<1>2. ~ReloadFails /\ ~WriteFails
  BY DEF ReloadFails, WriteFails, Calm, Peace
<1>3. ~Reload /\ ~Crash
  BY NoneAssumption DEF Reload, Crash
<1>4. CASE ReadFile
  BY <1>4 DEF ReadFile, files, At, Calm, TypeInv, Plain
<1>5. CASE PinInMemory
  BY <1>5 DEF PinInMemory, At, Calm, TypeInv, Plain
<1>6. QED
  BY <1>1, <1>2, <1>3, <1>4, <1>5

\* A request that is answered 400 or 409 has written nothing, whether it is refused
\* for its fields, its id or its entry: parse_vpn sees the changed entry before the
\* file is replaced, and then the reload takes the file (registry.py:220-261).
THEOREM RefusalChangesNothing == ASSUME Peace PROVE Spec => RejectedChangesNothing
<1>1. Calm /\ [Next]_vars => Calm'
  BY NextCalm
<1>2. Calm /\ [Next]_vars =>
          [call # None /\ call' = None /\ call.op # "pin" /\ answer' \in {400, 409}
             => ~call.wrote /\ UNCHANGED files]_vars
  BY RefusedWithoutWrite
<1>3. QED
  BY <1>1, <1>2, InitCalm, PTL DEF Spec, RejectedChangesNothing

-----------------------------------------------------------------------------
(* Credentials: whose lines a mutation changes.                            *)

\* Ids differ in more than '-' and '_': no two of them share a variable.
DistinctNames == \A v, w \in Vpn : v # w => NamesOf[v] \intersect NamesOf[w] = {}

\* A request supplies variables of its own VPN.
OwnNames == call # None => call.given \subseteq NamesOf[call.vpn]

\* What the memory and the workers say of the credentials is true, but for the
\* VPN whose lines have just been written.
CredsTrue ==
    /\ \A v \in Vpn :
          mem[v] # None /\ ~(call # None /\ call.vpn = v /\ call.step = "reload")
             => mem[v].creds = Has(dotenv, v)
    /\ \A t \in Thread : worker[t] # None /\ worker[t].def # None
             => worker[t].def.creds = Has(dotenv, worker[t].vpn)

\* The environment of the process is what .env says, and so is what a mutation
\* has read of it; the definitions agree with both.
Mirrored == environ = dotenv /\ (At("dotenv") => call.text = dotenv)

Synced == Mirrored /\ OwnNames /\ CredsTrue

LEMMA InitSynced == Init => Synced
<1> SUFFICES ASSUME Init PROVE Synced
  OBVIOUS
<1>1. \A v \in Vpn : mem[v] # None => mem[v].creds = Has(dotenv, v)
  BY DEF Init, Parse
<1>2. QED
  BY <1>1 DEF Init, Synced, Mirrored, At, OwnNames, CredsTrue

\* A mutation changes the lines of its own VPN only.
LEMMA OwnLines ==
    ASSUME TypeInv, OwnNames, At("dotenv")
    PROVE  /\ call.op \in {"create", "edit", "delete"}
           /\ DOMAIN Credentials \subseteq NamesOf[call.vpn]
           /\ \A n \in DOMAIN Credentials : Credentials[n] # "set" =>
                 \/ call.op = "delete"
                 \/ call.op = "create" /\ call.seen[n] = "missing"
<1>1. call \in Call /\ call.op \in {"create", "edit", "delete"}
      /\ call.given \subseteq NamesOf[call.vpn]
      /\ Missing(call.seen) = {n \in NamesOf[call.vpn] : call.seen[n] = "missing"}
  BY DEF TypeInv, TypeOK, PinCall, At, Call, OwnNames, Missing
<1>2. CASE call.op = "create"
  BY <1>1, <1>2 DEF Credentials
<1>3. CASE call.op = "edit"
  BY <1>1, <1>3 DEF Credentials
<1>4. CASE call.op = "delete"
  BY <1>1, <1>4 DEF Credentials
<1>5. QED
  BY <1>1, <1>2, <1>3, <1>4

\* ... so what another VPN has is not touched.
LEMMA OthersKeep ==
    ASSUME DistinctNames, TypeInv, OwnNames, At("dotenv"), NEW v \in Vpn, v # call.vpn,
           NEW e
    PROVE  Has(Over(Credentials, e), v) = Has(e, v)
<1>1. call.vpn \in Vpn /\ NamesOf[v] \subseteq Name
  BY NamesAssumption DEF TypeInv, TypeOK, At, Call
<1>2. \A n \in NamesOf[v] : n \notin DOMAIN Credentials
  BY <1>1, OwnLines DEF DistinctNames
<1>3. \A n \in NamesOf[v] : Over(Credentials, e)[n] = e[n]
  BY <1>1, <1>2 DEF Over
<1>4. QED
  BY <1>3 DEF Has

LEMMA OwnNamesStep == TypeInv /\ OwnNames /\ [Next]_vars => OwnNames'
<1> SUFFICES ASSUME TypeInv, OwnNames, [Next]_vars PROVE OwnNames'
  OBVIOUS
<1>1. ASSUME NEW o, NEW v \in Vpn, NEW s, NEW f, NEW g \in SUBSET NamesOf[v], NEW t,
             Begin(o, v, s, f, g, t)
      PROVE  OwnNames'
  BY <1>1 DEF Begin, Started, OwnNames
<1>2. CASE Advances
  <2>1. call # None
    BY <1>2 DEF Advances, ReadFile, WriteFile, ReadLines, ReadText, WriteCredentials, At
  <2>2. QED
    BY <1>2, <2>1, Advance DEF SameCall, OwnNames
<1>3. CASE call' = None \/ call' = call
  BY <1>3 DEF OwnNames
<1>4. ASSUME NEW v \in Vpn, Request(v) PROVE OwnNames'
  BY <1>1, <1>3, <1>4 DEF Request, Create, Edit, Delete, Refuse
<1>5. CASE Mutate
  <2>1. CASE ReadFile /\ Rejection(yaml) # None
    BY <1>3, <2>1 DEF ReadFile, End
  <2>2. QED
    BY <1>2, <1>3, <1>5, <2>1 DEF Advances, Mutate, Reload, ReloadFails, WriteFails, PinInMemory,
       End
<1>6. ASSUME NEW t \in Thread, Work(t) PROVE OwnNames'
  <2>1. CASE StorePin(t)
    <3>1. worker[t].vpn \in Vpn
      BY <2>1 DEF StorePin, Unpinned, TypeInv, TypeOK, Job
    <3>2. QED
      BY <1>1, <2>1, <3>1 DEF StorePin
  <2>2. QED
    BY <1>3, <1>6, <2>1 DEF Work, StartWorker, WorkerEnds
<1>7. QED
  BY <1>3, <1>4, <1>5, <1>6 DEF Next, GoesDown, HandEdits, HandEditsLine, Crash, vars

LEMMA CredentialsLost ==
    ASSUME DistinctNames, TypeInv, OwnNames, [Next]_vars, NEW v \in Vpn,
           Has(dotenv, v), ~Has(dotenv, v)', call' # call
    PROVE  (call.op = "delete" /\ call.vpn = v) \/ SavedMeanwhile(v)
<1>1. PICK n \in NamesOf[v] : dotenv[n] = "set" /\ dotenv'[n] # "set"
  BY DEF Has
<1>2. At("dotenv") /\ dotenv' = Over(Credentials, call.text)
  <2>1. WriteCredentials \/ (\E m \in Name : HandEditsLine(m)) \/ UNCHANGED dotenv
    BY DEF Next, Request, Create, Edit, Delete, Refuse, GoesDown, HandEdits, Mutate, ReadFile,
       WriteFile, ReadLines, ReadText, Reload, ReloadFails, WriteFails, PinInMemory, Work,
       StartWorker, StorePin, WorkerEnds, Crash, vars, files
  <2>2. QED
    BY <1>1, <2>1 DEF WriteCredentials, HandEditsLine
<1>3. n \in Name /\ call.vpn \in Vpn
  BY <1>2, NamesAssumption DEF At, TypeInv, TypeOK, Call
<1>4. CASE n \notin DOMAIN Credentials
  BY <1>1, <1>2, <1>3, <1>4 DEF Over, SavedMeanwhile, Has
<1>5. CASE n \in DOMAIN Credentials
  <2>1. Credentials[n] # "set"
    BY <1>1, <1>2, <1>3, <1>5 DEF Over
  <2>2. call.vpn = v
    BY <1>2, <1>3, <1>5, OwnLines DEF DistinctNames
  <2>3. call.op = "delete" \/ (call.op = "create" /\ call.seen[n] = "missing")
    BY <1>2, <1>5, <2>1, OwnLines
  <2>4. call.text[n] = "set" \/ ~Has(call.text, v)
    BY DEF Has
  <2>5. QED
    BY <2>2, <2>3, <2>4 DEF SavedMeanwhile
<1>6. QED
  BY <1>4, <1>5

\* Whatever write fails and whatever a person does to the two files, the app loses
\* the credentials of a VPN only by deleting that VPN, as long as no two ids share a
\* variable and what is lost was not saved while .env was being rewritten
\* (credentials.py:34-101, 147-154: the lines of a VPN are found by its names).
THEOREM CredentialsSafe == ASSUME DistinctNames PROVE Spec => CredentialsKept
<1>1. TypeInv /\ OwnNames /\ [Next]_vars =>
          [\A v \in Vpn : Has(dotenv, v) /\ ~Has(dotenv, v)' /\ call' # call
              => (call.op = "delete" /\ call.vpn = v) \/ SavedMeanwhile(v)]_vars
  BY CredentialsLost
<1>2. Init => OwnNames
  BY DEF Init, OwnNames
<1>3. QED
  BY <1>1, <1>2, InitTypes, NextTypes, OwnNamesStep, PTL DEF Spec, CredentialsKept

-----------------------------------------------------------------------------
(* Memory and files: what is read back is what was there.                  *)

LEMMA MirroredStep ==
    ASSUME Peace, TypeInv, Mirrored, [Next]_vars PROVE Mirrored'
<1>1. \A n \in Name : ~HandEditsLine(n)
  BY DEF HandEditsLine, Peace
<1>2. CASE WriteCredentials
  <2>1. environ' = dotenv'
    BY <1>2 DEF WriteCredentials, Mirrored
  <2>2. call'.step = "reload"
    BY <1>2, Advance DEF Advances
  <2>3. QED
    BY <2>1, <2>2 DEF Mirrored, At
<1>3. CASE Crash
  BY <1>3 DEF Crash, files, Mirrored, At
<1>4. CASE ReadFile \/ WriteFile \/ ReadLines \/ ReadText
  <2>1. UNCHANGED <<dotenv, environ>>
    BY <1>4 DEF ReadFile, WriteFile, ReadLines, ReadText, files, app
  <2>2. call' = None \/ call'.step # "dotenv" \/ call'.text = dotenv
    <3>1. CASE ReadFile /\ Rejection(yaml) # None
      BY <3>1 DEF ReadFile, End
    <3>2. QED
      BY <1>4, <3>1, Advance DEF Advances
  <2>3. QED
    BY <2>1, <2>2 DEF Mirrored, At
<1>5. ASSUME UNCHANGED <<dotenv, environ>>,
             call' = None \/ call' = call \/ call'.step = "read"
      PROVE  Mirrored'
  BY <1>5 DEF Mirrored, At
<1>6. WriteCredentials \/ Crash \/ ReadFile \/ WriteFile \/ ReadLines \/ ReadText \/
          (UNCHANGED <<dotenv, environ>> /\ (call' = None \/ call' = call \/ call'.step = "read"))
  BY <1>1 DEF Next, Request, Create, Edit, Delete, Refuse, GoesDown, HandEdits, Mutate, Reload,
     ReloadFails, WriteFails, PinInMemory, End, Work, StartWorker, StorePin, WorkerEnds, Begin,
     Started, vars, files, app
<1>7. QED
  BY <1>2, <1>3, <1>4, <1>5, <1>6

\* Neither the lines nor what memory and workers say of them change.
LEMMA CredsStay ==
    ASSUME CredsTrue, UNCHANGED <<dotenv, mem>>,
           \A t \in Thread : worker'[t] # None /\ worker'[t].def # None =>
               \/ worker[t] # None /\ worker'[t] = worker[t]
               \/ worker'[t].def.creds = Has(dotenv, worker'[t].vpn),
           \A v \in Vpn : call # None /\ call.vpn = v /\ call.step = "reload" =>
               call' = call \/ mem[v] = None \/ mem[v].creds = Has(dotenv, v)
    PROVE  CredsTrue'
BY DEF CredsTrue, Has

LEMMA CredsStep ==
    ASSUME Peace, DistinctNames, Calm, Synced, [Next]_vars PROVE CredsTrue'
<1> USE DEF Synced, Mirrored
<1>1. ASSUME UNCHANGED <<dotenv, mem, worker>>, call = None \/ call.step # "reload" \/ call' = call
      PROVE  CredsTrue'
  BY <1>1, CredsStay
<1>2. ASSUME NEW v \in Vpn, Request(v) \/ GoesDown(v) PROVE CredsTrue'
  BY <1>1, <1>2 DEF Request, Create, Edit, Delete, Refuse, GoesDown, files, app
<1>3. ASSUME NEW v \in Vpn, HandEdits(v) PROVE FALSE
  BY <1>3 DEF HandEdits, Peace
<1>14. ASSUME NEW n \in Name, HandEditsLine(n) PROVE FALSE
  BY <1>14 DEF HandEditsLine, Peace
<1>4. CASE ReadFile
  <2>1. UNCHANGED <<dotenv, mem>> /\ call # None /\ call.step = "read"
    BY <1>4 DEF ReadFile, At, files
  <2>2. \/ worker' = worker
        \/ /\ call.by \in Thread /\ worker[call.by] \in Job
           /\ worker' = [worker EXCEPT ![call.by].def = None]
    BY <1>4, <2>1 DEF ReadFile, End, Calm, TypeInv, TypeOK, PinCall
  <2>3. \A t \in Thread : worker'[t] = worker[t] \/ worker'[t].def = None
    BY <2>2 DEF Calm, TypeInv, TypeOK, Job
  <2>4. QED
    BY <2>1, <2>3, CredsStay
<1>5. CASE WriteFile \/ ReadLines \/ ReadText
  BY <1>1, <1>5 DEF WriteFile, ReadLines, ReadText, At, files, app
<1>6. CASE WriteCredentials
  <2>1. At("dotenv") /\ dotenv' = Over(Credentials, dotenv) /\ UNCHANGED <<mem, worker>>
        /\ call \in Call /\ call.op # "pin"
    BY <1>6 DEF WriteCredentials, At, Calm, TypeInv, TypeOK, PinCall
  <2>2. call'.vpn = call.vpn /\ call'.step = "reload" /\ call' # None
    BY <1>6, Advance DEF Advances, SameCall, Calm
  <2>3. \A v \in Vpn : v # call.vpn => Has(dotenv', v) = Has(dotenv, v)
    BY <2>1, OthersKeep DEF Calm
  <2>4. \A t \in Thread : worker[t] # None => worker[t].vpn \in Vpn /\ worker[t].vpn # call.vpn
    BY <2>1, NotAWorkers DEF At, Calm, TypeInv, TypeOK, Job
  <2>5. QED
    BY <2>1, <2>2, <2>3, <2>4 DEF CredsTrue, At, Has
<1>7. CASE Reload
  <2>1. mem' = Parse(yaml, dotenv) /\ yaml \in [Vpn -> Entry \union {None}] /\ Loadable(yaml)
        /\ UNCHANGED <<dotenv, worker>>
    BY <1>7 DEF Reload, Calm, TypeInv, TypeOK, files
  <2>2. \A v \in Vpn : mem'[v] # None => mem'[v].creds = Has(dotenv, v)
    BY <2>1, ParseFields
  <2>3. QED
    BY <2>1, <2>2 DEF CredsTrue, Has
<1>8. CASE PinInMemory
  <2> DEFINE v == call.vpn
             w == worker[call.by].def
             d == [w EXCEPT !.pin = w.server]
  <2>1. call # None /\ call.op = "pin" /\ call.step = "memory" /\ call.by \in Thread /\ v \in Vpn
        /\ worker[call.by] \in Job /\ worker[call.by] # None
        /\ w \in Def /\ w # None /\ worker[call.by].vpn = v
    BY <1>8 DEF PinInMemory, At, Calm, TypeInv, TypeOK, PinCall, Plain, Job, Call
  <2>2. d \in Def /\ d.creds = w.creds
    BY <2>1 DEF Def
  <2>3. d.creds = Has(dotenv, v)
    BY <2>1, <2>2 DEF CredsTrue
  <2>4. UNCHANGED dotenv /\ call' = None
        /\ \A u \in Vpn : mem'[u] = IF u = v THEN (IF mem[u] = None THEN None ELSE d) ELSE mem[u]
    BY <1>8, <2>1 DEF PinInMemory, Calm, TypeInv, TypeOK, files
  <2>5. \A t \in Thread :
           worker'[t] = IF t = call.by THEN [worker[t] EXCEPT !.def = d] ELSE worker[t]
    BY <1>8, <2>1 DEF PinInMemory, Calm, TypeInv, TypeOK
  <2> HIDE DEF d
  <2>6. worker'[call.by].vpn = v /\ worker'[call.by].def = d
    BY <2>1, <2>5 DEF Job
  <2> HIDE DEF v, w
  <2>7. \A u \in Vpn : mem'[u] # None => mem'[u].creds = Has(dotenv, u)
    BY <2>1, <2>3, <2>4 DEF CredsTrue
  <2>8. QED
    <3>1. \A t \in Thread : worker'[t] # None /\ worker'[t].def # None =>
             worker'[t].def.creds = Has(dotenv, worker'[t].vpn)
      BY <2>3, <2>5, <2>6 DEF CredsTrue
    <3>2. QED
      BY <2>4, <2>7, <3>1 DEF CredsTrue, Has
<1>9. CASE Crash
  <2>1. mem' = Parse(yaml, dotenv) /\ yaml \in [Vpn -> Entry \union {None}] /\ Loadable(yaml)
        /\ UNCHANGED dotenv /\ \A t \in Thread : worker'[t] = None
    BY <1>9 DEF Crash, Calm, TypeInv, TypeOK, files
  <2>2. \A v \in Vpn : mem'[v] # None => mem'[v].creds = Has(dotenv, v)
    BY <2>1, ParseFields
  <2>3. QED
    BY <2>1, <2>2 DEF CredsTrue, Has
<1>10. ASSUME NEW t \in Thread, Work(t) PROVE CredsTrue'
  <2>1. ASSUME NEW v \in Vpn, StartWorker(t, v) PROVE CredsTrue'
    <3>1. UNCHANGED <<dotenv, mem>> /\ call = None /\ call' = None /\ mem[v] # None
      BY <2>1 DEF StartWorker, files
    <3>2. \A u \in Thread : worker'[u] = IF u = t THEN [vpn |-> v, def |-> mem[v]] ELSE worker[u]
      BY <2>1 DEF StartWorker, Calm, TypeInv, TypeOK
    <3>3. mem[v].creds = Has(dotenv, v)
      BY <3>1 DEF CredsTrue
    <3>4. QED
      BY <3>1, <3>2, <3>3, CredsStay
  <2>2. CASE StorePin(t)
    BY <1>1, <2>2 DEF StorePin, files, app
  <2>3. CASE WorkerEnds(t)
    <3>1. UNCHANGED <<dotenv, mem>> /\ call = None
          /\ \A u \in Thread : worker'[u] = IF u = t THEN None ELSE worker[u]
      BY <2>3 DEF WorkerEnds, Calm, TypeInv, TypeOK, files
    <3>2. QED
      BY <3>1, CredsStay
  <2>4. QED
    BY <1>10, <2>1, <2>2, <2>3 DEF Work
<1>11. CASE UNCHANGED vars
  BY <1>1, <1>11 DEF vars, files, app
<1>12. ~ReloadFails /\ ~WriteFails
  BY DEF ReloadFails, WriteFails, Calm, Peace
<1>13. QED
  BY <1>2, <1>3, <1>4, <1>5, <1>6, <1>7, <1>8, <1>9, <1>10, <1>11, <1>12, <1>14 DEF Next, Mutate

\* When no mutation is under way, what is in memory is what a load would give.
LEMMA SyncedAtRest == ASSUME Calm, Synced PROVE RestartChangesNothing
<1> SUFFICES ASSUME call = None PROVE mem = Parse(yaml, dotenv)
  BY DEF RestartChangesNothing
<1>1. mem \in [Vpn -> Def \union {None}] /\ yaml \in [Vpn -> Entry \union {None}]
  BY DEF Calm, TypeInv, TypeOK
<1>2. ASSUME NEW v \in Vpn PROVE mem[v] = Parse(yaml, dotenv)[v]
  <2>1. Agrees(v)
    BY DEF Calm, Frame
  <2>2. CASE mem[v] = None
    BY <2>1, <2>2 DEF Agrees, Parse
  <2>3. CASE mem[v] # None
    <3>1. mem[v] \in Def /\ mem[v].creds = Has(dotenv, v) /\ yaml[v] # None
          /\ mem[v].server = yaml[v].server /\ mem[v].pin = yaml[v].pin
      BY <1>1, <2>1, <2>3 DEF Agrees, Synced, CredsTrue
    <3>2. mem[v] = [server |-> yaml[v].server, pin |-> yaml[v].pin, creds |-> Has(dotenv, v)]
      BY <3>1 DEF Def
    <3>3. QED
      BY <3>1, <3>2 DEF Parse
  <2>4. QED
    BY <2>2, <2>3
<1>3. Parse(yaml, dotenv) = [v \in Vpn |-> Parse(yaml, dotenv)[v]]
  BY DEF Parse
<1>4. QED
  BY <1>1, <1>2, <1>3

\* Between two mutations the app has in memory exactly what a restart would load
\* from vpns.yaml and .env: nothing acknowledged is lost, nothing deleted comes
\* back, no VPN is offered for connecting without credentials.  When nobody edits
\* the files by hand, no write fails and no two ids share a variable; at every
\* crash and every interleaving.
THEOREM RestartIsHarmless ==
    ASSUME Peace, DistinctNames PROVE Spec => []RestartChangesNothing
<1>1. Calm /\ Synced /\ [Next]_vars => (Calm /\ Synced)'
  <2>1. Calm /\ Synced /\ [Next]_vars => Calm'
    BY NextCalm
  <2>2. Calm /\ Synced /\ [Next]_vars => Synced'
    BY MirroredStep, OwnNamesStep, CredsStep DEF Synced, Calm
  <2>3. QED
    BY <2>1, <2>2
<1>2. Calm /\ Synced => RestartChangesNothing
  BY SyncedAtRest
<1>3. QED
  BY <1>1, <1>2, InitCalm, InitSynced, PTL DEF Spec
=============================================================================
