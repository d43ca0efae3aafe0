----------------------------- MODULE ApiProofs -----------------------------
(***************************************************************************)
(* Proofs about Api, for any set of VPNs, of request threads and of calls  *)
(* each of them makes.                                                     *)
(***************************************************************************)
EXTENDS Api, FiniteSetTheorems, SequenceTheorems, TLAPS

-----------------------------------------------------------------------------
(* Sequences without repetition.                                           *)

\* A list without its first element.
LEMMA TailFacts ==
    ASSUME NEW S, NEW s \in Seq(S), s # <<>>
    PROVE  /\ s[1] \in S /\ Tail(s) \in Seq(S)
           /\ Range(s) = {s[1]} \union Range(Tail(s))
           /\ IsInjective(s) => IsInjective(Tail(s)) /\ s[1] \notin Range(Tail(s))
<1>1. Len(s) \in Nat \ {0} /\ s \in [1 .. Len(s) -> S]
  OBVIOUS
<1>2. Tail(s) \in Seq(S) /\ Len(Tail(s)) = Len(s) - 1
      /\ \A i \in 1 .. Len(s) - 1 : Tail(s)[i] = s[i + 1]
  BY HeadTailProperties
<1>3. DOMAIN s = 1 .. Len(s) /\ DOMAIN Tail(s) = 1 .. Len(s) - 1
  BY <1>1, <1>2
<1>4. Range(s) = {s[1]} \union Range(Tail(s))
  <2>1. \A i \in 1 .. Len(s) : i = 1 \/ (i - 1 \in 1 .. Len(s) - 1 /\ s[i] = Tail(s)[i - 1])
    BY <1>1, <1>2
  <2>2. \A i \in 1 .. Len(s) - 1 : i + 1 \in 1 .. Len(s) /\ Tail(s)[i] = s[i + 1]
    BY <1>1, <1>2
  <2>3. Range(Tail(s)) = {s[i + 1] : i \in 1 .. Len(s) - 1}
    BY <1>2, <1>3 DEF Range
  <2>4. Range(s) = {s[i] : i \in 1 .. Len(s)}
    BY <1>3 DEF Range
  <2>5. {s[i] : i \in 1 .. Len(s)} = {s[1]} \union {s[i + 1] : i \in 1 .. Len(s) - 1}
    <3>1. \A i \in 1 .. Len(s) : i = 1 \/ \E j \in 1 .. Len(s) - 1 : s[i] = s[j + 1]
      BY <1>1, <2>1, <1>2
    <3>2. 1 \in 1 .. Len(s)
      BY <1>1
    <3> QED BY <2>2, <3>1, <3>2
  <2> QED BY <2>3, <2>4, <2>5
<1>5. ASSUME IsInjective(s) PROVE IsInjective(Tail(s)) /\ s[1] \notin Range(Tail(s))
  BY <1>1, <1>2, <1>3, <1>5 DEF IsInjective, Range
<1> QED BY <1>1, <1>2, <1>4, <1>5

\* A list with one more element.
LEMMA AppendFacts ==
    ASSUME NEW S, NEW s \in Seq(S), NEW x \in S
    PROVE  /\ Append(s, x) \in Seq(S)
           /\ Range(Append(s, x)) = Range(s) \union {x}
           /\ IsInjective(s) /\ x \notin Range(s) => IsInjective(Append(s, x))
<1>1. /\ Append(s, x) \in Seq(S) /\ Len(Append(s, x)) = Len(s) + 1 /\ Len(s) \in Nat
      /\ DOMAIN s = 1 .. Len(s) /\ DOMAIN Append(s, x) = 1 .. Len(s) + 1
      /\ \A i \in 1 .. Len(s) : Append(s, x)[i] = s[i]
      /\ Append(s, x)[Len(s) + 1] = x
  BY AppendProperties
<1>2. \A i \in 1 .. Len(s) + 1 : i = Len(s) + 1 \/ i \in 1 .. Len(s)
  BY <1>1
<1>3. Range(Append(s, x)) = Range(s) \union {x}
  BY <1>1, <1>2 DEF Range
<1>4. ASSUME IsInjective(s), x \notin Range(s) PROVE IsInjective(Append(s, x))
  BY <1>1, <1>2, <1>4 DEF IsInjective, Range
<1> QED BY <1>1, <1>3, <1>4

\* A list without its k-th element.
LEMMA RemoveFacts ==
    ASSUME NEW S, NEW s \in Seq(S), NEW k \in DOMAIN s, IsInjective(s)
    PROVE  /\ RemoveAt(s, k) \in Seq(S) /\ IsInjective(RemoveAt(s, k))
           /\ Range(RemoveAt(s, k)) = Range(s) \ {s[k]}
<1> DEFINE n == Len(s)
           a == SubSeq(s, 1, k - 1)
           b == SubSeq(s, k + 1, n)
           r == RemoveAt(s, k)
<1>1. n \in Nat /\ k \in 1 .. n /\ DOMAIN s = 1 .. n /\ s \in [1 .. n -> S]
  OBVIOUS
<1>2. a \in Seq(S) /\ Len(a) = k - 1 /\ \A i \in 1 .. k - 1 : a[i] = s[i]
  BY <1>1, SubSeqProperties
<1>3. b \in Seq(S) /\ Len(b) = n - k /\ \A i \in 1 .. n - k : b[i] = s[k + i]
  <2>1. k + 1 \in 1 .. n + 1 /\ n \in k .. n
    BY <1>1
  <2>2. /\ b \in Seq(S) /\ Len(b) = IF k + 1 <= n THEN n - (k + 1) + 1 ELSE 0
        /\ \A i \in 1 .. n - (k + 1) + 1 : b[i] = s[k + 1 + i - 1]
    BY <2>1, SubSeqProperties
  <2> HIDE DEF b, n
  <2>3. n - (k + 1) + 1 = n - k /\ Len(b) = n - k
    BY <1>1, <2>2
  <2>4. ASSUME NEW i \in 1 .. n - k PROVE b[i] = s[k + i]
    <3>1. k + 1 + i - 1 = k + i
      BY <1>1
    <3> QED BY <2>2, <2>3, <3>1
  <2> QED BY <2>2, <2>3, <2>4
<1>4. r \in Seq(S) /\ Len(r) = n - 1
      /\ \A i \in 1 .. n - 1 : r[i] = IF i < k THEN s[i] ELSE s[i + 1]
  <2>1. r = a \o b
    BY DEF RemoveAt
  <2> HIDE DEF a, b, r, n
  <2>2. r \in Seq(S) /\ Len(r) = Len(a) + Len(b)
        /\ \A i \in 1 .. Len(a) + Len(b) : r[i] = IF i <= Len(a) THEN a[i] ELSE b[i - Len(a)]
    BY <1>2, <1>3, <2>1, ConcatProperties
  <2>3. Len(r) = n - 1
    BY <1>1, <1>2, <1>3, <2>2
  <2>4. ASSUME NEW i \in 1 .. n - 1 PROVE r[i] = IF i < k THEN s[i] ELSE s[i + 1]
    <3>1. CASE i < k
      BY <1>1, <1>2, <1>3, <2>2, <3>1
    <3>2. CASE ~(i < k)
      <4>1. r[i] = b[i - (k - 1)] /\ i - (k - 1) \in 1 .. n - k
        BY <1>1, <1>2, <1>3, <2>2, <3>2
      <4>2. k + (i - (k - 1)) = i + 1
        BY <1>1
      <4> QED BY <1>3, <3>2, <4>1, <4>2
    <3> QED BY <3>1, <3>2
  <2> QED BY <2>2, <2>3, <2>4
<1> HIDE DEF a, b, r, n
<1>5. DOMAIN r = 1 .. n - 1
  BY <1>4
<1>6. IsInjective(r)
  <2> SUFFICES ASSUME NEW i \in 1 .. n - 1, NEW j \in 1 .. n - 1, r[i] = r[j] PROVE i = j
    BY <1>5 DEF IsInjective
  <2> DEFINE up(m) == IF m < k THEN m ELSE m + 1
  <2>1. \A m \in 1 .. n - 1 : up(m) \in 1 .. n /\ r[m] = s[up(m)]
    BY <1>1, <1>4
  <2>2. up(i) = up(j)
    BY <1>1, <2>1 DEF IsInjective
  <2> QED BY <1>1, <2>2
<1>7. Range(r) = Range(s) \ {s[k]}
  <2>1. ASSUME NEW x \in Range(r) PROVE x \in Range(s) \ {s[k]}
    <3>1. PICK i \in 1 .. n - 1 : x = r[i]
      BY <1>5 DEF Range
    <3>2. PICK j \in 1 .. n : j # k /\ x = s[j]
      BY <1>1, <1>4, <3>1
    <3> QED BY <1>1, <3>2 DEF Range, IsInjective
  <2>2. ASSUME NEW x \in Range(s) \ {s[k]} PROVE x \in Range(r)
    <3>1. PICK j \in 1 .. n : x = s[j] /\ j # k
      BY <1>1 DEF Range
    <3>2. CASE j < k
      <4>1. j \in 1 .. n - 1 /\ r[j] = x
        BY <1>1, <1>4, <3>1, <3>2
      <4> QED BY <1>5, <4>1 DEF Range
    <3>3. CASE j > k
      <4>1. j - 1 \in 1 .. n - 1 /\ r[j - 1] = x
        BY <1>1, <1>4, <3>1, <3>3
      <4> QED BY <1>5, <4>1 DEF Range
    <3> QED BY <1>1, <3>1, <3>2, <3>3
  <2> QED BY <2>1, <2>2
<1> QED BY <1>4, <1>6, <1>7 DEF r

-----------------------------------------------------------------------------
(* The inductive invariant.                                                *)

Loops == Bulk \union {"list"}

\* Where a call may be.
Placed(c) ==
    /\ c.op \in ForOne \union {"create"} => c.vpn \in Vpn
    /\ c.pc = "next" => c.op \in Loops
    /\ c.pc = "describe" => c.op = "get"
    /\ c.pc = "locked" => /\ c.op \notin {"list", "get", "log", "bad_create", "bad_edit"}
                          /\ c.op \in Bulk => c.todo # <<>>

\* A loop under way: what was there all along is reported or still to come, once,
\* and nothing is to come that was not listed when the loop began.
LoopUnderWay(c) ==
    c.op \in Loops /\ c.pc # "done" =>
        /\ c.since \subseteq Range(c.seen) \union Range(c.todo)
        /\ IsInjective(c.seen) /\ IsInjective(c.todo)
        /\ Range(c.todo) \subseteq c.start
        /\ Range(c.seen) \intersect Range(c.todo) = {}

LoopEnded(c) ==
    c.op \in Loops /\ c.pc = "done" =>
        /\ c.code = 500 => DeletedUnder(c) # {}
        /\ c.code # 500 => c.since \subseteq Range(c.seen)
        /\ IsInjective(c.seen)

AnswerKnows(c) ==
    c.pc = "done" /\ c.op \in ForOne /\ c.vpn \in c.since => c.code \notin {404, 500}

Sound(c) == Placed(c) /\ LoopUnderWay(c) /\ LoopEnded(c) /\ AnswerKnows(c)

\* What a call takes to have been there all along is there.
IInv ==
    /\ TypeOK
    /\ \A r \in Request : call[r] # None => Sound(call[r]) /\ call[r].since \subseteq Range(ids)

-----------------------------------------------------------------------------
(* One call.                                                               *)

LEMMA Answers ==
    ASSUME NEW c \in Call, NEW code \in Code
    PROVE  LET d == Answered(c, code)
           IN  /\ d \in Call /\ d.pc = "done" /\ d.code = code
               /\ d.op = c.op /\ d.vpn = c.vpn /\ d.seen = c.seen /\ d.since = c.since
               /\ d.start = c.start
<1> DEFINE d == Answered(c, code)
<1>1. <<>> \in Seq(Vpn)
  OBVIOUS
<1>2. d \in Call
  BY <1>1 DEF Answered, Call
<1> QED BY <1>2 DEF Answered, Call

\* An answer that ends no loop.
LEMMA AnswerIsSound ==
    ASSUME NEW c \in Call, NEW code \in Code, Placed(c), c.op \notin Loops,
           c.op \in ForOne /\ c.vpn \in c.since => code \notin {404, 500}
    PROVE  Answered(c, code) \in Call /\ Sound(Answered(c, code))
BY Answers DEF Sound, Placed, LoopUnderWay, LoopEnded, AnswerKnows

\* A loop fails at an id that was listed when it began and is gone.
LEMMA FailureIsSound ==
    ASSUME NEW c \in Call, Sound(c), c.op \in Loops, c.pc # "done", c.todo # <<>>,
           c.todo[1] \notin c.since
    PROVE  Answered(c, 500) \in Call /\ Sound(Answered(c, 500))
<1>1. 500 \in Code /\ c.op \notin ForOne
  BY DEF Code, Loops, Bulk, ForOne
<1>2. c.todo \in Seq(Vpn)
  BY DEF Call
<1>3. c.todo[1] \in Range(c.todo)
  BY <1>2, TailFacts
<1>4. c.todo[1] \in DeletedUnder(c) /\ IsInjective(c.seen)
  BY <1>3 DEF Sound, LoopUnderWay, DeletedUnder
<1>5. DeletedUnder(Answered(c, 500)) = DeletedUnder(c)
  BY <1>1, Answers DEF DeletedUnder
<1> QED BY <1>1, <1>4, <1>5, Answers
        DEF Sound, Placed, LoopUnderWay, LoopEnded, AnswerKnows

\* A loop is through.
LEMMA EndIsSound ==
    ASSUME NEW c \in Call, NEW code \in Code \ {500}, Sound(c), c.op \in Loops,
           c.pc # "done", c.todo = <<>>
    PROVE  Answered(c, code) \in Call /\ Sound(Answered(c, code))
<1>1. c.op \notin ForOne
  BY DEF Loops, Bulk, ForOne
<1>2. Range(c.todo) = {}
  BY DEF Range
<1>3. c.since \subseteq Range(c.seen) /\ IsInjective(c.seen)
  BY <1>2 DEF Sound, LoopUnderWay
<1> QED BY <1>1, <1>3, Answers DEF Sound, Placed, LoopUnderWay, LoopEnded, AnswerKnows

\* One round of a loop.
LEMMA ReportIsSound ==
    ASSUME NEW c \in Call, Sound(c), c.op \in Loops, c.pc # "done", c.todo # <<>>
    PROVE  Reported(c) \in Call /\ Sound(Reported(c)) /\ Reported(c).since = c.since
<1> DEFINE d == Reported(c)
<1>1. /\ c.todo \in Seq(Vpn) /\ c.seen \in Seq(Vpn)
  BY DEF Call
<1>2. /\ c.todo[1] \in Vpn /\ Tail(c.todo) \in Seq(Vpn)
      /\ Range(c.todo) = {c.todo[1]} \union Range(Tail(c.todo))
      /\ IsInjective(Tail(c.todo)) /\ c.todo[1] \notin Range(Tail(c.todo))
  BY <1>1, TailFacts DEF Sound, LoopUnderWay
<1>3. c.todo[1] \notin Range(c.seen)
  BY <1>2 DEF Sound, LoopUnderWay
<1>4. /\ Append(c.seen, c.todo[1]) \in Seq(Vpn)
      /\ Range(Append(c.seen, c.todo[1])) = Range(c.seen) \union {c.todo[1]}
      /\ IsInjective(Append(c.seen, c.todo[1]))
  BY <1>1, <1>2, <1>3, AppendFacts DEF Sound, LoopUnderWay
<1>5. /\ d \in Call /\ d.pc = "next" /\ d.op = c.op /\ d.vpn = c.vpn /\ d.since = c.since
      /\ d.start = c.start /\ d.seen = Append(c.seen, c.todo[1]) /\ d.todo = Tail(c.todo)
  BY <1>2, <1>4 DEF Reported, Remaining, Call
<1>6. c.op \notin ForOne /\ d.op \in Loops
  BY <1>5 DEF Loops, Bulk, ForOne
<1>7. Placed(d) /\ LoopEnded(d) /\ AnswerKnows(d)
  BY <1>5, <1>6 DEF Placed, LoopEnded, AnswerKnows, Loops, Bulk, Sound
<1>8. LoopUnderWay(d)
  BY <1>2, <1>4, <1>5 DEF Sound, LoopUnderWay
<1> QED BY <1>5, <1>7, <1>8 DEF Sound

\* An id is deleted under a call.
LEMMA ShrunkIsSound ==
    ASSUME NEW c \in Call, NEW v \in Vpn, Sound(c)
    PROVE  LET d == [c EXCEPT !.since = @ \ {v}]
           IN  d \in Call /\ Sound(d) /\ d.since = c.since \ {v} /\ d.op = c.op /\ d.vpn = c.vpn
<1> DEFINE d == [c EXCEPT !.since = @ \ {v}]
<1>1. /\ d \in Call /\ d.since = c.since \ {v} /\ d.op = c.op /\ d.vpn = c.vpn
      /\ d.pc = c.pc /\ d.todo = c.todo /\ d.seen = c.seen /\ d.code = c.code
      /\ d.start = c.start
  BY DEF Call
<1> HIDE DEF d
<1>2. Placed(d) /\ AnswerKnows(d)
  BY <1>1 DEF Sound, Placed, AnswerKnows
<1>3. LoopUnderWay(d)
  BY <1>1 DEF Sound, LoopUnderWay
<1>4. LoopEnded(d)
  BY <1>1 DEF Sound, LoopEnded, DeletedUnder
<1>5. Sound(d)
  BY <1>2, <1>3, <1>4 DEF Sound
<1> QED BY <1>1, <1>5 DEF d

-----------------------------------------------------------------------------
(* The invariant.                                                          *)

CallsSound(ofCalls, present) ==
    /\ ofCalls \in [Request -> Call \union {None}]
    /\ \A r \in Request : ofCalls[r] # None
          => Sound(ofCalls[r]) /\ ofCalls[r].since \subseteq present

\* One thread moves on and no VPN goes.
LEMMA OneMoves ==
    ASSUME IInv, NEW r \in Request, NEW c \in Call, Sound(c), c.since \subseteq Range(ids'),
           Range(ids) \subseteq Range(ids'), call' = [call EXCEPT ![r] = c]
    PROVE  CallsSound(call', Range(ids'))
BY DEF IInv, TypeOK, CallsSound

LEMMA InitIInv == Init => IInv
<1> SUFFICES ASSUME Init PROVE IInv
  OBVIOUS
<1> USE DEF Init
<1>1. PICK s \in SUBSET Vpn : ids \in SetToSeqs(s)
  OBVIOUS
<1>2. Cardinality(s) \in Nat
  BY <1>1, VpnAssumption, FS_Subset, FS_CardinalityType
<1>3. /\ ids \in [1 .. Cardinality(s) -> s]
      /\ \A i, j \in 1 .. Cardinality(s) : i # j => ids[i] # ids[j]
  BY <1>1 DEF SetToSeqs
<1>4. ids \in [1 .. Cardinality(s) -> Vpn]
  BY <1>1, <1>3
<1>5. ids \in Seq(Vpn)
  BY <1>2, <1>4, SeqDef
<1>6. IsInjective(ids)
  BY <1>3 DEF IsInjective
<1>7. row \in [Vpn -> Rest \union {"busy", "absent"}]
      /\ \A v \in Vpn : row[v] # "absent" <=> v \in Range(ids)
  BY DEF Rest
<1>8. call \in [Request -> Call \union {None}] /\ \A r \in Request : call[r] = None
  OBVIOUS
<1> QED BY <1>5, <1>6, <1>7, <1>8 DEF IInv, TypeOK

\* What is known of a call that some thread makes.
LEMMA CallFacts ==
    ASSUME IInv, NEW r \in Request, NEW pc, At(r, pc)
    PROVE  /\ call[r] \in Call /\ call[r].pc = pc /\ Sound(call[r]) /\ Placed(call[r])
           /\ call[r].since \subseteq Range(ids)
BY DEF IInv, TypeOK, At, Sound

LEMMA ArriveKeeps ==
    ASSUME IInv, NEW r \in Request, Arrive(r)
    PROVE  IInv'
<1> PICK op \in Calls[r] : \E v \in IF op \in ForOne \union {"create"} THEN Vpn ELSE {None} :
        call' = [call EXCEPT ![r] = Begun([op |-> op, vpn |-> v, pc |-> "next", todo |-> <<>>,
                                           seen |-> <<>>,
                                           start |-> IF op \in ForOne THEN {} ELSE Range(ids),
                                           since |-> Range(ids), code |-> None])]
  BY DEF Arrive
<1> PICK v \in IF op \in ForOne \union {"create"} THEN Vpn ELSE {None} :
        call' = [call EXCEPT ![r] = Begun([op |-> op, vpn |-> v, pc |-> "next", todo |-> <<>>,
                                           seen |-> <<>>,
                                           start |-> IF op \in ForOne THEN {} ELSE Range(ids),
                                           since |-> Range(ids), code |-> None])]
  OBVIOUS
<1> DEFINE c == [op |-> op, vpn |-> v, pc |-> "next", todo |-> <<>>,
                 seen |-> <<>>, start |-> IF op \in ForOne THEN {} ELSE Range(ids),
                 since |-> Range(ids), code |-> None]
<1>1. op \in AllCalls /\ v \in Vpn \union {None}
      /\ (op \in ForOne \union {"create"} => v \in Vpn)
  BY CallsAssumption
<1>2. ids \in Seq(Vpn) /\ IsInjective(ids) /\ Range(ids) \subseteq Vpn
  BY DEF IInv, TypeOK, Range
<1>3. c \in Call
  <2>1. <<>> \in Seq(Vpn)
    OBVIOUS
  <2> QED BY <1>1, <1>2, <2>1 DEF Call
<1>4. /\ c.op = op /\ c.vpn = v /\ c.pc = "next" /\ c.todo = <<>> /\ c.seen = <<>>
      /\ c.since = Range(ids) /\ c.code = None
      /\ (op \notin ForOne => c.start = Range(ids))
  OBVIOUS
<1>5. call' = [call EXCEPT ![r] = Begun(c)] /\ UNCHANGED <<ids, row, creds>>
  BY DEF Arrive
<1> HIDE DEF c
<1>6. Begun(c) \in Call /\ Sound(Begun(c)) /\ Begun(c).since = Range(ids)
  <2>1. CASE op \notin Loops
    <3>1. \A code \in {200, 400, 404} :
             (op \in ForOne /\ v \in Range(ids) => code # 404)
             => /\ Answered(c, code) \in Call /\ Sound(Answered(c, code))
                /\ Answered(c, code).since = Range(ids)
      <4> SUFFICES ASSUME NEW code \in {200, 400, 404},
                          op \in ForOne /\ v \in Range(ids) => code # 404
                   PROVE  /\ Answered(c, code) \in Call /\ Sound(Answered(c, code))
                          /\ Answered(c, code).since = Range(ids)
        OBVIOUS
      <4>1. code \in Code
        BY DEF Code
      <4>2. Answered(c, code).since = Range(ids)
        BY <1>3, <1>4, <4>1, Answers
      <4>3. /\ Answered(c, code).pc = "done" /\ Answered(c, code) \in Call
            /\ Answered(c, code).op = op /\ Answered(c, code).vpn = v
            /\ Answered(c, code).code = code
        BY <1>3, <1>4, <4>1, Answers
      <4>4. Sound(Answered(c, code))
        BY <1>1, <2>1, <4>2, <4>3 DEF Sound, Placed, LoopUnderWay, LoopEnded, AnswerKnows
      <4> QED BY <4>2, <4>3, <4>4
    <3>2. CASE BadBody(op)
      <4>1. Begun(c) = Answered(c, 400)
        BY <1>4, <3>2 DEF Begun, BadBody, ForOne, Bulk
      <4>2. op \notin ForOne
        BY <3>2 DEF BadBody, ForOne
      <4> QED BY <3>1, <4>1, <4>2
    <3>3. CASE op \in ForOne /\ ~Known(v)
      <4>1. Begun(c) = Answered(c, 404)
        BY <1>4, <3>3 DEF Begun, BadBody, ForOne, Bulk
      <4> QED BY <3>1, <3>3, <4>1 DEF Known
    <3>4. CASE op = "log" /\ Known(v)
      <4>1. Begun(c) = Answered(c, 200)
        BY <1>4, <3>4 DEF Begun, BadBody, ForOne, Bulk
      <4> QED BY <3>1, <4>1
    <3>5. CASE op = "get" /\ Known(v)
      <4>1. Begun(c) = [c EXCEPT !.pc = "describe"]
        BY <1>4, <3>5 DEF Begun, BadBody, ForOne, Bulk
      <4>2. /\ Begun(c) \in Call /\ Begun(c).pc = "describe" /\ Begun(c).op = op
            /\ Begun(c).vpn = v /\ Begun(c).since = Range(ids)
        BY <1>3, <1>4, <4>1 DEF Call
      <4> QED BY <1>1, <2>1, <3>5, <4>2
              DEF Sound, Placed, LoopUnderWay, LoopEnded, AnswerKnows
    <3>6. CASE /\ ~BadBody(op) /\ op # "log" /\ op # "get"
               /\ ~(op \in ForOne /\ ~Known(v))
      <4>1. Begun(c) = [c EXCEPT !.pc = "locked"]
        BY <1>4, <2>1, <3>6 DEF Begun, Loops
      <4>2. /\ Begun(c) \in Call /\ Begun(c).pc = "locked" /\ Begun(c).op = op
            /\ Begun(c).vpn = v /\ Begun(c).since = Range(ids)
        BY <1>3, <1>4, <4>1 DEF Call
      <4>3. op \notin {"list", "get", "log", "bad_create", "bad_edit"} /\ op \notin Bulk
        BY <2>1, <3>6 DEF BadBody, Loops
      <4>4. Placed(Begun(c))
        BY <1>1, <4>2, <4>3 DEF Placed
      <4> QED BY <2>1, <4>2, <4>4 DEF Sound, LoopUnderWay, LoopEnded, AnswerKnows
    <3> QED BY <3>2, <3>3, <3>4, <3>5, <3>6 DEF ForOne
  <2>2. CASE op \in Loops
    <3>1. Begun(c) = [c EXCEPT !.todo = ids]
      BY <1>4, <2>2 DEF Begun, BadBody, ForOne, Bulk, Loops
    <3>2. /\ Begun(c) \in Call /\ Begun(c).pc = "next" /\ Begun(c).op = op
          /\ Begun(c).since = Range(ids) /\ Begun(c).todo = ids /\ Begun(c).seen = <<>>
          /\ Begun(c).start = c.start
      BY <1>2, <1>3, <1>4, <3>1 DEF Call
    <3>3. op \notin ForOne \union {"create"}
      BY <2>2 DEF Loops, Bulk, ForOne
    <3>4. Range(<<>>) = {} /\ IsInjective(<<>>)
      BY DEF Range, IsInjective
    <3> QED BY <1>2, <1>4, <2>2, <3>2, <3>3, <3>4
            DEF Sound, Placed, LoopUnderWay, LoopEnded, AnswerKnows
  <2> QED BY <2>1, <2>2
<1>7. CallsSound(call', Range(ids'))
  BY <1>5, <1>6, OneMoves
<1> QED BY <1>5, <1>7 DEF IInv, TypeOK, CallsSound

LEMMA LoopStepKeeps ==
    ASSUME IInv, NEW r \in Request, LoopStep(r)
    PROVE  IInv'
<1> DEFINE c == call[r]
<1>1. /\ c \in Call /\ c.pc = "next" /\ Sound(c) /\ Placed(c) /\ c.since \subseteq Range(ids)
  BY CallFacts DEF LoopStep
<1>2. c.op \in Loops /\ c.todo \in Seq(Vpn)
  BY <1>1 DEF Placed, Call
<1>3. UNCHANGED <<ids, row, creds>>
  BY DEF LoopStep
<1>4. \E d \in Call : /\ Sound(d) /\ d.since = c.since
                      /\ call' = [call EXCEPT ![r] = d]
  <2>1. CASE c.todo = <<>>
    <3> DEFINE d == Answered(c, IF c.op = "list" THEN 200 ELSE 202)
    <3>1. call' = [call EXCEPT ![r] = d]
      BY <2>1 DEF LoopStep
    <3>2. (IF c.op = "list" THEN 200 ELSE 202) \in Code \ {500}
      BY DEF Code
    <3>3. d \in Call /\ Sound(d) /\ d.since = c.since
      BY <1>1, <1>2, <2>1, <3>2, EndIsSound, Answers
    <3> HIDE DEF d
    <3> QED BY <3>1, <3>3
  <2>2. CASE c.todo # <<>>
    <3>1. c.todo[1] \in Vpn
      BY <1>2, <2>2, TailFacts
    <3>2. ASSUME ~Known(c.todo[1])
          PROVE  /\ Answered(c, 500) \in Call /\ Sound(Answered(c, 500))
                 /\ Answered(c, 500).since = c.since
      <4>1. c.todo[1] \notin c.since
        BY <1>1, <3>2 DEF Known
      <4>2. 500 \in Code
        BY DEF Code
      <4> QED BY <1>1, <1>2, <2>2, <4>1, <4>2, FailureIsSound, Answers
    <3>3. Reported(c) \in Call /\ Sound(Reported(c)) /\ Reported(c).since = c.since
      BY <1>1, <1>2, <2>2, ReportIsSound
    <3>4. CASE c.op = "list" /\ Known(c.todo[1])
      <4>1. row[c.todo[1]] # "absent"
        BY <3>1, <3>4 DEF IInv, TypeOK, Known
      <4>2. call' = [call EXCEPT ![r] = Reported(c)]
        BY <2>2, <3>4, <4>1 DEF LoopStep
      <4> QED BY <3>3, <4>2
    <3>5. CASE ~Known(c.todo[1])
      <4>1. row[c.todo[1]] = "absent"
        BY <3>1, <3>5 DEF IInv, TypeOK, Known
      <4>2. call' = [call EXCEPT ![r] = Answered(c, 500)]
        <5>1. CASE c.op = "list"
          BY <2>2, <3>5, <4>1, <5>1 DEF LoopStep
        <5>2. CASE c.op # "list"
          BY <2>2, <3>5, <5>2 DEF LoopStep
        <5> QED BY <5>1, <5>2
      <4> QED BY <3>2, <3>5, <4>2
    <3>6. CASE c.op # "list" /\ Known(c.todo[1])
      <4> DEFINE d == [c EXCEPT !.pc = "locked"]
      <4>1. call' = [call EXCEPT ![r] = d]
        BY <2>2, <3>6 DEF LoopStep
      <4>2. /\ d \in Call /\ d.pc = "locked" /\ d.op = c.op /\ d.vpn = c.vpn
            /\ d.since = c.since /\ d.todo = c.todo /\ d.seen = c.seen /\ d.start = c.start
        BY <1>1 DEF Call
      <4> HIDE DEF d
      <4>3. Placed(d)
        BY <1>2, <2>2, <3>6, <4>2 DEF Placed, Loops, Bulk, ForOne
      <4>4. LoopUnderWay(d) /\ LoopEnded(d) /\ AnswerKnows(d)
        BY <1>1, <4>2 DEF Sound, LoopUnderWay, LoopEnded, AnswerKnows
      <4> QED BY <4>1, <4>2, <4>3, <4>4 DEF Sound
    <3> QED BY <3>4, <3>5, <3>6
  <2> QED BY <2>1, <2>2
<1>5. CallsSound(call', Range(ids'))
  BY <1>1, <1>3, <1>4, OneMoves
<1> QED BY <1>3, <1>5 DEF IInv, TypeOK, CallsSound

LEMMA DescribeKeeps ==
    ASSUME IInv, NEW r \in Request, Describe(r)
    PROVE  IInv'
<1> DEFINE c == call[r]
           code == IF row[c.vpn] = "absent" THEN 500 ELSE 200
<1>1. /\ c \in Call /\ c.pc = "describe" /\ Placed(c) /\ c.since \subseteq Range(ids)
  BY CallFacts DEF Describe
<1>2. c.op = "get" /\ c.op \in ForOne /\ c.op \notin Loops /\ c.vpn \in Vpn
  BY <1>1 DEF Placed, ForOne, Loops, Bulk
<1>3. /\ UNCHANGED <<ids, row, creds>> /\ call' = [call EXCEPT ![r] = Answered(c, code)]
  BY <1>1 DEF Describe, IInv, TypeOK
<1>4. code \in Code /\ (c.vpn \in c.since => code = 200)
  BY <1>1, <1>2 DEF Code, IInv, TypeOK
<1> HIDE DEF code
<1>5. Answered(c, code) \in Call /\ Sound(Answered(c, code)) /\ Answered(c, code).since = c.since
  BY <1>1, <1>2, <1>4, AnswerIsSound, Answers
<1>6. CallsSound(call', Range(ids'))
  BY <1>1, <1>3, <1>5, OneMoves
<1> QED BY <1>3, <1>6 DEF IInv, TypeOK, CallsSound

LEMMA ActKeeps ==
    ASSUME IInv, NEW r \in Request, Act(r)
    PROVE  IInv'
<1> DEFINE c == call[r]
           v == Target(c)
           connects == c.op \in {"connect", "connect_all"}
           codeOf(pid) == IF connects THEN ConnectCode(v, pid) ELSE DisconnectCode(v, pid)
<1>1. /\ c \in Call /\ c.pc = "locked" /\ Sound(c) /\ Placed(c) /\ c.since \subseteq Range(ids)
  BY CallFacts DEF Act
<1>2. PICK pid \in BOOLEAN :
         /\ c.op \in Bulk \union {"connect", "disconnect"}
         /\ call' = [call EXCEPT ![r] = Outcome(c, codeOf(pid))]
         /\ row' = IF codeOf(pid) = 202 THEN [row EXCEPT ![v] = "busy"] ELSE row
  BY DEF Act
<1>3. UNCHANGED <<ids, creds>>
  BY DEF Act
<1> DEFINE code == codeOf(pid)
<1>4. v \in Vpn
  <2>1. CASE c.op \in Bulk
    <3>1. c.todo # <<>> /\ c.todo \in Seq(Vpn)
      BY <1>1, <2>1 DEF Placed, Call
    <3> QED BY <2>1, <3>1, TailFacts DEF Target
  <2>2. CASE c.op \in {"connect", "disconnect"}
    BY <1>1, <2>2 DEF Target, Placed, ForOne, Bulk
  <2> QED BY <1>2, <2>1, <2>2
<1>5. code \in {202, 400, 404, 409} /\ (code = 404 <=> ~Known(v))
  <2>1. CASE connects
    BY <2>1 DEF ConnectCode
  <2>2. CASE ~connects
    BY <2>2 DEF DisconnectCode
  <2> QED BY <2>1, <2>2
<1> HIDE DEF code
<1>6. row' \in [Vpn -> Rest \union {"busy", "absent"}]
      /\ \A u \in Vpn : row'[u] # "absent" <=> u \in Range(ids)
  BY <1>2, <1>4, <1>5 DEF code, IInv, TypeOK, Known
<1>7. Outcome(c, code) \in Call /\ Sound(Outcome(c, code)) /\ Outcome(c, code).since = c.since
  <2>1. CASE c.op \in Bulk
    <3>1. c.op \in Loops /\ c.todo # <<>>
      BY <1>1, <2>1 DEF Loops, Placed
    <3>2. CASE code = 404
      <4>1. Outcome(c, code) = Answered(c, 500)
        BY <2>1, <3>2 DEF Outcome
      <4>2. c.todo[1] \notin c.since /\ 500 \in Code
        BY <1>1, <1>5, <2>1, <3>2 DEF Known, Code, Target
      <4> QED BY <1>1, <3>1, <4>1, <4>2, FailureIsSound, Answers
    <3>3. CASE code # 404
      <4>1. Outcome(c, code) = Reported(c)
        BY <2>1, <3>3 DEF Outcome
      <4> QED BY <1>1, <3>1, <4>1, ReportIsSound
    <3> QED BY <3>2, <3>3
  <2>2. CASE c.op \in {"connect", "disconnect"}
    <3>1. c.op \notin Loops /\ c.op \notin Bulk /\ v = c.vpn
      BY <2>2 DEF Loops, Bulk, Target
    <3>2. Outcome(c, code) = Answered(c, code)
      BY <3>1 DEF Outcome
    <3>3. code \in Code /\ (c.vpn \in c.since => code \notin {404, 500})
      BY <1>1, <1>5, <3>1 DEF Known, Code
    <3> QED BY <1>1, <3>1, <3>2, <3>3, AnswerIsSound, Answers
  <2> QED BY <1>2, <2>1, <2>2
<1>8. CallsSound(call', Range(ids'))
  <2>1. call' = [call EXCEPT ![r] = Outcome(c, code)]
    BY <1>2 DEF code
  <2> QED BY <1>1, <1>3, <1>7, <2>1, OneMoves
<1> QED BY <1>3, <1>6, <1>8 DEF IInv, TypeOK, CallsSound

LEMMA CreateKeeps ==
    ASSUME IInv, NEW r \in Request, Create(r)
    PROVE  IInv'
<1> DEFINE c == call[r]
           v == c.vpn
<1>1. /\ c \in Call /\ c.pc = "locked" /\ Placed(c) /\ c.op = "create"
      /\ c.since \subseteq Range(ids)
  BY CallFacts DEF Create
<1>2. v \in Vpn /\ c.op \notin Loops /\ c.op \notin ForOne
  BY <1>1 DEF Placed, Loops, Bulk, ForOne
<1>3. ASSUME NEW code \in {201, 409}
      PROVE  /\ Answered(c, code) \in Call /\ Sound(Answered(c, code))
             /\ Answered(c, code).since = c.since
  <2>1. code \in Code
    BY DEF Code
  <2> QED BY <1>1, <1>2, <2>1, AnswerIsSound, Answers
<1>4. CASE Known(v)
  <2>1. call' = [call EXCEPT ![r] = Answered(c, 409)] /\ UNCHANGED <<ids, row, creds>>
    BY <1>4 DEF Create
  <2>2. CallsSound(call', Range(ids'))
    <3>1. Answered(c, 409) \in Call /\ Sound(Answered(c, 409))
          /\ Answered(c, 409).since = c.since
      BY <1>3
    <3> QED BY <1>1, <2>1, <3>1, OneMoves
  <2> QED BY <2>1, <2>2 DEF IInv, TypeOK, CallsSound
<1>5. CASE ~Known(v)
  <2>1. /\ call' = [call EXCEPT ![r] = Answered(c, 201)]
        /\ ids' = Append(ids, v) /\ row' = [row EXCEPT ![v] = "disconnected"]
        /\ creds' \in {creds, creds \union {v}}
    BY <1>5 DEF Create
  <2>2. ids' \in Seq(Vpn) /\ IsInjective(ids') /\ Range(ids') = Range(ids) \union {v}
    BY <1>2, <1>5, <2>1, AppendFacts DEF IInv, TypeOK, Known
  <2>3. row' \in [Vpn -> Rest \union {"busy", "absent"}]
        /\ \A u \in Vpn : row'[u] # "absent" <=> u \in Range(ids')
    BY <1>2, <2>1, <2>2 DEF IInv, TypeOK, Rest
  <2>4. CallsSound(call', Range(ids'))
    <3>1. Answered(c, 201) \in Call /\ Sound(Answered(c, 201))
          /\ Answered(c, 201).since = c.since
      BY <1>3
    <3> QED BY <1>1, <2>1, <2>2, <3>1, OneMoves
  <2>5. creds' \subseteq Vpn
    BY <1>2, <2>1 DEF IInv, TypeOK
  <2> QED BY <2>2, <2>3, <2>4, <2>5 DEF IInv, TypeOK, CallsSound
<1> QED BY <1>4, <1>5

LEMMA EditKeeps ==
    ASSUME IInv, NEW r \in Request, Edit(r)
    PROVE  IInv'
<1> DEFINE c == call[r]
<1>1. /\ c \in Call /\ c.pc = "locked" /\ Placed(c) /\ c.op = "edit"
      /\ c.since \subseteq Range(ids) /\ UNCHANGED <<ids, row>>
  BY CallFacts DEF Edit
<1>2. c.vpn \in Vpn /\ c.op \notin Loops
  BY <1>1 DEF Placed, Loops, Bulk, ForOne
<1>3. PICK code \in {200, 400} : call' = [call EXCEPT ![r] = Answered(c, code)]
  BY DEF Edit
<1>4. code \in Code
  BY DEF Code
<1>5. /\ Answered(c, code) \in Call /\ Sound(Answered(c, code))
      /\ Answered(c, code).since = c.since
  BY <1>1, <1>2, <1>4, AnswerIsSound, Answers
<1>6. CallsSound(call', Range(ids'))
  BY <1>1, <1>3, <1>5, OneMoves
<1>7. creds' \subseteq Vpn
  BY <1>2 DEF Edit, IInv, TypeOK
<1> QED BY <1>1, <1>6, <1>7 DEF IInv, TypeOK, CallsSound

\* A deleted id goes from the list, once and alone, and from what every call
\* takes to have been there all along.
LEMMA DeleteKeeps ==
    ASSUME IInv, NEW r \in Request, Delete(r)
    PROVE  IInv'
<1> DEFINE c == call[r]
           v == c.vpn
           left(q) == [call[q] EXCEPT !.since = @ \ {v}]
<1>1. /\ c \in Call /\ c.pc = "locked" /\ Placed(c) /\ c.op = "delete" /\ Known(v)
      /\ c.since \subseteq Range(ids) /\ Sound(c) /\ r \in DOMAIN call /\ c # None
  BY CallFacts DEF Delete, Mutable, At, IInv, TypeOK
<1>2. v \in Vpn /\ c.op \notin Loops
  BY <1>1 DEF Placed, Loops, Bulk, ForOne
<1>3. /\ call' = [Without(v) EXCEPT ![r] = Answered(@, 204)]
      /\ ids' = RemoveAt(ids, Entry(v)) /\ row' = [row EXCEPT ![v] = "absent"]
      /\ creds' = creds \ {v}
  BY DEF Delete
<1>4. Entry(v) \in DOMAIN ids /\ ids[Entry(v)] = v
  BY <1>1 DEF Known, Entry, Range
<1>5. ids' \in Seq(Vpn) /\ IsInjective(ids') /\ Range(ids') = Range(ids) \ {v}
  BY <1>3, <1>4, RemoveFacts DEF IInv, TypeOK
<1>6. row' \in [Vpn -> Rest \union {"busy", "absent"}]
      /\ \A u \in Vpn : row'[u] # "absent" <=> u \in Range(ids')
  BY <1>2, <1>3, <1>5 DEF IInv, TypeOK
<1>7. ASSUME NEW q \in Request, call[q] # None
      PROVE  left(q) \in Call /\ Sound(left(q)) /\ left(q).since \subseteq Range(ids')
             /\ left(q).op = call[q].op /\ left(q).vpn = call[q].vpn
  <2>1. call[q] \in Call /\ Sound(call[q]) /\ call[q].since \subseteq Range(ids)
    BY <1>7 DEF IInv, TypeOK
  <2> QED BY <1>2, <1>5, <2>1, ShrunkIsSound
<1> DEFINE d == Answered(left(r), 204)
<1>8. d \in Call /\ Sound(d) /\ d.since \subseteq Range(ids')
  <2>1. left(r) \in Call /\ left(r).since \subseteq Range(ids') /\ left(r).op = "delete"
        /\ left(r).vpn \in Vpn /\ left(r).op \notin Loops
    BY <1>1, <1>2, <1>7
  <2>2. Placed(left(r))
    BY <1>1, <1>7 DEF Sound
  <2>3. 204 \in Code
    BY DEF Code
  <2> HIDE DEF left
  <2> QED BY <2>1, <2>2, <2>3, AnswerIsSound, Answers
<1>9. call' = [q \in Request |-> IF q = r THEN d ELSE IF call[q] = None THEN None ELSE left(q)]
  BY <1>1, <1>3 DEF Without
<1>10. CallsSound(call', Range(ids'))
  <2> HIDE DEF d, left
  <2> QED BY <1>7, <1>8, <1>9, NoneAssumption DEF CallsSound
<1>11. creds' \subseteq Vpn
  BY <1>3 DEF IInv, TypeOK
<1> QED BY <1>5, <1>6, <1>10, <1>11 DEF IInv, TypeOK, CallsSound

LEMMA RefusedKeeps ==
    ASSUME IInv, NEW r \in Request, Refused(r)
    PROVE  IInv'
<1> DEFINE c == call[r]
           code == IF Known(c.vpn) THEN 409 ELSE 404
<1>1. /\ c \in Call /\ c.pc = "locked" /\ Placed(c) /\ c.op \in {"edit", "delete"}
      /\ c.since \subseteq Range(ids) /\ UNCHANGED <<ids, row, creds>>
  BY CallFacts DEF Refused
<1>2. c.vpn \in Vpn /\ c.op \notin Loops
  BY <1>1 DEF Placed, Loops, Bulk, ForOne
<1>3. call' = [call EXCEPT ![r] = Answered(c, code)]
  BY <1>1 DEF Refused, IInv, TypeOK
<1>4. code \in Code /\ (c.vpn \in c.since => code = 409)
  BY <1>1 DEF Code, Known
<1> HIDE DEF code
<1>5. /\ Answered(c, code) \in Call /\ Sound(Answered(c, code))
      /\ Answered(c, code).since = c.since
  BY <1>1, <1>2, <1>4, AnswerIsSound, Answers
<1>6. CallsSound(call', Range(ids'))
  BY <1>1, <1>3, <1>5, OneMoves
<1> QED BY <1>1, <1>6 DEF IInv, TypeOK, CallsSound

LEMMA WorldKeeps ==
    ASSUME IInv, NEW v \in Vpn, World(v)
    PROVE  IInv'
<1>1. UNCHANGED <<ids, creds, call>> /\ row[v] # "absent"
  BY DEF World
<1>2. PICK s \in Rest : row' = [row EXCEPT ![v] = s]
  BY DEF World
<1>3. s # "absent"
  BY DEF Rest
<1>4. row' \in [Vpn -> Rest \union {"busy", "absent"}]
      /\ \A u \in Vpn : row'[u] # "absent" <=> u \in Range(ids)
  BY <1>1, <1>2, <1>3 DEF IInv, TypeOK
<1> QED BY <1>1, <1>4 DEF IInv, TypeOK

LEMMA StepIInv == IInv /\ [Next]_vars => IInv'
<1> SUFFICES ASSUME IInv, [Next]_vars PROVE IInv'
  OBVIOUS
<1>1. ASSUME NEW r \in Request, Arrive(r) PROVE IInv'
  BY <1>1, ArriveKeeps
<1>2. ASSUME NEW r \in Request, Runs(r) PROVE IInv'
  BY <1>2, LoopStepKeeps, DescribeKeeps, ActKeeps, CreateKeeps, EditKeeps, DeleteKeeps,
     RefusedKeeps DEF Runs
<1>3. ASSUME NEW v \in Vpn, World(v) PROVE IInv'
  BY <1>3, WorldKeeps
<1>4. CASE UNCHANGED vars
  BY <1>4 DEF vars, IInv, TypeOK
<1> QED BY <1>1, <1>2, <1>3, <1>4 DEF Next

-----------------------------------------------------------------------------
(* Theorems.                                                               *)

LEMMA Invariant == Spec => []IInv
BY InitIInv, StepIInv, PTL DEF Spec

\* The registry lists no id twice, and an id has a row exactly when it is
\* listed, whatever the requests and the workers do (registry.py:189-261,
\* tunnel.py:255-264).
THEOREM TypeCorrect == Spec => []TypeOK
<1>1. IInv => TypeOK
  BY DEF IInv
<1> QED BY <1>1, Invariant, PTL

\* However many threads create and delete VPNs meanwhile, list, connect_all
\* and disconnect_all report every VPN that is there during the whole call, and
\* none twice; one that fails had still to come to a VPN that was listed when it
\* began and was deleted under it (tunnel.py:227-251).
THEOREM LoopsComplete == Spec => []LoopsMissNothing
<1>1. IInv => LoopsMissNothing
  BY DEF IInv, LoopsMissNothing, At, Sound, LoopEnded, Loops
<1> QED BY <1>1, Invariant, PTL

\* Between the lookup without the lock and the work under it, a call about a
\* VPN that nobody deletes is never told that it is unknown, nor fails
\* (api/vpns.py, tunnel.py:183-226).
THEOREM StableIdsSafe == Spec => []StableIdsAreKnown
<1>1. IInv => StableIdsAreKnown
  BY DEF IInv, StableIdsAreKnown, At, Sound, AnswerKnows
<1> QED BY <1>1, Invariant, PTL
=============================================================================
