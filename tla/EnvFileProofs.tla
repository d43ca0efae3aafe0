--------------------------- MODULE EnvFileProofs ---------------------------
(***************************************************************************)
(* Proofs about EnvFile, for any number of VPNs, of variables and of lines *)
(* in the file.                                                            *)
(***************************************************************************)
EXTENDS EnvFile, SequenceTheorems, WellFoundedInduction, TLAPS

-----------------------------------------------------------------------------
(* Induction, for sets of numbers: what is not in the set has a least.     *)

Less == {p \in Nat \X Nat : p[1] < p[2]}

LEMMA LessIsWellFounded == IsWellFoundedOn(Less, Nat)
<1>1. OpToRel(<, Nat) = Less
  BY DEF OpToRel, Less
<1> QED BY <1>1, NatLessThanWellFounded

LEMMA LeastNumber ==
    ASSUME NEW S \in SUBSET Nat, S # {}
    PROVE  \E x \in S : \A y \in S : x <= y
<1>1. PICK x \in S : \A y \in S : ~(<<y, x>> \in Less)
  BY LessIsWellFounded, WFMin
<1>2. ASSUME NEW y \in S PROVE x <= y
  <2>1. y < x => <<y, x>> \in Less
    BY DEF Less
  <2> QED BY <1>1, <2>1
<1> QED BY <1>2

LEMMA Induction ==
    ASSUME NEW S \in SUBSET Nat, 0 \in S, \A n \in S : n + 1 \in S
    PROVE  \A n \in Nat : n \in S
<1> SUFFICES ASSUME Nat \ S # {} PROVE FALSE
  OBVIOUS
<1>1. PICK x \in Nat \ S : \A y \in Nat \ S : x <= y
  BY LeastNumber
<1>2. x # 0 /\ x - 1 \in Nat /\ x - 1 < x
  OBVIOUS
<1>3. x - 1 \in S
  BY <1>1, <1>2
<1>4. (x - 1) + 1 = x
  OBVIOUS
<1> QED BY <1>3, <1>4

LEMMA GreatestNumber ==
    ASSUME NEW n \in Nat, NEW S \in SUBSET (1 .. n), S # {}
    PROVE  \E x \in S : \A y \in S : y <= x
<1> DEFINE T == {n - x : x \in S}
<1>1. T \in SUBSET Nat /\ T # {}
  <2>1. \A x \in S : n - x \in Nat
    OBVIOUS
  <2> QED BY <2>1
<1>2. PICK d \in T : \A e \in T : d <= e
  BY <1>1, LeastNumber
<1>3. PICK x \in S : d = n - x
  OBVIOUS
<1>4. \A y \in S : d <= n - y
  BY <1>2
<1>5. \A y \in S : y <= x
  BY <1>3, <1>4
<1> QED BY <1>5

-----------------------------------------------------------------------------
(* Select.                                                                 *)

\* What the function in Select has to satisfy.
Selects(f, s, chosen) ==
    f = [i \in 0 .. Len(s) |->
            IF i = 0 THEN <<>>
            ELSE IF i \in chosen THEN Append(f[i - 1], s[i]) ELSE f[i - 1]]

LEMMA SelectorExists ==
    ASSUME NEW s, Len(s) \in Nat, NEW chosen
    PROVE  \E f : Selects(f, s, chosen)
<1> DEFINE Upto(f, m) ==
        f = [i \in 0 .. m |->
                IF i = 0 THEN <<>>
                ELSE IF i \in chosen THEN Append(f[i - 1], s[i]) ELSE f[i - 1]]
           M == {m \in Nat : \E f : Upto(f, m)}
<1>1. 0 \in M
  <2> DEFINE f == [i \in 0 .. 0 |-> <<>>]
  <2>1. Upto(f, 0)
    OBVIOUS
  <2> QED BY <2>1
<1>2. ASSUME NEW m \in M PROVE m + 1 \in M
  <2>1. PICK f : Upto(f, m)
    OBVIOUS
  <2> DEFINE g == [i \in 0 .. m + 1 |->
          IF i = m + 1
          THEN IF i \in chosen THEN Append(f[m], s[i]) ELSE f[m]
          ELSE f[i]]
  <2>2. ASSUME NEW i \in 0 .. m + 1
        PROVE  g[i] = IF i = 0 THEN <<>>
                      ELSE IF i \in chosen THEN Append(g[i - 1], s[i]) ELSE g[i - 1]
    <3>1. CASE i = m + 1
      <4>1. i - 1 = m /\ i # 0 /\ m \in 0 .. m + 1 /\ m # m + 1
        BY <3>1
      <4>2. g[i - 1] = f[m]
        BY <4>1
      <4> QED BY <3>1, <4>1, <4>2
    <3>2. CASE i # m + 1
      <4>1. i \in 0 .. m /\ g[i] = f[i]
        BY <3>2
      <4>2. i # 0 => g[i - 1] = f[i - 1]
        BY <4>1
      <4>3. f[i] = IF i = 0 THEN <<>>
                   ELSE IF i \in chosen THEN Append(f[i - 1], s[i]) ELSE f[i - 1]
        BY <2>1, <4>1
      <4> QED BY <4>1, <4>2, <4>3
    <3> QED BY <3>1, <3>2
  <2>3. Upto(g, m + 1)
    BY <2>2
  <2> HIDE DEF g, Upto
  <2> QED BY <2>3
<1> HIDE DEF M
<1>3. Len(s) \in M
  <2>1. M \in SUBSET Nat
    BY DEF M
  <2> QED BY <1>1, <1>2, <2>1, Induction
<1> QED BY <1>3 DEF M, Selects

LEMMA SelectDefined ==
    ASSUME NEW s, Len(s) \in Nat, NEW chosen
    PROVE  \E f : Selects(f, s, chosen) /\ Select(s, chosen) = f[Len(s)]
<1> DEFINE g == CHOOSE f : Selects(f, s, chosen)
<1>1. Selects(g, s, chosen)
  BY SelectorExists
<1>2. Select(s, chosen) = g[Len(s)]
  BY DEF Select, Selects
<1> HIDE DEF g
<1> QED BY <1>1, <1>2

\* h lists a set of numbers upwards.
Enumerates(h, p, I) ==
    /\ p \in Nat /\ h \in [1 .. p -> I]
    /\ \A j, k \in 1 .. p : j < k => h[j] < h[k]
    /\ \A i \in I : \E k \in 1 .. p : h[k] = i

\* r is what is left of s at the indices I.
Lists(r, h, s, I) ==
    /\ Enumerates(h, Len(r), I)
    /\ \A k \in 1 .. Len(r) : r[k] = s[h[k]]

LEMMA SelectFacts ==
    ASSUME NEW T, NEW s \in Seq(T), NEW chosen
    PROVE  /\ Select(s, chosen) \in Seq(T)
           /\ \E h : Lists(Select(s, chosen), h, s, chosen \intersect (1 .. Len(s)))
<1>1. Len(s) \in Nat /\ \A i \in 1 .. Len(s) : s[i] \in T
  OBVIOUS
<1>2. PICK f : Selects(f, s, chosen) /\ Select(s, chosen) = f[Len(s)]
  BY <1>1, SelectDefined
<1> DEFINE Good(m) == /\ f[m] \in Seq(T)
                      /\ \E h : Lists(f[m], h, s, chosen \intersect (1 .. m))
           M == {m \in Nat : m <= Len(s) => Good(m)}
<1>3. 0 \in M
  <2>1. f[0] = <<>>
    BY <1>1, <1>2 DEF Selects
  <2>2. Lists(<<>>, <<>>, s, chosen \intersect (1 .. 0))
    BY DEF Lists, Enumerates
  <2>3. <<>> \in Seq(T)
    OBVIOUS
  <2> HIDE DEF Lists
  <2> QED BY <2>1, <2>2, <2>3
<1>4. ASSUME NEW m \in M PROVE m + 1 \in M
  <2> SUFFICES ASSUME m + 1 <= Len(s) PROVE Good(m + 1)
    <3> HIDE DEF Good
    <3> QED OBVIOUS
  <2>1. m \in Nat /\ m <= Len(s) /\ m + 1 \in 1 .. Len(s)
    BY <1>1
  <2>2. Good(m)
    <3> HIDE DEF Good
    <3> QED BY <2>1
  <2>3. PICK h : Lists(f[m], h, s, chosen \intersect (1 .. m))
    BY <2>2
  <2>4. f[m + 1] = IF m + 1 \in chosen THEN Append(f[m], s[m + 1]) ELSE f[m]
    <3>1. m + 1 \in 0 .. Len(s) /\ m + 1 # 0 /\ (m + 1) - 1 = m
      BY <1>1, <2>1
    <3> QED BY <1>2, <3>1 DEF Selects
  <2>5. CASE m + 1 \notin chosen
    <3>1. chosen \intersect (1 .. m + 1) = chosen \intersect (1 .. m)
      BY <2>1, <2>5
    <3> QED BY <2>2, <2>3, <2>4, <2>5, <3>1
  <2>6. CASE m + 1 \in chosen
    <3> DEFINE r == Append(f[m], s[m + 1])
               p == Len(f[m])
               g == [k \in 1 .. p + 1 |-> IF k = p + 1 THEN m + 1 ELSE h[k]]
               I == chosen \intersect (1 .. m)
               J == chosen \intersect (1 .. m + 1)
    <3>1. r \in Seq(T) /\ Len(r) = p + 1 /\ p \in Nat /\ r[p + 1] = s[m + 1]
          /\ \A k \in 1 .. p : r[k] = f[m][k]
      BY <1>1, <2>1, <2>2, AppendProperties
    <3>2. /\ h \in [1 .. p -> I]
          /\ \A j, k \in 1 .. p : j < k => h[j] < h[k]
          /\ \A i \in I : \E k \in 1 .. p : h[k] = i
          /\ \A k \in 1 .. p : f[m][k] = s[h[k]]
      BY <2>3 DEF Lists, Enumerates
    <3>3. J = I \union {m + 1} /\ \A i \in I : i \in Nat /\ i < m + 1
      BY <2>1, <2>6
    <3> HIDE DEF r, p, I, J
    <3>4. \A k \in 1 .. p + 1 : k = p + 1 \/ k \in 1 .. p
      BY <3>1
    <3>5. g[p + 1] = m + 1 /\ \A k \in 1 .. p : g[k] = h[k]
      BY <3>1
    <3>6. g \in [1 .. p + 1 -> J]
      BY <3>1, <3>2, <3>3, <3>4
    <3> HIDE DEF g
    <3>7. ASSUME NEW j \in 1 .. p + 1, NEW k \in 1 .. p + 1, j < k PROVE g[j] < g[k]
      <4>1. j \in 1 .. p
        BY <3>1, <3>7
      <4>2. CASE k \in 1 .. p
        BY <3>2, <3>5, <3>7, <4>1, <4>2
      <4>3. CASE k = p + 1
        BY <3>2, <3>3, <3>5, <4>1, <4>3
      <4> QED BY <3>4, <4>2, <4>3
    <3>8. ASSUME NEW i \in J PROVE \E k \in 1 .. p + 1 : g[k] = i
      <4>1. CASE i = m + 1
        BY <3>1, <3>5, <4>1
      <4>2. CASE i \in I
        <5>1. PICK k \in 1 .. p : h[k] = i
          BY <3>2, <4>2
        <5>2. k \in 1 .. p + 1 /\ g[k] = i
          BY <3>1, <3>5, <5>1
        <5> QED BY <5>2
      <4> QED BY <3>3, <4>1, <4>2
    <3>9. \A k \in 1 .. p + 1 : r[k] = s[g[k]]
      BY <3>1, <3>2, <3>4, <3>5
    <3>10. Lists(r, g, s, J)
      BY <3>1, <3>6, <3>7, <3>8, <3>9 DEF Lists, Enumerates
    <3>11. f[m + 1] = r
      BY <2>4, <2>6 DEF r
    <3> QED BY <3>1, <3>10, <3>11 DEF J
  <2> QED BY <2>5, <2>6
<1>5. Len(s) \in M
  <2>1. M \in SUBSET Nat
    OBVIOUS
  <2> HIDE DEF M
  <2> QED BY <1>1, <1>3, <1>4, <2>1, Induction
<1>6. Good(Len(s))
  <2> HIDE DEF Good
  <2> QED BY <1>1, <1>5
<1> QED BY <1>2, <1>6

\* A set of numbers is listed in one way only.
LEMMA OneEnumeration ==
    ASSUME NEW I \in SUBSET Nat, NEW g, NEW h, NEW p, NEW q,
           Enumerates(g, p, I), Enumerates(h, q, I)
    PROVE  p = q /\ \A k \in 1 .. p : g[k] = h[k]
<1>1. /\ p \in Nat /\ q \in Nat /\ g \in [1 .. p -> I] /\ h \in [1 .. q -> I]
      /\ \A j, k \in 1 .. p : j < k => g[j] < g[k]
      /\ \A j, k \in 1 .. q : j < k => h[j] < h[k]
      /\ \A i \in I : \E k \in 1 .. p : g[k] = i
      /\ \A i \in I : \E k \in 1 .. q : h[k] = i
  BY DEF Enumerates
<1> DEFINE D == {k \in 1 .. p : k \in 1 .. q => g[k] # h[k]}
<1>2. ASSUME NEW k \in 1 .. p, k \in 1 .. q, \A j \in 1 .. k - 1 : g[j] = h[j]
      PROVE  g[k] = h[k]
  <2>1. g[k] \in I /\ h[k] \in I /\ g[k] \in Nat /\ h[k] \in Nat
    BY <1>1, <1>2
  <2>2. PICK i \in 1 .. q : h[i] = g[k]
    BY <1>1, <2>1
  <2>3. PICK j \in 1 .. p : g[j] = h[k]
    BY <1>1, <2>1
  <2>4. ~(i < k)
    <3> SUFFICES ASSUME i < k PROVE FALSE
      OBVIOUS
    <3>1. i \in 1 .. k - 1 /\ i \in 1 .. p
      BY <1>1
    <3>2. g[i] = g[k] /\ g[i] < g[k]
      BY <1>1, <1>2, <2>2, <3>1
    <3> QED BY <2>1, <3>2
  <2>5. ~(j < k)
    <3> SUFFICES ASSUME j < k PROVE FALSE
      OBVIOUS
    <3>1. j \in 1 .. k - 1 /\ j \in 1 .. q
      BY <1>1, <1>2
    <3>2. h[j] = h[k] /\ h[j] < h[k]
      BY <1>1, <1>2, <2>3, <3>1
    <3> QED BY <2>1, <3>2
  <2>6. i = k \/ h[k] < h[i]
    BY <1>1, <1>2, <2>4
  <2>7. j = k \/ g[k] < g[j]
    BY <1>1, <2>5
  <2> QED BY <2>1, <2>2, <2>3, <2>6, <2>7
<1> DEFINE N == {n \in Nat : \A k \in 1 .. n : k \in 1 .. p /\ k \in 1 .. q => g[k] = h[k]}
<1>3. \A n \in Nat : n \in N
  <2>1. 0 \in N
    OBVIOUS
  <2>2. ASSUME NEW n \in N PROVE n + 1 \in N
    <3> SUFFICES ASSUME NEW k \in 1 .. n + 1, k \in 1 .. p, k \in 1 .. q PROVE g[k] = h[k]
      OBVIOUS
    <3>1. CASE k \in 1 .. n
      BY <3>1
    <3>2. CASE k = n + 1
      <4>1. \A j \in 1 .. k - 1 : j \in 1 .. n /\ j \in 1 .. p /\ j \in 1 .. q
        BY <1>1, <3>2
      <4>2. \A j \in 1 .. k - 1 : g[j] = h[j]
        BY <4>1
      <4> QED BY <1>2, <4>2
    <3> QED BY <3>1, <3>2
  <2>3. N \in SUBSET Nat
    OBVIOUS
  <2> HIDE DEF N
  <2> QED BY <2>1, <2>2, <2>3, Induction
<1>4. \A k \in 1 .. p : k \in 1 .. q => g[k] = h[k]
  <2> SUFFICES ASSUME NEW k \in 1 .. p, k \in 1 .. q PROVE g[k] = h[k]
    OBVIOUS
  <2>1. p \in N
    BY <1>1, <1>3
  <2> HIDE DEF N
  <2> QED BY <2>1 DEF N
<1>5. ~(p < q)
  <2> SUFFICES ASSUME p < q PROVE FALSE
    OBVIOUS
  <2>1. q \in 1 .. q /\ h[q] \in I
    BY <1>1
  <2>2. PICK k \in 1 .. p : g[k] = h[q]
    BY <1>1, <2>1
  <2>3. k \in 1 .. q /\ k < q /\ h[k] < h[q]
    BY <1>1, <2>1
  <2>4. h[k] = h[q] /\ h[q] \in Nat
    BY <1>4, <2>1, <2>2, <2>3
  <2> QED BY <2>3, <2>4
<1>6. ~(q < p)
  <2> SUFFICES ASSUME q < p PROVE FALSE
    OBVIOUS
  <2>1. p \in 1 .. p /\ g[p] \in I
    BY <1>1
  <2>2. PICK k \in 1 .. q : h[k] = g[p]
    BY <1>1, <2>1
  <2>3. k \in 1 .. p /\ k < p /\ g[k] < g[p]
    BY <1>1, <2>1
  <2>4. g[k] = g[p] /\ g[p] \in Nat
    BY <1>4, <2>1, <2>2, <2>3
  <2> QED BY <2>3, <2>4
<1>7. p = q
  BY <1>1, <1>5, <1>6
<1> QED BY <1>4, <1>7

-----------------------------------------------------------------------------
(* FlattenSeq and Splitlines.                                              *)

\* What the function in FlattenSeq has to satisfy.
Flattens(f, s) ==
    f = [i \in 1 .. Len(s) |-> IF i = 1 THEN s[i] ELSE f[i - 1] \o s[i]]

LEMMA FlattenerExists ==
    ASSUME NEW s, Len(s) \in Nat
    PROVE  \E f : Flattens(f, s)
<1> DEFINE Upto(f, m) == f = [i \in 1 .. m |-> IF i = 1 THEN s[i] ELSE f[i - 1] \o s[i]]
           M == {m \in Nat : \E f : Upto(f, m)}
<1>1. 0 \in M
  <2> DEFINE f == [i \in 1 .. 0 |-> s[i]]
  <2>1. Upto(f, 0)
    OBVIOUS
  <2> QED BY <2>1
<1>2. ASSUME NEW m \in M PROVE m + 1 \in M
  <2>1. PICK f : Upto(f, m)
    OBVIOUS
  <2> DEFINE g == [i \in 1 .. m + 1 |->
          IF i = m + 1 THEN IF i = 1 THEN s[i] ELSE f[m] \o s[i] ELSE f[i]]
  <2>2. ASSUME NEW i \in 1 .. m + 1
        PROVE  g[i] = IF i = 1 THEN s[i] ELSE g[i - 1] \o s[i]
    <3>1. CASE i = m + 1
      <4>1. CASE i = 1
        BY <3>1, <4>1
      <4>2. CASE i # 1
        <5>1. i - 1 = m /\ m \in 1 .. m + 1 /\ m # m + 1
          BY <3>1, <4>2
        <5>2. g[i - 1] = f[m]
          BY <5>1
        <5> QED BY <3>1, <4>2, <5>2
      <4> QED BY <4>1, <4>2
    <3>2. CASE i # m + 1
      <4>1. i \in 1 .. m /\ g[i] = f[i]
        BY <3>2
      <4>2. i # 1 => g[i - 1] = f[i - 1]
        BY <4>1
      <4>3. f[i] = IF i = 1 THEN s[i] ELSE f[i - 1] \o s[i]
        BY <2>1, <4>1
      <4> QED BY <4>1, <4>2, <4>3
    <3> QED BY <3>1, <3>2
  <2>3. Upto(g, m + 1)
    BY <2>2
  <2> HIDE DEF g, Upto
  <2> QED BY <2>3
<1> HIDE DEF M
<1>3. Len(s) \in M
  <2>1. M \in SUBSET Nat
    BY DEF M
  <2> QED BY <1>1, <1>2, <2>1, Induction
<1> QED BY <1>3 DEF M, Flattens

LEMMA FlattenDefined ==
    ASSUME NEW s, Len(s) \in Nat, Len(s) # 0
    PROVE  \E f : Flattens(f, s) /\ FlattenSeq(s) = f[Len(s)]
<1> DEFINE g == CHOOSE f : Flattens(f, s)
<1>1. Flattens(g, s)
  BY FlattenerExists
<1>2. FlattenSeq(s) = g[Len(s)]
  BY DEF FlattenSeq, Flattens
<1> HIDE DEF g
<1> QED BY <1>1, <1>2

LEMMA FlattenType ==
    ASSUME NEW T, NEW s \in Seq(Seq(T))
    PROVE  FlattenSeq(s) \in Seq(T)
<1>1. Len(s) \in Nat /\ \A i \in 1 .. Len(s) : s[i] \in Seq(T)
  OBVIOUS
<1>2. CASE Len(s) = 0
  <2>1. s = <<>>
    BY <1>2
  <2> QED BY <1>2, <2>1 DEF FlattenSeq
<1>3. CASE Len(s) # 0
  <2>1. PICK f : Flattens(f, s) /\ FlattenSeq(s) = f[Len(s)]
    BY <1>1, <1>3, FlattenDefined
  <2> DEFINE M == {m \in Nat : m \in 1 .. Len(s) => f[m] \in Seq(T)}
  <2>2. 0 \in M
    OBVIOUS
  <2>3. ASSUME NEW m \in M PROVE m + 1 \in M
    <3> SUFFICES ASSUME m + 1 \in 1 .. Len(s) PROVE f[m + 1] \in Seq(T)
      OBVIOUS
    <3>1. f[m + 1] = IF m + 1 = 1 THEN s[m + 1] ELSE f[(m + 1) - 1] \o s[m + 1]
      BY <2>1 DEF Flattens
    <3>2. CASE m = 0
      BY <1>1, <3>1, <3>2
    <3>3. CASE m # 0
      <4>1. m \in 1 .. Len(s) /\ (m + 1) - 1 = m /\ m + 1 # 1
        BY <1>1, <3>3
      <4>2. f[m] \in Seq(T) /\ s[m + 1] \in Seq(T)
        BY <1>1, <4>1
      <4>3. f[m + 1] = f[m] \o s[m + 1]
        BY <3>1, <4>1
      <4> QED BY <4>2, <4>3, ConcatProperties
    <3> QED BY <3>2, <3>3
  <2>4. M \in SUBSET Nat
    OBVIOUS
  <2>5. Len(s) \in M
    <3> HIDE DEF M
    <3> QED BY <1>1, <2>2, <2>3, <2>4, Induction
  <2> QED BY <1>1, <1>3, <2>1, <2>5
<1> QED BY <1>2, <1>3

LEMMA FlattenSingles ==
    ASSUME NEW T, NEW t \in Seq(T), NEW s \in Seq(Seq(T)), Len(s) = Len(t),
           \A i \in 1 .. Len(t) : s[i] = <<t[i]>>
    PROVE  FlattenSeq(s) = t
<1>1. Len(t) \in Nat /\ \A i \in 1 .. Len(t) : t[i] \in T
  OBVIOUS
<1>2. CASE Len(t) = 0
  <2>1. s = <<>> /\ t = <<>>
    BY <1>2
  <2> QED BY <1>2, <2>1 DEF FlattenSeq
<1>3. CASE Len(t) # 0
  <2>1. PICK f : Flattens(f, s) /\ FlattenSeq(s) = f[Len(s)]
    BY <1>1, <1>3, FlattenDefined
  <2> DEFINE Good(m) == /\ f[m] \in Seq(T) /\ Len(f[m]) = m
                        /\ \A k \in 1 .. m : f[m][k] = t[k]
             M == {m \in Nat : m \in 1 .. Len(t) => Good(m)}
  <2>2. 0 \in M
    OBVIOUS
  <2>3. ASSUME NEW m \in M PROVE m + 1 \in M
    <3> SUFFICES ASSUME m + 1 \in 1 .. Len(t) PROVE Good(m + 1)
      <4> HIDE DEF Good
      <4> QED OBVIOUS
    <3>1. f[m + 1] = IF m + 1 = 1 THEN s[m + 1] ELSE f[(m + 1) - 1] \o s[m + 1]
      BY <2>1 DEF Flattens
    <3>2. s[m + 1] = <<t[m + 1]>> /\ t[m + 1] \in T
      BY <1>1
    <3>3. CASE m = 0
      <4>1. f[1] = <<t[1]>> /\ t[1] \in T
        BY <3>1, <3>2, <3>3
      <4>2. Good(1)
        BY <4>1
      <4> HIDE DEF Good
      <4> QED BY <3>3, <4>2
    <3>4. CASE m # 0
      <4>1. m \in 1 .. Len(t) /\ (m + 1) - 1 = m /\ m + 1 # 1
        BY <1>1, <3>4
      <4>2. Good(m)
        <5> HIDE DEF Good
        <5> QED BY <4>1
      <4>3. f[m + 1] = f[m] \o <<t[m + 1]>>
        BY <3>1, <3>2, <4>1
      <4>4. f[m + 1] = Append(f[m], t[m + 1])
        BY <3>2, <4>2, <4>3, AppendIsConcat
      <4>5. /\ f[m + 1] \in Seq(T) /\ Len(f[m + 1]) = m + 1 /\ f[m + 1][m + 1] = t[m + 1]
            /\ \A k \in 1 .. m : f[m + 1][k] = f[m][k]
        BY <3>2, <4>2, <4>4, AppendProperties
      <4>6. \A k \in 1 .. m + 1 : k = m + 1 \/ k \in 1 .. m
        BY <4>1
      <4> QED BY <4>2, <4>5, <4>6
    <3> QED BY <3>3, <3>4
  <2>4. M \in SUBSET Nat
    OBVIOUS
  <2>5. Len(t) \in M
    <3> HIDE DEF M
    <3> QED BY <1>1, <2>2, <2>3, <2>4, Induction
  <2>6. Good(Len(t))
    <3> HIDE DEF Good
    <3> QED BY <1>1, <1>3, <2>5
  <2> QED BY <1>1, <2>1, <2>6, SeqEqual
<1> QED BY <1>2, <1>3

LEMMA ValueFacts ==
    /\ \A x \in Value : x \in Seq(Part) /\ Len(x) \in 0 .. MaxParts
    /\ Empty \in Value
    /\ \A a \in Part : <<a>> \in Value
<1>1. ASSUME NEW x \in Value PROVE x \in Seq(Part) /\ Len(x) \in 0 .. MaxParts
  <2>1. PICK m \in 0 .. MaxParts : x \in [1 .. m -> Part]
    BY DEF Value, BoundedSeq, SeqOf
  <2>2. m \in Nat
    BY BoundsAssumption
  <2> QED BY <2>1, <2>2
<1>2. <<>> \in [1 .. 0 -> Part] /\ 0 \in 0 .. MaxParts
  BY BoundsAssumption
<1>3. Empty \in Value
  BY <1>2 DEF Value, BoundedSeq, SeqOf, Empty
<1>4. ASSUME NEW a \in Part PROVE <<a>> \in Value
  <2>1. <<a>> \in [1 .. 1 -> Part] /\ 1 \in 0 .. MaxParts
    BY BoundsAssumption
  <2> QED BY <2>1 DEF Value, BoundedSeq, SeqOf
<1> QED BY <1>1, <1>3, <1>4

LEMMA SplitFacts ==
    ASSUME NEW l \in Line
    PROVE  /\ Split(l) \in Seq(Line)
           /\ MaxParts = 1 => Split(l) = <<l>>
<1> DEFINE n == Len(l.value)
           m == Max({1, n})
           part(i) == [name  |-> IF i = 1 THEN l.name ELSE None,
                       value |-> IF l.value = Empty THEN Empty ELSE <<l.value[i]>>]
<1>1. /\ l.name \in Name \union {None} /\ l.value \in Value /\ l.value \in Seq(Part)
      /\ n \in 0 .. MaxParts /\ n \in Nat /\ MaxParts \in Nat
      /\ l = [name |-> l.name, value |-> l.value]
  BY ValueFacts, BoundsAssumption DEF Line
<1>2. m = IF n > 1 THEN n ELSE 1
  <2>1. \E x \in {1, n} : \A y \in {1, n} : x >= y
    BY <1>1
  <2>2. m \in {1, n} /\ m >= 1 /\ m >= n
    BY <2>1 DEF Max
  <2> QED BY <1>1, <2>2
<1>3. l.value # Empty => n >= 1
  BY <1>1 DEF Empty
<1>4. Split(l) = [i \in 1 .. m |-> part(i)]
  BY DEF Split
<1> HIDE DEF m, n
<1>5. ASSUME NEW i \in 1 .. m PROVE part(i) \in Line
  <2>1. l.value = Empty \/ (i \in 1 .. n /\ l.value[i] \in Part)
    BY <1>1, <1>2, <1>3 DEF n
  <2> QED BY <1>1, <2>1, ValueFacts DEF Line
<1>6. m \in Nat
  BY <1>1, <1>2
<1>7. Split(l) \in Seq(Line)
  <2> HIDE DEF part
  <2>1. [i \in 1 .. m |-> part(i)] \in [1 .. m -> Line]
    BY <1>5
  <2> QED BY <1>4, <1>6, <2>1
<1>8. ASSUME MaxParts = 1 PROVE Split(l) = <<l>>
  <2>1. m = 1
    BY <1>1, <1>2, <1>8
  <2>2. part(1) = l
    <3>1. CASE l.value = Empty
      BY <1>1, <3>1
    <3>2. CASE l.value # Empty
      <4>1. n = 1
        BY <1>1, <1>3, <1>8, <3>2
      <4>2. l.value = <<l.value[1]>>
        BY <1>1, <4>1 DEF n
      <4> QED BY <1>1, <3>2, <4>2
    <3> QED BY <3>1, <3>2
  <2> HIDE DEF part
  <2>3. [i \in 1 .. 1 |-> part(i)] = <<part(1)>>
    OBVIOUS
  <2> QED BY <1>4, <2>1, <2>2, <2>3
<1> QED BY <1>7, <1>8

\* Without parts to fall into, a file is its lines.
LEMMA SplitlinesFacts ==
    ASSUME NEW t \in Seq(Line)
    PROVE  /\ Splitlines(t) \in Seq(Line)
           /\ MaxParts = 1 => Splitlines(t) = t
<1> DEFINE s == [i \in DOMAIN t |-> Split(t[i])]
<1>1. Len(t) \in Nat /\ DOMAIN t = 1 .. Len(t) /\ \A i \in 1 .. Len(t) : t[i] \in Line
  OBVIOUS
<1>2. s \in Seq(Seq(Line)) /\ Len(s) = Len(t) /\ \A i \in 1 .. Len(t) : s[i] = Split(t[i])
  <2>1. s \in [1 .. Len(t) -> Seq(Line)]
    BY <1>1, SplitFacts
  <2> QED BY <1>1, <2>1
<1>3. Splitlines(t) = FlattenSeq(s)
  BY DEF Splitlines
<1> HIDE DEF s
<1>4. ASSUME MaxParts = 1 PROVE FlattenSeq(s) = t
  BY <1>1, <1>2, <1>4, SplitFacts, FlattenSingles
<1> QED BY <1>2, <1>3, <1>4, FlattenType

-----------------------------------------------------------------------------
(* Apply.                                                                  *)

\* The first m lines of out are lines of t, listed by h, with their new values;
\* lines that are not to be changed are among them.  What follows are further
\* assignments of values, and each value that is to be there is there.
Rewritten(out, t, values, h, m) ==
    /\ out \in Seq(Line) /\ m \in 0 .. Len(out)
    /\ h \in [1 .. m -> 1 .. Len(t)]
    /\ \A j, k \in 1 .. m : j < k => h[j] < h[k]
    /\ \A k \in 1 .. m : /\ out[k] = Updated(t[h[k]], values)
                         /\ t[h[k]].name \in DOMAIN values => values[t[h[k]].name] # None
    /\ \A i \in 1 .. Len(t) : t[i].name \notin DOMAIN values => \E k \in 1 .. m : h[k] = i
    /\ \A k \in m + 1 .. Len(out) : /\ out[k].name \in DOMAIN values
                                    /\ values[out[k].name] # None
                                    /\ out[k].value = values[out[k].name]
    /\ \A n \in DOMAIN values : values[n] # None => \E k \in 1 .. Len(out) : out[k].name = n

LEMMA UpdatedFacts ==
    ASSUME NEW ns \in SUBSET Name, NEW values \in [ns -> Value \union {None}], NEW l \in Line
    PROVE  /\ Updated(l, values) \in [name : Name \union {None}, value : Value \union {None}]
           /\ (l.name \in ns => values[l.name] # None) => Updated(l, values) \in Line
           /\ Updated(l, values).name = l.name
           /\ l.name \in ns => Updated(l, values).value = values[l.name]
           /\ l.name \notin ns => Updated(l, values) = l
<1>1. l.name \in Name \union {None} /\ l.value \in Value
  BY DEF Line
<1>2. CASE l.name \in ns
  <2>1. Updated(l, values) = [l EXCEPT !.value = values[l.name]]
    BY <1>2 DEF Updated
  <2> QED BY <1>1, <1>2, <2>1 DEF Line
<1>3. CASE l.name \notin ns
  <2>1. Updated(l, values) = l
    BY <1>3 DEF Updated
  <2> QED BY <1>1, <1>3, <2>1 DEF Line
<1> QED BY <1>2, <1>3

LEMMA ApplyFacts ==
    ASSUME NEW t \in Seq(Line), NEW ns \in SUBSET Name, NEW order \in Seq(Name),
           NEW values \in [ns -> Value \union {None}], ns \subseteq Range(order)
    PROVE  \E h, m : Rewritten(Apply(t, values, order), Splitlines(t), values, h, m)
<1> DEFINE lines == Splitlines(t)
           First(i) == \A j \in 1 .. i - 1 : lines[j].name # lines[i].name
           kept == {i \in DOMAIN lines : lines[i].name \in DOMAIN values
                                             => values[lines[i].name] # None /\ First(i)}
           now == [i \in DOMAIN lines |-> Updated(lines[i], values)]
           a == Select(now, kept)
           D == {i \in DOMAIN order : /\ order[i] \in DOMAIN values /\ values[order[i]] # None
                                      /\ \A l \in Range(lines) : l.name # order[i]}
           u == Select(order, D)
           b == Assignments(u, values)
           Loose == [name : Name \union {None}, value : Value \union {None}]
<1>1. /\ lines \in Seq(Line) /\ Len(lines) \in Nat /\ DOMAIN lines = 1 .. Len(lines)
      /\ \A i \in 1 .. Len(lines) : lines[i] \in Line
      /\ DOMAIN order = 1 .. Len(order) /\ Len(order) \in Nat
      /\ DOMAIN values = ns
  BY SplitlinesFacts
<1>2. Apply(t, values, order) = a \o b
  BY DEF Apply, Unwritten
<1> HIDE DEF lines
<1>3. /\ now \in Seq(Loose) /\ Len(now) = Len(lines)
      /\ \A i \in 1 .. Len(lines) : now[i] = Updated(lines[i], values)
  <2>1. now \in [1 .. Len(lines) -> Loose]
    BY <1>1, UpdatedFacts
  <2> QED BY <1>1, <2>1
<1> HIDE DEF Loose, now
<1>4. PICK h : Lists(a, h, now, kept \intersect (1 .. Len(now))) /\ a \in Seq(Loose)
  BY <1>3, SelectFacts
<1> DEFINE m == Len(a)
<1>5. /\ m \in Nat /\ h \in [1 .. m -> 1 .. Len(lines)]
      /\ \A j, k \in 1 .. m : j < k => h[j] < h[k]
      /\ \A k \in 1 .. m : h[k] \in kept /\ a[k] = Updated(lines[h[k]], values)
      /\ \A i \in kept : \E k \in 1 .. m : h[k] = i
  <2> HIDE DEF kept
  <2>1. /\ m \in Nat /\ h \in [1 .. m -> kept \intersect (1 .. Len(lines))]
        /\ \A j, k \in 1 .. m : j < k => h[j] < h[k]
        /\ \A i \in kept \intersect (1 .. Len(lines)) : \E k \in 1 .. m : h[k] = i
        /\ \A k \in 1 .. m : a[k] = now[h[k]]
    BY <1>3, <1>4 DEF Lists, Enumerates
  <2>2. kept \subseteq 1 .. Len(lines)
    BY <1>1 DEF kept
  <2> QED BY <1>3, <2>1, <2>2
<1>6. PICK g : Lists(u, g, order, D \intersect (1 .. Len(order))) /\ u \in Seq(Name)
  BY SelectFacts
<1>7. /\ Len(u) \in Nat /\ DOMAIN u = 1 .. Len(u)
      /\ \A k \in 1 .. Len(u) : g[k] \in D /\ u[k] = order[g[k]]
      /\ \A i \in D : \E k \in 1 .. Len(u) : g[k] = i
  <2> HIDE DEF D
  <2>1. /\ Len(u) \in Nat /\ g \in [1 .. Len(u) -> D \intersect (1 .. Len(order))]
        /\ \A i \in D \intersect (1 .. Len(order)) : \E k \in 1 .. Len(u) : g[k] = i
        /\ \A k \in 1 .. Len(u) : u[k] = order[g[k]]
    BY <1>6 DEF Lists, Enumerates
  <2>2. D \subseteq 1 .. Len(order)
    BY <1>1 DEF D
  <2>3. DOMAIN u = 1 .. Len(u)
    BY <1>6
  <2> QED BY <2>1, <2>2, <2>3
<1>8. \A k \in 1 .. Len(u) : /\ u[k] \in ns /\ values[u[k]] # None
                             /\ \A l \in Range(lines) : l.name # u[k]
  BY <1>1, <1>7
<1>9. /\ b \in Seq(Line) /\ Len(b) = Len(u)
      /\ \A k \in 1 .. Len(u) : b[k].name = u[k] /\ b[k].value = values[u[k]]
  <2> HIDE DEF u, D
  <2>1. b = [k \in 1 .. Len(u) |-> [name |-> u[k], value |-> values[u[k]]]]
    BY <1>7 DEF Assignments
  <2>2. \A k \in 1 .. Len(u) : [name |-> u[k], value |-> values[u[k]]] \in Line
    BY <1>8 DEF Line
  <2> HIDE DEF b
  <2>3. b \in [1 .. Len(u) -> Line]
    BY <2>1, <2>2
  <2>4. b \in Seq(Line) /\ Len(b) = Len(u)
    <3>1. Len(u) \in Nat
      BY <1>7
    <3> QED BY <2>3, <3>1
  <2> QED BY <2>1, <2>4
<1>10. a \in Seq(Line)
  <2>1. ASSUME NEW k \in 1 .. m PROVE a[k] \in Line
    <3>1. h[k] \in 1 .. Len(lines) /\ h[k] \in kept /\ a[k] = Updated(lines[h[k]], values)
      BY <1>5
    <3>2. lines[h[k]].name \in ns => values[lines[h[k]].name] # None
      BY <1>1, <3>1
    <3> HIDE DEF a, kept
    <3>3. lines[h[k]] \in Line
      BY <1>1, <3>1
    <3>4. Updated(lines[h[k]], values) \in Line
      BY <3>2, <3>3, UpdatedFacts
    <3> QED BY <3>1, <3>4
  <2> HIDE DEF a
  <2>2. DOMAIN a = 1 .. m /\ a = [k \in DOMAIN a |-> a[k]]
    BY <1>4
  <2>3. a \in [1 .. m -> Line]
    BY <2>1, <2>2
  <2> QED BY <1>5, <2>3
<1> DEFINE out == a \o b
<1> HIDE DEF a, b, u
<1>11. /\ out \in Seq(Line) /\ Len(out) = m + Len(u) /\ m \in 0 .. Len(out)
       /\ \A k \in 1 .. m : out[k] = a[k]
       /\ \A k \in m + 1 .. Len(out) : k - m \in 1 .. Len(u) /\ out[k] = b[k - m]
       /\ \A k \in 1 .. Len(u) : m + k \in 1 .. Len(out) /\ out[m + k] = b[k]
  <2>1. /\ out \in Seq(Line) /\ Len(out) = m + Len(b)
        /\ \A k \in 1 .. m + Len(b) : out[k] = IF k <= m THEN a[k] ELSE b[k - m]
    <3>1. a \in Seq(Line) /\ b \in Seq(Line)
      BY <1>9, <1>10
    <3> QED BY <3>1, ConcatProperties
  <2> HIDE DEF out
  <2>2. ASSUME NEW k \in 1 .. m PROVE out[k] = a[k]
    BY <1>5, <1>7, <1>9, <2>1
  <2>3. ASSUME NEW k \in m + 1 .. Len(out)
        PROVE  k - m \in 1 .. Len(u) /\ out[k] = b[k - m]
    BY <1>5, <1>7, <1>9, <2>1
  <2>4. ASSUME NEW k \in 1 .. Len(u) PROVE m + k \in 1 .. Len(out) /\ out[m + k] = b[k]
    <3>1. m + k \in 1 .. m + Len(b) /\ ~(m + k <= m) /\ (m + k) - m = k
      BY <1>5, <1>7, <1>9
    <3> QED BY <2>1, <3>1
  <2>5. m \in 0 .. Len(out)
    BY <1>5, <1>7, <1>9, <2>1
  <2> QED BY <1>9, <2>1, <2>2, <2>3, <2>4, <2>5
<1> HIDE DEF out, m
<1>12. \A k \in 1 .. m : /\ out[k] = Updated(lines[h[k]], values)
                         /\ lines[h[k]].name \in DOMAIN values
                                => values[lines[h[k]].name] # None
  BY <1>5, <1>11
<1>13. \A i \in 1 .. Len(lines) :
          lines[i].name \notin DOMAIN values => \E k \in 1 .. m : h[k] = i
  BY <1>1, <1>5
<1>14. \A k \in m + 1 .. Len(out) : /\ out[k].name \in DOMAIN values
                                    /\ values[out[k].name] # None
                                    /\ out[k].value = values[out[k].name]
  <2> SUFFICES ASSUME NEW k \in m + 1 .. Len(out)
               PROVE  /\ out[k].name \in DOMAIN values
                      /\ values[out[k].name] # None
                      /\ out[k].value = values[out[k].name]
    OBVIOUS
  <2> DEFINE j == k - m
  <2>1. j \in 1 .. Len(u) /\ out[k] = b[j]
    BY <1>11
  <2> HIDE DEF j
  <2> QED BY <1>1, <1>8, <1>9, <2>1
<1>15. ASSUME NEW n \in ns, values[n] # None
       PROVE  \E k \in 1 .. Len(out) : out[k].name = n
  <2>1. CASE \E i \in 1 .. Len(lines) : lines[i].name = n
    <3> DEFINE S == {i \in 1 .. Len(lines) : lines[i].name = n}
    <3>1. S \in SUBSET Nat /\ S # {}
      BY <2>1
    <3>2. PICK i \in S : \A j \in S : i <= j
      BY <3>1, LeastNumber
    <3>3. First(i)
      <4> SUFFICES ASSUME NEW j \in 1 .. i - 1, lines[j].name = lines[i].name PROVE FALSE
        OBVIOUS
      <4>1. j \in S /\ j < i
        BY <1>1
      <4> QED BY <3>2, <4>1
    <3>4. i \in kept
      BY <1>1, <1>15, <3>3
    <3>5. PICK k \in 1 .. m : h[k] = i
      <4> HIDE DEF kept
      <4> QED BY <1>5, <3>4
    <3>6. out[k] = Updated(lines[i], values) /\ lines[i] \in Line /\ lines[i].name = n
      BY <1>1, <1>12, <3>5
    <3>7. out[k].name = n /\ k \in 1 .. Len(out)
      <4>1. k \in 1 .. Len(out)
        BY <1>11
      <4>2. Updated(lines[i], values).name = lines[i].name
        BY <3>6, UpdatedFacts
      <4> QED BY <3>6, <4>1, <4>2
    <3> QED BY <3>7
  <2>2. CASE \A i \in 1 .. Len(lines) : lines[i].name # n
    <3>1. PICK j \in 1 .. Len(order) : order[j] = n
      BY <1>1, <1>15 DEF Range
    <3>2. \A l \in Range(lines) : l.name # n
      BY <1>1, <2>2 DEF Range
    <3>3. j \in D
      BY <1>1, <1>15, <3>1, <3>2
    <3>4. PICK k \in 1 .. Len(u) : g[k] = j
      <4> HIDE DEF D
      <4> QED BY <1>7, <3>3
    <3>5. b[k].name = n
      <4> HIDE DEF D
      <4> QED BY <1>7, <1>9, <3>1, <3>4
    <3> QED BY <1>11, <3>5
  <2> QED BY <2>1, <2>2
<1>16. Rewritten(out, lines, values, h, m)
  <2> HIDE DEF kept, D
  <2> QED BY <1>1, <1>5, <1>11, <1>12, <1>13, <1>14, <1>15 DEF Rewritten
<1> QED BY <1>2, <1>16 DEF out, lines

-----------------------------------------------------------------------------
(* Loaded.                                                                 *)

LEMMA LoadedFacts ==
    ASSUME NEW t \in Seq(Line), NEW n \in Name
    PROVE  /\ (\A i \in 1 .. Len(t) : t[i].name # n) => Loaded(t)[n] = None
           /\ \A i \in 1 .. Len(t) :
                 t[i].name = n /\ (\A j \in 1 .. Len(t) : t[j].name = n => j <= i)
                     => Loaded(t)[n] = t[i].value
           /\ (\E i \in 1 .. Len(t) : t[i].name = n)
                 => \E i \in 1 .. Len(t) :
                       t[i].name = n /\ \A j \in 1 .. Len(t) : t[j].name = n => j <= i
<1> DEFINE is == {i \in 1 .. Len(t) : t[i].name = n}
<1>1. Len(t) \in Nat /\ DOMAIN t = 1 .. Len(t)
  OBVIOUS
<1>2. Loaded(t)[n] = IF is = {} THEN None ELSE t[Max(is)].value
  BY <1>1 DEF Loaded
<1>3. ASSUME NEW i \in 1 .. Len(t), t[i].name = n,
             \A j \in 1 .. Len(t) : t[j].name = n => j <= i
      PROVE  Loaded(t)[n] = t[i].value
  <2>1. i \in is /\ \A j \in is : i >= j
    BY <1>1, <1>3
  <2> HIDE DEF is
  <2>2. Max(is) \in is /\ \A j \in is : Max(is) >= j
    BY <2>1 DEF Max
  <2>3. is \subseteq 1 .. Len(t)
    BY DEF is
  <2>4. Max(is) = i
    <3>1. Max(is) >= i /\ i >= Max(is)
      BY <2>1, <2>2
    <3>2. Max(is) \in 1 .. Len(t) /\ i \in 1 .. Len(t)
      BY <2>1, <2>2, <2>3
    <3> QED BY <1>1, <3>1, <3>2
  <2> QED BY <1>2, <2>1, <2>4
<1>4. ASSUME NEW i \in 1 .. Len(t), t[i].name = n
      PROVE  \E l \in 1 .. Len(t) :
                t[l].name = n /\ \A j \in 1 .. Len(t) : t[j].name = n => j <= l
  <2>1. is \in SUBSET (1 .. Len(t)) /\ is # {}
    BY <1>4
  <2>2. PICK l \in is : \A j \in is : j <= l
    BY <1>1, <2>1, GreatestNumber
  <2> QED BY <2>2
<1>5. (\A i \in 1 .. Len(t) : t[i].name # n) => Loaded(t)[n] = None
  BY <1>2
<1> HIDE DEF is
<1> QED BY <1>3, <1>4, <1>5

LEMMA LoadedType ==
    ASSUME NEW t \in Seq(Line)
    PROVE  /\ Loaded(t) \in [Name -> Value \union {None}]
           /\ \A n \in Name : Loaded(t)[n] # None <=> \E i \in 1 .. Len(t) : t[i].name = n
<1>1. ASSUME NEW i \in 1 .. Len(t) PROVE t[i].value \in Value
  <2>1. t[i] \in Line
    OBVIOUS
  <2> QED BY <2>1 DEF Line
<1>2. Loaded(t) = [n \in Name |-> Loaded(t)[n]]
  BY DEF Loaded
<1>3. ASSUME NEW n \in Name
      PROVE  /\ Loaded(t)[n] \in Value \union {None}
             /\ Loaded(t)[n] # None <=> \E i \in 1 .. Len(t) : t[i].name = n
  <2>1. CASE \A i \in 1 .. Len(t) : t[i].name # n
    BY <2>1, LoadedFacts
  <2>2. CASE \E i \in 1 .. Len(t) : t[i].name = n
    <3>1. PICK i \in 1 .. Len(t) :
             t[i].name = n /\ \A j \in 1 .. Len(t) : t[j].name = n => j <= i
      BY <2>2, LoadedFacts
    <3>2. Loaded(t)[n] = t[i].value
      BY <3>1, LoadedFacts
    <3> QED BY <1>1, <2>2, <3>2, NoneAssumption
  <2> QED BY <2>1, <2>2
<1> QED BY <1>2, <1>3

\* What a rewritten file is read as.
LEMMA LoadedRewritten ==
    ASSUME NEW t \in Seq(Line), NEW out, NEW ns \in SUBSET Name, NEW h, NEW m,
           NEW values \in [ns -> Value \union {None}], Rewritten(out, t, values, h, m)
    PROVE  Loaded(out) = [n \in Name |-> IF n \in ns THEN values[n] ELSE Loaded(t)[n]]
<1> DEFINE L == Len(out)
<1>1. /\ out \in Seq(Line) /\ m \in 0 .. L /\ L \in Nat /\ Len(t) \in Nat
      /\ h \in [1 .. m -> 1 .. Len(t)]
      /\ \A j, k \in 1 .. m : j < k => h[j] < h[k]
      /\ \A k \in 1 .. m : /\ out[k] = Updated(t[h[k]], values)
                           /\ t[h[k]].name \in ns => values[t[h[k]].name] # None
      /\ \A i \in 1 .. Len(t) : t[i].name \notin ns => \E k \in 1 .. m : h[k] = i
      /\ \A k \in m + 1 .. L : /\ out[k].name \in ns /\ values[out[k].name] # None
                               /\ out[k].value = values[out[k].name]
      /\ \A n \in ns : values[n] # None => \E k \in 1 .. L : out[k].name = n
      /\ \A i \in 1 .. Len(t) : t[i] \in Line
  BY DEF Rewritten
<1>2. ASSUME NEW k \in 1 .. m
      PROVE  /\ k \in 1 .. L /\ h[k] \in 1 .. Len(t) /\ out[k].name = t[h[k]].name
             /\ out[k].name \in ns => /\ values[out[k].name] # None
                                      /\ out[k].value = values[out[k].name]
             /\ out[k].name \notin ns => out[k] = t[h[k]]
  <2>1. k \in 1 .. L /\ h[k] \in 1 .. Len(t) /\ t[h[k]] \in Line
    BY <1>1
  <2>2. out[k] = Updated(t[h[k]], values) /\ (t[h[k]].name \in ns => values[t[h[k]].name] # None)
    BY <1>1
  <2>3. /\ Updated(t[h[k]], values).name = t[h[k]].name
        /\ t[h[k]].name \in ns => Updated(t[h[k]], values).value = values[t[h[k]].name]
        /\ t[h[k]].name \notin ns => Updated(t[h[k]], values) = t[h[k]]
    BY <2>1, UpdatedFacts
  <2> QED BY <2>1, <2>2, <2>3
<1>3. \A k \in 1 .. L : k \in 1 .. m \/ k \in m + 1 .. L
  BY <1>1
<1>4. \A k \in 1 .. L : out[k].name \in ns => /\ values[out[k].name] # None
                                              /\ out[k].value = values[out[k].name]
  BY <1>1, <1>2, <1>3
<1>5. ASSUME NEW n \in Name, n \in ns PROVE Loaded(out)[n] = values[n]
  <2>1. CASE values[n] = None
    <3>1. \A k \in 1 .. L : out[k].name # n
      BY <1>4, <1>5, <2>1
    <3> QED BY <1>1, <2>1, <3>1, LoadedFacts
  <2>2. CASE values[n] # None
    <3>1. \E k \in 1 .. L : out[k].name = n
      BY <1>1, <1>5, <2>2
    <3>2. PICK k \in 1 .. L :
             out[k].name = n /\ \A j \in 1 .. L : out[j].name = n => j <= k
      BY <1>1, <3>1, LoadedFacts
    <3>3. Loaded(out)[n] = out[k].value
      BY <1>1, <3>2, LoadedFacts
    <3> QED BY <1>4, <1>5, <3>2, <3>3
  <2> QED BY <2>1, <2>2
<1>6. ASSUME NEW n \in Name, n \notin ns PROVE Loaded(out)[n] = Loaded(t)[n]
  <2>1. \A k \in 1 .. L : out[k].name = n => k \in 1 .. m
    BY <1>1, <1>3, <1>6
  <2>2. CASE \A i \in 1 .. Len(t) : t[i].name # n
    <3>1. \A k \in 1 .. L : out[k].name # n
      BY <1>2, <2>1, <2>2
    <3> QED BY <1>1, <2>2, <3>1, LoadedFacts
  <2>3. CASE \E i \in 1 .. Len(t) : t[i].name = n
    <3>1. PICK i \in 1 .. Len(t) :
             t[i].name = n /\ \A j \in 1 .. Len(t) : t[j].name = n => j <= i
      BY <2>3, LoadedFacts
    <3>2. PICK k \in 1 .. m : h[k] = i
      BY <1>1, <1>6, <3>1
    <3>3. k \in 1 .. L /\ out[k].name = n /\ out[k] = t[i]
      BY <1>2, <1>6, <3>1, <3>2
    <3>4. ASSUME NEW j \in 1 .. L, out[j].name = n PROVE j <= k
      <4>1. j \in 1 .. m /\ h[j] \in 1 .. Len(t) /\ t[h[j]].name = n
        BY <1>2, <2>1, <3>4
      <4>2. h[j] <= i
        BY <3>1, <4>1
      <4>3. k < j => h[k] < h[j]
        BY <1>1, <4>1
      <4>4. ~(k < j)
        BY <3>2, <4>1, <4>2, <4>3
      <4> QED BY <1>1, <4>1, <4>4
    <3>5. Loaded(out)[n] = out[k].value
      BY <1>1, <3>3, <3>4, LoadedFacts
    <3>6. Loaded(t)[n] = t[i].value
      BY <3>1, LoadedFacts
    <3> QED BY <3>3, <3>5, <3>6
  <2> QED BY <2>2, <2>3
<1>7. Loaded(out) = [n \in Name |-> Loaded(out)[n]]
  BY DEF Loaded
<1> QED BY <1>5, <1>6, <1>7

-----------------------------------------------------------------------------
(* Select of what a rewrite leaves alone.                                  *)

\* The lines that assign none of N, which has all the names that change.
Without(t, N) == Select(t, {i \in DOMAIN t : t[i].name \notin N})

LEMMA OthersRewritten ==
    ASSUME NEW t \in Seq(Line), NEW out, NEW N, NEW ns \in SUBSET Name, NEW h, NEW m,
           NEW values \in [ns -> Value \union {None}], Rewritten(out, t, values, h, m),
           ns \subseteq N
    PROVE  Without(out, N) = Without(t, N)
<1> DEFINE A == {i \in DOMAIN out : out[i].name \notin N}
           B == {i \in DOMAIN t : t[i].name \notin N}
           a == Select(out, A)
           b == Select(t, B)
<1>1. /\ out \in Seq(Line) /\ m \in 0 .. Len(out) /\ Len(out) \in Nat /\ Len(t) \in Nat
      /\ h \in [1 .. m -> 1 .. Len(t)] /\ DOMAIN out = 1 .. Len(out) /\ DOMAIN t = 1 .. Len(t)
      /\ \A j, k \in 1 .. m : j < k => h[j] < h[k]
      /\ \A k \in 1 .. m : out[k] = Updated(t[h[k]], values)
      /\ \A i \in 1 .. Len(t) : t[i].name \notin ns => \E k \in 1 .. m : h[k] = i
      /\ \A k \in m + 1 .. Len(out) : out[k].name \in ns
      /\ \A i \in 1 .. Len(t) : t[i] \in Line
  BY DEF Rewritten
<1>2. ASSUME NEW k \in 1 .. m
      PROVE  /\ k \in 1 .. Len(out) /\ h[k] \in 1 .. Len(t) /\ out[k].name = t[h[k]].name
             /\ out[k].name \notin N => out[k] = t[h[k]]
  <2>1. k \in 1 .. Len(out) /\ h[k] \in 1 .. Len(t) /\ t[h[k]] \in Line
    BY <1>1
  <2>2. /\ Updated(t[h[k]], values).name = t[h[k]].name
        /\ t[h[k]].name \notin ns => Updated(t[h[k]], values) = t[h[k]]
    BY <2>1, UpdatedFacts
  <2> QED BY <1>1, <2>1, <2>2
<1>3. \A k \in A : k \in 1 .. m /\ h[k] \in B
  <2> SUFFICES ASSUME NEW k \in 1 .. Len(out), out[k].name \notin N
               PROVE  k \in 1 .. m /\ h[k] \in 1 .. Len(t) /\ t[h[k]].name \notin N
    BY <1>1
  <2>1. k \notin m + 1 .. Len(out)
    BY <1>1
  <2>2. k \in 1 .. m
    BY <1>1, <2>1
  <2> QED BY <1>2, <2>2
<1>4. \A i \in B : \E k \in A : h[k] = i
  <2> SUFFICES ASSUME NEW i \in 1 .. Len(t), t[i].name \notin N
               PROVE  \E k \in A : h[k] = i
    BY <1>1
  <2>1. PICK k \in 1 .. m : h[k] = i
    BY <1>1
  <2>2. k \in A
    BY <1>1, <1>2, <2>1
  <2> QED BY <2>1, <2>2
<1>5. \A k \in A : out[k] = t[h[k]]
  BY <1>2, <1>3
<1>6. A \subseteq 1 .. Len(out) /\ B \subseteq 1 .. Len(t)
  BY <1>1
<1> HIDE DEF A, B
<1>7. PICK f : Lists(a, f, out, A \intersect (1 .. Len(out))) /\ a \in Seq(Line)
  BY <1>1, SelectFacts
<1>8. PICK g : Lists(b, g, t, B \intersect (1 .. Len(t))) /\ b \in Seq(Line)
  BY SelectFacts
<1>9. A \intersect (1 .. Len(out)) = A /\ B \intersect (1 .. Len(t)) = B
  BY <1>6
<1> HIDE DEF a, b
<1> DEFINE p == Len(a)
           e == [k \in 1 .. p |-> h[f[k]]]
<1>10. /\ p \in Nat /\ f \in [1 .. p -> A]
       /\ \A j, k \in 1 .. p : j < k => f[j] < f[k]
       /\ \A i \in A : \E k \in 1 .. p : f[k] = i
       /\ \A k \in 1 .. p : a[k] = out[f[k]]
  BY <1>7, <1>9 DEF Lists, Enumerates
<1> HIDE DEF p
<1>11. Enumerates(e, p, B)
  <2>1. e \in [1 .. p -> B]
    BY <1>3, <1>10
  <2>2. ASSUME NEW j \in 1 .. p, NEW k \in 1 .. p, j < k PROVE e[j] < e[k]
    <3>1. f[j] \in 1 .. m /\ f[k] \in 1 .. m /\ f[j] < f[k]
      BY <1>3, <1>10, <2>2
    <3> QED BY <1>1, <3>1
  <2>3. ASSUME NEW i \in B PROVE \E k \in 1 .. p : e[k] = i
    <3>1. PICK l \in A : h[l] = i
      BY <1>4
    <3>2. PICK k \in 1 .. p : f[k] = l
      BY <1>10
    <3> QED BY <3>1, <3>2
  <2> HIDE DEF e
  <2> QED BY <1>10, <2>1, <2>2, <2>3 DEF Enumerates
<1>12. p = Len(b) /\ \A k \in 1 .. p : e[k] = g[k]
  <2>1. Enumerates(g, Len(b), B)
    BY <1>8, <1>9 DEF Lists
  <2>2. B \in SUBSET Nat
    BY <1>6
  <2>3. \A x, y, r, q : Enumerates(x, r, B) /\ Enumerates(y, q, B)
                           => r = q /\ \A k \in 1 .. r : x[k] = y[k]
    BY <2>2, OneEnumeration
  <2> HIDE DEF e
  <2> QED BY <1>11, <2>1, <2>3
<1>13. \A k \in 1 .. p : a[k] = b[k]
  <2> SUFFICES ASSUME NEW k \in 1 .. p PROVE a[k] = b[k]
    OBVIOUS
  <2>1. a[k] = out[f[k]] /\ f[k] \in A
    BY <1>10
  <2>2. out[f[k]] = t[h[f[k]]] /\ h[f[k]] = g[k]
    BY <1>5, <1>12, <2>1
  <2>3. b[k] = t[g[k]]
    BY <1>8, <1>12 DEF Lists
  <2> QED BY <2>1, <2>2, <2>3
<1>14. a = b
  BY <1>7, <1>8, <1>12, <1>13, SeqEqual DEF p
<1> QED BY <1>14 DEF Without, a, b, A, B

-----------------------------------------------------------------------------
(* Steps.                                                                  *)

LEMMA NamesFacts ==
    ASSUME NEW v \in Vpn
    PROVE  NamesOf[v] \in Seq(Name) /\ Range(NamesOf[v]) \subseteq Name
<1>1. NamesOf[v] \in Seq(Name)
  BY NamesAssumption
<1> QED BY <1>1 DEF Range

\* Every operation leaves everything as it is or rewrites the lines of a VPN.
LEMMA StepRewrites ==
    ASSUME NEW v \in Vpn, Operation(v)
    PROVE  \/ UNCHANGED vars
           \/ \E ns \in SUBSET Range(NamesOf[v]) :
                 \E values \in [ns -> Value \union {None}] : Rewrite(v, values)
<1>1. CASE SetCredentials(v)
  BY <1>1 DEF SetCredentials
<1>2. CASE ScaffoldCredentials(v)
  <2> PICK given \in SUBSET Range(NamesOf[v]) : \E f \in [given -> Value \ {Empty}] :
           LET ns == {n \in Range(NamesOf[v]) : n \in given \/ ~Present(n)}
           IN  IF ns = {} THEN UNCHANGED vars
               ELSE Rewrite(v, [n \in ns |-> IF n \in given THEN f[n] ELSE Empty])
    BY <1>2 DEF ScaffoldCredentials
  <2>1. PICK f \in [given -> Value \ {Empty}] :
           LET ns == {n \in Range(NamesOf[v]) : n \in given \/ ~Present(n)}
           IN  IF ns = {} THEN UNCHANGED vars
               ELSE Rewrite(v, [n \in ns |-> IF n \in given THEN f[n] ELSE Empty])
    OBVIOUS
  <2> DEFINE ns == {n \in Range(NamesOf[v]) : n \in given \/ ~Present(n)}
             values == [n \in ns |-> IF n \in given THEN f[n] ELSE Empty]
  <2>2. values \in [ns -> Value \union {None}] /\ ns \in SUBSET Range(NamesOf[v])
    BY ValueFacts
  <2>3. UNCHANGED vars \/ Rewrite(v, values)
    BY <2>1
  <2> HIDE DEF ns, values
  <2> QED BY <2>2, <2>3
<1>3. CASE RemoveCredentials(v)
  <2> DEFINE values == [n \in Range(NamesOf[v]) |-> None]
  <2>1. values \in [Range(NamesOf[v]) -> Value \union {None}] /\ Rewrite(v, values)
    BY <1>3 DEF RemoveCredentials
  <2> HIDE DEF values
  <2> QED BY <2>1
<1> QED BY <1>1, <1>2, <1>3 DEF Operation

LEMMA RewriteFacts ==
    ASSUME TypeOK, NEW v \in Vpn, NEW ns \in SUBSET Range(NamesOf[v]),
           NEW values \in [ns -> Value \union {None}], Rewrite(v, values)
    PROVE  /\ TypeOK'
           /\ MaxParts = 1 =>
                 /\ Loaded(text') = [n \in Name |-> IF n \in ns THEN values[n]
                                                    ELSE Loaded(text)[n]]
                 /\ OtherLines(text', v) = OtherLines(text, v)
                 /\ RestartReadsTheSame => RestartReadsTheSame'
<1>1. /\ text \in Seq(Line) /\ NamesOf[v] \in Seq(Name) /\ ns \in SUBSET Name
      /\ ns \subseteq Range(NamesOf[v])
  BY NamesFacts DEF TypeOK
<1>2. text' = Apply(text, values, NamesOf[v])
      /\ environ' = [n \in Name |-> IF n \in ns THEN values[n] ELSE environ[n]]
  BY DEF Rewrite
<1>3. PICK h, m : Rewritten(text', Splitlines(text), values, h, m)
  BY <1>1, <1>2, ApplyFacts
<1>4. text' \in Seq(Line)
  BY <1>3 DEF Rewritten
<1>5. environ' \in [Name -> Value \union {None}]
  BY <1>2 DEF TypeOK
<1>6. ASSUME MaxParts = 1
      PROVE  /\ Loaded(text') = [n \in Name |-> IF n \in ns THEN values[n]
                                                ELSE Loaded(text)[n]]
             /\ OtherLines(text', v) = OtherLines(text, v)
  <2>1. Splitlines(text) = text
    BY <1>1, <1>6, SplitlinesFacts
  <2>2. Rewritten(text', text, values, h, m)
    BY <1>3, <2>1
  <2>3. Loaded(text') = [n \in Name |-> IF n \in ns THEN values[n] ELSE Loaded(text)[n]]
    BY <1>1, <2>2, LoadedRewritten
  <2>4. Without(text', Range(NamesOf[v])) = Without(text, Range(NamesOf[v]))
    BY <1>1, <2>2, OthersRewritten
  <2> QED BY <2>3, <2>4 DEF Without, OtherLines
<1>7. ASSUME MaxParts = 1, RestartReadsTheSame PROVE RestartReadsTheSame'
  BY <1>2, <1>6, <1>7 DEF RestartReadsTheSame
<1> QED BY <1>4, <1>5, <1>6, <1>7 DEF TypeOK

LEMMA InitTypeOK == Init => TypeOK /\ RestartReadsTheSame
<1> SUFFICES ASSUME Init PROVE TypeOK /\ RestartReadsTheSame
  OBVIOUS
<1>1. text \in Seq(Line)
  <2>1. PICK m \in 0 .. MaxLines : text \in [1 .. m -> Line]
    BY DEF Init, BoundedSeq, SeqOf
  <2>2. m \in Nat
    BY BoundsAssumption
  <2> QED BY <2>1, <2>2
<1> QED BY <1>1, LoadedType DEF Init, TypeOK, RestartReadsTheSame

LEMMA StepTypeOK == TypeOK /\ [Next]_vars => TypeOK'
<1> SUFFICES ASSUME TypeOK, [Next]_vars PROVE TypeOK'
  OBVIOUS
<1>1. CASE UNCHANGED vars
  BY <1>1 DEF vars, TypeOK
<1> QED BY <1>1, StepRewrites, RewriteFacts DEF Next

-----------------------------------------------------------------------------
(* Theorems.                                                               *)

\* However often .env is rewritten, and whatever values it holds, it stays a
\* list of lines and the environment a map (credentials.py:123-157).
THEOREM TypeCorrect == Spec => []TypeOK
BY InitTypeOK, StepTypeOK, PTL DEF Spec

\* Whatever .env holds at the first start, duplicates and comments included, and
\* however often it is rewritten, a restart reads back what the running app has,
\* as long as no value holds a character at which str.splitlines ends a line
\* (credentials.py:123-140).
THEOREM RestartReads == ASSUME MaxParts = 1 PROVE Spec => []RestartReadsTheSame
<1>1. TypeOK /\ RestartReadsTheSame /\ [Next]_vars => RestartReadsTheSame'
  <2> SUFFICES ASSUME TypeOK, RestartReadsTheSame, [Next]_vars PROVE RestartReadsTheSame'
    OBVIOUS
  <2>1. CASE UNCHANGED vars
    BY <2>1 DEF vars, RestartReadsTheSame
  <2> QED BY <2>1, StepRewrites, RewriteFacts DEF Next
<1> QED BY <1>1, InitTypeOK, StepTypeOK, PTL DEF Spec

\* Under the same condition every line that assigns no variable of the VPN at
\* hand survives every rewrite, in its place (credentials.py:3-4, 123-140).
THEOREM OthersKept == ASSUME MaxParts = 1 PROVE Spec => OtherLinesKept
<1>1. TypeOK /\ [Next]_vars =>
          [\A v \in Vpn : OtherLines(text', v) = OtherLines(text, v) \/ ~Operation(v)]_vars
  <2> SUFFICES ASSUME TypeOK, ~UNCHANGED vars, NEW v \in Vpn, Operation(v)
               PROVE  OtherLines(text', v) = OtherLines(text, v)
    OBVIOUS
  <2> QED BY StepRewrites, RewriteFacts
<1> QED BY <1>1, InitTypeOK, StepTypeOK, PTL DEF Spec, OtherLinesKept

\* What an operation does to what is loaded, VPN by VPN.
LEMMA StepImplements ==
    ASSUME MaxParts = 1, TypeOK, Next
    PROVE  Map!Next \/ UNCHANGED vars
<1> PICK v \in Vpn : SetCredentials(v) \/ ScaffoldCredentials(v) \/ RemoveCredentials(v)
  BY DEF Next, Operation
<1> DEFINE R == Range(NamesOf[v])
<1>1. [u \in Vpn |-> Range(NamesOf[u])][v] = R
  OBVIOUS
<1>2. ASSUME NEW ns \in SUBSET R, NEW values \in [ns -> Value \union {None}], Rewrite(v, values)
      PROVE  Loaded(text)' = [n \in Name |-> IF n \in ns THEN values[n] ELSE Loaded(text)[n]]
  BY <1>2, RewriteFacts
<1>3. CASE SetCredentials(v)
  <2> SUFFICES ASSUME ~UNCHANGED vars PROVE Map!Store(v)
    BY DEF Map!Next
  <2> PICK ns \in SUBSET R : \E values \in [ns -> Value \ {Empty}] : Rewrite(v, values)
    BY <1>3 DEF SetCredentials
  <2>1. PICK values \in [ns -> Value \ {Empty}] : Rewrite(v, values)
    OBVIOUS
  <2>2. values \in [ns -> Value \union {None}] /\ DOMAIN values = ns
    OBVIOUS
  <2>3. Loaded(text)' = Map!Merge(values)
    BY <1>2, <2>1, <2>2 DEF Map!Merge
  <2> QED BY <1>1, <2>3 DEF Map!Store
<1>4. CASE ScaffoldCredentials(v)
  <2> SUFFICES ASSUME ~UNCHANGED vars PROVE Map!Provide(v)
    BY DEF Map!Next
  <2> PICK given \in SUBSET R : \E f \in [given -> Value \ {Empty}] :
           LET ns == {n \in R : n \in given \/ ~Present(n)}
           IN  IF ns = {} THEN UNCHANGED vars
               ELSE Rewrite(v, [n \in ns |-> IF n \in given THEN f[n] ELSE Empty])
    BY <1>4 DEF ScaffoldCredentials
  <2>1. PICK f \in [given -> Value \ {Empty}] :
           LET ns == {n \in R : n \in given \/ ~Present(n)}
           IN  IF ns = {} THEN UNCHANGED vars
               ELSE Rewrite(v, [n \in ns |-> IF n \in given THEN f[n] ELSE Empty])
    OBVIOUS
  <2> DEFINE ns == {n \in R : n \in given \/ ~Present(n)}
             values == [n \in ns |-> IF n \in given THEN f[n] ELSE Empty]
             all == [n \in R |-> IF n \in given THEN f[n]
                                 ELSE IF Loaded(text)[n] = None THEN Empty ELSE Loaded(text)[n]]
  <2>2. values \in [ns -> Value \union {None}] /\ ns \in SUBSET R /\ Rewrite(v, values)
    BY <2>1, ValueFacts
  <2>3. Loaded(text)' = [n \in Name |-> IF n \in ns THEN values[n] ELSE Loaded(text)[n]]
    <3> HIDE DEF ns, values
    <3> QED BY <1>2, <2>2
  <2>4. \A n \in R : Present(n) <=> Loaded(text)[n] # None
    <3>1. text \in Seq(Line) /\ R \subseteq Name
      BY NamesFacts DEF TypeOK
    <3>2. \A n \in R : Present(n) <=> \E i \in 1 .. Len(text) : text[i].name = n
      BY <3>1 DEF Present, Range
    <3> QED BY <3>1, <3>2, LoadedType
  <2>5. Loaded(text)' = Map!Merge(all)
    <3>1. ASSUME NEW n \in Name
          PROVE  (IF n \in ns THEN values[n] ELSE Loaded(text)[n])
                    = (IF n \in R THEN all[n] ELSE Loaded(text)[n])
      <4>1. CASE n \in ns
        BY <2>4, <4>1
      <4>2. CASE n \notin ns
        BY <2>4, <4>2
      <4> QED BY <4>1, <4>2
    <3>2. DOMAIN all = R
      OBVIOUS
    <3> HIDE DEF ns, values, all
    <3> QED BY <2>3, <3>1, <3>2 DEF Map!Merge
  <2> QED BY <1>1, <2>5 DEF Map!Provide
<1>5. CASE RemoveCredentials(v)
  <2> DEFINE values == [n \in R |-> None]
  <2>1. values \in [R -> Value \union {None}] /\ DOMAIN values = R /\ Rewrite(v, values)
    BY <1>5 DEF RemoveCredentials
  <2> HIDE DEF values
  <2>2. Loaded(text)' = Map!Merge(values)
    BY <1>2, <2>1 DEF Map!Merge
  <2>3. Map!Forget(v)
    BY <1>1, <2>2 DEF Map!Forget, values
  <2> QED BY <2>3 DEF Map!Next
<1> QED BY <1>3, <1>4, <1>5

\* Under the same condition rewriting .env line by line is an operation on a map
\* from variables to values that changes those of one VPN (credentials.py:40-140).
THEOREM Implements == ASSUME MaxParts = 1 PROVE Spec => ImplementsMap
<1>1. Init => Map!Init
  BY InitTypeOK, LoadedType DEF TypeOK, Map!Init
<1>2. TypeOK /\ [Next]_vars => [Map!Next]_(Loaded(text))
  <2> SUFFICES ASSUME TypeOK, [Next]_vars PROVE Map!Next \/ UNCHANGED Loaded(text)
    OBVIOUS
  <2>1. CASE UNCHANGED vars
    BY <2>1 DEF vars
  <2>2. CASE Next
    BY <2>1, <2>2, StepImplements
  <2> QED BY <2>1, <2>2
<1> QED BY <1>1, <1>2, InitTypeOK, StepTypeOK, PTL DEF Spec, ImplementsMap, Map!Spec

=============================================================================
