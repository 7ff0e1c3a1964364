---------------------------- MODULE ServeLoopProofs ----------------------------
(* One rank's engine loop: the plans, caches, decode floor and release of       *)
(* ServeLoop, for any requests, prompts, drafts, windows, budgets and settings. *)
EXTENDS ServeLoop, SequenceTheorems, WellFoundedInduction, TLAPS

-----------------------------------------------------------------------------
(* Induction and recursion *)

\* Every nonempty set of naturals has a least element: what induction rests on.
LEMMA Least ==
  ASSUME NEW T \in SUBSET Nat, T # {}
  PROVE  \E k \in T : \A l \in T : k <= l
<1> DEFINE R == OpToRel(<, Nat)
<1>1. IsWellFoundedOn(R, Nat)
  BY NatLessThanWellFounded
<1>2. \E k \in T : \A l \in T : ~ (<<l, k>> \in R)
  BY <1>1, WFMin, Zenon
<1>3. \A k, l \in T : <<l, k>> \notin R => k <= l
  BY DEF OpToRel
<1> QED BY <1>2, <1>3

\* A set of numbers up to n that has 0 and, with a number, the next one has all.
LEMMA Induction ==
  ASSUME NEW n \in Nat, NEW P, 0 \in P, \A i \in 0..(n - 1) : i \in P => i + 1 \in P
  PROVE  \A i \in 0..n : i \in P
<1> DEFINE T == {m \in 0..n : m \notin P}
<1> SUFFICES ASSUME T # {} PROVE FALSE
  OBVIOUS
<1>1. T \in SUBSET Nat
  OBVIOUS
<1>2. PICK k \in T : \A l \in T : k <= l
  BY <1>1, Least, Zenon
<1>3. k \in 0..n /\ k # 0 /\ k \notin P
  BY <1>2
<1>4. k - 1 \in 0..(n - 1) /\ (k - 1) + 1 = k /\ k - 1 \in 0..n
  BY <1>3
<1>5. k - 1 \in P
  BY <1>2, <1>4
<1> QED
  BY <1>3, <1>4, <1>5

\* A function can be built step by step.
Iterates(f, n, a, G) == f[0] = a /\ \A i \in 1..n : f[i] = G[i][f[i - 1]]
LEMMA Iterated ==
  ASSUME NEW n \in Nat, NEW A, NEW a \in A, NEW G \in [1..n -> [A -> A]]
  PROVE  \E f \in [0..n -> A] : Iterates(f, n, a, G)
<1> DEFINE Some(m) == \E f \in [0..m -> A] : f[0] = a /\ \A i \in 1..m : f[i] = G[i][f[i - 1]]
           P == {m \in 0..n : Some(m)}
<1>1. Some(0)
  <2>1. [i \in 0..0 |-> a] \in [0..0 -> A] /\ [i \in 0..0 |-> a][0] = a /\ 1..0 = {}
    OBVIOUS
  <2> QED
    BY <2>1
<1>2. ASSUME NEW m \in 0..(n - 1), Some(m) PROVE Some(m + 1)
  <2>1. PICK f \in [0..m -> A] : f[0] = a /\ \A i \in 1..m : f[i] = G[i][f[i - 1]]
    BY <1>2
  <2> DEFINE last == G[m + 1][f[m]]
             h == [i \in 0..(m + 1) |-> IF i = m + 1 THEN last ELSE f[i]]
  <2>2. m \in Nat /\ m + 1 \in 1..n /\ m \in 0..m /\ f[m] \in A
    OBVIOUS
  <2>3. last \in A
    BY <2>2
  <2> HIDE DEF last
  <2>4. h \in [0..(m + 1) -> A]
    BY <2>2, <2>3
  <2>5. h[0] = a /\ h[m + 1] = last /\ \A i \in 0..m : h[i] = f[i]
    BY <2>1, <2>2
  <2> HIDE DEF h
  <2>6. ASSUME NEW i \in 1..(m + 1) PROVE h[i] = G[i][h[i - 1]]
    <3>1. CASE i = m + 1
      <4>1. i - 1 = m
        BY <2>2, <3>1
      <4> QED
        BY <2>2, <2>5, <3>1, <4>1 DEF last
    <3>2. CASE i # m + 1
      <4>1. i \in 1..m /\ i \in 0..m /\ i - 1 \in 0..m
        BY <2>2, <3>2
      <4> QED
        BY <2>1, <2>5, <4>1
    <3> QED
      BY <3>1, <3>2
  <2> QED
    BY <2>4, <2>5, <2>6
<1>3. \A m \in 0..n : m \in P
  <2> HIDE DEF Some
  <2>1. 0 \in P
    BY <1>1
  <2>2. \A m \in 0..(n - 1) : m \in P => m + 1 \in P
    BY <1>2
  <2> HIDE DEF P
  <2> QED
    BY <2>1, <2>2, Induction
<1>4. Some(n)
  <2> HIDE DEF Some
  <2> QED
    BY <1>3
<1> QED
  BY <1>4 DEF Iterates

-----------------------------------------------------------------------------
(* Sequences *)

\* Bare arithmetic, stated away from any state so that a leaf only instantiates it.
LEMMA WithinSum == \A h \in Int, l, z \in Nat : h \in 1..l => h \in 1..(l + z) /\ h <= l
OBVIOUS

LEMMA WithinTail == \A n, k \in Nat, j \in Int : j \in 1..(n - k) => k + j \in 1..n
OBVIOUS

LEMMA WithinSpan == \A s, n \in Nat, j \in Int : j \in 1..n => s + j - 1 \in s..(s + n - 1)
OBVIOUS

LEMMA SpanLeft ==
  ASSUME NEW s \in Nat, NEW n \in Nat, NEW k \in Nat, k < n
  PROVE  n - k \in Nat /\ s + k \in Nat /\ (s + k) + (n - k) = s + n
OBVIOUS

LEMMA InSpan == \A s, n \in Nat : \A p \in Int : p >= s /\ p < s + n => p \in s..(s + n - 1)
OBVIOUS

LEMMA SpanPoint ==
  \A s, n, j \in Int : 1 <= j /\ j <= n => s + j - 1 \in Int /\ s + j - 1 >= s /\ s + j - 1 < s + n
OBVIOUS

LEMMA SpanIndex ==
  \A s, n \in Nat : \A p \in s..(s + n - 1) : p - s + 1 \in 1..n /\ s + (p - s + 1) - 1 = p
OBVIOUS

LEMMA NoneBetween == \A q, p, l, z \in Int : ~ (q >= l /\ q <= p /\ p < z /\ z <= l)
OBVIOUS

LEMMA SumMoved == \A a, b, c \in Nat : (a + b) + c = a + (b + c)
OBVIOUS

LEMMA FrontIs ==
  \A s : s \in Seq(Requests) => \A k \in 0..Len(s) : SubSeq(s, 1, k) = [i \in 1..k |-> s[i]]
OBVIOUS

LEMMA FunSeq == \A S : \A n \in Nat : \A f \in [1..n -> S] : f \in Seq(S) /\ Len(f) = n
  BY SeqDef

LEMMA AtLeastAbove == \A a, b, p \in Int : p >= a /\ p >= b <=> p >= AtLeast(a, b)
  BY DEF AtLeast

LEMMA SeqFacts ==
  ASSUME NEW S, NEW s \in Seq(S)
  PROVE  /\ Len(s) \in Nat /\ DOMAIN s = 1..Len(s)
         /\ \A i \in 1..Len(s) : s[i] \in S
         /\ ToSet(s) = {s[i] : i \in 1..Len(s)} /\ ToSet(s) \subseteq S
         /\ s = <<>> <=> Len(s) = 0
<1>1. Len(s) \in Nat /\ DOMAIN s = 1..Len(s) /\ s \in [1..Len(s) -> S]
  BY LenProperties
<1>2. s = <<>> <=> Len(s) = 0
  BY EmptySeq
<1> QED
  BY <1>1, <1>2 DEF ToSet

LEMMA Distinct ==
  ASSUME NEW S, NEW s \in Seq(S)
  PROVE  IsInjective(s) <=> \A i, j \in 1..Len(s) : s[i] = s[j] => i = j
BY SeqFacts DEF IsInjective

LEMMA AppendFacts ==
  ASSUME NEW S, NEW s \in Seq(S), NEW e \in S
  PROVE  /\ Append(s, e) \in Seq(S) /\ Len(Append(s, e)) = Len(s) + 1
         /\ \A i \in 1..Len(s) : Append(s, e)[i] = s[i]
         /\ Append(s, e)[Len(s) + 1] = e
         /\ ToSet(Append(s, e)) = ToSet(s) \cup {e}
<1>1. /\ Append(s, e) \in Seq(S) /\ Len(Append(s, e)) = Len(s) + 1
      /\ \A i \in 1..Len(s) : Append(s, e)[i] = s[i]
      /\ Append(s, e)[Len(s) + 1] = e
  OBVIOUS
<1>2. ToSet(Append(s, e)) = ToSet(s) \cup {e}
  <2>1. ToSet(Append(s, e)) = {Append(s, e)[i] : i \in 1..Len(s) + 1} /\ ToSet(s) = {s[i] : i \in 1..Len(s)}
    BY <1>1, SeqFacts
  <2>2. Len(s) \in Nat
    BY SeqFacts
  <2> QED
    BY <1>1, <2>1, <2>2
<1> QED
  BY <1>1, <1>2

LEMMA AppendDistinct ==
  ASSUME NEW S, NEW s \in Seq(S), NEW e \in S, IsInjective(s), e \notin ToSet(s)
  PROVE  IsInjective(Append(s, e))
<1>1. Append(s, e) \in Seq(S) /\ Len(s) \in Nat /\ ToSet(s) = {s[i] : i \in 1..Len(s)}
  BY AppendFacts, SeqFacts
<1>2. \A i, j \in 1..Len(s) : s[i] = s[j] => i = j
  BY Distinct
<1>3. \A i, j \in 1..Len(s) + 1 : Append(s, e)[i] = Append(s, e)[j] => i = j
  BY <1>1, <1>2, AppendFacts
<1>4. Append(s, e) \in Seq(S) /\ Len(Append(s, e)) = Len(s) + 1
  BY AppendFacts
<1> QED
  BY <1>3, <1>4, Distinct

\* A filter goes through its sequence once.
Filters(g, s, D) ==
  /\ g[0] = <<>> /\ g[Len(s)] = Without(s, D)
  /\ \A i \in 1..Len(s) : g[i] = IF s[i] \in D THEN g[i - 1] ELSE Append(g[i - 1], s[i])
LEMMA WithoutSteps ==
  ASSUME NEW S, NEW s \in Seq(S), NEW D
  PROVE  \E g \in [0..Len(s) -> Seq(S)] : Filters(g, s, D)
<1> DEFINE n == Len(s)
           Body(f, i) == IF i = 0 THEN <<>> ELSE IF s[i] \in D THEN f[i - 1] ELSE Append(f[i - 1], s[i])
           G == [i \in 1..n |-> [y \in Seq(S) |-> IF s[i] \in D THEN y ELSE Append(y, s[i])]]
           g == CHOOSE f : f = [i \in 0..n |-> Body(f, i)]
<1>1. n \in Nat /\ <<>> \in Seq(S) /\ \A i \in 1..n : s[i] \in S
  BY SeqFacts, EmptySeq
<1>2. G \in [1..n -> [Seq(S) -> Seq(S)]]
  <2>1. ASSUME NEW i \in 1..n, NEW y \in Seq(S) PROVE Append(y, s[i]) \in Seq(S)
    BY <1>1, AppendFacts
  <2> QED
    BY <2>1
<1>3. PICK f \in [0..n -> Seq(S)] : f[0] = <<>> /\ \A i \in 1..n : f[i] = G[i][f[i - 1]]
  <2> HIDE DEF G, n
  <2>1. \E f \in [0..n -> Seq(S)] : Iterates(f, n, <<>>, G)
    BY <1>1, <1>2, Iterated
  <2> QED
    BY <2>1 DEF Iterates
<1>4. \A i \in 0..n : f[i] = Body(f, i)
  <2> TAKE i \in 0..n
  <2>1. CASE i = 0
    BY <1>3, <2>1
  <2>2. CASE i # 0
    <3>1. i \in 1..n /\ i - 1 \in 0..n
      BY <1>1, <2>2
    <3>2. f[i] = G[i][f[i - 1]] /\ f[i - 1] \in Seq(S)
      BY <1>3, <3>1
    <3> QED
      BY <2>2, <3>1, <3>2
  <2> QED
    BY <2>1, <2>2
<1> HIDE DEF G, Body
<1>5. g = [i \in 0..n |-> Body(g, i)]
  <2>1. f = [i \in 0..n |-> Body(f, i)]
    BY <1>4
  <2> QED
    BY <2>1
<1>6. Without(s, D) = g[n]
  BY DEF Without, Body
<1> HIDE DEF g
<1>7. g[0] = <<>> /\ \A i \in 1..n : g[i] = IF s[i] \in D THEN g[i - 1] ELSE Append(g[i - 1], s[i])
  <2>1. \A i \in 0..n : g[i] = Body(g, i)
    BY <1>5
  <2> QED
    BY <1>1, <2>1 DEF Body
<1>8. \A i \in 0..n : i \in {j \in 0..n : g[j] \in Seq(S)}
  <2> DEFINE P == {j \in 0..n : g[j] \in Seq(S)}
  <2>1. 0 \in P
    <3>1. 0 \in 0..n
      BY <1>1
    <3> QED
      BY <1>1, <1>7, <3>1, Zenon
  <2>2. ASSUME NEW i \in 0..(n - 1), i \in P PROVE i + 1 \in P
    <3>1. i + 1 \in 1..n /\ (i + 1) - 1 = i /\ i + 1 \in 0..n /\ s[i + 1] \in S
      BY <1>1
    <3>2. Append(g[i], s[i + 1]) \in Seq(S)
      BY <2>2, <3>1, AppendFacts
    <3> QED
      BY <1>7, <2>2, <3>1, <3>2
  <2> HIDE DEF P
  <2>3. \A i \in 0..n : i \in P
    BY <1>1, <2>1, <2>2, Induction
  <2> QED
    BY <2>3 DEF P
<1>9. g \in [0..n -> Seq(S)]
  <2>1. g = [i \in 0..n |-> g[i]]
    BY <1>5, <1>7
  <2> QED
    BY <1>8, <2>1
<1>10. Filters(g, s, D)
  BY <1>6, <1>7 DEF Filters
<1> QED
  BY <1>9, <1>10

\* It keeps the elements that are not gone, in order and each as often.
LEMMA WithoutFacts ==
  ASSUME NEW S, NEW s \in Seq(S), NEW D
  PROVE  /\ Without(s, D) \in Seq(S) /\ ToSet(Without(s, D)) = ToSet(s) \ D
         /\ IsInjective(s) => IsInjective(Without(s, D))
<1> DEFINE n == Len(s)
           First(m) == {s[i] : i \in 1..m}
<1>1. n \in Nat /\ (\A i \in 1..n : s[i] \in S) /\ ToSet(s) = First(n)
  BY SeqFacts
<1>2. PICK g \in [0..n -> Seq(S)] :
        /\ g[0] = <<>> /\ g[n] = Without(s, D)
        /\ \A i \in 1..n : g[i] = IF s[i] \in D THEN g[i - 1] ELSE Append(g[i - 1], s[i])
  <2>1. \E g \in [0..n -> Seq(S)] : Filters(g, s, D)
    BY WithoutSteps
  <2> QED
    BY <2>1 DEF Filters
<1> DEFINE Good(m) == /\ ToSet(g[m]) = First(m) \ D
                      /\ IsInjective(s) => IsInjective(g[m])
           P == {m \in 0..n : Good(m)}
<1>3. 0 \in P
  <2>1. <<>> \in Seq(S) /\ Len(<<>>) = 0
    BY EmptySeq
  <2>2. ToSet(<<>>) = {} /\ IsInjective(<<>>)
    BY DEF ToSet, IsInjective
  <2>3. First(0) = {}
    OBVIOUS
  <2> QED
    BY <1>1, <1>2, <2>2, <2>3
<1>4. ASSUME NEW m \in 0..(n - 1), m \in P PROVE m + 1 \in P
  <2> DEFINE e == s[m + 1]
  <2>1. m + 1 \in 1..n /\ m + 1 \in 0..n /\ (m + 1) - 1 = m /\ e \in S /\ m \in 0..n /\ g[m] \in Seq(S)
    BY <1>1
  <2>2. g[m + 1] = IF e \in D THEN g[m] ELSE Append(g[m], e)
    BY <1>2, <2>1
  <2>3. First(m + 1) = First(m) \cup {e}
    <3>1. 1..(m + 1) = (1..m) \cup {m + 1}
      BY <1>1
    <3> QED
      BY <3>1
  <2>4. IsInjective(s) => e \notin First(m)
    <3>1. \A i \in 1..m : i \in 1..n /\ i # m + 1
      BY <1>1
    <3>2. IsInjective(s) => \A i, j \in 1..n : s[i] = s[j] => i = j
      BY Distinct
    <3> QED
      BY <2>1, <3>1, <3>2
  <2>5. Good(m)
    BY <1>4
  <2> HIDE DEF e, First
  <2>6. CASE e \in D
    BY <2>1, <2>2, <2>3, <2>5, <2>6
  <2>7. CASE e \notin D
    <3>1. ToSet(Append(g[m], e)) = ToSet(g[m]) \cup {e}
      BY <2>1, AppendFacts
    <3>2. IsInjective(s) => IsInjective(Append(g[m], e))
      BY <2>1, <2>4, <2>5, AppendDistinct
    <3> QED
      BY <2>1, <2>2, <2>3, <2>5, <2>7, <3>1, <3>2
  <2> QED
    BY <2>6, <2>7
<1> HIDE DEF Good
<1>5. \A m \in 0..n : m \in P
  <2> HIDE DEF P
  <2> QED
    BY <1>1, <1>3, <1>4, Induction
<1>6. Good(n)
  BY <1>1, <1>5
<1> QED
  BY <1>1, <1>2, <1>6 DEF Good

-----------------------------------------------------------------------------
(* Sequences end to end *)

Joins(g, seqs) ==
  /\ g[0] = <<>> /\ g[Len(seqs)] = Concat(seqs)
  /\ \A i \in 1..Len(seqs) : g[i] = g[i - 1] \o seqs[i]

LEMMA ConcatSteps ==
  ASSUME NEW S, NEW seqs \in Seq(Seq(S))
  PROVE  \E g \in [0..Len(seqs) -> Seq(S)] : Joins(g, seqs)
<1> DEFINE n == Len(seqs)
           Body(f, i) == IF i = 0 THEN <<>> ELSE f[i - 1] \o seqs[i]
           G == [i \in 1..n |-> [y \in Seq(S) |-> y \o seqs[i]]]
           g == CHOOSE f : f = [i \in 0..n |-> Body(f, i)]
<1>1. n \in Nat /\ <<>> \in Seq(S) /\ \A i \in 1..n : seqs[i] \in Seq(S)
  BY SeqFacts, EmptySeq
<1>2. G \in [1..n -> [Seq(S) -> Seq(S)]]
  <2>1. ASSUME NEW i \in 1..n, NEW y \in Seq(S) PROVE y \o seqs[i] \in Seq(S)
    BY <1>1, ConcatProperties
  <2> QED
    BY <2>1
<1>3. PICK f \in [0..n -> Seq(S)] : f[0] = <<>> /\ \A i \in 1..n : f[i] = G[i][f[i - 1]]
  <2> HIDE DEF G, n
  <2>1. \E f \in [0..n -> Seq(S)] : Iterates(f, n, <<>>, G)
    BY <1>1, <1>2, Iterated
  <2> QED
    BY <2>1 DEF Iterates
<1>4. \A i \in 0..n : f[i] = Body(f, i)
  <2> TAKE i \in 0..n
  <2>1. CASE i = 0
    BY <1>3, <2>1
  <2>2. CASE i # 0
    <3>1. i \in 1..n /\ i - 1 \in 0..n
      BY <1>1, <2>2
    <3>2. f[i] = G[i][f[i - 1]] /\ f[i - 1] \in Seq(S)
      BY <1>3, <3>1
    <3> QED
      BY <2>2, <3>1, <3>2
  <2> QED
    BY <2>1, <2>2
<1> HIDE DEF G, Body
<1>5. g = [i \in 0..n |-> Body(g, i)]
  <2>1. f = [i \in 0..n |-> Body(f, i)]
    BY <1>4
  <2> QED
    BY <2>1
<1>6. Concat(seqs) = g[n]
  BY DEF Concat, Body
<1> HIDE DEF g
<1>7. g[0] = <<>> /\ \A i \in 1..n : g[i] = g[i - 1] \o seqs[i]
  <2>1. \A i \in 0..n : g[i] = Body(g, i)
    BY <1>5
  <2>2. 0 \in 0..n /\ \A i \in 1..n : i \in 0..n /\ i # 0
    BY <1>1
  <2>3. Body(g, 0) = <<>> /\ \A i \in 1..n : Body(g, i) = g[i - 1] \o seqs[i]
    BY <2>2 DEF Body
  <2> QED
    BY <2>1, <2>2, <2>3
<1>8. \A i \in 0..n : g[i] \in Seq(S)
  <2> DEFINE P == {j \in 0..n : g[j] \in Seq(S)}
  <2>1. 0 \in P
    <3>1. 0 \in 0..n
      BY <1>1
    <3> QED
      BY <1>1, <1>7, <3>1, Zenon
  <2>2. ASSUME NEW i \in 0..(n - 1), i \in P PROVE i + 1 \in P
    <3>1. i + 1 \in 1..n /\ (i + 1) - 1 = i /\ i + 1 \in 0..n /\ seqs[i + 1] \in Seq(S)
      BY <1>1
    <3>2. g[i] \o seqs[i + 1] \in Seq(S)
      BY <2>2, <3>1, ConcatProperties
    <3> QED
      BY <1>7, <2>2, <3>1, <3>2
  <2> HIDE DEF P
  <2>3. \A i \in 0..n : i \in P
    BY <1>1, <2>1, <2>2, Induction
  <2> QED
    BY <2>3 DEF P
<1>9. g \in [0..n -> Seq(S)]
  <2>1. g = [i \in 0..n |-> g[i]]
    BY <1>5, <1>7
  <2> QED
    BY <1>8, <2>1
<1>10. Joins(g, seqs)
  BY <1>6, <1>7 DEF Joins
<1> QED
  BY <1>9, <1>10

\* Where each of them begins, and that they fill the whole.
Offsets(off, seqs) ==
  /\ off[0] = 0 /\ off[Len(seqs)] = Len(Concat(seqs))
  /\ \A i \in 1..Len(seqs) : off[i] = off[i - 1] + Len(seqs[i])
  /\ \A i \in 1..Len(seqs) : \A j \in 1..Len(seqs[i]) :
       off[i - 1] + j \in 1..Len(Concat(seqs)) /\ Concat(seqs)[off[i - 1] + j] = seqs[i][j]
  /\ \A k \in 1..Len(Concat(seqs)) :
       \E i \in 1..Len(seqs) : \E j \in 1..Len(seqs[i]) : k = off[i - 1] + j

LEMMA ConcatFacts ==
  ASSUME NEW S, NEW seqs \in Seq(Seq(S))
  PROVE  /\ Concat(seqs) \in Seq(S)
         /\ \E off \in [0..Len(seqs) -> Nat] : Offsets(off, seqs)
<1> DEFINE n == Len(seqs)
<1>1. n \in Nat /\ \A i \in 1..n : seqs[i] \in Seq(S) /\ Len(seqs[i]) \in Nat
  BY SeqFacts
<1>2. PICK g \in [0..n -> Seq(S)] :
        g[0] = <<>> /\ g[n] = Concat(seqs) /\ \A i \in 1..n : g[i] = g[i - 1] \o seqs[i]
  <2>1. \E g \in [0..n -> Seq(S)] : Joins(g, seqs)
    BY ConcatSteps
  <2> QED
    BY <2>1 DEF Joins
<1> DEFINE off == [i \in 0..n |-> Len(g[i])]
           Good(m) == /\ \A i \in 1..m : \A j \in 1..Len(seqs[i]) :
                           off[i - 1] + j \in 1..off[m] /\ g[m][off[i - 1] + j] = seqs[i][j]
                      /\ \A k \in 1..off[m] : \E i \in 1..m : \E j \in 1..Len(seqs[i]) : k = off[i - 1] + j
           P == {m \in 0..n : Good(m)}
<1>3. off \in [0..n -> Nat] /\ off[0] = 0 /\ off[n] = Len(Concat(seqs)) /\ \A i \in 0..n : off[i] = Len(g[i])
  <2>1. \A i \in 0..n : Len(g[i]) \in Nat
    BY SeqFacts
  <2>2. 0 \in 0..n /\ n \in 0..n /\ Len(<<>>) = 0
    BY <1>1
  <2> QED
    BY <1>2, <2>1, <2>2
<1> HIDE DEF off
<1>4. ASSUME NEW i \in 1..n
      PROVE  /\ i - 1 \in 0..n /\ i \in 0..n /\ off[i] = off[i - 1] + Len(seqs[i]) /\ off[i - 1] \in Nat /\ off[i] \in Nat
             /\ \A k \in 1..off[i] : g[i][k] = IF k <= off[i - 1] THEN g[i - 1][k] ELSE seqs[i][k - off[i - 1]]
  <2>1. i - 1 \in 0..n /\ i \in 0..n
    BY <1>1
  <2>2. g[i] = g[i - 1] \o seqs[i] /\ g[i - 1] \in Seq(S) /\ seqs[i] \in Seq(S)
    BY <1>1, <1>2, <2>1
  <2>3. Len(g[i]) = Len(g[i - 1]) + Len(seqs[i])
    BY <2>2, ConcatProperties
  <2>4. off[i - 1] = Len(g[i - 1]) /\ off[i] = Len(g[i]) /\ off[i - 1] \in Nat /\ off[i] \in Nat
    BY <1>3, <2>1
  <2>5. \A k \in 1..Len(g[i - 1]) + Len(seqs[i]) :
          (g[i - 1] \o seqs[i])[k] = IF k <= Len(g[i - 1]) THEN g[i - 1][k] ELSE seqs[i][k - Len(g[i - 1])]
    BY <2>2, ConcatProperties
  <2> QED
    BY <2>1, <2>2, <2>3, <2>4, <2>5
<1>5. 0 \in P
  BY <1>1, <1>3
<1>6. ASSUME NEW m \in 0..(n - 1), m \in P PROVE m + 1 \in P
  <2> DEFINE w == seqs[m + 1]
  <2>1. m + 1 \in 1..n /\ m + 1 \in 0..n /\ (m + 1) - 1 = m /\ m \in 0..n /\ m \in Nat /\ Len(w) \in Nat
    BY <1>1
  <2>2. /\ off[m + 1] = off[m] + Len(w) /\ off[m] \in Nat /\ off[m + 1] \in Nat
        /\ \A k \in 1..off[m + 1] : g[m + 1][k] = IF k <= off[m] THEN g[m][k] ELSE w[k - off[m]]
    BY <1>4, <2>1
  <2>3. Good(m)
    BY <1>6
  <2> HIDE DEF w
  <2>4. ASSUME NEW i \in 1..(m + 1), NEW j \in 1..Len(seqs[i])
        PROVE  off[i - 1] + j \in 1..off[m + 1] /\ g[m + 1][off[i - 1] + j] = seqs[i][j]
    <3>1. CASE i = m + 1
      <4>1. j \in 1..Len(w) /\ j \in Nat /\ seqs[i][j] = w[j] /\ i - 1 = m
        BY <2>1, <3>1 DEF w
      <4>2. off[m] + j \in 1..off[m + 1] /\ ~ (off[m] + j <= off[m]) /\ (off[m] + j) - off[m] = j
        <5> DEFINE l == off[m]
                   z == Len(w)
        <5>1. l \in Nat /\ z \in Nat /\ j \in 1..z /\ off[m + 1] = l + z
          BY <2>1, <2>2, <4>1
        <5> HIDE DEF l, z
        <5>2. l + j \in 1..(l + z) /\ ~ (l + j <= l) /\ (l + j) - l = j
          BY <5>1
        <5> QED
          BY <5>1, <5>2 DEF l
      <4> QED
        BY <2>2, <4>1, <4>2
    <3>2. CASE i # m + 1
      <4>1. i \in 1..m
        BY <2>1, <3>2
      <4>2. off[i - 1] + j \in 1..off[m] /\ g[m][off[i - 1] + j] = seqs[i][j]
        BY <2>3, <4>1
      <4>3. off[i - 1] + j \in 1..off[m + 1] /\ off[i - 1] + j <= off[m]
        <5>1. off[m] \in Nat /\ Len(w) \in Nat /\ off[m + 1] = off[m] + Len(w)
          BY <2>1, <2>2
        <5>2. off[i - 1] + j \in Int
          BY <4>2
        <5>3. off[i - 1] + j \in 1..(off[m] + Len(w)) /\ off[i - 1] + j <= off[m]
          BY <4>2, <5>1, <5>2, WithinSum, Zenon
        <5> QED
          BY <5>1, <5>3, Zenon
      <4> QED
        BY <2>2, <4>2, <4>3
    <3> QED
      BY <3>1, <3>2
  <2>5. ASSUME NEW k \in 1..off[m + 1] PROVE \E i \in 1..(m + 1) : \E j \in 1..Len(seqs[i]) : k = off[i - 1] + j
    <3>1. CASE k <= off[m]
      <4>1. k \in 1..off[m] /\ \A i \in 1..m : i \in 1..(m + 1)
        BY <2>1, <2>2, <3>1
      <4> QED
        BY <2>3, <4>1
    <3>2. CASE ~ (k <= off[m])
      <4>1. k - off[m] \in 1..Len(w) /\ k = off[m] + (k - off[m]) /\ m + 1 \in 1..(m + 1)
        BY <2>1, <2>2, <3>2
      <4> QED
        BY <2>1, <4>1 DEF w
    <3> QED
      BY <3>1, <3>2
  <2> QED
    BY <2>1, <2>4, <2>5
<1> HIDE DEF Good
<1>7. \A m \in 0..n : m \in P
  <2> HIDE DEF P
  <2> QED
    BY <1>1, <1>5, <1>6, Induction
<1>8. Good(n)
  BY <1>1, <1>7
<1>9. Offsets(off, seqs)
  BY <1>1, <1>2, <1>3, <1>4, <1>8 DEF Offsets, Good
<1>10. Concat(seqs) \in Seq(S)
  BY <1>1, <1>2
<1> QED
  BY <1>3, <1>9, <1>10

-----------------------------------------------------------------------------
(* Rows of a batch *)

LEMMA StartLocFacts ==
  ASSUME NEW b, NEW n \in Nat, Len(b) = n, NEW off \in [0..n -> Nat], off[0] = 0,
         \A i \in 1..n : off[i] = off[i - 1] + b[i].n
  PROVE  \A i \in 1..n : StartLoc(b, i) = off[i - 1]
<1> DEFINE Body(f, k) == IF k = 1 THEN 0 ELSE f[k - 1] + b[k - 1].n
           h == [k \in 1..n |-> off[k - 1]]
           g == CHOOSE f : f = [k \in 1..n |-> Body(f, k)]
           P == {m \in 0..n : m = 0 \/ g[m] = off[m - 1]}
<1>1. h = [k \in 1..n |-> Body(h, k)]
  <2>1. ASSUME NEW k \in 1..n PROVE h[k] = Body(h, k)
    <3>1. CASE k = 1
      BY <3>1
    <3>2. CASE k # 1
      <4>1. k - 1 \in 1..n
        BY <3>2
      <4>2. h[k - 1] = off[(k - 1) - 1] /\ off[k - 1] = off[(k - 1) - 1] + b[k - 1].n
        BY <4>1
      <4> QED
        BY <3>2, <4>2
    <3> QED
      BY <3>1, <3>2
  <2>2. h = [k \in 1..n |-> h[k]]
    OBVIOUS
  <2> HIDE DEF h, Body
  <2> QED
    BY <2>1, <2>2
<1> HIDE DEF h, Body
<1>2. g = [k \in 1..n |-> Body(g, k)]
  BY <1>1
<1>3. \A i \in 1..n : StartLoc(b, i) = g[i]
  BY DEF StartLoc, Body
<1> HIDE DEF g
<1>4. \A k \in 1..n : g[k] = IF k = 1 THEN 0 ELSE g[k - 1] + b[k - 1].n
  BY <1>2 DEF Body
<1>5. ASSUME NEW m \in 0..(n - 1), m \in P PROVE m + 1 \in P
  <2>1. m + 1 \in 1..n /\ m + 1 \in 0..n /\ (m + 1) - 1 = m /\ m \in 0..n /\ m \in Nat
    OBVIOUS
  <2>2. g[m + 1] = off[m]
    <3>1. CASE m = 0
      BY <1>4, <2>1, <3>1
    <3>2. CASE m # 0
      <4>1. g[m] = off[m - 1] /\ m \in 1..n /\ m + 1 # 1
        BY <1>5, <2>1, <3>2
      <4>2. g[m + 1] = g[m] + b[m].n
        BY <1>4, <2>1, <4>1
      <4> QED
        BY <4>1, <4>2
    <3> QED
      BY <3>1, <3>2
  <2> QED
    BY <2>1, <2>2
<1>6. 0 \in P
  OBVIOUS
<1>7. \A m \in 0..n : m \in P
  <2> HIDE DEF P
  <2> QED
    BY <1>5, <1>6, Induction
<1>8. ASSUME NEW i \in 1..n PROVE g[i] = off[i - 1]
  <2>1. i \in 0..n /\ i # 0
    OBVIOUS
  <2> QED
    BY <1>7, <2>1
<1> QED
  BY <1>3, <1>8

\* Sequences as long as the shares of a batch, end to end: each lies where query_start_loc
\* says.
Fills(b, seqs, whole) ==
  /\ \A i \in 1..Len(b) : StartLoc(b, i) \in Nat
  /\ \A i \in 1..Len(b) : \A j \in 1..b[i].n :
       StartLoc(b, i) + j \in 1..Len(whole) /\ whole[StartLoc(b, i) + j] = seqs[i][j]
  /\ \A k \in 1..Len(whole) : \E i \in 1..Len(b) : \E j \in 1..b[i].n : k = StartLoc(b, i) + j
LEMMA Located ==
  ASSUME NEW S, NEW seqs \in Seq(Seq(S)), NEW b, Len(b) = Len(seqs),
         \A i \in 1..Len(b) : Len(seqs[i]) = b[i].n
  PROVE  Concat(seqs) \in Seq(S) /\ Fills(b, seqs, Concat(seqs))
<1>1. Len(seqs) \in Nat
  BY SeqFacts
<1>2. PICK off \in [0..Len(seqs) -> Nat] : Offsets(off, seqs)
  BY ConcatFacts
<1>3. \A i \in 1..Len(b) : StartLoc(b, i) = off[i - 1] /\ off[i - 1] \in Nat
  <2>1. off[0] = 0 /\ \A i \in 1..Len(seqs) : off[i] = off[i - 1] + b[i].n
    BY <1>2 DEF Offsets
  <2>2. \A i \in 1..Len(seqs) : i - 1 \in 0..Len(seqs)
    BY <1>1
  <2>3. \A i \in 1..Len(seqs) : StartLoc(b, i) = off[i - 1]
    BY <1>1, <2>1, StartLocFacts
  <2> QED
    BY <2>2, <2>3
<1>4. Concat(seqs) \in Seq(S)
  BY ConcatFacts
<1>5. ASSUME NEW i \in 1..Len(b), NEW j \in 1..b[i].n
      PROVE  /\ StartLoc(b, i) + j \in 1..Len(Concat(seqs))
             /\ Concat(seqs)[StartLoc(b, i) + j] = seqs[i][j]
  <2>1. i \in 1..Len(seqs) /\ j \in 1..Len(seqs[i])
    OBVIOUS
  <2> QED
    BY <1>2, <1>3, <2>1 DEF Offsets
<1>6. ASSUME NEW k \in 1..Len(Concat(seqs))
      PROVE  \E i \in 1..Len(b) : \E j \in 1..b[i].n : k = StartLoc(b, i) + j
  <2>1. PICK i \in 1..Len(seqs) : \E j \in 1..Len(seqs[i]) : k = off[i - 1] + j
    BY <1>2 DEF Offsets
  <2>2. PICK j \in 1..Len(seqs[i]) : k = off[i - 1] + j
    BY <2>1
  <2>3. i \in 1..Len(b) /\ j \in 1..b[i].n
    OBVIOUS
  <2> QED
    BY <1>3, <2>2, <2>3
<1> QED
  BY <1>3, <1>4, <1>5, <1>6 DEF Fills

Sized(b) == \A i \in 1..Len(b) : b[i].r \in Requests /\ b[i].n \in Nat /\ b[i].start \in Nat

RowSeqs(b) == [i \in DOMAIN b |-> RowsOf(b[i])]
LEMMA RowSeqsFacts ==
  ASSUME NEW E, NEW b \in Seq(E), Sized(b)
  PROVE  /\ RowSeqs(b) \in Seq(Seq(Requests \X Nat)) /\ Len(RowSeqs(b)) = Len(b)
         /\ \A i \in 1..Len(b) : /\ RowSeqs(b)[i] = RowsOf(b[i]) /\ Len(RowSeqs(b)[i]) = b[i].n
                                 /\ \A j \in 1..b[i].n : RowSeqs(b)[i][j] = <<b[i].r, b[i].start + j - 1>>
<1> DEFINE seqs == RowSeqs(b)
           T == Seq(Requests \X Nat)
<1>1. Len(b) \in Nat /\ DOMAIN b = 1..Len(b)
  BY SeqFacts
<1>2. ASSUME NEW i \in 1..Len(b)
      PROVE  /\ RowsOf(b[i]) \in T /\ Len(RowsOf(b[i])) = b[i].n
             /\ \A j \in 1..b[i].n : RowsOf(b[i])[j] = <<b[i].r, b[i].start + j - 1>>
  <2> DEFINE e == b[i]
  <2>1. e.r \in Requests /\ e.n \in Nat /\ e.start \in Nat
    BY DEF Sized
  <2> HIDE DEF e
  <2>2. \A j \in 1..e.n : <<e.r, e.start + j - 1>> \in Requests \X Nat
    BY <2>1
  <2>3. RowsOf(e) \in [1..e.n -> Requests \X Nat]
    BY <2>2 DEF RowsOf
  <2>4. RowsOf(e) \in T /\ Len(RowsOf(e)) = e.n
    BY <2>1, <2>3, SeqDef
  <2>5. \A j \in 1..e.n : RowsOf(e)[j] = <<e.r, e.start + j - 1>>
    BY DEF RowsOf
  <2> QED
    BY <2>4, <2>5 DEF e
<1>3. seqs \in [1..Len(b) -> T]
  BY <1>1, <1>2 DEF RowSeqs
<1>4. seqs \in Seq(T) /\ Len(seqs) = Len(b)
  <2> HIDE DEF seqs, T
  <2> QED
    BY <1>1, <1>3, SeqDef
<1>5. \A i \in 1..Len(b) : seqs[i] = RowsOf(b[i])
  BY <1>1 DEF RowSeqs
<1> QED
  BY <1>1, <1>2, <1>4, <1>5

\* The rows of a batch, and where they are.
LEMMA RowsFacts ==
  ASSUME NEW E, NEW b \in Seq(E), Sized(b)
  PROVE  /\ RowsOfBatch(b) \in Seq(Requests \X Nat)
         /\ \A i \in 1..Len(b) : StartLoc(b, i) \in Nat
         /\ \A i \in 1..Len(b) : \A j \in 1..b[i].n :
              /\ StartLoc(b, i) + j \in 1..Len(RowsOfBatch(b))
              /\ RowsOfBatch(b)[StartLoc(b, i) + j] = <<b[i].r, b[i].start + j - 1>>
         /\ \A k \in 1..Len(RowsOfBatch(b)) :
              \E i \in 1..Len(b) : \E j \in 1..b[i].n : k = StartLoc(b, i) + j
<1>1. RowsOfBatch(b) = Concat(RowSeqs(b))
  BY DEF RowsOfBatch, RowSeqs
<1>2. /\ RowSeqs(b) \in Seq(Seq(Requests \X Nat)) /\ Len(b) = Len(RowSeqs(b))
      /\ \A i \in 1..Len(b) : Len(RowSeqs(b)[i]) = b[i].n
      /\ \A i \in 1..Len(b) : \A j \in 1..b[i].n : RowSeqs(b)[i][j] = <<b[i].r, b[i].start + j - 1>>
  BY RowSeqsFacts
<1>3. RowsOfBatch(b) \in Seq(Requests \X Nat) /\ Fills(b, RowSeqs(b), RowsOfBatch(b))
  BY <1>1, <1>2, Located
<1> QED
  BY <1>2, <1>3 DEF Fills

LEMMA RowAt ==
  ASSUME NEW E, NEW b \in Seq(E), Sized(b)
  PROVE  /\ RowsOfBatch(b) \in Seq(Requests \X Nat)
         /\ \A i \in 1..Len(b) : \A j \in 1..b[i].n :
              /\ StartLoc(b, i) + j \in 1..Len(RowsOfBatch(b))
              /\ RowsOfBatch(b)[StartLoc(b, i) + j] = <<b[i].r, b[i].start + j - 1>>
BY RowsFacts

\* The number of rows adds up.
Totals(off, b) ==
  /\ off[0] = 0 /\ off[Len(b)] = Len(RowsOfBatch(b))
  /\ \A i \in 1..Len(b) : off[i] = off[i - 1] + b[i].n

LEMMA TotalSteps ==
  ASSUME NEW E, NEW b \in Seq(E), Sized(b)
  PROVE  \E off \in [0..Len(b) -> Nat] : Totals(off, b)
<1>1. /\ RowSeqs(b) \in Seq(Seq(Requests \X Nat)) /\ Len(b) = Len(RowSeqs(b))
      /\ \A i \in 1..Len(b) : Len(RowSeqs(b)[i]) = b[i].n
  BY RowSeqsFacts
<1>2. PICK off \in [0..Len(RowSeqs(b)) -> Nat] : Offsets(off, RowSeqs(b))
  BY <1>1, ConcatFacts
<1>3. RowsOfBatch(b) = Concat(RowSeqs(b))
  BY DEF RowsOfBatch, RowSeqs
<1>4. Totals(off, b)
  BY <1>1, <1>2, <1>3 DEF Totals, Offsets
<1> QED
  BY <1>1, <1>2, <1>4

\* A part of a batch adds what it adds alone.
LEMMA TotalPart ==
  ASSUME NEW E, NEW b \in Seq(E), NEW c \in Seq(E), Sized(b), NEW k \in Nat, k + Len(b) <= Len(c),
         \A i \in 1..Len(b) : c[k + i] = b[i],
         NEW off \in [0..Len(b) -> Nat], Totals(off, b),
         NEW lo \in [0..Len(c) -> Nat], Totals(lo, c)
  PROVE  lo[k + Len(b)] = lo[k] + Len(RowsOfBatch(b))
<1> DEFINE n == Len(b)
           P == {i \in 0..n : lo[k + i] = lo[k] + off[i]}
<1>1. n \in Nat /\ Len(c) \in Nat /\ k \in 0..Len(c) /\ lo[k] \in Nat
  <2>1. n \in Nat /\ Len(c) \in Nat
    BY SeqFacts
  <2> HIDE DEF n
  <2>2. k \in 0..Len(c)
    BY <2>1 DEF n
  <2> QED
    BY <2>1, <2>2
<1>2. 0 \in P
  BY <1>1 DEF Totals
<1>3. ASSUME NEW i \in 0..(n - 1), i \in P PROVE i + 1 \in P
  <2>1. /\ i \in 0..n /\ i + 1 \in 1..n /\ i + 1 \in 0..n /\ (i + 1) - 1 = i
        /\ k + (i + 1) \in 1..Len(c) /\ (k + (i + 1)) - 1 = k + i /\ k + i \in 0..Len(c)
    BY <1>1
  <2>2. off[i + 1] = off[i] + b[i + 1].n /\ lo[k + (i + 1)] = lo[k + i] + c[k + (i + 1)].n
    BY <2>1 DEF Totals
  <2>3. c[k + (i + 1)] = b[i + 1] /\ b[i + 1].n \in Nat /\ lo[k + i] = lo[k] + off[i] /\ off[i] \in Nat
    BY <1>3, <2>1 DEF Sized
  <2>4. lo[k + (i + 1)] = lo[k] + off[i + 1]
    <3>1. lo[k + (i + 1)] = (lo[k] + off[i]) + b[i + 1].n
      BY <2>2, <2>3, Zenon
    <3>2. lo[k] \in Nat /\ off[i] \in Nat /\ b[i + 1].n \in Nat
      BY <1>1, <2>3, Zenon
    <3>3. \A y, z, v \in Nat : (y + z) + v = y + (z + v)
      BY SumMoved
    <3>4. (lo[k] + off[i]) + b[i + 1].n = lo[k] + (off[i] + b[i + 1].n)
      BY <3>2, <3>3
    <3> QED
      BY <2>2, <3>1, <3>4, Zenon
  <2> QED
    BY <2>1, <2>4
<1>4. \A i \in 0..n : i \in P
  <2> HIDE DEF P
  <2> QED
    BY <1>1, <1>2, <1>3, Induction
<1>5. lo[k + n] = lo[k] + off[n]
  BY <1>1, <1>4
<1> QED
  BY <1>5 DEF Totals

LEMMA TotalEmpty == Len(RowsOfBatch(<<>>)) = 0
<1>1. <<>> \in Seq({}) /\ Len(<<>>) = 0
  BY EmptySeq
<1>2. Sized(<<>>)
  BY <1>1 DEF Sized
<1>3. PICK off \in [0..Len(<<>>) -> Nat] : Totals(off, <<>>)
  BY <1>1, <1>2, TotalSteps
<1> QED
  BY <1>1, <1>3 DEF Totals

LEMMA TotalJoined ==
  ASSUME NEW E, NEW b \in Seq(E), NEW c \in Seq(E), Sized(b), Sized(c)
  PROVE  /\ Sized(b \o c)
         /\ Len(RowsOfBatch(b \o c)) = Len(RowsOfBatch(b)) + Len(RowsOfBatch(c))
<1> DEFINE d == b \o c
<1>1. /\ Len(b) \in Nat /\ Len(c) \in Nat /\ d \in Seq(E) /\ Len(d) = Len(b) + Len(c)
      /\ \A i \in 1..Len(d) : d[i] = IF i <= Len(b) THEN b[i] ELSE c[i - Len(b)]
  BY SeqFacts, ConcatProperties
<1> HIDE DEF d
<1>2. \A i \in 1..Len(b) : d[0 + i] = b[i]
  <2>1. \A i \in 1..Len(b) : i \in 1..Len(d) /\ i <= Len(b) /\ 0 + i = i
    BY <1>1
  <2> QED
    BY <1>1, <2>1
<1>3. \A i \in 1..Len(c) : d[Len(b) + i] = c[i]
  <2>1. \A i \in 1..Len(c) : Len(b) + i \in 1..Len(d) /\ ~ (Len(b) + i <= Len(b)) /\ (Len(b) + i) - Len(b) = i
    BY <1>1
  <2> QED
    BY <1>1, <2>1
<1>4. Sized(d)
  <2>1. ASSUME NEW i \in 1..Len(d) PROVE d[i].r \in Requests /\ d[i].n \in Nat /\ d[i].start \in Nat
    <3>1. CASE i <= Len(b)
      <4>1. i \in 1..Len(b) /\ d[i] = b[i]
        BY <1>1, <3>1
      <4> QED
        BY <4>1 DEF Sized
    <3>2. CASE ~ (i <= Len(b))
      <4>1. i - Len(b) \in 1..Len(c) /\ d[i] = c[i - Len(b)]
        BY <1>1, <3>2
      <4> QED
        BY <4>1 DEF Sized
    <3> QED
      BY <3>1, <3>2
  <2> QED
    BY <2>1 DEF Sized
<1>5. PICK lb \in [0..Len(b) -> Nat] : Totals(lb, b)
  BY TotalSteps
<1>6. PICK lc \in [0..Len(c) -> Nat] : Totals(lc, c)
  BY TotalSteps
<1>7. PICK ld \in [0..Len(d) -> Nat] : Totals(ld, d)
  BY <1>1, <1>4, TotalSteps
<1>8. ld[0 + Len(b)] = ld[0] + Len(RowsOfBatch(b))
  <2>1. 0 + Len(b) <= Len(d)
    BY <1>1
  <2> QED
    BY <1>1, <1>2, <1>5, <1>7, <2>1, TotalPart
<1>9. ld[Len(b) + Len(c)] = ld[Len(b)] + Len(RowsOfBatch(c))
  <2>1. Len(b) + Len(c) <= Len(d)
    BY <1>1
  <2> QED
    BY <1>1, <1>3, <1>6, <1>7, <2>1, TotalPart
<1>10. Len(RowsOfBatch(b)) \in Nat /\ Len(RowsOfBatch(c)) \in Nat
  BY RowsFacts, SeqFacts
<1>11. ld[0] = 0 /\ ld[Len(d)] = Len(RowsOfBatch(d)) /\ 0 + Len(b) = Len(b)
  BY <1>1, <1>7 DEF Totals
<1>12. Len(RowsOfBatch(d)) = Len(RowsOfBatch(b)) + Len(RowsOfBatch(c))
  BY <1>1, <1>8, <1>9, <1>10, <1>11
<1> QED
  BY <1>4, <1>12 DEF d

LEMMA TotalAppend ==
  ASSUME NEW E, NEW b \in Seq(E), NEW e \in E, Sized(b),
         e.r \in Requests, e.n \in Nat, e.start \in Nat
  PROVE  Sized(Append(b, e)) /\ Len(RowsOfBatch(Append(b, e))) = Len(RowsOfBatch(b)) + e.n
<1>1. <<e>> \in Seq(E) /\ Len(<<e>>) = 1 /\ <<e>>[1] = e /\ Append(b, e) = b \o <<e>>
  BY AppendIsConcat
<1>2. Sized(<<e>>)
  BY <1>1 DEF Sized
<1>3. PICK off \in [0..Len(<<e>>) -> Nat] : Totals(off, <<e>>)
  BY <1>1, <1>2, TotalSteps
<1>4. Len(RowsOfBatch(<<e>>)) = e.n
  BY <1>1, <1>3 DEF Totals
<1> QED
  BY <1>1, <1>2, <1>4, TotalJoined

\* Two filters that part a batch part its rows.
LEMMA TotalParted ==
  ASSUME NEW E, NEW b \in Seq(E), NEW X, NEW Y, \A i \in 1..Len(b) : b[i] \in X <=> b[i] \notin Y,
         \A e \in E : e.r \in Requests /\ e.n \in Nat /\ e.start \in Nat
  PROVE  Len(RowsOfBatch(Without(b, X) \o Without(b, Y))) = Len(RowsOfBatch(b))
<1> DEFINE n == Len(b)
           Rows(s) == Len(RowsOfBatch(s))
<1>1. n \in Nat /\ \A i \in 1..n : b[i] \in E
  BY SeqFacts
<1>2. ASSUME NEW s \in Seq(E) PROVE Sized(s) /\ Rows(s) \in Nat
  <2>1. \A i \in 1..Len(s) : s[i] \in E
    BY SeqFacts
  <2>2. Sized(s)
    BY <2>1 DEF Sized
  <2> QED
    BY <2>2, RowsFacts, SeqFacts
<1>3. PICK f \in [0..n -> Seq(E)] : Filters(f, b, X)
  BY WithoutSteps
<1>4. PICK g \in [0..n -> Seq(E)] : Filters(g, b, Y)
  BY WithoutSteps
<1>5. PICK off \in [0..n -> Nat] : Totals(off, b)
  BY <1>2, TotalSteps
<1> DEFINE P == {i \in 0..n : Rows(f[i]) + Rows(g[i]) = off[i]}
<1>6. 0 \in P
  <2>1. f[0] = <<>> /\ g[0] = <<>> /\ off[0] = 0 /\ 0 \in 0..n
    BY <1>1, <1>3, <1>4, <1>5 DEF Filters, Totals
  <2> QED
    BY <2>1, TotalEmpty
<1>7. ASSUME NEW i \in 0..(n - 1), i \in P PROVE i + 1 \in P
  <2> DEFINE e == b[i + 1]
  <2>1. i \in 0..n /\ i + 1 \in 1..n /\ i + 1 \in 0..n /\ (i + 1) - 1 = i /\ e \in E
    BY <1>1
  <2>2. /\ f[i + 1] = IF e \in X THEN f[i] ELSE Append(f[i], e)
        /\ g[i + 1] = IF e \in Y THEN g[i] ELSE Append(g[i], e)
        /\ off[i + 1] = off[i] + e.n
        /\ e \in X <=> e \notin Y
    BY <1>3, <1>4, <1>5, <2>1 DEF Filters, Totals
  <2>3. f[i] \in Seq(E) /\ g[i] \in Seq(E) /\ e.n \in Nat /\ Rows(f[i]) + Rows(g[i]) = off[i]
    BY <1>7, <2>1
  <2> HIDE DEF e
  <2>4. Rows(Append(f[i], e)) = Rows(f[i]) + e.n /\ Rows(Append(g[i], e)) = Rows(g[i]) + e.n
    BY <1>2, <2>1, <2>3, TotalAppend
  <2>5. Rows(f[i]) \in Nat /\ Rows(g[i]) \in Nat
    BY <1>2, <2>3
  <2> HIDE DEF Rows
  <2>6. Rows(f[i + 1]) + Rows(g[i + 1]) = off[i + 1]
    <3>1. CASE e \in X
      <4>1. f[i + 1] = f[i] /\ g[i + 1] = Append(g[i], e)
        BY <2>2, <3>1
      <4> QED
        BY <2>2, <2>3, <2>4, <2>5, <4>1
    <3>2. CASE e \notin X
      <4>1. g[i + 1] = g[i] /\ f[i + 1] = Append(f[i], e)
        BY <2>2, <3>2
      <4> QED
        BY <2>2, <2>3, <2>4, <2>5, <4>1
    <3> QED
      BY <3>1, <3>2
  <2> QED
    BY <2>1, <2>6
<1>8. \A i \in 0..n : i \in P
  <2> HIDE DEF P
  <2> QED
    BY <1>1, <1>6, <1>7, Induction
<1>9. Rows(Without(b, X)) + Rows(Without(b, Y)) = Rows(b)
  <2>1. n \in 0..n
    BY <1>1
  <2>2. Rows(f[n]) + Rows(g[n]) = off[n]
    BY <1>8, <2>1
  <2> QED
    BY <1>3, <1>4, <1>5, <2>2 DEF Filters, Totals
<1>10. Without(b, X) \in Seq(E) /\ Without(b, Y) \in Seq(E)
  BY WithoutFacts
<1> QED
  BY <1>2, <1>9, <1>10, TotalJoined

-----------------------------------------------------------------------------
(* The plan of a truncated step *)

Shares(b) == b \in Seq(Entries) /\ \A i \in 1..Len(b) : b[i].n >= 1

LEMMA SharesSized ==
  ASSUME NEW b, Shares(b)
  PROVE  /\ b \in Seq(Entries) /\ Sized(b) /\ Len(b) \in Nat /\ DOMAIN b = 1..Len(b)
         /\ \A i \in 1..Len(b) :
              /\ b[i] \in Entries /\ b[i].r \in Requests /\ b[i].n \in Nat /\ b[i].n >= 1
              /\ b[i].start \in Nat /\ b[i].prefill \in Nat /\ b[i].prefilling \in BOOLEAN
<1>1. b \in Seq(Entries)
  BY DEF Shares
<1>2. Len(b) \in Nat /\ DOMAIN b = 1..Len(b) /\ \A i \in 1..Len(b) : b[i] \in Entries
  BY <1>1, SeqFacts
<1> QED
  BY <1>1, <1>2 DEF Shares, Sized, Entries

\* The metadata of the whole step describe its rows.
LEMMA FullRows ==
  ASSUME NEW b, Shares(b)
  PROVE  RowsOfBatch(Full(b)) = RowsOfBatch(b)
<1>1. DOMAIN Full(b) = DOMAIN b /\ \A i \in DOMAIN b : Full(b)[i].r = b[i].r /\ Full(b)[i].n = b[i].n
                                                       /\ Full(b)[i].start = b[i].start
  BY DEF Full
<1>2. \A i \in DOMAIN b : RowsOf(Full(b)[i]) = RowsOf(b[i])
  BY <1>1 DEF RowsOf
<1>3. [i \in DOMAIN Full(b) |-> RowsOf(Full(b)[i])] = [i \in DOMAIN b |-> RowsOf(b[i])]
  BY <1>1, <1>2
<1> QED
  BY <1>3, Zenon DEF RowsOfBatch

LEMMA FullFacts ==
  ASSUME NEW b, Shares(b)
  PROVE  /\ Len(Full(b)) = Len(b) /\ DOMAIN Full(b) = 1..Len(b) /\ Sized(Full(b))
         /\ \E E : Full(b) \in Seq(E)
         /\ \A i \in 1..Len(b) :
              Full(b)[i] = [r |-> b[i].r, n |-> b[i].n, start |-> b[i].start, lower |-> 0, store |-> TRUE]
<1> DEFINE E == {Full(b)[i] : i \in 1..Len(b)}
<1>1. Len(b) \in Nat /\ DOMAIN b = 1..Len(b) /\ Sized(b)
  BY SharesSized
<1>2. Full(b) \in [1..Len(b) -> E]
  BY <1>1 DEF Full
<1>3. Full(b) \in Seq(E) /\ Len(Full(b)) = Len(b)
  <2> HIDE DEF E
  <2> QED
    BY <1>1, <1>2, SeqDef
<1>4. \A i \in 1..Len(b) :
        Full(b)[i] = [r |-> b[i].r, n |-> b[i].n, start |-> b[i].start, lower |-> 0, store |-> TRUE]
  BY <1>1 DEF Full
<1>5. Sized(Full(b))
  <2>1. ASSUME NEW i \in 1..Len(b)
        PROVE  Full(b)[i].r \in Requests /\ Full(b)[i].n \in Nat /\ Full(b)[i].start \in Nat
    <3>1. b[i].r \in Requests /\ b[i].n \in Nat /\ b[i].start \in Nat
      BY <1>1 DEF Sized
    <3>2. Full(b)[i].r = b[i].r /\ Full(b)[i].n = b[i].n /\ Full(b)[i].start = b[i].start
      <4>1. Full(b)[i] = [r |-> b[i].r, n |-> b[i].n, start |-> b[i].start, lower |-> 0, store |-> TRUE]
        BY <1>4
      <4> QED
        BY <4>1
    <3> QED
      BY <3>1, <3>2
  <2> QED
    BY <1>3, <2>1 DEF Sized
<1> QED
  BY <1>2, <1>3, <1>4, <1>5

\* At least the last row of each request stays.
LEMMA FirstKeptFacts ==
  ASSUME NEW e \in Entries, e.n >= 1, NEW keep \in Nat
  PROVE  /\ FirstKept(e, keep) \in Nat /\ FirstKept(e, keep) < e.n /\ LowerBound(e, keep) \in Nat
         /\ ~ Truncated(e, keep) => FirstKept(e, keep) = 0 /\ LowerBound(e, keep) = 0 /\ ~ Placeholder(e, keep)
         /\ Truncated(e, keep) =>
              /\ LowerBound(e, keep) = e.prefill - keep
              /\ Placeholder(e, keep) => e.start + e.n <= e.prefill - keep /\ FirstKept(e, keep) = e.n - 1
              /\ ~ Placeholder(e, keep) =>
                   e.start + FirstKept(e, keep) = AtLeast(e.start, e.prefill - keep)
<1>1. e.n \in Nat /\ e.start \in Nat /\ e.prefill \in Nat /\ e.prefilling \in BOOLEAN
  BY DEF Entries
<1> QED
  BY <1>1 DEF FirstKept, LowerBound, Placeholder, Truncated, AtLeast

LEMMA CompactFacts ==
  ASSUME NEW b, Shares(b), NEW keep \in Nat
  PROVE  /\ Len(Compact(b, keep)) = Len(b) /\ DOMAIN Compact(b, keep) = 1..Len(b) /\ Sized(Compact(b, keep))
         /\ \E E : Compact(b, keep) \in Seq(E)
         /\ \A i \in 1..Len(b) :
              Compact(b, keep)[i] =
                [r |-> b[i].r, n |-> b[i].n - FirstKept(b[i], keep), start |-> b[i].start + FirstKept(b[i], keep),
                 lower |-> LowerBound(b[i], keep), store |-> ~Placeholder(b[i], keep)]
<1> DEFINE m == Compact(b, keep)
           E == {m[i] : i \in 1..Len(b)}
<1>1. Len(b) \in Nat /\ DOMAIN b = 1..Len(b) /\ Sized(b)
  BY SharesSized
<1>2. m \in [1..Len(b) -> E]
  BY <1>1 DEF Compact
<1>3. m \in Seq(E) /\ Len(m) = Len(b)
  <2> HIDE DEF E, m
  <2> QED
    BY <1>1, <1>2, SeqDef
<1>4. \A i \in 1..Len(b) :
        m[i] = [r |-> b[i].r, n |-> b[i].n - FirstKept(b[i], keep), start |-> b[i].start + FirstKept(b[i], keep),
                lower |-> LowerBound(b[i], keep), store |-> ~Placeholder(b[i], keep)]
  BY <1>1 DEF Compact
<1>5. Sized(m)
  <2>1. ASSUME NEW i \in 1..Len(b) PROVE m[i].r \in Requests /\ m[i].n \in Nat /\ m[i].start \in Nat
    <3>1. FirstKept(b[i], keep) \in Nat /\ FirstKept(b[i], keep) < b[i].n
      BY SharesSized, FirstKeptFacts
    <3>2. b[i].r \in Requests /\ b[i].n \in Nat /\ b[i].start \in Nat
      BY SharesSized
    <3>3. b[i].n - FirstKept(b[i], keep) \in Nat /\ b[i].start + FirstKept(b[i], keep) \in Nat
      BY <3>1, <3>2
    <3>4. /\ m[i].r = b[i].r /\ m[i].n = b[i].n - FirstKept(b[i], keep)
          /\ m[i].start = b[i].start + FirstKept(b[i], keep)
      <4> HIDE DEF m
      <4>1. m[i] = [r |-> b[i].r, n |-> b[i].n - FirstKept(b[i], keep), start |-> b[i].start + FirstKept(b[i], keep),
                    lower |-> LowerBound(b[i], keep), store |-> ~Placeholder(b[i], keep)]
        BY <1>4
      <4> QED
        BY <4>1
    <3> QED
      BY <3>2, <3>3, <3>4
  <2> QED
    BY <1>3, <2>1 DEF Sized
<1> QED
  BY <1>2, <1>3, <1>4, <1>5

\* keep_idx picks, for each request, its last rows.
Kept(b, keep, i) == b[i].n - FirstKept(b[i], keep)
LEMMA KeepIdxFacts ==
  ASSUME NEW b, Shares(b), NEW keep \in Nat
  PROVE  /\ KeepIdx(b, keep) \in Seq(Nat)
         /\ \A i \in 1..Len(b) : \A j \in 1..Kept(b, keep, i) :
              /\ StartLoc(Compact(b, keep), i) + j \in 1..Len(KeepIdx(b, keep))
              /\ KeepIdx(b, keep)[StartLoc(Compact(b, keep), i) + j] = StartLoc(b, i) + FirstKept(b[i], keep) + j
         /\ \A k \in 1..Len(KeepIdx(b, keep)) :
              \E i \in 1..Len(b) : \E j \in 1..Kept(b, keep, i) : k = StartLoc(Compact(b, keep), i) + j
<1> DEFINE m == Compact(b, keep)
           Part(i) == [j \in 1..Kept(b, keep, i) |-> StartLoc(b, i) + FirstKept(b[i], keep) + j]
           seqs == [i \in 1..Len(b) |-> Part(i)]
<1>1. Len(b) \in Nat /\ DOMAIN b = 1..Len(b) /\ Len(m) = Len(b) /\ b \in Seq(Entries) /\ Sized(b)
  BY SharesSized, CompactFacts
<1>2. \A i \in 1..Len(b) : StartLoc(b, i) \in Nat
  BY <1>1, RowsFacts
<1>3. ASSUME NEW i \in 1..Len(b)
      PROVE  FirstKept(b[i], keep) \in Nat /\ Kept(b, keep, i) \in Nat /\ m[i].n = Kept(b, keep, i)
  <2>1. FirstKept(b[i], keep) \in Nat /\ FirstKept(b[i], keep) < b[i].n /\ b[i].n \in Nat
    BY SharesSized, FirstKeptFacts
  <2>2. m[i].n = b[i].n - FirstKept(b[i], keep)
    <3> HIDE DEF m
    <3>1. m[i] = [r |-> b[i].r, n |-> b[i].n - FirstKept(b[i], keep), start |-> b[i].start + FirstKept(b[i], keep),
                  lower |-> LowerBound(b[i], keep), store |-> ~Placeholder(b[i], keep)]
      BY CompactFacts DEF m
    <3> QED
      BY <3>1
  <2> QED
    BY <2>1, <2>2 DEF Kept
<1> HIDE DEF m
<1>4. ASSUME NEW i \in 1..Len(b) PROVE Part(i) \in Seq(Nat) /\ Len(Part(i)) = Kept(b, keep, i)
  <2>1. Part(i) \in [1..Kept(b, keep, i) -> Nat]
    BY <1>2, <1>3
  <2>2. Kept(b, keep, i) \in Nat
    BY <1>3, Zenon
  <2> HIDE DEF Part
  <2> QED
    BY <2>1, <2>2, FunSeq, Zenon
<1>5. seqs \in [1..Len(b) -> Seq(Nat)]
  BY <1>4
<1>6. seqs \in Seq(Seq(Nat)) /\ Len(seqs) = Len(b)
  <2> HIDE DEF seqs
  <2> QED
    BY <1>1, <1>5, SeqDef
<1>7. \A i \in 1..Len(b) : seqs[i] = Part(i)
  OBVIOUS
<1>8. \A i \in 1..Len(b) : Len(seqs[i]) = m[i].n
  BY <1>3, <1>4, <1>7
<1>9. KeepIdx(b, keep) = Concat(seqs)
  BY <1>1 DEF KeepIdx, Kept
<1> HIDE DEF seqs
<1>10. Concat(seqs) \in Seq(Nat) /\ Fills(m, seqs, Concat(seqs))
  BY <1>1, <1>6, <1>8, Located
<1>11. \A i \in 1..Len(b) : \A j \in 1..Kept(b, keep, i) :
         seqs[i][j] = StartLoc(b, i) + FirstKept(b[i], keep) + j
  BY <1>7
<1>12. \A i \in 1..Len(b) : \A j \in 1..Kept(b, keep, i) :
         /\ StartLoc(m, i) + j \in 1..Len(KeepIdx(b, keep))
         /\ KeepIdx(b, keep)[StartLoc(m, i) + j] = StartLoc(b, i) + FirstKept(b[i], keep) + j
  <2> TAKE i \in 1..Len(b)
  <2> TAKE j \in 1..Kept(b, keep, i)
  <2>1. i \in 1..Len(m) /\ j \in 1..m[i].n
    BY <1>1, <1>3
  <2>2. StartLoc(m, i) + j \in 1..Len(Concat(seqs)) /\ Concat(seqs)[StartLoc(m, i) + j] = seqs[i][j]
    BY <1>10, <2>1 DEF Fills
  <2> QED
    BY <1>9, <1>11, <2>2
<1>13. \A k \in 1..Len(KeepIdx(b, keep)) :
         \E i \in 1..Len(b) : \E j \in 1..Kept(b, keep, i) : k = StartLoc(m, i) + j
  BY <1>1, <1>3, <1>9, <1>10 DEF Fills
<1> QED
  BY <1>9, <1>10, <1>12, <1>13 DEF m

\* The gathered rows are the rows that the compact metadata describe.
LEMMA GatherCompact ==
  ASSUME NEW b, Shares(b), NEW keep \in Nat
  PROVE  Gather(RowsOfBatch(b), KeepIdx(b, keep)) = RowsOfBatch(Compact(b, keep))
<1> DEFINE m == Compact(b, keep)
           idx == KeepIdx(b, keep)
           rows == RowsOfBatch(b)
           few == RowsOfBatch(m)
<1>1. Len(b) \in Nat /\ DOMAIN b = 1..Len(b) /\ Len(m) = Len(b) /\ b \in Seq(Entries) /\ Sized(b) /\ Sized(m)
  BY SharesSized, CompactFacts
<1>2. PICK E : m \in Seq(E)
  BY CompactFacts
<1>3. ASSUME NEW i \in 1..Len(b)
      PROVE  /\ FirstKept(b[i], keep) \in Nat /\ Kept(b, keep, i) \in Nat /\ b[i].start \in Nat
             /\ b[i].n \in Nat /\ Kept(b, keep, i) = b[i].n - FirstKept(b[i], keep)
             /\ m[i].n = Kept(b, keep, i) /\ m[i].r = b[i].r /\ m[i].start = b[i].start + FirstKept(b[i], keep)
  <2>1. FirstKept(b[i], keep) \in Nat /\ FirstKept(b[i], keep) < b[i].n /\ b[i].n \in Nat /\ b[i].start \in Nat
    BY SharesSized, FirstKeptFacts
  <2>2. m[i] = [r |-> b[i].r, n |-> b[i].n - FirstKept(b[i], keep), start |-> b[i].start + FirstKept(b[i], keep),
                lower |-> LowerBound(b[i], keep), store |-> ~Placeholder(b[i], keep)]
    BY CompactFacts
  <2> HIDE DEF m
  <2>3. m[i].n = b[i].n - FirstKept(b[i], keep) /\ m[i].r = b[i].r /\ m[i].start = b[i].start + FirstKept(b[i], keep)
    BY <2>2
  <2> QED
    BY <2>1, <2>3 DEF Kept
<1>4. /\ rows \in Seq(Requests \X Nat)
      /\ \A i \in 1..Len(b) : \A j \in 1..b[i].n :
              rows[StartLoc(b, i) + j] = <<b[i].r, b[i].start + j - 1>>
      /\ \A i \in 1..Len(b) : StartLoc(b, i) \in Nat
  BY <1>1, RowsFacts
<1>5. /\ few \in Seq(Requests \X Nat)
      /\ \A i \in 1..Len(b) : \A j \in 1..Kept(b, keep, i) :
              /\ StartLoc(m, i) + j \in 1..Len(few)
              /\ few[StartLoc(m, i) + j] = <<m[i].r, m[i].start + j - 1>>
      /\ \A k \in 1..Len(few) :
              \E i \in 1..Len(b) : \E j \in 1..Kept(b, keep, i) : k = StartLoc(m, i) + j
  <2> HIDE DEF m
  <2>1. /\ RowsOfBatch(m) \in Seq(Requests \X Nat)
        /\ \A i \in 1..Len(m) : \A j \in 1..m[i].n :
              /\ StartLoc(m, i) + j \in 1..Len(RowsOfBatch(m))
              /\ RowsOfBatch(m)[StartLoc(m, i) + j] = <<m[i].r, m[i].start + j - 1>>
        /\ \A k \in 1..Len(RowsOfBatch(m)) :
              \E i \in 1..Len(m) : \E j \in 1..m[i].n : k = StartLoc(m, i) + j
    BY <1>1, <1>2, RowsFacts
  <2>2. \A i \in 1..Len(b) : m[i].n = Kept(b, keep, i)
    BY <1>3
  <2> QED
    BY <1>1, <2>1, <2>2
<1>6. /\ idx \in Seq(Nat)
      /\ \A i \in 1..Len(b) : \A j \in 1..Kept(b, keep, i) :
              /\ StartLoc(m, i) + j \in 1..Len(idx)
              /\ idx[StartLoc(m, i) + j] = StartLoc(b, i) + FirstKept(b[i], keep) + j
      /\ \A k \in 1..Len(idx) :
              \E i \in 1..Len(b) : \E j \in 1..Kept(b, keep, i) : k = StartLoc(m, i) + j
  BY KeepIdxFacts
<1> HIDE DEF m, idx, rows, few
<1>7. 1..Len(few) = 1..Len(idx)
  <2>1. \A k \in 1..Len(few) : k \in 1..Len(idx)
    BY <1>5, <1>6
  <2>2. \A k \in 1..Len(idx) : k \in 1..Len(few)
    BY <1>5, <1>6
  <2> QED
    BY <2>1, <2>2
<1>8. ASSUME NEW i \in 1..Len(b), NEW j \in 1..Kept(b, keep, i)
      PROVE  rows[idx[StartLoc(m, i) + j]] = few[StartLoc(m, i) + j]
  <2> DEFINE k == FirstKept(b[i], keep)
  <2>1. k \in Nat /\ b[i].n \in Nat /\ Kept(b, keep, i) = b[i].n - k /\ m[i].r = b[i].r
        /\ m[i].start = b[i].start + k /\ b[i].start \in Nat
    BY <1>3
  <2>2. k + j \in 1..b[i].n /\ StartLoc(b, i) \in Nat
    <3>1. j \in 1..(b[i].n - k)
      BY <2>1, Zenon
    <3>2. j \in Int
      BY <2>1, <3>1
    <3> HIDE DEF k
    <3>3. k + j \in 1..b[i].n
      BY <2>1, <3>1, <3>2, WithinTail, Zenon
    <3>4. StartLoc(b, i) \in Nat
      BY <1>4, Zenon
    <3> QED
      BY <3>3, <3>4, Zenon
  <2>3. idx[StartLoc(m, i) + j] = StartLoc(b, i) + (k + j)
    BY <1>6, <2>1, <2>2
  <2>4. rows[StartLoc(b, i) + (k + j)] = <<b[i].r, b[i].start + (k + j) - 1>>
    BY <1>4, <2>2
  <2>5. few[StartLoc(m, i) + j] = <<m[i].r, m[i].start + j - 1>>
    BY <1>5
  <2>6. b[i].start + (k + j) - 1 = m[i].start + j - 1
    BY <2>1
  <2> QED
    BY <2>1, <2>3, <2>4, <2>5, <2>6
<1>9. \A k \in 1..Len(idx) : rows[idx[k]] = few[k]
  BY <1>6, <1>8
<1>10. DOMAIN idx = 1..Len(idx) /\ DOMAIN few = 1..Len(few)
  BY <1>5, <1>6, SeqFacts
<1>11. Gather(rows, idx) = [k \in 1..Len(few) |-> few[k]]
  BY <1>7, <1>9, <1>10 DEF Gather
<1>12. few = [k \in 1..Len(few) |-> few[k]]
  BY <1>5
<1> QED
  BY <1>11, <1>12 DEF m, idx, rows, few

\* Every kept row comes back from finish() at its own place.
LEMMA Scattered ==
  ASSUME NEW b, Shares(b), NEW keep \in Nat, NEW i \in 1..Len(b), NEW j \in 1..b[i].n, j > FirstKept(b[i], keep)
  PROVE  LET back == Scatter(Gather(RowsOfBatch(b), KeepIdx(b, keep)), KeepIdx(b, keep), Len(RowsOfBatch(b)), Zero)
         IN /\ StartLoc(b, i) + j \in DOMAIN back
            /\ back[StartLoc(b, i) + j] = <<b[i].r, b[i].start + j - 1>>
<1> DEFINE idx == KeepIdx(b, keep)
           rows == RowsOfBatch(b)
           p == StartLoc(b, i) + j
           few == Gather(rows, idx)
           back == Scatter(few, idx, Len(rows), Zero)
           k == StartLoc(Compact(b, keep), i) + (j - FirstKept(b[i], keep))
           c == CHOOSE l \in DOMAIN idx : idx[l] = p
<1>1. p \in 1..Len(rows) /\ rows[p] = <<b[i].r, b[i].start + j - 1>> /\ StartLoc(b, i) \in Nat
  <2>1. b \in Seq(Entries) /\ Sized(b)
    BY SharesSized
  <2>2. /\ StartLoc(b, i) + j \in 1..Len(RowsOfBatch(b)) /\ StartLoc(b, i) \in Nat
        /\ RowsOfBatch(b)[StartLoc(b, i) + j] = <<b[i].r, b[i].start + j - 1>>
    BY <2>1, RowsFacts
  <2> QED
    BY <2>2
<1>2. FirstKept(b[i], keep) \in Nat /\ b[i].n \in Nat
  BY SharesSized, FirstKeptFacts
<1>3. j - FirstKept(b[i], keep) \in 1..Kept(b, keep, i)
        /\ FirstKept(b[i], keep) + (j - FirstKept(b[i], keep)) = j
  BY <1>2 DEF Kept
<1>4. DOMAIN idx = 1..Len(idx)
  BY KeepIdxFacts, SeqFacts
<1>5. k \in 1..Len(idx) /\ idx[k] = StartLoc(b, i) + FirstKept(b[i], keep) + (j - FirstKept(b[i], keep))
  BY <1>3, KeepIdxFacts
<1>6. k \in DOMAIN idx /\ idx[k] = p
  BY <1>1, <1>2, <1>4, <1>5
<1> HIDE DEF k, idx, rows, p
<1>7. c \in DOMAIN idx /\ idx[c] = p
  BY <1>6
<1> HIDE DEF c
<1>8. few[c] = rows[p]
  BY <1>7 DEF Gather
<1> HIDE DEF few
<1>9. DOMAIN back = 1..Len(rows) /\ back[p] = few[c]
  BY <1>1, <1>6 DEF Scatter, c
<1> QED
  BY <1>1, <1>8, <1>9 DEF p, few, idx, rows

\* The positions that the rows of a batch stand for.
Spans(m, r, p) == \E i \in 1..Len(m) : m[i].r = r /\ p \in m[i].start..(m[i].start + m[i].n - 1)

LEMMA SpanFacts ==
  ASSUME NEW E, NEW m \in Seq(E), Sized(m)
  PROVE  /\ ToSet(RowsOfBatch(m)) \subseteq Requests \X Nat
         /\ \A r, p : <<r, p>> \in ToSet(RowsOfBatch(m)) <=> Spans(m, r, p)
<1> DEFINE rows == RowsOfBatch(m)
<1>1. /\ rows \in Seq(Requests \X Nat) /\ ToSet(rows) = {rows[k] : k \in 1..Len(rows)}
      /\ ToSet(rows) \subseteq Requests \X Nat
  BY RowsFacts, SeqFacts
<1>2. /\ \A i \in 1..Len(m) : \A j \in 1..m[i].n :
           /\ StartLoc(m, i) + j \in 1..Len(rows)
           /\ rows[StartLoc(m, i) + j] = <<m[i].r, m[i].start + j - 1>>
      /\ \A k \in 1..Len(rows) : \E i \in 1..Len(m) : \E j \in 1..m[i].n : k = StartLoc(m, i) + j
  BY RowsFacts
<1> HIDE DEF rows
<1>3. ASSUME NEW r, NEW p, <<r, p>> \in ToSet(rows) PROVE Spans(m, r, p)
  <2>1. PICK k \in 1..Len(rows) : rows[k] = <<r, p>>
    BY <1>1, <1>3
  <2>2. PICK i \in 1..Len(m) : \E j \in 1..m[i].n : k = StartLoc(m, i) + j
    BY <1>2
  <2>3. PICK j \in 1..m[i].n : k = StartLoc(m, i) + j
    BY <2>2
  <2>4. m[i].r = r /\ p = m[i].start + j - 1
    BY <1>2, <2>1, <2>3
  <2>5. m[i].start \in Nat /\ m[i].n \in Nat
    BY DEF Sized
  <2>6. p \in m[i].start..(m[i].start + m[i].n - 1)
    <3>1. j \in Int
      OBVIOUS
    <3>2. m[i].start + j - 1 \in m[i].start..(m[i].start + m[i].n - 1)
      BY <2>5, <3>1, WithinSpan, Zenon
    <3> QED
      BY <2>4, <3>2, Zenon
  <2> QED
    BY <2>4, <2>6 DEF Spans
<1>4. ASSUME NEW r, NEW p, Spans(m, r, p) PROVE <<r, p>> \in ToSet(rows)
  <2>1. PICK i \in 1..Len(m) : m[i].r = r /\ p \in m[i].start..(m[i].start + m[i].n - 1)
    BY <1>4 DEF Spans
  <2>2. m[i].start \in Nat /\ m[i].n \in Nat
    BY DEF Sized
  <2>3. p - m[i].start + 1 \in 1..m[i].n /\ m[i].start + (p - m[i].start + 1) - 1 = p
    BY <2>1, <2>2, SpanIndex, Zenon
  <2>4. /\ StartLoc(m, i) + (p - m[i].start + 1) \in 1..Len(rows)
        /\ rows[StartLoc(m, i) + (p - m[i].start + 1)] = <<m[i].r, m[i].start + (p - m[i].start + 1) - 1>>
    BY <1>2, <2>3
  <2> QED
    BY <1>1, <2>1, <2>3, <2>4
<1> QED
  BY <1>1, <1>3, <1>4 DEF rows

\* Rows under metadata that describe them are all in place.
LEMMA PlacedAll ==
  ASSUME NEW m, NEW S, RowsOfBatch(m) \in Seq(S)
  PROVE  Placed(RowsOfBatch(m), m) = ToSet(RowsOfBatch(m))
<1> DEFINE rows == RowsOfBatch(m)
<1>1. DOMAIN rows = 1..Len(rows) /\ ToSet(rows) = {rows[i] : i \in 1..Len(rows)}
  BY SeqFacts
<1>2. Placed(rows, m) = {rows[i] : i \in {j \in DOMAIN rows \cap DOMAIN rows : rows[j] = rows[j]}}
  BY DEF Placed
<1> HIDE DEF rows
<1>3. {j \in DOMAIN rows \cap DOMAIN rows : rows[j] = rows[j]} = 1..Len(rows)
  BY <1>1
<1> QED
  BY <1>1, <1>2, <1>3 DEF rows

Apart(m) == \A i, j \in 1..Len(m) : m[i].r = m[j].r => i = j
LEMMA EntryFacts ==
  ASSUME NEW m, DOMAIN m = 1..Len(m), Apart(m), NEW i \in 1..Len(m)
  PROVE  EntryOf(m, m[i].r) = m[i]
<1> DEFINE c == CHOOSE j \in DOMAIN m : m[j].r = m[i].r
<1>1. c \in DOMAIN m /\ m[c].r = m[i].r
  OBVIOUS
<1> HIDE DEF c
<1>2. c = i
  BY <1>1 DEF Apart
<1> QED
  BY <1>2 DEF c, EntryOf

-----------------------------------------------------------------------------
(* What the invariant says of a step *)

LEMMA ConfigFacts ==
  ASSUME config \in Configs
  PROVE  /\ config.keep \in Nat /\ config.budget \in Nat \ {0} /\ config.mixed \in Nat \cup {-1}
         /\ config.release \in BOOLEAN
         /\ Yoco <=> config.keep > 0
         /\ Yoco => config.keep >= Window + Drafts + 1
         /\ Window \in Nat \ {0} /\ Drafts \in Nat
BY LoopAssumption DEF LoopAssumption, Yoco

LEMMA EntryFields ==
  ASSUME NEW r, NEW done, NEW len, NEW n
  PROVE  /\ Entry(r, done, len, n).r = r /\ Entry(r, done, len, n).n = n
         /\ Entry(r, done, len, n).start = done /\ Entry(r, done, len, n).prefill = len
         /\ Entry(r, done, len, n).prefilling <=> done < len
         /\ r \in Requests /\ done \in Nat /\ len \in Nat /\ n \in Nat => Entry(r, done, len, n) \in Entries
<1> DEFINE less == done < len
<1>1. less \in BOOLEAN
  OBVIOUS
<1>2. Entry(r, done, len, n) = [r |-> r, n |-> n, start |-> done, prefill |-> len, prefilling |-> less]
  BY DEF Entry
<1> HIDE DEF less
<1> DEFINE e == [r |-> r, n |-> n, start |-> done, prefill |-> len, prefilling |-> less]
<1>3. /\ e.r = r /\ e.n = n /\ e.start = done /\ e.prefill = len /\ e.prefilling = less
      /\ r \in Requests /\ done \in Nat /\ len \in Nat /\ n \in Nat => e \in Entries
  BY <1>1 DEF Entries
<1> QED
  BY <1>2, <1>3 DEF less

LEMMA InStepFacts ==
  ASSUME BatchInv, InStep
  PROVE  /\ Shares(batch) /\ Apart(batch) /\ DOMAIN batch = 1..Len(batch) /\ Len(batch) \in Nat
         /\ \A i \in 1..Len(batch) :
              /\ batch[i] \in Entries /\ batch[i].r \in Requests /\ batch[i].n \in Nat /\ batch[i].n >= 1
              /\ batch[i].start \in Nat /\ batch[i].prefill \in Nat /\ batch[i].prefilling \in BOOLEAN
              /\ life[batch[i].r] = "running"
              /\ batch[i].start = computed[batch[i].r] /\ batch[i].prefill = prefill[batch[i].r]
              /\ batch[i].prefilling <=> computed[batch[i].r] < prefill[batch[i].r]
              /\ batch[i].prefilling => batch[i].n <= batch[i].prefill - batch[i].start
              /\ ~ batch[i].prefilling => batch[i].n <= 1 + Drafts
<1>1. batch \in Seq(Entries)
  BY DEF BatchInv
<1>2. Len(batch) \in Nat /\ DOMAIN batch = 1..Len(batch)
  BY <1>1, SeqFacts
<1>3. \A i \in 1..Len(batch) :
        /\ life[batch[i].r] = "running"
        /\ batch[i] = Entry(batch[i].r, computed[batch[i].r], prefill[batch[i].r], batch[i].n)
        /\ batch[i].n >= 1
        /\ batch[i].n <= (IF batch[i].prefilling THEN batch[i].prefill - batch[i].start ELSE 1 + Drafts)
  BY <1>2 DEF BatchInv
<1>4. Apart(batch)
  BY <1>2 DEF BatchInv, Apart
<1>5. Shares(batch)
  BY <1>1, <1>3 DEF Shares
<1>6. ASSUME NEW i \in 1..Len(batch)
      PROVE  /\ batch[i].start = computed[batch[i].r] /\ batch[i].prefill = prefill[batch[i].r]
             /\ batch[i].prefilling <=> computed[batch[i].r] < prefill[batch[i].r]
  <2> DEFINE e == batch[i]
  <2>1. e = Entry(e.r, computed[e.r], prefill[e.r], e.n)
    BY <1>3
  <2> HIDE DEF e
  <2> DEFINE f == Entry(e.r, computed[e.r], prefill[e.r], e.n)
  <2>2. f.start = computed[e.r] /\ f.prefill = prefill[e.r] /\ (f.prefilling <=> computed[e.r] < prefill[e.r])
    BY EntryFields
  <2> HIDE DEF f
  <2>3. e = f
    BY <2>1 DEF f
  <2> QED
    BY <2>2, <2>3 DEF e
<1> QED
  BY <1>2, <1>3, <1>4, <1>5, <1>6, SharesSized

\* In the step's own order of things: a truncated request, and with it the step, has a plan.
LEMMA EagerFacts ==
  ASSUME config \in Configs, BatchInv, InStep, NeedEager(batch)
  PROVE  config.keep \in Nat /\ Yoco /\ NewPlan(batch).rows = Len(RowsOfBatch(batch))
BY ConfigFacts DEF NeedEager, NewPlan

LEMMA FinishRows ==
  ASSUME config \in Configs, BatchInv, PlanInv, at = "finish"
  PROVE  Results = IF NeedEager(batch)
                   THEN Scatter(Gather(RowsOfBatch(batch), KeepIdx(batch, config.keep)), KeepIdx(batch, config.keep),
                                Len(RowsOfBatch(batch)), Zero)
                   ELSE RowsOfBatch(batch)
<1>1. /\ NeedEager(batch) => plan = [NewPlan(batch) EXCEPT !.used = TRUE]
      /\ ~ NeedEager(batch) => plan = NoPlan
      /\ x = IF NeedEager(batch) THEN Gather(RowsOfBatch(batch), KeepIdx(batch, config.keep))
             ELSE RowsOfBatch(batch)
  BY DEF PlanInv
<1>2. CASE NeedEager(batch)
  <2>1. plan = [rows |-> Len(RowsOfBatch(batch)), idx |-> KeepIdx(batch, config.keep), used |-> TRUE]
    BY <1>1, <1>2 DEF NewPlan
  <2>2. plan # NoPlan /\ plan.rows = Len(RowsOfBatch(batch)) /\ plan.idx = KeepIdx(batch, config.keep)
    BY <2>1 DEF NoPlan
  <2> QED
    BY <1>1, <1>2, <2>2 DEF Results
<1>3. CASE ~ NeedEager(batch)
  BY <1>1, <1>3 DEF Results
<1> QED
  BY <1>2, <1>3

\* The hidden states that are used are those of their own rows.
LEMMA LogitsFacts ==
  ASSUME config \in Configs, TokenInv, BatchInv, PlanInv
  PROVE  LogitsReal
<1> SUFFICES ASSUME at = "finish",
                    NEW i \in DOMAIN batch,
                    NEW j \in (IF ~batch[i].prefilling \/ logprobs[batch[i].r] THEN 1..batch[i].n
                               ELSE IF batch[i].start + batch[i].n = batch[i].prefill THEN {batch[i].n} ELSE {})
             PROVE  /\ StartLoc(batch, i) + j \in DOMAIN Results
                    /\ Results[StartLoc(batch, i) + j] = <<batch[i].r, batch[i].start + j - 1>>
  BY DEF LogitsReal
<1>1. InStep
  BY DEF InStep
<1>2. /\ Shares(batch) /\ i \in 1..Len(batch) /\ batch[i] \in Entries /\ batch[i].n \in Nat /\ batch[i].n >= 1
      /\ life[batch[i].r] = "running" /\ batch[i].r \in Requests
  BY <1>1, InStepFacts
<1>3. j \in 1..batch[i].n
  BY <1>2
<1>4. CASE NeedEager(batch)
  <2>1. config.keep \in Nat /\ Yoco
    BY <1>1, <1>4, EagerFacts
  <2>2. ~ logprobs[batch[i].r]
    BY <1>2, <2>1 DEF TokenInv
  <2>3. j > FirstKept(batch[i], config.keep)
    <3>1. /\ FirstKept(batch[i], config.keep) \in Nat /\ FirstKept(batch[i], config.keep) < batch[i].n
          /\ ~ Truncated(batch[i], config.keep) => FirstKept(batch[i], config.keep) = 0
      BY <1>2, <2>1, FirstKeptFacts
    <3>2. CASE ~ batch[i].prefilling
      BY <1>3, <3>1, <3>2 DEF Truncated
    <3>3. CASE batch[i].prefilling
      <4>1. j = batch[i].n
        BY <2>2, <3>3
      <4> QED
        BY <3>1, <4>1
    <3> QED
      BY <3>2, <3>3
  <2> QED
    BY <1>2, <1>3, <1>4, <2>1, <2>3, Scattered, FinishRows
<1>5. CASE ~ NeedEager(batch)
  <2>1. batch \in Seq(Entries) /\ Sized(batch)
    BY <1>2, SharesSized
  <2>2. /\ StartLoc(batch, i) + j \in 1..Len(RowsOfBatch(batch))
        /\ RowsOfBatch(batch)[StartLoc(batch, i) + j] = <<batch[i].r, batch[i].start + j - 1>>
        /\ RowsOfBatch(batch) \in Seq(Requests \X Nat)
    <3>1. /\ RowsOfBatch(batch) \in Seq(Requests \X Nat)
          /\ \A k \in 1..Len(batch) : \A l \in 1..batch[k].n :
               /\ StartLoc(batch, k) + l \in 1..Len(RowsOfBatch(batch))
               /\ RowsOfBatch(batch)[StartLoc(batch, k) + l] = <<batch[k].r, batch[k].start + l - 1>>
      BY <2>1, RowAt, Zenon
    <3> QED
      BY <1>2, <1>3, <3>1
  <2>3. DOMAIN RowsOfBatch(batch) = 1..Len(RowsOfBatch(batch))
    BY <2>2, SeqFacts
  <2> QED
    BY <1>5, <2>2, <2>3, FinishRows
<1> QED
  BY <1>4, <1>5

\* The boundary layer runs the rows that its metadata describe, and every row of the
\* step goes through the compressor once.
LEMMA BoundaryRows ==
  ASSUME config \in Configs, BatchInv, PlanInv, at = "boundary"
  PROVE  /\ SplitMetadata = IF NeedEager(batch) THEN Compact(batch, config.keep) ELSE Full(batch)
         /\ Split = RowsOfBatch(SplitMetadata)
         /\ Produced = ToSet(RowsOfBatch(batch))
         /\ plan # NoPlan <=> NeedEager(batch)
<1> DEFINE rows == RowsOfBatch(batch)
<1>1. InStep /\ at \in {"encode", "boundary"} /\ at \in {"encode", "boundary", "finish"} /\ at # "encode"
  BY DEF InStep
<1>2. /\ ~ skip /\ current = "full" /\ primary = Full(batch) /\ x = rows
      /\ NeedEager(batch) => shadow = Compact(batch, config.keep) /\ plan = [NewPlan(batch) EXCEPT !.used = TRUE]
      /\ ~ NeedEager(batch) => plan = NoPlan
  BY <1>1 DEF PlanInv
<1>3. Shares(batch) /\ batch \in Seq(Entries) /\ Sized(batch)
  BY <1>1, InStepFacts, SharesSized
<1>4. rows \in Seq(Requests \X Nat) /\ RowsOfBatch(Full(batch)) = rows
  BY <1>3, RowsFacts, FullRows
<1>5. Placed(x, primary) = ToSet(rows)
  <2>1. Placed(RowsOfBatch(Full(batch)), Full(batch)) = ToSet(RowsOfBatch(Full(batch)))
    BY <1>4, PlacedAll
  <2> QED
    BY <1>2, <1>4, <2>1
<1> HIDE DEF rows
<1>6. CASE NeedEager(batch)
  <2>1. config.keep \in Nat
    BY <1>1, <1>6, EagerFacts
  <2>2. plan = [rows |-> Len(RowsOfBatch(batch)), idx |-> KeepIdx(batch, config.keep), used |-> TRUE]
    BY <1>2, <1>6 DEF NewPlan
  <2>3. plan # NoPlan /\ plan.idx = KeepIdx(batch, config.keep)
    BY <2>2 DEF NoPlan
  <2>4. SplitMetadata = Compact(batch, config.keep)
    BY <1>2, <1>6, <2>3 DEF SplitMetadata, Metadata
  <2>5. Split = RowsOfBatch(Compact(batch, config.keep))
    BY <1>2, <1>3, <2>1, <2>3, GatherCompact DEF Split, rows
  <2>6. Produced = ToSet(rows)
    <3>1. Metadata(current) = primary
      BY <1>2 DEF Metadata
    <3> QED
      BY <1>5, <2>3, <3>1 DEF Produced
  <2> QED
    BY <1>6, <2>3, <2>4, <2>5, <2>6 DEF rows
<1>7. CASE ~ NeedEager(batch)
  <2>1. plan = NoPlan
    BY <1>2, <1>7
  <2>2. SplitMetadata = Full(batch) /\ SplitMetadata = primary
    BY <1>2, <2>1 DEF SplitMetadata, Metadata
  <2>3. Split = x
    BY <2>1 DEF Split
  <2>4. Produced = ToSet(rows)
    BY <1>2, <1>5, <2>1, <2>2, <2>3 DEF Produced
  <2> QED
    BY <1>2, <1>4, <1>7, <2>1, <2>2, <2>3, <2>4 DEF rows
<1> QED
  BY <1>6, <1>7

Cut(e) == NeedEager(batch) /\ Truncated(e, config.keep)

\* What the boundary layer's metadata say of a request, truncated or not.
LEMMA BoundaryEntry ==
  ASSUME config \in Configs, BatchInv, PlanInv, at = "boundary"
  PROVE  /\ DOMAIN SplitMetadata = 1..Len(batch) /\ Len(SplitMetadata) = Len(batch) /\ Sized(SplitMetadata)
         /\ \E E : SplitMetadata \in Seq(E)
         /\ \A i \in 1..Len(batch) :
              LET e == batch[i]
                  d == SplitMetadata[i]
              IN /\ d.r = e.r /\ d.n \in Nat /\ d.start \in Nat /\ d.lower \in Nat
                 /\ d.start + d.n = e.start + e.n
                 /\ EntryOf(SplitMetadata, e.r) = d
                 /\ ~ Cut(e) => d.store /\ d.start = e.start /\ d.lower = 0
                 /\ Cut(e) => /\ d.lower = e.prefill - config.keep
                              /\ d.store => d.start = AtLeast(e.start, e.prefill - config.keep)
                              /\ ~ d.store => e.start + e.n <= e.prefill - config.keep
<1> DEFINE m == SplitMetadata
           keep == config.keep
<1>1. InStep
  BY DEF InStep
<1>2. /\ Shares(batch) /\ Apart(batch) /\ Len(batch) \in Nat
      /\ \A i \in 1..Len(batch) : batch[i] \in Entries /\ batch[i].n >= 1 /\ batch[i].n \in Nat /\ batch[i].start \in Nat
  BY <1>1, InStepFacts
<1>3. m = IF NeedEager(batch) THEN Compact(batch, keep) ELSE Full(batch)
  BY BoundaryRows
<1>4. keep \in Nat
  BY ConfigFacts
<1>5. DOMAIN m = 1..Len(batch) /\ Len(m) = Len(batch) /\ Sized(m) /\ \E E : m \in Seq(E)
  <2>1. CASE NeedEager(batch)
    BY <1>2, <1>3, <1>4, <2>1, CompactFacts, Zenon
  <2>2. CASE ~ NeedEager(batch)
    BY <1>2, <1>3, <2>2, FullFacts, Zenon
  <2> QED
    BY <2>1, <2>2
<1> HIDE DEF m
<1>6. ASSUME NEW i \in 1..Len(batch)
      PROVE  LET e == batch[i]
                 d == m[i]
             IN /\ d.r = e.r /\ d.n \in Nat /\ d.start \in Nat /\ d.lower \in Nat
                /\ d.start + d.n = e.start + e.n
                /\ ~ Cut(e) => d.store /\ d.start = e.start /\ d.lower = 0
                /\ Cut(e) => /\ d.lower = e.prefill - config.keep
                             /\ d.store => d.start = AtLeast(e.start, e.prefill - config.keep)
                             /\ ~ d.store => e.start + e.n <= e.prefill - config.keep
  <2> DEFINE e == batch[i]
             d == m[i]
             k == FirstKept(e, keep)
  <2>1. e \in Entries /\ e.n >= 1 /\ e.n \in Nat /\ e.start \in Nat
    BY <1>2
  <2> HIDE DEF e
  <2>2. CASE NeedEager(batch)
    <3>1. d = [r |-> e.r, n |-> e.n - k, start |-> e.start + k, lower |-> LowerBound(e, keep),
               store |-> ~Placeholder(e, keep)]
      BY <1>2, <1>3, <1>4, <2>2, CompactFacts DEF e
    <3> HIDE DEF d, k
    <3>2. d.r = e.r /\ d.n = e.n - k /\ d.start = e.start + k /\ d.lower = LowerBound(e, keep)
          /\ (d.store <=> ~Placeholder(e, keep))
      BY <3>1
    <3>3. /\ k \in Nat /\ k < e.n /\ LowerBound(e, keep) \in Nat
          /\ ~ Truncated(e, keep) => k = 0 /\ LowerBound(e, keep) = 0 /\ ~ Placeholder(e, keep)
          /\ Truncated(e, keep) =>
              /\ LowerBound(e, keep) = e.prefill - keep
              /\ Placeholder(e, keep) => e.start + e.n <= e.prefill - keep
              /\ ~ Placeholder(e, keep) => e.start + k = AtLeast(e.start, e.prefill - keep)
      BY <1>4, <2>1, FirstKeptFacts DEF k
    <3>4. Cut(e) <=> Truncated(e, keep)
      BY <2>2 DEF Cut
    <3>5. d.n \in Nat /\ d.start \in Nat /\ d.start + d.n = e.start + e.n
      <4>1. e.n \in Nat /\ e.start \in Nat /\ k \in Nat /\ k < e.n
        BY <2>1, <3>3, Zenon
      <4>2. e.n - k \in Nat /\ e.start + k \in Nat /\ (e.start + k) + (e.n - k) = e.start + e.n
        BY <4>1, SpanLeft
      <4> QED
        BY <3>2, <4>2, Zenon
    <3>6. ~ Cut(e) => d.store /\ d.start = e.start /\ d.lower = 0
      BY <2>1, <3>2, <3>3, <3>4
    <3>7. Cut(e) => /\ d.lower = e.prefill - keep
                    /\ d.store => d.start = AtLeast(e.start, e.prefill - keep)
                    /\ ~ d.store => e.start + e.n <= e.prefill - keep
      BY <3>2, <3>3, <3>4
    <3>8. d.r = e.r /\ d.n \in Nat /\ d.start \in Nat /\ d.lower \in Nat /\ d.start + d.n = e.start + e.n
      BY <3>2, <3>3, <3>5
    <3> QED
      BY <3>6, <3>7, <3>8 DEF e, d
  <2>3. CASE ~ NeedEager(batch)
    <3>1. d = [r |-> e.r, n |-> e.n, start |-> e.start, lower |-> 0, store |-> TRUE]
      BY <1>2, <1>3, <2>3, FullFacts DEF e
    <3> HIDE DEF d
    <3>2. d.r = e.r /\ d.n = e.n /\ d.start = e.start /\ d.lower = 0 /\ (d.store <=> TRUE)
      BY <3>1
    <3> QED
      BY <2>1, <2>3, <3>2 DEF Cut, e, d
  <2> QED
    BY <2>2, <2>3
<1>7. Apart(m)
  BY <1>2, <1>5, <1>6 DEF Apart
<1>8. \A i \in 1..Len(batch) : EntryOf(m, batch[i].r) = m[i]
  <2>1. \A i \in 1..Len(batch) : EntryOf(m, m[i].r) = m[i]
    BY <1>5, <1>7, EntryFacts
  <2> QED
    BY <1>6, <2>1
<1> QED
  BY <1>5, <1>6, <1>8 DEF m

\* Every kept row is stored for its request, but a placeholder.
LEMMA StoredFacts ==
  ASSUME config \in Configs, BatchInv, PlanInv, at = "boundary", NEW i \in 1..Len(batch), NEW p,
         SplitMetadata[i].store,
         p \in SplitMetadata[i].start..(SplitMetadata[i].start + SplitMetadata[i].n - 1)
  PROVE  <<batch[i].r, p>> \in Stored
<1> DEFINE m == SplitMetadata
<1>1. Split = RowsOfBatch(m)
  BY BoundaryRows
<1>2. /\ Len(m) = Len(batch) /\ Sized(m) /\ m[i].r = batch[i].r
      /\ EntryOf(m, batch[i].r) = m[i]
  BY BoundaryEntry
<1>3. PICK E : m \in Seq(E)
  BY BoundaryEntry
<1> HIDE DEF m
<1>4. RowsOfBatch(m) \in Seq(Requests \X Nat) /\ ToSet(RowsOfBatch(m)) \subseteq Requests \X Nat
  BY <1>2, <1>3, RowsFacts, SpanFacts
<1>5. <<batch[i].r, p>> \in ToSet(RowsOfBatch(m))
  <2>1. Spans(m, batch[i].r, p)
    BY <1>2 DEF Spans, m
  <2> QED
    BY <1>2, <1>3, <2>1, SpanFacts
<1>6. Placed(Split, m) = ToSet(RowsOfBatch(m))
  BY <1>1, <1>4, PlacedAll
<1>7. Stored = {row \in Placed(Split, m) : EntryOf(m, row[1]).store}
  BY DEF Stored, m
<1>8. m[i].store
  BY DEF m
<1>9. <<batch[i].r, p>>[1] = batch[i].r
  OBVIOUS
<1> QED
  BY <1>2, <1>5, <1>6, <1>7, <1>8, <1>9

\* A request that is not cut either is no longer in its prefill or fits the kept part.
LEMMA CutFacts ==
  ASSUME config \in Configs, BatchInv, InStep, NEW i \in 1..Len(batch)
  PROVE  /\ Low(batch[i].r) \in Nat
         /\ Cut(batch[i]) => /\ Low(batch[i].r) = batch[i].prefill - config.keep
                             /\ batch[i].prefill > config.keep /\ Yoco
         /\ ~ Cut(batch[i]) => Low(batch[i].r) = 0
              \/ (/\ Yoco /\ Low(batch[i].r) = batch[i].prefill - config.keep /\ batch[i].prefill <= batch[i].start)
<1> DEFINE e == batch[i]
<1>1. /\ e.prefill \in Nat /\ e.start \in Nat /\ e.prefilling \in BOOLEAN /\ i \in DOMAIN batch
      /\ e.prefill = prefill[e.r] /\ e.start = computed[e.r]
      /\ e.prefilling <=> computed[e.r] < prefill[e.r]
  BY InStepFacts
<1>2. config.keep \in Nat
  BY ConfigFacts
<1>3. Yoco /\ Truncated(e, config.keep) => NeedEager(batch)
  BY <1>1 DEF NeedEager, Needed
<1>4. NeedEager(batch) => Yoco
  BY DEF NeedEager
<1>5. Low(e.r) = IF Yoco /\ e.prefill > config.keep THEN e.prefill - config.keep ELSE 0
  BY <1>1 DEF Low
<1> HIDE DEF e
<1>6. Truncated(e, config.keep) <=> e.prefilling /\ e.prefill > config.keep
  BY DEF Truncated
<1> QED
  BY <1>1, <1>2, <1>3, <1>4, <1>5, <1>6 DEF Cut, e

\* What a kept row sees was stored in an earlier step, or is stored in this one.
LEMMA ReadsFacts ==
  ASSUME config \in Configs, BatchInv, PlanInv, CacheInv
  PROVE  DecoderReadsGood
<1> SUFFICES ASSUME at = "boundary", NEW k \in DOMAIN Split, NEW q \in Visible(Split[k])
             PROVE  q \in swa[Split[k][1]] \/ <<Split[k][1], q>> \in Stored
  BY DEF DecoderReadsGood
<1> DEFINE m == SplitMetadata
<1>1. Split = RowsOfBatch(m)
  BY BoundaryRows
<1>2. Len(m) = Len(batch) /\ Sized(m)
  BY BoundaryEntry
<1>3. PICK E : m \in Seq(E)
  BY BoundaryEntry
<1>4. PICK i \in 1..Len(batch) : \E j \in 1..m[i].n : Split[k] = <<m[i].r, m[i].start + j - 1>>
  <2> HIDE DEF m
  <2>1. /\ RowsOfBatch(m) \in Seq(Requests \X Nat)
        /\ \A i \in 1..Len(m) : \A j \in 1..m[i].n :
             RowsOfBatch(m)[StartLoc(m, i) + j] = <<m[i].r, m[i].start + j - 1>>
        /\ \A l \in 1..Len(RowsOfBatch(m)) :
             \E i \in 1..Len(m) : \E j \in 1..m[i].n : l = StartLoc(m, i) + j
    BY <1>2, <1>3, RowsFacts
  <2>2. k \in 1..Len(RowsOfBatch(m))
    BY <1>1, <2>1, SeqFacts
  <2>3. PICK i \in 1..Len(m) : \E j \in 1..m[i].n : k = StartLoc(m, i) + j
    BY <2>1, <2>2
  <2>4. PICK j \in 1..m[i].n : k = StartLoc(m, i) + j
    BY <2>3
  <2>5. Split[k] = <<m[i].r, m[i].start + j - 1>> /\ i \in 1..Len(batch)
    BY <1>1, <1>2, <2>1, <2>4
  <2> QED
    BY <2>5
<1>5. PICK j \in 1..m[i].n : Split[k] = <<m[i].r, m[i].start + j - 1>>
  BY <1>4
<1> DEFINE e == batch[i]
           d == m[i]
           p == d.start + j - 1
<1>6. InStep
  BY DEF InStep
<1>7. /\ e.r \in Requests /\ e.n \in Nat /\ e.start \in Nat /\ e.prefill \in Nat
      /\ life[e.r] = "running" /\ e.start = computed[e.r]
  BY <1>6, InStepFacts
<1>8. /\ d.r = e.r /\ d.n \in Nat /\ d.start \in Nat /\ d.lower \in Nat
      /\ d.start + d.n = e.start + e.n
      /\ EntryOf(m, e.r) = d
      /\ ~ Cut(e) => d.store /\ d.start = e.start /\ d.lower = 0
      /\ Cut(e) => /\ d.lower = e.prefill - config.keep
                   /\ d.store => d.start = AtLeast(e.start, e.prefill - config.keep)
                   /\ ~ d.store => e.start + e.n <= e.prefill - config.keep
  BY BoundaryEntry
<1>9. Low(e.r)..(computed[e.r] - 1) \subseteq swa[e.r]
  BY <1>7 DEF CacheInv
<1>10. /\ Low(e.r) \in Nat
       /\ Cut(e) => Low(e.r) = e.prefill - config.keep
       /\ ~ Cut(e) => Low(e.r) = 0
            \/ (Yoco /\ Low(e.r) = e.prefill - config.keep /\ e.prefill <= e.start)
  BY <1>6, CutFacts
<1>11. Split[k][1] = e.r /\ Split[k][2] = p
  BY <1>5, <1>8
<1>12. q \in AtLeast(p - Window + 1, d.lower)..p
  <2>1. Visible(Split[k]) =
          AtLeast(Split[k][2] - Window + 1, EntryOf(SplitMetadata, Split[k][1]).lower)..Split[k][2]
    BY DEF Visible
  <2> HIDE DEF p
  <2>2. Visible(Split[k]) = AtLeast(p - Window + 1, EntryOf(m, e.r).lower)..p
    BY <1>11, <2>1
  <2> QED
    BY <1>8, <2>2
<1>13. /\ config.keep \in Nat /\ Window \in Nat \ {0} /\ Drafts \in Nat
       /\ Yoco => config.keep >= Window + Drafts + 1
  BY ConfigFacts
<1>14. /\ q \in Int /\ p \in Int /\ q <= p /\ q >= p - Window + 1 /\ q >= d.lower
       /\ p >= d.start /\ p < e.start + e.n
  <2>1. j \in Int /\ 1 <= j /\ j <= d.n
    BY <1>8
  <2> HIDE DEF m, e, d
  <2>2. p \in Int /\ p >= d.start /\ p < e.start + e.n
    <3>1. d.start \in Int /\ d.n \in Int
      BY <1>8
    <3>2. p \in Int /\ p >= d.start /\ p < d.start + d.n
      BY <2>1, <3>1, SpanPoint, Zenon
    <3> QED
      BY <1>8, <3>2, Zenon
  <2> HIDE DEF p
  <2> QED
    BY <1>8, <1>12, <1>13, <2>2 DEF AtLeast
<1>15. ASSUME d.store, q >= d.start PROVE <<e.r, q>> \in Stored
  <2> HIDE DEF m, e, d, p
  <2>1. q \in d.start..(d.start + d.n - 1)
    BY <1>7, <1>8, <1>14, <1>15
  <2> QED
    BY <1>15, <2>1, StoredFacts DEF m, e, d
<1> HIDE DEF m, e, d, p
<1>16. ASSUME q >= Low(e.r), q < e.start PROVE q \in swa[e.r]
  <2>1. q \in Low(e.r)..(computed[e.r] - 1)
    BY <1>7, <1>10, <1>14, <1>16
  <2> QED
    BY <1>9, <2>1
<1>17. CASE Cut(e)
  <2>1. Low(e.r) = e.prefill - config.keep /\ d.lower = e.prefill - config.keep
    BY <1>8, <1>10, <1>17
  <2>2. d.store
    <3>1. ~ d.store => e.start + e.n <= d.lower
      BY <1>8, <1>17, <2>1
    <3>2. e.start + e.n \in Int /\ d.lower \in Int
      BY <1>7, <1>8
    <3>3. ~ (e.start + e.n <= d.lower)
      BY <1>14, <3>2, NoneBetween, Zenon
    <3> QED
      BY <3>1, <3>3, Zenon
  <2>3. d.start = AtLeast(e.start, d.lower)
    BY <1>8, <1>17, <2>1, <2>2
  <2>4. q >= d.start \/ (q >= Low(e.r) /\ q < e.start)
    BY <1>7, <1>8, <1>14, <2>1, <2>3 DEF AtLeast
  <2> QED
    BY <1>11, <1>15, <1>16, <2>2, <2>4
<1>18. CASE ~ Cut(e)
  <2>1. d.store /\ d.start = e.start /\ d.lower = 0
    BY <1>8, <1>18
  <2>2. q >= Low(e.r)
    <3>1. CASE Low(e.r) = 0
      BY <1>14, <2>1, <3>1
    <3>2. CASE Low(e.r) # 0
      <4>1. Yoco /\ Low(e.r) = e.prefill - config.keep /\ e.prefill <= e.start
        BY <1>10, <1>18, <3>2
      <4>2. config.keep >= Window + Drafts + 1
        BY <1>13, <4>1
      <4> QED
        BY <1>7, <1>13, <1>14, <2>1, <4>1, <4>2
    <3> QED
      BY <3>1, <3>2
  <2>3. q >= d.start \/ (q >= Low(e.r) /\ q < e.start)
    BY <1>7, <1>14, <2>1, <2>2
  <2> QED
    BY <1>11, <1>15, <1>16, <2>1, <2>3
<1> QED
  BY <1>17, <1>18

-----------------------------------------------------------------------------
(* The worker's steps keep the invariant *)

\* What the steps of the forward leave alone.
LEMMA ForwardKept ==
  ASSUME QueueInv, BatchInv, InStep, HookInv, HandoverReleased, scheduler' = scheduler, batch' = batch, hook' = hook
  PROVE  QueueInv' /\ BatchInv' /\ HookInv' /\ HandoverReleased' /\ (at' # "attach" => FloorHeld')
<1>1. /\ config' = config /\ life' = life /\ running' = running /\ waiting' = waiting /\ tokens' = tokens
      /\ computed' = computed /\ prefill' = prefill /\ batch' = batch
      /\ inPrefill' = inPrefill /\ held' = held /\ decodeSteps' = decodeSteps
  BY DEF scheduler, hook
<1>2. QueueInv'
  BY <1>1 DEF QueueInv
<1>3. BatchInv'
  BY <1>1 DEF BatchInv, InStep, Entry
<1>4. HookInv' /\ HandoverReleased'
  BY <1>1 DEF HookInv, HandoverReleased
<1>5. at' # "attach" => FloorHeld'
  BY DEF FloorHeld
<1> QED
  BY <1>2, <1>3, <1>4, <1>5

LEMMA TypeKept ==
  ASSUME TypeOK, InStep, scheduler' = scheduler, batch' = batch, hook' = hook,
         InStep', graph' \in BOOLEAN, current' \in {"full", "decoder"}, skip' \in BOOLEAN
  PROVE  TypeOK'
<1>1. /\ config' = config /\ life' = life /\ running' = running /\ waiting' = waiting /\ tokens' = tokens
      /\ computed' = computed /\ prefill' = prefill /\ logprobs' = logprobs /\ preempts' = preempts
      /\ inPrefill' = inPrefill /\ held' = held /\ decodeSteps' = decodeSteps
  BY DEF scheduler, hook
<1>2. Len(RowsOfBatch(batch)) \in 1..config.budget
  BY DEF TypeOK, InStep
<1>3. /\ config \in Configs
      /\ life \in [Requests -> {"new", "waiting", "running", "done", "refused"}]
      /\ \A r \in Requests : /\ (life[r] = "running") <=> (r \in ToSet(running))
                             /\ (life[r] = "waiting") <=> (r \in ToSet(waiting))
                             /\ tokens[r] \in Prompt[r]..(Prompt[r] + MaxNew)
                             /\ life[r] = "running" => computed[r] \in 0..(tokens[r] - 1)
                             /\ prefill[r] \in Prompt[r]..tokens[r]
      /\ logprobs \in [Requests -> BOOLEAN] /\ preempts \in 0..MaxPreempts
      /\ inPrefill \in BOOLEAN /\ held \in BOOLEAN /\ decodeSteps \in 0..2
  BY DEF TypeOK
<1>4. at' \in {"schedule", "attach", "encode", "boundary", "finish", "raised"}
  BY DEF InStep
<1> QED
  BY <1>1, <1>2, <1>3, <1>4 DEF TypeOK

LEMMA PlanUsed ==
  ASSUME NEW n, NEW k, NEW v, NEW u
  PROVE  [[rows |-> n, idx |-> k, used |-> v] EXCEPT !.used = u] = [rows |-> n, idx |-> k, used |-> u]
OBVIOUS

LEMMA PlanFields ==
  ASSUME NEW b, NEW u
  PROVE  /\ [NewPlan(b) EXCEPT !.used = u] = [rows |-> Len(RowsOfBatch(b)), idx |-> KeepIdx(b, config.keep), used |-> u]
         /\ [NewPlan(b) EXCEPT !.used = u].idx = KeepIdx(b, config.keep)
         /\ [NewPlan(b) EXCEPT !.used = FALSE] = NewPlan(b)
         /\ [[NewPlan(b) EXCEPT !.used = FALSE] EXCEPT !.used = u] = [NewPlan(b) EXCEPT !.used = u]
<1> DEFINE n == Len(RowsOfBatch(b))
           k == KeepIdx(b, config.keep)
           P(v) == [rows |-> n, idx |-> k, used |-> v]
<1>1. NewPlan(b) = P(FALSE)
  BY DEF NewPlan
<1> HIDE DEF n, k
<1>2. \A v, w : [P(v) EXCEPT !.used = w] = P(w) /\ P(w).idx = k
  BY PlanUsed
<1> HIDE DEF P
<1>3. [P(FALSE) EXCEPT !.used = u] = P(u) /\ [P(FALSE) EXCEPT !.used = FALSE] = P(FALSE) /\ P(u).idx = k
  BY <1>2, Zenon
<1> QED
  BY <1>1, <1>3, Zenon DEF P, n, k

LEMMA AttachKeeps == IInv /\ Attach => IInv'
<1> SUFFICES ASSUME IInv, Attach PROVE IInv'
  OBVIOUS
<1>1. /\ TypeOK /\ QueueInv /\ TokenInv /\ BatchInv /\ PlanInv /\ CacheInv /\ HookInv /\ HandoverReleased
  BY DEF IInv
<1>2. PICK replay \in BOOLEAN :
        /\ NeedEager(batch) => ~replay
        /\ graph' = replay
        /\ IF ~replay /\ Yoco /\ Needed(batch, config.keep)
           THEN BuildCompact(batch) /\ plan' = NewPlan(batch)
           ELSE primary' = Full(batch) /\ plan' = NoPlan /\ UNCHANGED shadow
  BY DEF Attach
<1>3. /\ at = "attach" /\ at' = "encode" /\ current' = "full" /\ x' = RowsOfBatch(batch)
      /\ scheduler' = scheduler /\ batch' = batch /\ hook' = hook
      /\ skip' = skip /\ kv' = kv /\ swa' = swa
  BY DEF Attach, model
<1>4. /\ primary' = Full(batch)
      /\ NeedEager(batch) => ~graph' /\ shadow' = Compact(batch, config.keep) /\ plan' = NewPlan(batch)
      /\ ~ NeedEager(batch) => plan' = NoPlan
  BY <1>2 DEF NeedEager, BuildCompact
<1>5. InStep /\ InStep'
  BY <1>3 DEF InStep
<1>6. QueueInv' /\ BatchInv' /\ HookInv' /\ HandoverReleased' /\ FloorHeld'
  BY <1>1, <1>3, <1>5, ForwardKept
<1>7. TypeOK'
  <2>1. graph' \in BOOLEAN /\ skip' \in BOOLEAN
    BY <1>1, <1>2, <1>3 DEF TypeOK
  <2> QED
    BY <1>1, <1>3, <1>5, <2>1, TypeKept
<1>8. /\ config' = config /\ life' = life /\ tokens' = tokens /\ computed' = computed /\ prefill' = prefill
      /\ logprobs' = logprobs
  BY <1>3 DEF scheduler
<1>9. TokenInv'
  BY <1>1, <1>3, <1>8 DEF TokenInv, Yoco
<1>10. CacheInv'
  BY <1>1, <1>3, <1>8 DEF CacheInv, Low, Yoco
<1>11. PlanInv'
  <2>1. NeedEager(batch)' = NeedEager(batch)
    BY <1>3, <1>8 DEF NeedEager, Yoco
  <2>2. [NewPlan(batch) EXCEPT !.used = FALSE] = NewPlan(batch)
    BY PlanFields
  <2>3. NewPlan(batch)' = NewPlan(batch)
    BY <1>3, <1>8 DEF NewPlan
  <2>4. ~ skip'
    BY <1>1, <1>3 DEF PlanInv
  <2>5. NeedEager(batch)' => ~graph' /\ shadow' = Compact(batch, config.keep)'
                             /\ plan' = [NewPlan(batch)' EXCEPT !.used = FALSE]
    BY <1>3, <1>4, <1>8, <2>1, <2>2, <2>3
  <2>6. ~ NeedEager(batch)' => plan' = NoPlan
    BY <1>4, <2>1
  <2>7. (at # "encode")' = FALSE
    BY <1>3
  <2> QED
    BY <1>3, <1>4, <2>4, <2>5, <2>6, <2>7 DEF PlanInv
<1> QED
  BY <1>3, <1>6, <1>7, <1>9, <1>10, <1>11 DEF IInv, NeverRaises

\* begin() finds the plan of this step, unused.
LEMMA EncodeKeeps == IInv /\ Encode => IInv'
<1> SUFFICES ASSUME IInv, Encode PROVE IInv'
  OBVIOUS
<1>1. /\ TypeOK /\ QueueInv /\ TokenInv /\ BatchInv /\ PlanInv /\ CacheInv /\ HookInv /\ HandoverReleased
  BY DEF IInv
<1>2. /\ at = "encode" /\ scheduler' = scheduler /\ batch' = batch /\ hook' = hook /\ graph' = graph
      /\ primary' = primary /\ shadow' = shadow /\ current' = current /\ x' = x
      /\ skip' = skip /\ kv' = kv /\ swa' = swa
  BY DEF Encode, model
<1>3. /\ ~ skip /\ current = "full" /\ primary = Full(batch) /\ x = RowsOfBatch(batch)
      /\ NeedEager(batch) => ~graph /\ shadow = Compact(batch, config.keep)
                             /\ plan = [NewPlan(batch) EXCEPT !.used = FALSE]
      /\ ~ NeedEager(batch) => plan = NoPlan
  BY <1>1, <1>2 DEF PlanInv
<1>4. InStep /\ Len(RowsOfBatch(batch)) \in Nat \ {0}
  BY <1>1, <1>2, ConfigFacts DEF TypeOK, InStep
<1>5. NeedEager(batch) =>
        /\ plan = [rows |-> Len(RowsOfBatch(batch)), idx |-> KeepIdx(batch, config.keep), used |-> FALSE]
        /\ plan # NoPlan
  <2>1. NeedEager(batch) =>
          plan = [rows |-> Len(RowsOfBatch(batch)), idx |-> KeepIdx(batch, config.keep), used |-> FALSE]
    BY <1>3, PlanFields
  <2>2. NeedEager(batch) => plan.rows = Len(RowsOfBatch(batch))
    BY <2>1
  <2> QED
    BY <1>4, <2>1, <2>2 DEF NoPlan
<1>6. ~ (plan # NoPlan /\ (graph \/ plan.rows # Len(x) \/ plan.used))
  BY <1>3, <1>5
<1>7. at' = "boundary" /\ plan' = [plan EXCEPT !.used = (plan # NoPlan)]
  BY <1>6 DEF Encode
<1>8. InStep' /\ at' # "attach"
  BY <1>7 DEF InStep
<1>9. QueueInv' /\ BatchInv' /\ HookInv' /\ HandoverReleased' /\ FloorHeld'
  BY <1>1, <1>2, <1>4, <1>8, ForwardKept
<1>10. TypeOK'
  <2>1. graph' \in BOOLEAN /\ skip' \in BOOLEAN /\ current' \in {"full", "decoder"}
    BY <1>1, <1>2 DEF TypeOK
  <2> QED
    BY <1>1, <1>2, <1>4, <1>8, <2>1, TypeKept
<1>11. /\ config' = config /\ life' = life /\ tokens' = tokens /\ computed' = computed /\ prefill' = prefill
      /\ logprobs' = logprobs
  BY <1>2 DEF scheduler
<1>12. TokenInv'
  BY <1>1, <1>2, <1>11 DEF TokenInv, Yoco
<1>13. CacheInv'
  BY <1>1, <1>2, <1>7, <1>11 DEF CacheInv, Low, Yoco
<1>14. PlanInv'
  <2>1. NeedEager(batch)' = NeedEager(batch) /\ NewPlan(batch)' = NewPlan(batch)
    BY <1>2, <1>11 DEF NeedEager, Yoco, NewPlan
  <2>2. NeedEager(batch) => plan' = [NewPlan(batch) EXCEPT !.used = TRUE]
    <3>1. NeedEager(batch) => plan' = [[NewPlan(batch) EXCEPT !.used = FALSE] EXCEPT !.used = TRUE]
      BY <1>3, <1>5, <1>7
    <3> QED
      BY <3>1, PlanFields
  <2>3. ~ NeedEager(batch) => plan' = NoPlan
    <3>1. [NoPlan EXCEPT !.used = FALSE] = NoPlan
      <4> DEFINE k == <<>>
                 v == FALSE
      <4>1. NoPlan = [rows |-> 0, idx |-> k, used |-> v]
        BY DEF NoPlan
      <4> HIDE DEF k, v
      <4>2. [[rows |-> 0, idx |-> k, used |-> v] EXCEPT !.used = v] = [rows |-> 0, idx |-> k, used |-> v]
        BY PlanUsed
      <4>3. [NoPlan EXCEPT !.used = v] = NoPlan
        BY <4>1, <4>2
      <4> QED
        BY <4>3 DEF v
    <3>2. plan = NoPlan => plan' = [NoPlan EXCEPT !.used = FALSE]
      BY <1>7
    <3> QED
      BY <1>3, <3>1, <3>2
  <2>4. NeedEager(batch)' => ~graph' /\ shadow' = Compact(batch, config.keep)'
                             /\ plan' = [NewPlan(batch)' EXCEPT !.used = TRUE]
    BY <1>2, <1>3, <1>11, <2>1, <2>2
  <2>5. ~ skip' /\ current' = "full" /\ primary' = Full(batch)' /\ x' = RowsOfBatch(batch)'
    BY <1>2, <1>3
  <2>6. (at # "encode")' = TRUE /\ at' = "boundary"
    BY <1>7
  <2> QED
    BY <2>1, <2>3, <2>4, <2>5, <2>6 DEF PlanInv
<1> QED
  BY <1>7, <1>9, <1>10, <1>12, <1>13, <1>14 DEF IInv, NeverRaises

\* What the compressor and the decoder store.
LEMMA BoundaryKeeps == IInv /\ Boundary => IInv'
<1> SUFFICES ASSUME IInv, Boundary PROVE IInv'
  OBVIOUS
<1>1. /\ TypeOK /\ QueueInv /\ TokenInv /\ BatchInv /\ PlanInv /\ CacheInv /\ HookInv /\ HandoverReleased
  BY DEF IInv
<1> DEFINE Of(r, rows) == {row[2] : row \in {w \in rows : w[1] = r}}
<1>2. /\ at = "boundary" /\ at' = "finish" /\ scheduler' = scheduler /\ batch' = batch /\ hook' = hook
      /\ graph' = graph /\ primary' = primary /\ shadow' = shadow /\ plan' = plan
      /\ x' = Split /\ skip' = SkipAfter
      /\ current' = IF plan # NoPlan THEN "decoder" ELSE current
  BY DEF Boundary
<1>3. /\ kv' = [r \in Requests |-> kv[r] \cup Of(r, Produced)]
      /\ swa' = [r \in Requests |-> swa[r] \cup Of(r, Stored)]
  BY DEF Boundary
<1>4. InStep /\ InStep' /\ at' # "attach" /\ config \in Configs
  BY <1>1, <1>2 DEF InStep, TypeOK
<1>5. ~ skip'
  BY <1>1, <1>2 DEF PlanInv, SkipAfter
<1>6. QueueInv' /\ BatchInv' /\ HookInv' /\ HandoverReleased' /\ FloorHeld'
  BY <1>1, <1>2, <1>4, ForwardKept
<1>7. TypeOK'
  <2>1. graph' \in BOOLEAN /\ current' \in {"full", "decoder"} /\ skip' \in BOOLEAN
    BY <1>1, <1>2 DEF TypeOK, SkipAfter
  <2> QED
    BY <1>1, <1>2, <1>4, <2>1, TypeKept
<1>8. /\ config' = config /\ life' = life /\ tokens' = tokens /\ computed' = computed /\ prefill' = prefill
      /\ logprobs' = logprobs
  BY <1>2 DEF scheduler
<1>9. Produced = ToSet(RowsOfBatch(batch)) /\ Split = RowsOfBatch(SplitMetadata)
  BY <1>1, <1>2, <1>4, BoundaryRows
<1>10. Shares(batch) /\ batch \in Seq(Entries) /\ Sized(batch) /\ DOMAIN batch = 1..Len(batch)
  BY <1>1, <1>4, InStepFacts, SharesSized
<1>11. Produced \subseteq Requests \X Nat /\ \A r, p : Spans(batch, r, p) => <<r, p>> \in Produced
  BY <1>9, <1>10, SpanFacts
<1>12. Stored \subseteq Requests \X Nat
  <2>1. PICK E : SplitMetadata \in Seq(E)
    BY <1>1, <1>2, <1>4, BoundaryEntry
  <2>2. Sized(SplitMetadata)
    BY <1>1, <1>2, <1>4, BoundaryEntry
  <2>3. RowsOfBatch(SplitMetadata) \in Seq(Requests \X Nat)
        /\ ToSet(RowsOfBatch(SplitMetadata)) \subseteq Requests \X Nat
    BY <2>1, <2>2, RowsFacts, SpanFacts
  <2>4. Placed(Split, SplitMetadata) = ToSet(RowsOfBatch(SplitMetadata))
    BY <1>9, <2>3, PlacedAll
  <2> QED
    BY <2>3, <2>4 DEF Stored
<1>13. ASSUME NEW r \in Requests, NEW rows \in SUBSET (Requests \X Nat)
       PROVE  Of(r, rows) \subseteq Nat /\ \A p : <<r, p>> \in rows => p \in Of(r, rows)
  <2>1. ASSUME NEW p, <<r, p>> \in rows PROVE p \in Of(r, rows)
    <3>1. <<r, p>> \in {w \in rows : w[1] = r} /\ <<r, p>>[2] = p
      BY <2>1
    <3> QED
      BY <3>1
  <2> QED
    BY <2>1
<1> HIDE DEF Of
<1>14. /\ \A r \in Requests : kv[r] \subseteq Nat /\ swa[r] \subseteq Nat
       /\ kv' \in [Requests -> SUBSET Nat] /\ swa' \in [Requests -> SUBSET Nat]
       /\ \A r \in Requests : kv[r] \subseteq kv'[r] /\ swa[r] \subseteq swa'[r]
       /\ \A r \in Requests : \A p : <<r, p>> \in Produced => p \in kv'[r]
       /\ \A r \in Requests : \A p : <<r, p>> \in Stored => p \in swa'[r]
  <2>1. \A r \in Requests : kv[r] \subseteq Nat /\ swa[r] \subseteq Nat
    BY <1>1 DEF TokenInv
  <2>2. \A r \in Requests : Of(r, Produced) \subseteq Nat /\ Of(r, Stored) \subseteq Nat
    BY <1>11, <1>12, <1>13
  <2>3. \A r \in Requests : kv'[r] = kv[r] \cup Of(r, Produced) /\ swa'[r] = swa[r] \cup Of(r, Stored)
    BY <1>3
  <2>4. kv' \in [Requests -> SUBSET Nat] /\ swa' \in [Requests -> SUBSET Nat]
    BY <1>3, <2>1, <2>2
  <2> QED
    BY <1>11, <1>12, <1>13, <2>1, <2>3, <2>4
<1>15. TokenInv'
  BY <1>1, <1>8, <1>14 DEF TokenInv, Yoco
<1>16. ASSUME NEW i \in 1..Len(batch)
       PROVE  /\ batch[i].start..(batch[i].start + batch[i].n - 1) \subseteq kv'[batch[i].r]
              /\ AtLeast(Low(batch[i].r), batch[i].start)..(batch[i].start + batch[i].n - 1) \subseteq swa'[batch[i].r]
  <2> DEFINE e == batch[i]
             d == SplitMetadata[i]
  <2>1. /\ e.r \in Requests /\ e.n \in Nat /\ e.start \in Nat /\ e.prefill \in Nat
    BY <1>1, <1>4, InStepFacts
  <2>2. ASSUME NEW p \in e.start..(e.start + e.n - 1) PROVE p \in kv'[e.r]
    <3>1. Spans(batch, e.r, p)
      BY <2>2 DEF Spans
    <3> QED
      BY <1>11, <1>14, <2>1, <3>1
  <2>3. /\ d.n \in Nat /\ d.start \in Nat /\ d.start + d.n = e.start + e.n
        /\ ~ Cut(e) => d.store /\ d.start = e.start
        /\ Cut(e) => /\ d.store => d.start = AtLeast(e.start, e.prefill - config.keep)
                     /\ ~ d.store => e.start + e.n <= e.prefill - config.keep
    BY <1>1, <1>2, <1>4, BoundaryEntry
  <2>4. Low(e.r) \in Nat /\ (Cut(e) => Low(e.r) = e.prefill - config.keep)
    BY <1>1, <1>4, CutFacts
  <2>5. ASSUME NEW p \in AtLeast(Low(e.r), e.start)..(e.start + e.n - 1) PROVE p \in swa'[e.r]
    <3> HIDE DEF e, d
    <3>1. p \in Int /\ p >= Low(e.r) /\ p >= e.start /\ p <= e.start + e.n - 1
      BY <2>1, <2>4 DEF AtLeast
    <3>2. d.store /\ p >= d.start
      <4>1. CASE ~ Cut(e)
        <5>1. d.store /\ d.start = e.start
          BY <2>3, <4>1, Zenon
        <5> QED
          BY <3>1, <5>1, Zenon
      <4>2. CASE Cut(e)
        <5>1. Low(e.r) = e.prefill - config.keep
          BY <2>4, <4>2, Zenon
        <5>2. ~ (e.start + e.n <= Low(e.r))
          BY <2>1, <2>4, <3>1
        <5>3. d.store /\ d.start = AtLeast(e.start, Low(e.r))
          BY <2>3, <4>2, <5>1, <5>2, Zenon
        <5>4. e.start \in Int /\ Low(e.r) \in Int
          BY <2>1, <2>4
        <5>5. p >= AtLeast(e.start, Low(e.r))
          BY <3>1, <5>4, AtLeastAbove, Zenon
        <5> QED
          BY <5>3, <5>5, Zenon
      <4> QED
        BY <4>1, <4>2, Zenon
    <3>3. p \in d.start..(d.start + d.n - 1)
      <4>1. d.start + d.n = e.start + e.n
        BY <2>3, Zenon
      <4>2. d.start \in Nat /\ d.n \in Nat
        BY <2>3, Zenon
      <4>3. p \in Int /\ p < e.start + e.n
        BY <2>1, <3>1
      <4>4. p < d.start + d.n /\ p >= d.start
        BY <3>2, <4>1, <4>3, Zenon
      <4> QED
        BY <4>2, <4>3, <4>4, InSpan, Zenon
    <3>4. <<e.r, p>> \in Stored
      BY <1>1, <1>2, <1>4, <3>2, <3>3, StoredFacts DEF e, d
    <3> QED
      BY <1>14, <2>1, <3>4
  <2> QED
    BY <2>2, <2>5
<1>17. CacheInv'
  <2>1. \A r \in Requests : Low(r)' = Low(r)
    BY <1>8 DEF Low, Yoco
  <2>2. ASSUME NEW r \in Requests, life[r] = "running"
        PROVE  0..(computed[r] - 1) \subseteq kv'[r] /\ Low(r)..(computed[r] - 1) \subseteq swa'[r]
    BY <1>1, <1>14, <2>2 DEF CacheInv
  <2>3. \A i \in 1..Len(batch) : batch[i].r \in Requests
    BY <1>10 DEF Sized
  <2> QED
    BY <1>2, <1>8, <1>10, <1>16, <2>1, <2>2, <2>3 DEF CacheInv
<1>18. PlanInv'
  <2>1. NeedEager(batch)' = NeedEager(batch) /\ NewPlan(batch)' = NewPlan(batch)
    BY <1>2, <1>8 DEF NeedEager, Yoco, NewPlan
  <2>2. /\ NeedEager(batch) => ~graph /\ shadow = Compact(batch, config.keep)
                             /\ plan = [NewPlan(batch) EXCEPT !.used = TRUE]
        /\ ~ NeedEager(batch) => plan = NoPlan
        /\ x = RowsOfBatch(batch)
    BY <1>1, <1>2 DEF PlanInv
  <2>3. Split = IF NeedEager(batch) THEN Gather(RowsOfBatch(batch), KeepIdx(batch, config.keep))
                ELSE RowsOfBatch(batch)
    <3>1. CASE NeedEager(batch)
      <4>1. plan.idx = KeepIdx(batch, config.keep)
        BY <2>2, <3>1, PlanFields
      <4>2. plan # NoPlan
        BY <1>1, <1>2, <1>4, <3>1, BoundaryRows
      <4> QED
        BY <2>2, <3>1, <4>1, <4>2 DEF Split
    <3>2. CASE ~ NeedEager(batch)
      BY <2>2, <3>2 DEF Split
    <3> QED
      BY <3>1, <3>2
  <2>4. x' = IF NeedEager(batch)' THEN Gather(RowsOfBatch(batch), KeepIdx(batch, config.keep))'
             ELSE RowsOfBatch(batch)'
    BY <1>2, <1>8, <2>1, <2>3
  <2>5. NeedEager(batch)' => ~graph' /\ shadow' = Compact(batch, config.keep)'
                             /\ plan' = [NewPlan(batch)' EXCEPT !.used = TRUE]
    BY <1>2, <1>8, <2>1, <2>2
  <2>6. ~ NeedEager(batch)' => plan' = NoPlan
    BY <1>2, <2>1, <2>2
  <2>7. (at # "encode")' = TRUE /\ at' = "finish"
    BY <1>2
  <2> QED
    BY <1>5, <2>4, <2>5, <2>6, <2>7 DEF PlanInv
<1> QED
  BY <1>2, <1>6, <1>7, <1>15, <1>17, <1>18 DEF IInv, NeverRaises

-----------------------------------------------------------------------------
(* Requests come, lose their place and go *)

\* What a change of the queues between two steps, or beside one, leaves alone.
LEMMA QueueKept ==
  ASSUME PlanInv, HookInv, HandoverReleased, config' = config, at' = at, step' = step, skip' = skip, hook' = hook
  PROVE  PlanInv' /\ HookInv' /\ HandoverReleased'
<1>1. /\ batch' = batch /\ graph' = graph /\ primary' = primary /\ shadow' = shadow /\ plan' = plan
      /\ current' = current /\ x' = x
      /\ inPrefill' = inPrefill /\ held' = held /\ decodeSteps' = decodeSteps
  BY DEF step, hook
<1>2. PlanInv'
  <2>1. NeedEager(batch)' = NeedEager(batch) /\ NewPlan(batch)' = NewPlan(batch)
    BY <1>1 DEF NeedEager, Yoco, NewPlan
  <2> QED
    BY <1>1, <2>1 DEF PlanInv
<1>3. HookInv' /\ HandoverReleased'
  BY <1>1 DEF HookInv, HandoverReleased
<1> QED
  BY <1>2, <1>3

LEMMA AddKeeps == ASSUME NEW r \in Requests PROVE IInv /\ AddRequest(r) => IInv'
<1> SUFFICES ASSUME IInv, AddRequest(r) PROVE IInv'
  OBVIOUS
<1>1. /\ TypeOK /\ QueueInv /\ TokenInv /\ BatchInv /\ PlanInv /\ CacheInv /\ HookInv /\ HandoverReleased
      /\ NeverRaises /\ FloorHeld
  BY DEF IInv
<1>2. PICK wants \in BOOLEAN :
        /\ logprobs' = [logprobs EXCEPT ![r] = wants]
        /\ IF Refused(wants)
           THEN life' = [life EXCEPT ![r] = "refused"] /\ UNCHANGED waiting
           ELSE life' = [life EXCEPT ![r] = "waiting"] /\ waiting' = Append(waiting, r)
  BY DEF AddRequest
<1>3. /\ life[r] = "new" /\ config' = config /\ running' = running /\ tokens' = tokens /\ computed' = computed
      /\ prefill' = prefill /\ preempts' = preempts /\ at' = at /\ step' = step /\ skip' = skip /\ kv' = kv
      /\ swa' = swa /\ hook' = hook
  BY DEF AddRequest, model
<1>4. batch' = batch /\ graph' = graph /\ current' = current
      /\ inPrefill' = inPrefill /\ held' = held /\ decodeSteps' = decodeSteps
  BY <1>3 DEF step, hook
<1>5. PlanInv' /\ HookInv' /\ HandoverReleased'
  BY <1>1, <1>3, QueueKept
<1>6. /\ life \in [Requests -> {"new", "waiting", "running", "done", "refused"}]
      /\ \A q \in Requests : (life[q] = "running" <=> q \in ToSet(running))
                             /\ (life[q] = "waiting" <=> q \in ToSet(waiting))
      /\ logprobs \in [Requests -> BOOLEAN]
  BY <1>1 DEF TypeOK
<1>7. /\ life' \in [Requests -> {"new", "waiting", "running", "done", "refused"}]
      /\ life'[r] = IF Refused(wants) THEN "refused" ELSE "waiting"
      /\ \A q \in Requests : q # r => life'[q] = life[q]
  BY <1>2, <1>6
<1>8. /\ logprobs' \in [Requests -> BOOLEAN] /\ logprobs'[r] = wants
      /\ \A q \in Requests : q # r => logprobs'[q] = logprobs[q]
  BY <1>2, <1>6
<1>9. /\ waiting' \in Seq(Requests) /\ IsInjective(waiting')
      /\ ToSet(waiting') = IF Refused(wants) THEN ToSet(waiting) ELSE ToSet(waiting) \cup {r}
  <2>1. CASE Refused(wants)
    BY <1>1, <1>2, <2>1 DEF QueueInv
  <2>2. CASE ~ Refused(wants)
    <3>1. waiting' = Append(waiting, r) /\ waiting \in Seq(Requests) /\ IsInjective(waiting) /\ r \notin ToSet(waiting)
      BY <1>1, <1>2, <1>3, <1>6, <2>2 DEF QueueInv
    <3> QED
      BY <2>2, <3>1, AppendFacts, AppendDistinct
  <2> QED
    BY <2>1, <2>2
<1>10. \A q \in Requests : (life'[q] = "running" <=> q \in ToSet(running'))
                           /\ (life'[q] = "waiting" <=> q \in ToSet(waiting'))
                           /\ (life'[q] = "running" <=> life[q] = "running")
  BY <1>3, <1>6, <1>7, <1>9
<1>11. QueueInv'
  BY <1>1, <1>3, <1>9 DEF QueueInv
<1>12. TypeOK'
  <2>1. /\ config \in Configs
        /\ \A q \in Requests : /\ tokens[q] \in Prompt[q]..(Prompt[q] + MaxNew)
                               /\ life[q] = "running" => computed[q] \in 0..(tokens[q] - 1)
                               /\ prefill[q] \in Prompt[q]..tokens[q]
        /\ preempts \in 0..MaxPreempts
        /\ at \in {"schedule", "attach", "encode", "boundary", "finish", "raised"}
        /\ at \in {"attach", "encode", "boundary", "finish"} => Len(RowsOfBatch(batch)) \in 1..config.budget
        /\ graph \in BOOLEAN /\ current \in {"full", "decoder"} /\ skip \in BOOLEAN
        /\ inPrefill \in BOOLEAN /\ held \in BOOLEAN /\ decodeSteps \in 0..2
    BY <1>1 DEF TypeOK
  <2> QED
    BY <1>3, <1>4, <1>7, <1>8, <1>10, <2>1 DEF TypeOK
<1>13. TokenInv'
  <2>1. \A q \in Requests : logprobs'[q] /\ Yoco => life'[q] = "refused"
    BY <1>1, <1>7, <1>8 DEF TokenInv, Refused
  <2>2. Yoco' = Yoco
    BY <1>3 DEF Yoco
  <2> QED
    BY <1>1, <1>3, <1>10, <2>1, <2>2 DEF TokenInv
<1>14. BatchInv'
  <2>1. InStep' <=> InStep
    BY <1>3 DEF InStep
  <2>2. InStep => \A i \in DOMAIN batch : batch[i].r \in Requests /\ life[batch[i].r] = "running"
    BY <1>1, InStepFacts
  <2>3. InStep => \A i \in DOMAIN batch : life'[batch[i].r] = "running"
    BY <1>10, <2>2
  <2> QED
    BY <1>1, <1>3, <1>4, <2>1, <2>3 DEF BatchInv, Entry
<1>15. CacheInv'
  <2>1. \A q \in Requests : Low(q)' = Low(q)
    BY <1>3 DEF Low, Yoco
  <2>2. at = "finish" => \A i \in DOMAIN batch : batch[i].r \in Requests
    BY <1>1, InStepFacts DEF InStep
  <2> QED
    BY <1>1, <1>3, <1>4, <1>10, <2>1, <2>2 DEF CacheInv
<1>16. FloorHeld' /\ NeverRaises'
  BY <1>1, <1>3, <1>4 DEF FloorHeld, NeverRaises
<1> QED
  BY <1>5, <1>11, <1>12, <1>13, <1>14, <1>15, <1>16 DEF IInv

\* Between two steps a request leaves the running ones.
LEMMA LeaveKeeps ==
  ASSUME IInv, at = "schedule", at' = "schedule", NEW r \in Requests, NEW to \in {"waiting", "done"},
         config' = config, tokens' = tokens, prefill' = prefill, logprobs' = logprobs,
         step' = step, skip' = skip, hook' = hook, preempts' \in 0..MaxPreempts,
         life' = [life EXCEPT ![r] = to], QueueInv',
         \A q \in Requests : (life'[q] = "running" <=> q \in ToSet(running'))
                             /\ (life'[q] = "waiting" <=> q \in ToSet(waiting')),
         life[r] \in {"waiting", "running"},
         computed' \in [Requests -> Nat], kv' \in [Requests -> SUBSET Nat], swa' \in [Requests -> SUBSET Nat],
         \A q \in Requests : q # r => computed'[q] = computed[q] /\ kv'[q] = kv[q] /\ swa'[q] = swa[q]
  PROVE  IInv'
<1>1. /\ TypeOK /\ QueueInv /\ TokenInv /\ BatchInv /\ PlanInv /\ CacheInv /\ HookInv /\ HandoverReleased
      /\ NeverRaises /\ FloorHeld
  BY DEF IInv
<1>2. batch' = batch /\ graph' = graph /\ current' = current
      /\ inPrefill' = inPrefill /\ held' = held /\ decodeSteps' = decodeSteps
  BY DEF step, hook
<1>3. PlanInv' /\ HookInv' /\ HandoverReleased'
  BY <1>1, QueueKept
<1>4. /\ life \in [Requests -> {"new", "waiting", "running", "done", "refused"}]
      /\ logprobs \in [Requests -> BOOLEAN] /\ config \in Configs
      /\ \A q \in Requests : /\ tokens[q] \in Prompt[q]..(Prompt[q] + MaxNew)
                             /\ life[q] = "running" => computed[q] \in 0..(tokens[q] - 1)
                             /\ prefill[q] \in Prompt[q]..tokens[q]
      /\ graph \in BOOLEAN /\ current \in {"full", "decoder"} /\ skip \in BOOLEAN
      /\ inPrefill \in BOOLEAN /\ held \in BOOLEAN /\ decodeSteps \in 0..2
  BY <1>1 DEF TypeOK
<1>5. /\ life' \in [Requests -> {"new", "waiting", "running", "done", "refused"}]
      /\ life'[r] = to /\ \A q \in Requests : q # r => life'[q] = life[q]
  BY <1>4
<1>6. ASSUME NEW q \in Requests, life'[q] = "running"
      PROVE  life[q] = "running" /\ computed'[q] = computed[q] /\ kv'[q] = kv[q] /\ swa'[q] = swa[q]
  BY <1>5, <1>6
<1>7. TypeOK'
  <2>1. \A q \in Requests : life'[q] = "running" => computed'[q] \in 0..(tokens[q] - 1)
    BY <1>4, <1>6
  <2>2. ~ (at' \in {"attach", "encode", "boundary", "finish"})
    OBVIOUS
  <2> QED
    BY <1>2, <1>4, <1>5, <2>1, <2>2 DEF TypeOK
<1>8. TokenInv'
  <2>1. \A q \in Requests : logprobs[q] /\ Yoco => life'[q] = "refused"
    BY <1>1, <1>5 DEF TokenInv
  <2>2. Yoco' = Yoco
    BY DEF Yoco
  <2>3. \A q \in Requests : life'[q] = "running" =>
          IF computed'[q] < prefill[q] THEN prefill[q] = tokens[q] ELSE computed'[q] = tokens[q] - 1
    BY <1>1, <1>6 DEF TokenInv
  <2> QED
    BY <1>1, <2>1, <2>2, <2>3 DEF TokenInv
<1>9. CacheInv'
  <2>1. \A q \in Requests : Low(q)' = Low(q)
    BY DEF Low, Yoco
  <2> QED
    BY <1>1, <1>6, <2>1 DEF CacheInv
<1>10. BatchInv' /\ FloorHeld' /\ NeverRaises'
  BY DEF BatchInv, InStep, FloorHeld, NeverRaises
<1> QED
  BY <1>3, <1>7, <1>8, <1>9, <1>10 DEF IInv

LEMMA PreemptKeeps == IInv /\ Preempt => IInv'
<1> SUFFICES ASSUME IInv, Preempt PROVE IInv'
  OBVIOUS
<1> DEFINE r == Last(running)
           n == Len(running)
<1>1. /\ TypeOK /\ QueueInv /\ TokenInv
  BY DEF IInv
<1>2. /\ at = "schedule" /\ preempts < MaxPreempts /\ running # <<>>
      /\ life' = [life EXCEPT ![r] = "waiting"]
      /\ running' = Front(running) /\ waiting' = <<r>> \o waiting
      /\ computed' = [computed EXCEPT ![r] = 0]
      /\ kv' = [kv EXCEPT ![r] = {}] /\ swa' = [swa EXCEPT ![r] = {}]
      /\ preempts' = preempts + 1
      /\ config' = config /\ tokens' = tokens /\ prefill' = prefill /\ logprobs' = logprobs /\ at' = at
      /\ step' = step /\ skip' = skip /\ hook' = hook
  BY DEF Preempt
<1>3. /\ life \in [Requests -> {"new", "waiting", "running", "done", "refused"}]
      /\ \A q \in Requests : (life[q] = "running" <=> q \in ToSet(running))
                             /\ (life[q] = "waiting" <=> q \in ToSet(waiting))
      /\ preempts \in 0..MaxPreempts
  BY <1>1 DEF TypeOK
<1>4. /\ running \in Seq(Requests) /\ waiting \in Seq(Requests) /\ IsInjective(waiting)
      /\ n \in Nat /\ n # 0 /\ ToSet(running) = {running[i] : i \in 1..n} /\ Len(waiting) \in Nat
      /\ ToSet(waiting) = {waiting[i] : i \in 1..Len(waiting)}
      /\ \A i \in 1..n : running[i] \in Requests
      /\ \A i, j \in 1..n : running[i] = running[j] => i = j
      /\ \A i, j \in 1..Len(waiting) : waiting[i] = waiting[j] => i = j
  BY <1>1, <1>2, SeqFacts, Distinct DEF QueueInv
<1>5. r = running[n] /\ r \in Requests /\ r \in ToSet(running) /\ life[r] = "running" /\ r \notin ToSet(waiting)
  BY <1>3, <1>4 DEF Last
<1>6. /\ Front(running) \in Seq(Requests) /\ Len(Front(running)) = n - 1
      /\ \A i \in 1..(n - 1) : Front(running)[i] = running[i]
  <2>1. Front(running) = SubSeq(running, 1, n - 1)
    BY DEF Front
  <2>2. \A i \in 1..(n - 1) : i \in 1..n
    BY <1>4
  <2>3. \A i \in 1..(n - 1) : running[i] \in Requests
    BY <1>4, <2>2
  <2>4. 1 \in 1..(n + 1) /\ n - 1 \in 0..n /\ \A i \in 1..(n - 1) : i <= n
    BY <1>4
  <2>5. SubSeq(running, 1, n - 1) = [i \in 1..(n - 1) |-> running[i]]
    BY <1>4, <2>4, FrontIs, Zenon
  <2>6. [i \in 1..(n - 1) |-> running[i]] \in [1..(n - 1) -> Requests] /\ n - 1 \in Nat
    BY <1>4, <2>3
  <2> DEFINE front == [i \in 1..(n - 1) |-> running[i]]
  <2>7. \A i \in 1..(n - 1) : front[i] = running[i]
    OBVIOUS
  <2> HIDE DEF front
  <2>8. front \in Seq(Requests) /\ Len(front) = n - 1
    BY <2>6, SeqDef DEF front
  <2> QED
    BY <2>1, <2>5, <2>7, <2>8 DEF front
<1>7. IsInjective(Front(running)) /\ ToSet(Front(running)) = ToSet(running) \ {r}
  <2>1. IsInjective(Front(running))
    <3>1. \A i, j \in 1..Len(Front(running)) : Front(running)[i] = Front(running)[j] => i = j
      BY <1>4, <1>6
    <3> QED
      BY <1>6, <3>1, Distinct
  <2>2. ToSet(Front(running)) = {running[i] : i \in 1..(n - 1)}
    BY <1>6, SeqFacts
  <2>3. 1..n = (1..(n - 1)) \cup {n} /\ \A i \in 1..(n - 1) : i # n /\ i \in 1..n /\ n \in 1..n
    BY <1>4
  <2> HIDE DEF r
  <2>4. ASSUME NEW q \in ToSet(running), q # r PROVE q \in ToSet(Front(running))
    <3>1. PICK i \in 1..n : running[i] = q
      BY <1>4
    <3>2. i \in 1..(n - 1)
      BY <1>4, <1>5, <2>4, <3>1
    <3> QED
      BY <2>2, <3>1, <3>2
  <2>5. ASSUME NEW q \in ToSet(Front(running)) PROVE q \in ToSet(running) /\ q # r
    <3>1. PICK i \in 1..(n - 1) : running[i] = q
      BY <2>2
    <3>2. i \in 1..n /\ i # n
      BY <2>3
    <3> QED
      BY <1>4, <1>5, <2>3, <3>1, <3>2
  <2> QED
    BY <2>1, <2>4, <2>5
<1> DEFINE w == <<r>> \o waiting
<1>8. /\ w \in Seq(Requests) /\ Len(w) = Len(waiting) + 1
      /\ w[1] = r /\ \A i \in 1..Len(waiting) : w[i + 1] = waiting[i]
  <2>1. <<r>> \in Seq(Requests) /\ Len(<<r>>) = 1 /\ <<r>>[1] = r
    BY <1>5
  <2> HIDE DEF r
  <2>2. /\ w \in Seq(Requests) /\ Len(w) = Len(<<r>>) + Len(waiting)
        /\ \A i \in 1..(Len(<<r>>) + Len(waiting)) :
             w[i] = IF i <= Len(<<r>>) THEN <<r>>[i] ELSE waiting[i - Len(<<r>>)]
    BY <1>4, <2>1, ConcatProperties
  <2> HIDE DEF w
  <2> QED
    BY <1>4, <2>1, <2>2
<1> HIDE DEF w, r
<1>9. IsInjective(w) /\ ToSet(w) = ToSet(waiting) \cup {r}
  <2>1. \A i \in 1..Len(w) : i = 1 \/ (i - 1 \in 1..Len(waiting) /\ (i - 1) + 1 = i)
    BY <1>4, <1>8
  <2>2. \A i \in 1..Len(w) : w[i] = IF i = 1 THEN r ELSE waiting[i - 1]
    BY <1>8, <2>1
  <2>3. \A i \in 1..Len(waiting) : waiting[i] # r
    BY <1>4, <1>5
  <2>4. \A i, j \in 1..Len(w) : w[i] = w[j] => i = j
    <3> SUFFICES ASSUME NEW i \in 1..Len(w), NEW j \in 1..Len(w), w[i] = w[j] PROVE i = j
      OBVIOUS
    <3>1. CASE i = 1 \/ j = 1
      BY <2>1, <2>2, <2>3, <3>1
    <3>2. CASE i # 1 /\ j # 1
      <4>1. i - 1 = j - 1
        BY <1>4, <2>1, <2>2, <3>2
      <4> QED
        BY <4>1
    <3> QED
      BY <3>1, <3>2
  <2>5. IsInjective(w)
    BY <1>8, <2>4, Distinct
  <2>6. ToSet(w) = {w[i] : i \in 1..Len(w)}
    BY <1>8, SeqFacts
  <2>7. \A i \in 1..Len(waiting) : i + 1 \in 1..Len(w) /\ 1 \in 1..Len(w)
    BY <1>4, <1>8
  <2>8. ToSet(w) = ToSet(waiting) \cup {r}
    <3>1. 1 \in 1..Len(w)
      BY <1>4, <1>8
    <3>2. \A q \in ToSet(w) : q \in ToSet(waiting) \cup {r}
      BY <1>4, <2>1, <2>2, <2>6
    <3>3. \A q \in ToSet(waiting) : q \in ToSet(w)
      <4> SUFFICES ASSUME NEW i \in 1..Len(waiting) PROVE waiting[i] \in ToSet(w)
        BY <1>4, Zenon
      <4>1. i + 1 \in 1..Len(w)
        BY <2>7, Zenon
      <4>2. w[i + 1] = waiting[i]
        BY <2>2, <4>1
      <4> QED
        BY <2>6, <4>1, <4>2
    <3>4. r \in ToSet(w)
      BY <1>8, <2>6, <3>1
    <3> QED
      BY <3>2, <3>3, <3>4
  <2> QED
    BY <2>5, <2>8
<1>10. QueueInv'
  BY <1>2, <1>6, <1>7, <1>8, <1>9 DEF QueueInv, w
<1>11. \A q \in Requests : (life'[q] = "running" <=> q \in ToSet(running'))
                           /\ (life'[q] = "waiting" <=> q \in ToSet(waiting'))
  <2>1. life'[r] = "waiting" /\ \A q \in Requests : q # r => life'[q] = life[q]
    BY <1>2, <1>3, <1>5
  <2> QED
    BY <1>2, <1>3, <1>5, <1>7, <1>9, <2>1 DEF w
<1>12. preempts' \in 0..MaxPreempts
  BY <1>2, <1>3, LoopAssumption DEF LoopAssumption
<1>13. /\ computed' \in [Requests -> Nat] /\ kv' \in [Requests -> SUBSET Nat] /\ swa' \in [Requests -> SUBSET Nat]
       /\ \A q \in Requests : q # r => computed'[q] = computed[q] /\ kv'[q] = kv[q] /\ swa'[q] = swa[q]
  BY <1>1, <1>2 DEF TokenInv
<1> QED
  BY <1>2, <1>5, <1>10, <1>11, <1>12, <1>13, LeaveKeeps

LEMMA AbortKeeps == ASSUME NEW r \in Requests PROVE IInv /\ Abort(r) => IInv'
<1> SUFFICES ASSUME IInv, Abort(r) PROVE IInv'
  OBVIOUS
<1>1. /\ TypeOK /\ QueueInv /\ TokenInv
  BY DEF IInv
<1>2. /\ at = "schedule" /\ life[r] \in {"waiting", "running"}
      /\ life' = [life EXCEPT ![r] = "done"]
      /\ running' = Without(running, {r}) /\ waiting' = Without(waiting, {r})
      /\ config' = config /\ tokens' = tokens /\ computed' = computed /\ prefill' = prefill /\ logprobs' = logprobs
      /\ preempts' = preempts /\ at' = at /\ step' = step /\ skip' = skip /\ kv' = kv /\ swa' = swa /\ hook' = hook
  BY DEF Abort, model
<1>3. /\ life \in [Requests -> {"new", "waiting", "running", "done", "refused"}]
      /\ \A q \in Requests : (life[q] = "running" <=> q \in ToSet(running))
                             /\ (life[q] = "waiting" <=> q \in ToSet(waiting))
      /\ preempts \in 0..MaxPreempts
  BY <1>1 DEF TypeOK
<1>4. /\ running' \in Seq(Requests) /\ ToSet(running') = ToSet(running) \ {r} /\ IsInjective(running')
      /\ waiting' \in Seq(Requests) /\ ToSet(waiting') = ToSet(waiting) \ {r} /\ IsInjective(waiting')
  BY <1>1, <1>2, WithoutFacts DEF QueueInv
<1>5. QueueInv'
  BY <1>4 DEF QueueInv
<1>6. \A q \in Requests : (life'[q] = "running" <=> q \in ToSet(running'))
                           /\ (life'[q] = "waiting" <=> q \in ToSet(waiting'))
  <2>1. life'[r] = "done" /\ \A q \in Requests : q # r => life'[q] = life[q]
    BY <1>2, <1>3
  <2> QED
    BY <1>3, <1>4, <2>1
<1>7. computed' \in [Requests -> Nat] /\ kv' \in [Requests -> SUBSET Nat] /\ swa' \in [Requests -> SUBSET Nat]
  BY <1>1, <1>2 DEF TokenInv
<1>8. \A q \in Requests : q # r => computed'[q] = computed[q] /\ kv'[q] = kv[q] /\ swa'[q] = swa[q]
  BY <1>2
<1>9. preempts' \in 0..MaxPreempts
  BY <1>2, <1>3
<1> QED
  BY <1>2, <1>5, <1>6, <1>7, <1>8, <1>9, LeaveKeeps

-----------------------------------------------------------------------------
(* The end of a step *)

\* The hook lets go of what a long prefill held in the first decode step after it.
LEMMA HookKeeps ==
  ASSUME HookInv, config \in Configs, config' = config, decodeSteps \in 0..2, inPrefill \in BOOLEAN,
         held \in BOOLEAN, EmptyCache
  PROVE  /\ HookInv' /\ HandoverReleased'
         /\ inPrefill' \in BOOLEAN /\ held' \in BOOLEAN /\ decodeSteps' \in 0..2
<1> DEFINE rows == Max({batch[i].n : i \in DOMAIN batch})
           longest == Max({batch[i].start + batch[i].n : i \in DOMAIN batch})
<1>1. PICK headroom \in BOOLEAN :
        /\ inPrefill' = InPrefillAfter(rows, longest)
        /\ decodeSteps' = IF rows <= DecodeRows THEN AtMost(decodeSteps + 1, 2) ELSE 0
        /\ held' = IF rows <= DecodeRows THEN held /\ ~(inPrefill /\ config.release)
                   ELSE IF longest >= LongTokens THEN headroom ELSE held
  BY DEF EmptyCache
<1> HIDE DEF rows, longest
<1>2. config.release \in BOOLEAN /\ (config.release /\ held => inPrefill)
  BY ConfigFacts DEF HookInv
<1>3. CASE rows <= DecodeRows
  <2>1. /\ inPrefill' = FALSE /\ held' = (held /\ ~(inPrefill /\ config.release))
        /\ decodeSteps' = AtMost(decodeSteps + 1, 2)
    BY <1>1, <1>3 DEF InPrefillAfter
  <2>2. held' \in BOOLEAN /\ (config.release => ~ held')
    BY <1>2, <2>1
  <2>3. decodeSteps' \in 0..2
    BY <2>1 DEF AtMost
  <2> QED
    BY <2>1, <2>2, <2>3 DEF HookInv, HandoverReleased
<1>4. CASE ~ (rows <= DecodeRows)
  <2>1. /\ inPrefill' = (inPrefill \/ longest >= LongTokens)
        /\ held' = (IF longest >= LongTokens THEN headroom ELSE held)
        /\ decodeSteps' = 0
    BY <1>1, <1>4 DEF InPrefillAfter
  <2>2. inPrefill' \in BOOLEAN /\ held' \in BOOLEAN /\ (config.release /\ held' => inPrefill')
    BY <1>2, <2>1
  <2> QED
    BY <2>1, <2>2 DEF HookInv, HandoverReleased
<1> QED
  BY <1>3, <1>4

\* How far a request of the step comes: it is still in its prefill, or one token ahead
\* of what is computed.
LEMMA FinishKeeps == IInv /\ Finish => IInv'
<1> SUFFICES ASSUME IInv, Finish PROVE IInv'
  OBVIOUS
<1>1. /\ TypeOK /\ QueueInv /\ TokenInv /\ BatchInv /\ PlanInv /\ CacheInv /\ HookInv
  BY DEF IInv
<1>2. /\ at = "finish" /\ at' = "schedule" /\ EmptyCache
      /\ batch' = <<>> /\ x' = <<>> /\ current' = "full" /\ skip' = SkipAfter
      /\ config' = config /\ waiting' = waiting /\ prefill' = prefill /\ logprobs' = logprobs
      /\ preempts' = preempts /\ graph' = graph
  BY DEF Finish
<1> DEFINE At(r) == CHOOSE i \in DOMAIN batch : batch[i].r = r
           ran == {batch[i].r : i \in DOMAIN batch}
           Kept1(acc) == [r \in Requests |->
                     IF r \notin ran THEN computed[r]
                     ELSE IF batch[At(r)].prefilling THEN computed[r] + batch[At(r)].n
                     ELSE computed[r] + acc[At(r)] + 1]
           Length1(acc) == [r \in Requests |->
                       IF r \notin ran THEN tokens[r]
                       ELSE tokens[r] + Sampled(batch[At(r)], acc[At(r)])]
           Over1(len) == {r \in ran : len[r] >= Prompt[r] + MaxNew}
<1>3. PICK accepted \in [DOMAIN batch -> 0..Drafts] :
        /\ \A i \in DOMAIN batch : accepted[i] <= (IF batch[i].prefilling THEN 0 ELSE batch[i].n - 1)
        /\ tokens' = [r \in Requests |-> AtMost(Length1(accepted)[r], Prompt[r] + MaxNew)]
        /\ computed' = Kept1(accepted)
        /\ life' = [r \in Requests |-> IF r \in Over1(Length1(accepted)) THEN "done" ELSE life[r]]
        /\ running' = Without(running, Over1(Length1(accepted)))
        /\ kv' = [r \in Requests |-> kv[r] \cap 0..(Kept1(accepted)[r] - 1)]
        /\ swa' = [r \in Requests |-> swa[r] \cap 0..(Kept1(accepted)[r] - 1)]
  BY DEF Finish
<1> DEFINE kept == Kept1(accepted)
           length == Length1(accepted)
           over == Over1(length)
<1>4. InStep /\ config \in Configs /\ Drafts \in Nat
      /\ (\A r \in Requests : Prompt[r] \in Nat \ {0}) /\ MaxNew \in Nat \ {0}
  BY <1>1, <1>2, LoopAssumption DEF InStep, TypeOK, LoopAssumption
<1>5. /\ Apart(batch) /\ DOMAIN batch = 1..Len(batch)
      /\ \A i \in 1..Len(batch) :
              /\ batch[i].r \in Requests /\ batch[i].n \in Nat /\ batch[i].n >= 1
              /\ batch[i].start \in Nat /\ batch[i].prefill \in Nat /\ batch[i].prefilling \in BOOLEAN
              /\ life[batch[i].r] = "running"
              /\ batch[i].start = computed[batch[i].r] /\ batch[i].prefill = prefill[batch[i].r]
              /\ batch[i].prefilling <=> computed[batch[i].r] < prefill[batch[i].r]
              /\ batch[i].prefilling => batch[i].n <= batch[i].prefill - batch[i].start
              /\ ~ batch[i].prefilling => batch[i].n <= 1 + Drafts
  BY <1>1, <1>4, InStepFacts
<1>6. \A i \in 1..Len(batch) : At(batch[i].r) = i
  <2> TAKE i \in 1..Len(batch)
  <2>1. At(batch[i].r) \in DOMAIN batch /\ batch[At(batch[i].r)].r = batch[i].r
    BY <1>5
  <2> QED
    BY <1>5, <2>1 DEF Apart
<1>7. \A r \in Requests :
        /\ kept[r] = IF r \notin ran THEN computed[r]
                     ELSE IF batch[At(r)].prefilling THEN computed[r] + batch[At(r)].n
                     ELSE computed[r] + accepted[At(r)] + 1
        /\ length[r] = IF r \notin ran THEN tokens[r] ELSE tokens[r] + Sampled(batch[At(r)], accepted[At(r)])
  OBVIOUS
<1>8. \A r \in ran : r \in Requests /\ life[r] = "running" /\ \E i \in 1..Len(batch) : batch[i].r = r
  BY <1>5
<1>9. over \subseteq ran /\ \A r \in ran : r \in over <=> length[r] >= Prompt[r] + MaxNew
  OBVIOUS
<1>10. /\ life \in [Requests -> {"new", "waiting", "running", "done", "refused"}]
       /\ \A r \in Requests : /\ (life[r] = "running") <=> (r \in ToSet(running))
                              /\ (life[r] = "waiting") <=> (r \in ToSet(waiting))
                              /\ tokens[r] \in Prompt[r]..(Prompt[r] + MaxNew)
                              /\ life[r] = "running" => computed[r] \in 0..(tokens[r] - 1)
                              /\ prefill[r] \in Prompt[r]..tokens[r]
       /\ logprobs \in [Requests -> BOOLEAN] /\ preempts \in 0..MaxPreempts
       /\ graph \in BOOLEAN
       /\ inPrefill \in BOOLEAN /\ held \in BOOLEAN /\ decodeSteps \in 0..2
  BY <1>1 DEF TypeOK
<1>11. /\ \A r \in Requests : tokens[r] \in Nat /\ computed[r] \in Nat /\ prefill[r] \in Nat
       /\ \A r \in Requests : life[r] = "running" =>
            IF computed[r] < prefill[r] THEN prefill[r] = tokens[r] ELSE computed[r] = tokens[r] - 1
       /\ \A r \in Requests : logprobs[r] /\ Yoco => life[r] = "refused"
       /\ \A r \in Requests : kv[r] \subseteq Nat /\ swa[r] \subseteq Nat
  BY <1>1 DEF TokenInv
<1>12. /\ \A r \in Requests : tokens'[r] = AtMost(length[r], Prompt[r] + MaxNew) /\ computed'[r] = kept[r]
                              /\ life'[r] = (IF r \in over THEN "done" ELSE life[r])
                              /\ kv'[r] = kv[r] \cap 0..(kept[r] - 1) /\ swa'[r] = swa[r] \cap 0..(kept[r] - 1)
       /\ running' = Without(running, over)
       /\ tokens' = [r \in Requests |-> AtMost(length[r], Prompt[r] + MaxNew)] /\ computed' = kept
       /\ life' = [r \in Requests |-> IF r \in over THEN "done" ELSE life[r]]
       /\ kv' = [r \in Requests |-> kv[r] \cap 0..(kept[r] - 1)]
       /\ swa' = [r \in Requests |-> swa[r] \cap 0..(kept[r] - 1)]
  <2>1. /\ running' = Without(running, over)
        /\ tokens' = [r \in Requests |-> AtMost(length[r], Prompt[r] + MaxNew)] /\ computed' = kept
        /\ life' = [r \in Requests |-> IF r \in over THEN "done" ELSE life[r]]
        /\ kv' = [r \in Requests |-> kv[r] \cap 0..(kept[r] - 1)]
        /\ swa' = [r \in Requests |-> swa[r] \cap 0..(kept[r] - 1)]
    BY <1>3, Zenon
  <2> HIDE DEF kept, length, over
  <2>2. \A r \in Requests : tokens'[r] = AtMost(length[r], Prompt[r] + MaxNew) /\ computed'[r] = kept[r]
    BY <2>1
  <2>3. \A r \in Requests : life'[r] = IF r \in over THEN "done" ELSE life[r]
    BY <2>1
  <2>4. \A r \in Requests : kv'[r] = kv[r] \cap 0..(kept[r] - 1) /\ swa'[r] = swa[r] \cap 0..(kept[r] - 1)
    BY <2>1
  <2> QED
    BY <2>1, <2>2, <2>3, <2>4, Zenon
\* A request of the step, by its entry.
<1>13. ASSUME NEW i \in 1..Len(batch)
       PROVE  LET e == batch[i]
                  r == e.r
              IN /\ kept[r] \in Nat /\ length[r] \in Nat /\ length[r] >= tokens[r] /\ kept[r] <= e.start + e.n
                 /\ length[r] < Prompt[r] + MaxNew =>
                      /\ kept[r] <= length[r] - 1
                      /\ IF kept[r] < prefill[r] THEN prefill[r] = length[r] ELSE kept[r] = length[r] - 1
  <2> DEFINE e == batch[i]
             r == e.r
             a == accepted[i]
             sampled == Sampled(e, a)
  <2>1. /\ r \in Requests /\ e.n \in Nat /\ e.n >= 1 /\ e.start \in Nat /\ e.prefill \in Nat
        /\ e.prefilling \in BOOLEAN /\ life[r] = "running"
        /\ e.start = computed[r] /\ e.prefill = prefill[r]
        /\ e.prefilling <=> computed[r] < prefill[r]
        /\ e.prefilling => e.n <= e.prefill - e.start
    BY <1>5
  <2>2. a \in Nat /\ (e.prefilling => a <= 0) /\ (~ e.prefilling => a <= e.n - 1)
    <3>1. i \in DOMAIN batch
      BY <1>5
    <3>2. accepted[i] \in 0..Drafts
      BY <1>3, <3>1
    <3>3. accepted[i] <= (IF batch[i].prefilling THEN 0 ELSE batch[i].n - 1)
      BY <1>3, <3>1
    <3> QED
      BY <1>4, <3>2, <3>3
  <2>3. At(r) = i /\ r \in ran
    BY <1>5, <1>6
  <2>4. /\ kept[r] = IF e.prefilling THEN computed[r] + e.n ELSE computed[r] + a + 1
        /\ length[r] = tokens[r] + sampled
    <3> HIDE DEF kept, length, At, ran
    <3> QED
      BY <1>7, <2>1, <2>3
  <2>5. sampled = IF ~e.prefilling THEN a + 1 ELSE IF e.start + e.n = e.prefill THEN 1 ELSE 0
    BY DEF Sampled
  <2>6. /\ tokens[r] \in Nat /\ prefill[r] \in Nat
        /\ IF computed[r] < prefill[r] THEN prefill[r] = tokens[r] ELSE computed[r] = tokens[r] - 1
    BY <1>11, <2>1
  <2> HIDE DEF e, a, sampled, kept, length, At, ran
  <2> HIDE DEF r
  <2> DEFINE Goal == /\ kept[r] \in Nat /\ length[r] \in Nat /\ length[r] >= tokens[r] /\ kept[r] <= e.start + e.n
                     /\ length[r] < Prompt[r] + MaxNew =>
                          /\ kept[r] <= length[r] - 1
                          /\ IF kept[r] < prefill[r] THEN prefill[r] = length[r] ELSE kept[r] = length[r] - 1
  <2>7. ASSUME e.prefilling PROVE Goal
    <3>1. kept[r] = computed[r] + e.n /\ computed[r] < prefill[r] /\ prefill[r] = tokens[r]
          /\ e.n <= prefill[r] - computed[r] /\ computed[r] \in Nat
      BY <2>1, <2>4, <2>6, <2>7
    <3>2. CASE e.start + e.n = e.prefill
      <4>1. length[r] = tokens[r] + 1
        BY <2>4, <2>5, <2>7, <3>2
      <4> QED
        BY <2>1, <2>6, <3>1, <3>2, <4>1
    <3>3. CASE e.start + e.n # e.prefill
      <4>1. length[r] = tokens[r] + 0
        BY <2>4, <2>5, <2>7, <3>3
      <4>2. e.start = computed[r] /\ e.prefill = prefill[r] /\ e.n \in Nat /\ tokens[r] \in Nat
        BY <2>1, <2>6
      <4>3. kept[r] \in Nat /\ kept[r] < prefill[r] /\ length[r] = tokens[r]
        BY <3>1, <3>3, <4>1, <4>2
      <4> QED
        BY <3>1, <4>2, <4>3
    <3> QED
      BY <3>2, <3>3
  <2>8. ASSUME ~ e.prefilling PROVE Goal
    <3> HIDE DEF Goal
    <3>1. kept[r] = computed[r] + a + 1
      BY <2>4, <2>8, Zenon
    <3>2. sampled = a + 1
      BY <2>5, <2>8, Zenon
    <3>3. length[r] = tokens[r] + (a + 1)
      BY <2>4, <3>2, Zenon
    <3>4. a \in Nat /\ a <= e.n - 1
      BY <2>2, <2>8, Zenon
    <3>5. ~ (computed[r] < prefill[r])
      BY <2>1, <2>8, Zenon
    <3>6. computed[r] = tokens[r] - 1
      BY <2>6, <3>5, Zenon
    <3>7. e.start \in Nat /\ e.start = computed[r] /\ e.n \in Nat
      BY <2>1, Zenon
    <3>8. tokens[r] \in Nat /\ prefill[r] \in Nat
      BY <2>6, Zenon
    <3>9. computed[r] \in Nat
      BY <3>7, Zenon
    <3>10. kept[r] \in Nat
      BY <3>1, <3>4, <3>9
    <3>11. length[r] \in Nat /\ length[r] >= tokens[r]
      BY <3>3, <3>4, <3>8
    <3>12. computed[r] + 1 = tokens[r]
      BY <3>6, <3>8, <3>9
    <3>13. computed[r] + a + 1 = (computed[r] + 1) + a
      BY <3>4, <3>9
    <3>14. kept[r] = tokens[r] + a
      BY <3>1, <3>12, <3>13, Zenon
    <3>15. tokens[r] + (a + 1) = (tokens[r] + a) + 1
      <4>1. \A y, z \in Nat : z + (y + 1) = (z + y) + 1
        OBVIOUS
      <4> QED
        BY <3>4, <3>8, <4>1, Zenon
    <3>16. length[r] = kept[r] + 1
      BY <3>3, <3>14, <3>15, Zenon
    <3>17. kept[r] = length[r] - 1
      BY <3>10, <3>16
    <3>18. computed[r] >= prefill[r]
      BY <3>5, <3>8, <3>9
    <3>19. ~ (kept[r] < prefill[r])
      BY <3>1, <3>4, <3>8, <3>9, <3>18
    <3>20. kept[r] <= e.start + e.n
      <4>1. kept[r] <= computed[r] + e.n
        BY <3>1, <3>4, <3>7, <3>9
      <4> QED
        BY <3>7, <4>1, Zenon
    <3>21. kept[r] <= length[r] - 1
      BY <3>10, <3>17
    <3> QED
      BY <3>10, <3>11, <3>17, <3>19, <3>20, <3>21, Zenon DEF Goal
  <2>9. Goal
    BY <2>7, <2>8
  <2> QED
    BY <2>9, Zenon DEF e, r
<1>14. \A r \in Requests : r \notin ran => kept[r] = computed[r] /\ length[r] = tokens[r]
  OBVIOUS
<1> HIDE DEF At, ran, kept, length, over, Kept1, Length1, Over1
<1>15. \A r \in Requests : kept[r] \in Nat /\ length[r] \in Nat /\ length[r] >= tokens[r]
  <2> TAKE r \in Requests
  <2>1. CASE r \in ran
    BY <1>8, <1>13, <2>1
  <2>2. CASE r \notin ran
    BY <1>11, <1>14, <2>2
  <2> QED
    BY <2>1, <2>2
<1>16. \A r \in Requests : r \notin over => tokens'[r] = length[r]
  <2> TAKE r \in Requests
  <2>1. tokens[r] <= Prompt[r] + MaxNew /\ Prompt[r] \in Nat
    BY <1>4, <1>10
  <2>2. tokens'[r] = AtMost(length[r], Prompt[r] + MaxNew) /\ length[r] \in Nat
    BY <1>12, <1>15
  <2>3. r \notin over => length[r] <= Prompt[r] + MaxNew
    <3>1. CASE r \in ran
      BY <1>4, <1>9, <2>1, <2>2, <3>1
    <3>2. CASE r \notin ran
      BY <1>14, <2>1, <3>2
    <3> QED
      BY <3>1, <3>2
  <2> QED
    BY <1>4, <2>1, <2>2, <2>3 DEF AtMost
<1>17. ASSUME NEW r \in Requests, life'[r] = "running"
       PROVE  /\ life[r] = "running" /\ r \notin over /\ kept[r] <= tokens'[r] - 1
              /\ IF kept[r] < prefill[r] THEN prefill[r] = tokens'[r] ELSE kept[r] = tokens'[r] - 1
              /\ 0..(kept[r] - 1) \subseteq kv[r] /\ Low(r)..(kept[r] - 1) \subseteq swa[r]
  <2>1. life[r] = "running" /\ r \notin over
    BY <1>12, <1>17
  <2>2. tokens'[r] = length[r]
    BY <1>16, <2>1
  <2>3. 0..(computed[r] - 1) \subseteq kv[r] /\ Low(r)..(computed[r] - 1) \subseteq swa[r]
    BY <1>1, <2>1 DEF CacheInv
  <2>4. CASE r \notin ran
    <3>1. kept[r] = computed[r] /\ length[r] = tokens[r]
      BY <1>14, <2>4
    <3>2. computed[r] <= tokens[r] - 1
      BY <1>10, <1>11, <2>1
    <3> QED
      BY <1>11, <2>1, <2>2, <2>3, <3>1, <3>2
  <2>5. CASE r \in ran
    <3>1. PICK i \in 1..Len(batch) : batch[i].r = r
      BY <1>8, <2>5
    <3> DEFINE e == batch[i]
    <3>2. length[r] < Prompt[r] + MaxNew
      BY <1>4, <1>9, <1>15, <2>1, <2>5
    <3>3. /\ kept[r] \in Nat /\ kept[r] <= e.start + e.n /\ kept[r] <= length[r] - 1
          /\ IF kept[r] < prefill[r] THEN prefill[r] = length[r] ELSE kept[r] = length[r] - 1
      BY <1>13, <3>1, <3>2
    <3>4. e.start = computed[r] /\ e.start \in Nat /\ e.n \in Nat
      BY <1>5, <3>1
    <3>5. e.start..(e.start + e.n - 1) \subseteq kv[r] /\ AtLeast(Low(r), e.start)..(e.start + e.n - 1) \subseteq swa[r]
      BY <1>1, <1>2, <1>5, <3>1 DEF CacheInv
    <3>6. Low(r) \in Nat
      <4>1. config.keep \in Nat
        BY <1>4, ConfigFacts
      <4> QED
        BY <1>11, <4>1 DEF Low
    <3> HIDE DEF e
    <3>7. \A p \in 0..(kept[r] - 1) : p \in 0..(computed[r] - 1) \/ p \in e.start..(e.start + e.n - 1)
      BY <3>3, <3>4
    <3>8. \A p \in Low(r)..(kept[r] - 1) :
            p \in Low(r)..(computed[r] - 1) \/ p \in AtLeast(Low(r), e.start)..(e.start + e.n - 1)
      BY <3>3, <3>4, <3>6 DEF AtLeast
    <3> QED
      BY <2>1, <2>2, <2>3, <3>3, <3>5, <3>7, <3>8
  <2> QED
    BY <2>4, <2>5
<1>18. /\ running' \in Seq(Requests) /\ ToSet(running') = ToSet(running) \ over /\ IsInjective(running')
  BY <1>1, <1>12, WithoutFacts DEF QueueInv
<1>19. QueueInv'
  BY <1>1, <1>2, <1>18 DEF QueueInv
<1>20. /\ HookInv' /\ HandoverReleased' /\ inPrefill' \in BOOLEAN /\ held' \in BOOLEAN /\ decodeSteps' \in 0..2
  BY <1>1, <1>2, <1>4, <1>10, HookKeeps
<1>21. ~ skip'
  BY <1>1, <1>2 DEF PlanInv, SkipAfter
<1>22. PlanInv' /\ BatchInv' /\ FloorHeld' /\ NeverRaises'
  BY <1>2, <1>21 DEF PlanInv, BatchInv, InStep, FloorHeld, NeverRaises
<1>23. CacheInv'
  <2>1. \A r \in Requests : Low(r)' = Low(r)
    BY <1>2 DEF Low, Yoco
  <2>2. ASSUME NEW r \in Requests, life'[r] = "running"
        PROVE  0..(computed'[r] - 1) \subseteq kv'[r] /\ Low(r)..(computed'[r] - 1) \subseteq swa'[r]
    <3>1. computed'[r] = kept[r] /\ kv'[r] = kv[r] \cap 0..(kept[r] - 1) /\ swa'[r] = swa[r] \cap 0..(kept[r] - 1)
      BY <1>12
    <3>2. Low(r) \in Nat
      <4>1. config.keep \in Nat
        BY <1>4, ConfigFacts
      <4> QED
        BY <1>11, <4>1 DEF Low
    <3>3. Low(r)..(kept[r] - 1) \subseteq 0..(kept[r] - 1)
      BY <1>15, <3>2
    <3> QED
      BY <1>17, <2>2, <3>1, <3>3
  <2> QED
    BY <1>2, <2>1, <2>2 DEF CacheInv
<1>24. TokenInv'
  <2>1. tokens' \in [Requests -> Nat] /\ computed' \in [Requests -> Nat]
    <3>1. \A r \in Requests : AtMost(length[r], Prompt[r] + MaxNew) \in Nat
      BY <1>4, <1>15 DEF AtMost
    <3>2. tokens' \in [Requests -> Nat]
      BY <1>12, <3>1
    <3>3. computed' \in [Requests -> Nat]
      <4>1. kept = [r \in Requests |-> kept[r]]
        BY DEF kept, Kept1
      <4> QED
        BY <1>12, <1>15, <4>1
    <3> QED
      BY <3>2, <3>3
  <2>2. kv' \in [Requests -> SUBSET Nat] /\ swa' \in [Requests -> SUBSET Nat]
    BY <1>11, <1>12
  <2>3. \A r \in Requests : logprobs[r] /\ Yoco => life'[r] = "refused"
    <3> TAKE r \in Requests
    <3>1. logprobs[r] /\ Yoco => life[r] = "refused" /\ r \notin over
      BY <1>8, <1>9, <1>11
    <3> QED
      BY <1>12, <3>1
  <2>4. Yoco' = Yoco
    BY <1>2 DEF Yoco
  <2>5. \A r \in Requests : life'[r] = "running" =>
          IF computed'[r] < prefill[r] THEN prefill[r] = tokens'[r] ELSE computed'[r] = tokens'[r] - 1
    BY <1>12, <1>17
  <2> QED
    BY <1>1, <1>2, <2>1, <2>2, <2>3, <2>4, <2>5 DEF TokenInv
<1>25. TypeOK'
  <2>1. life' \in [Requests -> {"new", "waiting", "running", "done", "refused"}]
    BY <1>10, <1>12
  <2>2. \A r \in Requests : (life'[r] = "running" <=> r \in ToSet(running'))
                            /\ (life'[r] = "waiting" <=> r \in ToSet(waiting))
    BY <1>8, <1>9, <1>10, <1>12, <1>18
  <2>3. \A r \in Requests : tokens'[r] \in Prompt[r]..(Prompt[r] + MaxNew) /\ prefill[r] \in Prompt[r]..tokens'[r]
    <3> TAKE r \in Requests
    <3>1. /\ tokens'[r] = AtMost(length[r], Prompt[r] + MaxNew) /\ length[r] \in Nat /\ length[r] >= tokens[r]
          /\ tokens[r] \in Prompt[r]..(Prompt[r] + MaxNew) /\ prefill[r] \in Prompt[r]..tokens[r]
          /\ Prompt[r] \in Nat
      BY <1>4, <1>10, <1>12, <1>15
    <3> QED
      BY <1>4, <3>1 DEF AtMost
  <2>4. \A r \in Requests : life'[r] = "running" => computed'[r] \in 0..(tokens'[r] - 1)
    <3> TAKE r \in Requests
    <3>1. life'[r] = "running" => kept[r] \in Nat /\ kept[r] <= tokens'[r] - 1 /\ tokens'[r] \in Int
      BY <1>4, <1>15, <1>16, <1>17
    <3> QED
      BY <1>12, <3>1
  <2>5. skip' \in BOOLEAN
    BY <1>1, <1>2 DEF TypeOK, SkipAfter
  <2> QED
    BY <1>2, <1>4, <1>10, <1>20, <2>1, <2>2, <2>3, <2>4, <2>5 DEF TypeOK
<1> QED
  BY <1>19, <1>20, <1>22, <1>23, <1>24, <1>25 DEF IInv

-----------------------------------------------------------------------------
(* The scheduler *)

\* The scheduler's accumulators.
RunStates == [budget : Nat, batch : Seq(Entries)]
WaitStates == [budget : Nat, batch : Seq(Entries), running : Seq(Requests), waiting : Seq(Requests)]

LEMMA WaitAppended ==
  \A w : w = [budget |-> w.budget, batch |-> w.batch, running |-> w.running, waiting |-> w.waiting] =>
    \A v : [w EXCEPT !.waiting = v] = [budget |-> w.budget, batch |-> w.batch, running |-> w.running, waiting |-> v]
OBVIOUS

LEMMA CappedFacts ==
  ASSUME config \in Configs, NEW list, NEW r, NEW done, NEW n \in Nat
  PROVE  /\ Capped(list, r, done, n) \in Nat /\ Capped(list, r, done, n) <= n
         /\ MixedPolicy(list, r, done) => Capped(list, r, done, n) <= config.mixed
<1>1. config.mixed \in Nat \cup {-1}
  BY ConfigFacts
<1>2. MixedPolicy(list, r, done) => config.mixed \in Nat
  BY <1>1 DEF MixedPolicy
<1> QED
  BY <1>2 DEF Capped, AtMost

\* What an entry of a running request is, and one of a request that is admitted.
Floored(e) ==
  config.mixed >= 0 /\ e.start < Prompt[e.r] /\ (\E p \in ToSet(running) \ {e.r} : computed[p] >= Prompt[p])
  => e.n <= config.mixed
Share(e) == /\ e \in Entries /\ e.n >= 1 /\ Floored(e)
            /\ e.prefilling <=> e.start < e.prefill
            /\ e.n <= (IF e.prefilling THEN e.prefill - e.start ELSE 1 + Drafts)
RunEntry(e) == Share(e) /\ e = Entry(e.r, computed[e.r], prefill[e.r], e.n)
WaitEntry(hit, e) == Share(e) /\ e.prefilling /\ e = Entry(e.r, hit[e.r], tokens[e.r], e.n)

LEMMA NextRunningFacts ==
  ASSUME TypeOK, TokenInv, NEW acc \in RunStates, NEW r \in Requests
  PROVE  \/ NextRunning(acc, r) = acc
         \/ \E n \in Nat \ {0} :
              LET e == Entry(r, computed[r], prefill[r], n) IN
              /\ n <= acc.budget /\ e.r = r /\ e.n = n /\ RunEntry(e)
              /\ NextRunning(acc, r) = [budget |-> acc.budget - n, batch |-> Append(acc.batch, e)]
<1> DEFINE want == IF computed[r] < prefill[r] THEN prefill[r] - computed[r] ELSE 1 + Drafts
           n == Capped(running, r, computed, AtMost(want, acc.budget))
           e == Entry(r, computed[r], prefill[r], n)
<1>1. computed[r] \in Nat /\ prefill[r] \in Nat /\ config \in Configs /\ Drafts \in Nat /\ acc.budget \in Nat
  BY LoopAssumption DEF TypeOK, TokenInv, LoopAssumption, RunStates
<1>2. want \in Nat
  BY <1>1
<1> HIDE DEF want
<1>3. AtMost(want, acc.budget) \in Nat /\ AtMost(want, acc.budget) <= want /\ AtMost(want, acc.budget) <= acc.budget
  BY <1>1, <1>2 DEF AtMost
<1>4. n \in Nat /\ n <= AtMost(want, acc.budget) /\ (MixedPolicy(running, r, computed) => n <= config.mixed)
  BY <1>1, <1>3, CappedFacts
<1>5. NextRunning(acc, r) = IF n = 0 THEN acc ELSE [budget |-> acc.budget - n, batch |-> Append(acc.batch, e)]
  BY DEF NextRunning, want
<1> HIDE DEF n
<1>6. n <= want /\ n <= acc.budget
  BY <1>1, <1>2, <1>3, <1>4
<1>7. /\ e.r = r /\ e.n = n /\ e.start = computed[r] /\ e.prefill = prefill[r]
      /\ e.prefilling <=> computed[r] < prefill[r]
      /\ e \in Entries
  BY <1>1, <1>4, EntryFields
<1>8. e = Entry(e.r, computed[e.r], prefill[e.r], e.n)
  BY <1>7
<1> HIDE DEF e
<1>9. Floored(e)
  BY <1>4, <1>7 DEF Floored, MixedPolicy
<1>10. n # 0 => RunEntry(e)
  <2>1. n <= (IF e.prefilling THEN e.prefill - e.start ELSE 1 + Drafts)
    BY <1>1, <1>6, <1>7 DEF want
  <2> QED
    BY <1>4, <1>7, <1>8, <1>9, <2>1 DEF RunEntry, Share
<1>11. CASE n = 0
  BY <1>5, <1>11
<1>12. CASE n # 0
  <2>1. n \in Nat \ {0}
    BY <1>4, <1>12
  <2> QED
    BY <1>5, <1>6, <1>7, <1>10, <1>12, <2>1 DEF e
<1> QED
  BY <1>11, <1>12

\* A hit is below what the request has.
GoodHit(hit) ==
  /\ hit \in [Requests -> Nat]
  /\ \A r \in Requests : hit[r] < tokens[r] /\ (Yoco => hit[r] <= AtLeast(tokens[r] - config.keep, 0))

LEMMA NextWaitingFacts ==
  ASSUME TypeOK, TokenInv, NEW hit, GoodHit(hit), NEW acc \in WaitStates, NEW r \in Requests,
         life[r] = "waiting", ToSet(running) \subseteq ToSet(acc.running)
  PROVE  \/ NextWaiting(hit, acc, r) = [budget |-> acc.budget, batch |-> acc.batch, running |-> acc.running,
                                        waiting |-> Append(acc.waiting, r)]
         \/ \E n \in Nat \ {0} :
              LET e == Entry(r, hit[r], tokens[r], n) IN
              /\ n <= acc.budget /\ e.r = r /\ e.n = n /\ WaitEntry(hit, e)
              /\ NextWaiting(hit, acc, r) =
                   [budget |-> acc.budget - n, batch |-> Append(acc.batch, e),
                    running |-> Append(acc.running, r), waiting |-> acc.waiting]
<1> DEFINE done == [p \in Requests |-> IF life[p] = "waiting" THEN hit[p] ELSE computed[p]]
           left == tokens[r] - hit[r]
           n == Capped(acc.running, r, done, AtMost(left, acc.budget))
           e == Entry(r, hit[r], tokens[r], n)
<1>1. /\ computed[r] \in Nat /\ tokens[r] \in Nat /\ hit[r] \in Nat /\ hit[r] < tokens[r] /\ config \in Configs
      /\ Drafts \in Nat /\ acc.budget \in Nat
      /\ acc = [budget |-> acc.budget, batch |-> acc.batch, running |-> acc.running, waiting |-> acc.waiting]
  BY LoopAssumption DEF TypeOK, TokenInv, LoopAssumption, WaitStates, GoodHit
<1>2. left \in Nat
  BY <1>1
<1> HIDE DEF left
<1>3. AtMost(left, acc.budget) \in Nat /\ AtMost(left, acc.budget) <= left /\ AtMost(left, acc.budget) <= acc.budget
  BY <1>1, <1>2 DEF AtMost
<1>4. done[r] = hit[r] /\ \A p \in Requests : life[p] = "running" => done[p] = computed[p]
  OBVIOUS
<1> HIDE DEF done
<1>5. n \in Nat /\ n <= AtMost(left, acc.budget) /\ (MixedPolicy(acc.running, r, done) => n <= config.mixed)
  BY <1>1, <1>3, CappedFacts
<1>6. NextWaiting(hit, acc, r) =
        IF n = 0 THEN [acc EXCEPT !.waiting = Append(@, r)]
        ELSE [budget |-> acc.budget - n, batch |-> Append(acc.batch, e),
              running |-> Append(acc.running, r), waiting |-> acc.waiting]
  BY DEF NextWaiting, done, left
<1> HIDE DEF n
<1>7. n <= left /\ n <= acc.budget
  BY <1>1, <1>2, <1>3, <1>5
<1>8. /\ e.r = r /\ e.n = n /\ e.start = hit[r] /\ e.prefill = tokens[r]
      /\ e.prefilling <=> hit[r] < tokens[r]
      /\ e \in Entries
  BY <1>1, <1>5, EntryFields
<1>9. e = Entry(e.r, hit[e.r], tokens[e.r], e.n)
  BY <1>8
<1> HIDE DEF e
<1>10. Floored(e)
  <2>1. \A p \in ToSet(running) \ {r} : p \in Requests /\ life[p] = "running" => p \in ToSet(acc.running) \ {r} /\ done[p] = computed[p]
    BY <1>4
  <2>2. \A p \in ToSet(running) : p \in Requests => life[p] = "running"
    BY DEF TypeOK
  <2> SUFFICES ASSUME config.mixed >= 0, e.start < Prompt[r], NEW p \in ToSet(running) \ {r}, computed[p] >= Prompt[p]
               PROVE  n <= config.mixed
    BY <1>8 DEF Floored
  <2>3. acc.running \in Seq(Requests)
    BY DEF WaitStates
  <2>4. p \in ToSet(acc.running) \ {r} /\ p \in Requests
    BY <2>3, SeqFacts
  <2>5. done[p] >= Prompt[p]
    BY <1>4, <2>2, <2>4
  <2>6. done[r] < Prompt[r]
    BY <1>4, <1>8
  <2> QED
    BY <1>5, <2>4, <2>5, <2>6 DEF MixedPolicy
<1>11. n # 0 => WaitEntry(hit, e)
  <2>1. e.prefilling /\ (e.prefilling <=> e.start < e.prefill)
    BY <1>1, <1>8
  <2>2. n <= e.prefill - e.start
    BY <1>1, <1>7, <1>8 DEF left
  <2> QED
    BY <1>5, <1>8, <1>9, <1>10, <2>1, <2>2 DEF WaitEntry, Share
<1>12. CASE n = 0
  <2>1. [acc EXCEPT !.waiting = Append(@, r)] =
          [budget |-> acc.budget, batch |-> acc.batch, running |-> acc.running, waiting |-> Append(acc.waiting, r)]
    <3>1. acc \in WaitStates
      BY <1>1, Zenon
    <3> QED
      <4>1. \A v : [acc EXCEPT !.waiting = v] =
                     [budget |-> acc.budget, batch |-> acc.batch, running |-> acc.running, waiting |-> v]
        <5>1. acc = [budget |-> acc.budget, batch |-> acc.batch, running |-> acc.running, waiting |-> acc.waiting]
          BY <3>1 DEF WaitStates
        <5> QED
          BY <5>1, WaitAppended, Zenon
      <4> QED
        BY <4>1, Zenon
  <2> QED
    BY <1>6, <1>12, <2>1
<1>13. CASE n # 0
  <2>1. n \in Nat \ {0}
    BY <1>5, <1>13
  <2> QED
    BY <1>6, <1>7, <1>8, <1>11, <1>13, <2>1 DEF e
<1> QED
  BY <1>12, <1>13

Runs(g) ==
  /\ g[0] = [budget |-> config.budget, batch |-> <<>>] /\ g[Len(running)] = ScheduledRunning
  /\ \A i \in 1..Len(running) : g[i] = NextRunning(g[i - 1], running[i])

LEMMA RunSteps ==
  ASSUME TypeOK, QueueInv, TokenInv
  PROVE  \E g \in [0..Len(running) -> RunStates] : Runs(g)
<1> DEFINE n == Len(running)
           first == [budget |-> config.budget, batch |-> <<>>]
           Body(f, i) == IF i = 0 THEN first ELSE NextRunning(f[i - 1], running[i])
           G == [i \in 1..n |-> [acc \in RunStates |-> NextRunning(acc, running[i])]]
           g == CHOOSE f : f = [i \in 0..n |-> Body(f, i)]
<1>1. n \in Nat /\ \A i \in 1..n : running[i] \in Requests
  BY SeqFacts DEF QueueInv
<1>2. first \in RunStates
  <2>1. config.budget \in Nat /\ <<>> \in Seq(Entries)
    BY ConfigFacts, EmptySeq DEF TypeOK
  <2> QED
    BY <2>1 DEF RunStates
<1>3. ASSUME NEW acc \in RunStates, NEW r \in Requests PROVE NextRunning(acc, r) \in RunStates
  <2>1. acc.budget \in Nat /\ acc.batch \in Seq(Entries)
    BY DEF RunStates
  <2>2. CASE NextRunning(acc, r) = acc
    BY <2>2
  <2>3. CASE NextRunning(acc, r) # acc
    <3>1. PICK k \in Nat \ {0} :
            LET e == Entry(r, computed[r], prefill[r], k) IN
            /\ k <= acc.budget /\ e.r = r /\ e.n = k /\ RunEntry(e)
            /\ NextRunning(acc, r) = [budget |-> acc.budget - k, batch |-> Append(acc.batch, e)]
      BY <2>3, NextRunningFacts
    <3> DEFINE e == Entry(r, computed[r], prefill[r], k)
    <3>2. k <= acc.budget /\ e \in Entries
          /\ NextRunning(acc, r) = [budget |-> acc.budget - k, batch |-> Append(acc.batch, e)]
      BY <3>1 DEF RunEntry, Share
    <3> HIDE DEF e
    <3>3. acc.budget - k \in Nat /\ Append(acc.batch, e) \in Seq(Entries)
      BY <2>1, <3>2, AppendFacts
    <3> QED
      BY <3>2, <3>3 DEF RunStates
  <2> QED
    BY <2>2, <2>3
<1>4. G \in [1..n -> [RunStates -> RunStates]]
  BY <1>1, <1>3
<1> HIDE DEF first
<1>5. PICK f \in [0..n -> RunStates] : f[0] = first /\ \A i \in 1..n : f[i] = G[i][f[i - 1]]
  <2> HIDE DEF G, n
  <2>1. \E f \in [0..n -> RunStates] : Iterates(f, n, first, G)
    BY <1>1, <1>2, <1>4, Iterated
  <2> QED
    BY <2>1 DEF Iterates
<1>6. \A i \in 0..n : f[i] = Body(f, i)
  <2> TAKE i \in 0..n
  <2>1. CASE i = 0
    BY <1>5, <2>1
  <2>2. CASE i # 0
    <3>1. i \in 1..n /\ i - 1 \in 0..n
      BY <1>1, <2>2
    <3>2. f[i] = G[i][f[i - 1]] /\ f[i - 1] \in RunStates
      BY <1>5, <3>1
    <3> QED
      BY <2>2, <3>1, <3>2
  <2> QED
    BY <2>1, <2>2
<1> HIDE DEF G, Body
<1>7. g = [i \in 0..n |-> Body(g, i)]
  <2>1. f = [i \in 0..n |-> Body(f, i)]
    BY <1>6
  <2> QED
    BY <2>1
<1>8. ScheduledRunning = g[n]
  BY DEF ScheduledRunning, Body, first
<1> HIDE DEF g
<1>9. g[0] = first /\ \A i \in 1..n : g[i] = NextRunning(g[i - 1], running[i])
  <2>1. \A i \in 0..n : g[i] = Body(g, i)
    BY <1>7
  <2>2. 0 \in 0..n /\ \A i \in 1..n : i \in 0..n /\ i # 0
    BY <1>1
  <2>3. Body(g, 0) = first /\ \A i \in 1..n : Body(g, i) = NextRunning(g[i - 1], running[i])
    BY <2>2 DEF Body
  <2> QED
    BY <2>1, <2>2, <2>3
<1>10. \A i \in 0..n : g[i] \in RunStates
  <2> DEFINE P == {j \in 0..n : g[j] \in RunStates}
  <2>1. 0 \in P
    <3>1. 0 \in 0..n
      BY <1>1
    <3> QED
      BY <1>2, <1>9, <3>1
  <2>2. ASSUME NEW i \in 0..(n - 1), i \in P PROVE i + 1 \in P
    <3>1. i + 1 \in 1..n /\ (i + 1) - 1 = i /\ i + 1 \in 0..n /\ running[i + 1] \in Requests
      BY <1>1
    <3>2. NextRunning(g[i], running[i + 1]) \in RunStates
      BY <1>3, <2>2, <3>1
    <3> QED
      BY <1>9, <2>2, <3>1, <3>2
  <2> HIDE DEF P
  <2>3. \A i \in 0..n : i \in P
    BY <1>1, <2>1, <2>2, Induction
  <2> QED
    BY <2>3 DEF P
<1>11. g \in [0..n -> RunStates]
  <2>1. g = [i \in 0..n |-> g[i]]
    BY <1>7, <1>9
  <2> QED
    BY <1>10, <2>1
<1>12. Runs(g)
  BY <1>8, <1>9 DEF Runs, first
<1> QED
  BY <1>11, <1>12

\* No request has two entries.
Sole(b) == IsInjective(b) /\ \A e, f \in ToSet(b) : e.r = f.r => e = f

LEMMA EntriesSized ==
  ASSUME NEW b \in Seq(Entries)
  PROVE  Sized(b) /\ Len(RowsOfBatch(b)) \in Nat /\ Len(b) \in Nat /\ DOMAIN b = 1..Len(b)
<1>1. Len(b) \in Nat /\ DOMAIN b = 1..Len(b) /\ \A i \in 1..Len(b) : b[i] \in Entries
  BY SeqFacts
<1>2. Sized(b)
  BY <1>1 DEF Sized, Entries
<1>3. RowsOfBatch(b) \in Seq(Requests \X Nat)
  BY <1>2, RowsFacts
<1> QED
  BY <1>1, <1>2, <1>3, SeqFacts

LEMMA AppendEntry ==
  ASSUME NEW b \in Seq(Entries), Sole(b), NEW e \in Entries, \A f \in ToSet(b) : f.r # e.r
  PROVE  /\ Append(b, e) \in Seq(Entries) /\ Sole(Append(b, e))
         /\ ToSet(Append(b, e)) = ToSet(b) \cup {e}
         /\ Len(RowsOfBatch(Append(b, e))) = Len(RowsOfBatch(b)) + e.n
<1>1. Append(b, e) \in Seq(Entries) /\ ToSet(Append(b, e)) = ToSet(b) \cup {e}
  BY AppendFacts
<1>2. e \notin ToSet(b)
  OBVIOUS
<1>3. IsInjective(Append(b, e))
  BY <1>2, AppendDistinct DEF Sole
<1>4. Sole(Append(b, e))
  BY <1>1, <1>3 DEF Sole
<1>5. e.r \in Requests /\ e.n \in Nat /\ e.start \in Nat
  BY DEF Entries
<1>6. Len(RowsOfBatch(Append(b, e))) = Len(RowsOfBatch(b)) + e.n
  BY <1>5, EntriesSized, TotalAppend
<1> QED
  BY <1>1, <1>4, <1>6

LEMMA EmptyEntries ==
  <<>> \in Seq(Entries) /\ ToSet(<<>>) = {} /\ Sole(<<>>)
<1>1. <<>> \in Seq(Entries) /\ Len(<<>>) = 0
  BY EmptySeq
<1>2. ToSet(<<>>) = {} /\ IsInjective(<<>>)
  BY DEF ToSet, IsInjective
<1> QED
  BY <1>1, <1>2 DEF Sole

RunGood(acc, m) ==
  /\ acc.budget + Len(RowsOfBatch(acc.batch)) = config.budget
  /\ Sole(acc.batch)
  /\ \A e \in ToSet(acc.batch) : RunEntry(e) /\ \E k \in 1..m : e.r = running[k]

\* What the scheduler takes of the running requests.
LEMMA RunningFacts ==
  ASSUME TypeOK, QueueInv, TokenInv
  PROVE  ScheduledRunning \in RunStates /\ RunGood(ScheduledRunning, Len(running))
<1> DEFINE n == Len(running)
<1>1. n \in Nat /\ (\A i \in 1..n : running[i] \in Requests) /\ \A i, j \in 1..n : running[i] = running[j] => i = j
  BY SeqFacts, Distinct DEF QueueInv
<1>2. PICK g \in [0..n -> RunStates] : Runs(g)
  BY RunSteps
<1>3. /\ g[0] = [budget |-> config.budget, batch |-> <<>>] /\ g[n] = ScheduledRunning
      /\ \A i \in 1..n : g[i] = NextRunning(g[i - 1], running[i])
  BY <1>2 DEF Runs
<1> DEFINE P == {m \in 0..n : RunGood(g[m], m)}
<1> HIDE DEF n
<1>4. 0 \in P
  <2>1. 0 \in 0..n /\ config.budget \in Nat
    BY <1>1, ConfigFacts DEF TypeOK
  <2>2. g[0].budget = config.budget /\ g[0].batch = <<>>
    BY <1>3
  <2>3. Len(RowsOfBatch(<<>>)) = 0 /\ ToSet(<<>>) = {} /\ Sole(<<>>)
    BY TotalEmpty, EmptyEntries
  <2>4. RunGood(g[0], 0)
    BY <2>1, <2>2, <2>3 DEF RunGood
  <2> QED
    BY <2>1, <2>4
<1>5. ASSUME NEW m \in 0..(n - 1), m \in P PROVE m + 1 \in P
  <2> DEFINE acc == g[m]
             r == running[m + 1]
  <2>1. /\ m + 1 \in 1..n /\ m + 1 \in 0..n /\ (m + 1) - 1 = m /\ m \in 0..n /\ m \in Nat
        /\ acc \in RunStates /\ r \in Requests
    BY <1>1
  <2>2. RunGood(acc, m) /\ g[m + 1] = NextRunning(acc, r)
    BY <1>3, <1>5, <2>1
  <2>3. acc.budget \in Nat /\ acc.batch \in Seq(Entries)
    BY <2>1 DEF RunStates
  <2>4. \A k \in 1..m : running[k] # r /\ k \in 1..(m + 1)
    <3>1. \A k \in 1..m : k \in 1..n /\ k # m + 1 /\ k \in 1..(m + 1)
      BY <1>1, <2>1
    <3> QED
      BY <1>1, <2>1, <3>1
  <2>5. CASE NextRunning(acc, r) = acc
    <3>1. RunGood(acc, m + 1)
      BY <2>2, <2>4 DEF RunGood
    <3> QED
      BY <2>1, <2>2, <2>5, <3>1
  <2>6. CASE NextRunning(acc, r) # acc
    <3>1. PICK k \in Nat \ {0} :
            LET e == Entry(r, computed[r], prefill[r], k) IN
            /\ k <= acc.budget /\ e.r = r /\ e.n = k /\ RunEntry(e)
            /\ NextRunning(acc, r) = [budget |-> acc.budget - k, batch |-> Append(acc.batch, e)]
      <4>1. TypeOK /\ TokenInv /\ acc \in RunStates /\ r \in Requests
        BY <2>1, Zenon
      <4> HIDE DEF acc, r
      <4>2. \/ NextRunning(acc, r) = acc
            \/ \E k \in Nat \ {0} :
                 LET e == Entry(r, computed[r], prefill[r], k) IN
                 /\ k <= acc.budget /\ e.r = r /\ e.n = k /\ RunEntry(e)
                 /\ NextRunning(acc, r) = [budget |-> acc.budget - k, batch |-> Append(acc.batch, e)]
        BY <4>1, NextRunningFacts, Zenon
      <4> QED
        BY <2>6, <4>2, Zenon
    <3> DEFINE e == Entry(r, computed[r], prefill[r], k)
    <3>2. k <= acc.budget /\ e.r = r /\ e.n = k /\ RunEntry(e) /\ e \in Entries
          /\ NextRunning(acc, r) = [budget |-> acc.budget - k, batch |-> Append(acc.batch, e)]
      BY <3>1 DEF RunEntry, Share
    <3> HIDE DEF e, acc, r
    <3>3. \A f \in ToSet(acc.batch) : f.r # e.r
      BY <2>2, <2>4, <3>2 DEF RunGood
    <3>4. /\ Sole(Append(acc.batch, e)) /\ ToSet(Append(acc.batch, e)) = ToSet(acc.batch) \cup {e}
          /\ Len(RowsOfBatch(Append(acc.batch, e))) = Len(RowsOfBatch(acc.batch)) + e.n
      BY <2>2, <2>3, <3>2, <3>3, AppendEntry DEF RunGood
    <3>5. g[m + 1].budget = acc.budget - k /\ g[m + 1].batch = Append(acc.batch, e)
      BY <2>2, <3>2
    <3>6. (acc.budget - k) + Len(RowsOfBatch(Append(acc.batch, e))) = config.budget
      <4>1. Len(RowsOfBatch(acc.batch)) \in Nat
        BY <2>3, EntriesSized
      <4>2. acc.budget + Len(RowsOfBatch(acc.batch)) = config.budget
        BY <2>2 DEF RunGood
      <4> QED
        BY <2>3, <3>2, <3>4, <4>1, <4>2
    <3>7. \A f \in ToSet(acc.batch) \cup {e} : RunEntry(f) /\ \E l \in 1..(m + 1) : f.r = running[l]
      <4>1. m + 1 \in 1..(m + 1)
        BY <2>1
      <4> QED
        BY <2>2, <2>4, <3>2, <4>1 DEF RunGood, r
    <3>8. RunGood(g[m + 1], m + 1)
      BY <3>4, <3>5, <3>6, <3>7 DEF RunGood
    <3> QED
      BY <2>1, <3>8
  <2> QED
    BY <2>5, <2>6
<1>6. \A m \in 0..n : m \in P
  <2> HIDE DEF P
  <2> QED
    BY <1>1, <1>4, <1>5, Induction
<1>7. n \in 0..n
  BY <1>1
<1> QED
  BY <1>3, <1>6, <1>7 DEF n

Waits(g, hit) ==
  /\ g[0] = [budget |-> ScheduledRunning.budget, batch |-> ScheduledRunning.batch,
             running |-> running, waiting |-> <<>>]
  /\ g[Len(waiting)] = ScheduledWaiting(hit)
  /\ \A i \in 1..Len(waiting) : g[i] = NextWaiting(hit, g[i - 1], waiting[i])

\* The step of the loop keeps the running requests that were there.
Holds(acc) == acc \in WaitStates /\ ToSet(running) \subseteq ToSet(acc.running)

LEMMA NextWaitingTyped ==
  ASSUME TypeOK, TokenInv, NEW hit, GoodHit(hit), NEW acc, Holds(acc), NEW r \in Requests, life[r] = "waiting"
  PROVE  Holds(NextWaiting(hit, acc, r))
<1>1. /\ acc \in WaitStates /\ acc.budget \in Nat /\ acc.batch \in Seq(Entries)
      /\ acc.running \in Seq(Requests) /\ acc.waiting \in Seq(Requests)
      /\ ToSet(running) \subseteq ToSet(acc.running)
  BY DEF Holds, WaitStates
<1>2. CASE NextWaiting(hit, acc, r) = [budget |-> acc.budget, batch |-> acc.batch, running |-> acc.running,
                                        waiting |-> Append(acc.waiting, r)]
  <2>1. Append(acc.waiting, r) \in Seq(Requests)
    BY <1>1, AppendFacts
  <2>2. NextWaiting(hit, acc, r) \in WaitStates /\ NextWaiting(hit, acc, r).running = acc.running
    BY <1>1, <1>2, <2>1 DEF WaitStates
  <2> QED
    BY <1>1, <2>2 DEF Holds
<1>3. CASE NextWaiting(hit, acc, r) # [budget |-> acc.budget, batch |-> acc.batch, running |-> acc.running,
                                        waiting |-> Append(acc.waiting, r)]
  <2>1. PICK k \in Nat \ {0} :
          LET e == Entry(r, hit[r], tokens[r], k) IN
          /\ k <= acc.budget /\ e.r = r /\ e.n = k /\ WaitEntry(hit, e)
          /\ NextWaiting(hit, acc, r) =
               [budget |-> acc.budget - k, batch |-> Append(acc.batch, e),
                running |-> Append(acc.running, r), waiting |-> acc.waiting]
    BY <1>1, <1>3, NextWaitingFacts
  <2> DEFINE e == Entry(r, hit[r], tokens[r], k)
  <2>2. /\ k <= acc.budget /\ e \in Entries
        /\ NextWaiting(hit, acc, r) =
             [budget |-> acc.budget - k, batch |-> Append(acc.batch, e),
              running |-> Append(acc.running, r), waiting |-> acc.waiting]
    BY <2>1 DEF WaitEntry, Share
  <2> HIDE DEF e
  <2>3. /\ acc.budget - k \in Nat /\ Append(acc.batch, e) \in Seq(Entries)
        /\ Append(acc.running, r) \in Seq(Requests) /\ ToSet(Append(acc.running, r)) = ToSet(acc.running) \cup {r}
    BY <1>1, <2>2, AppendFacts
  <2>4. NextWaiting(hit, acc, r) \in WaitStates /\ NextWaiting(hit, acc, r).running = Append(acc.running, r)
    BY <1>1, <2>2, <2>3 DEF WaitStates
  <2> QED
    BY <1>1, <2>3, <2>4 DEF Holds
<1> QED
  BY <1>2, <1>3

LEMMA WaitSteps ==
  ASSUME TypeOK, QueueInv, TokenInv, NEW hit, GoodHit(hit)
  PROVE  \E g \in [0..Len(waiting) -> {acc \in WaitStates : Holds(acc)}] : Waits(g, hit)
<1> DEFINE n == Len(waiting)
           A == {acc \in WaitStates : Holds(acc)}
           s == ScheduledRunning
           first == [budget |-> s.budget, batch |-> s.batch, running |-> running, waiting |-> <<>>]
           Body(f, i) == IF i = 0 THEN first ELSE NextWaiting(hit, f[i - 1], waiting[i])
           G == [i \in 1..n |-> [acc \in A |-> NextWaiting(hit, acc, waiting[i])]]
           g == CHOOSE f : f = [i \in 0..n |-> Body(f, i)]
<1>1. n \in Nat /\ \A i \in 1..n : waiting[i] \in Requests /\ life[waiting[i]] = "waiting"
  <2>1. n \in Nat /\ (\A i \in 1..n : waiting[i] \in Requests) /\ ToSet(waiting) = {waiting[i] : i \in 1..n}
    BY SeqFacts DEF QueueInv
  <2>2. \A r \in Requests : r \in ToSet(waiting) => life[r] = "waiting"
    BY DEF TypeOK
  <2> QED
    BY <2>1, <2>2
<1>2. first \in A
  <2>1. s.budget \in Nat /\ s.batch \in Seq(Entries)
    BY RunningFacts DEF RunStates
  <2>2. running \in Seq(Requests) /\ <<>> \in Seq(Requests)
    BY EmptySeq DEF QueueInv
  <2> HIDE DEF s
  <2>3. first \in WaitStates /\ first.running = running
    BY <2>1, <2>2 DEF WaitStates
  <2> QED
    BY <2>3 DEF Holds
<1>3. ASSUME NEW acc \in A, NEW i \in 1..n PROVE NextWaiting(hit, acc, waiting[i]) \in A
  <2>1. Holds(NextWaiting(hit, acc, waiting[i]))
    BY <1>1, NextWaitingTyped
  <2> QED
    BY <2>1 DEF Holds
<1>4. G \in [1..n -> [A -> A]]
  BY <1>1, <1>3
<1> HIDE DEF first, A
<1>5. PICK f \in [0..n -> A] : f[0] = first /\ \A i \in 1..n : f[i] = G[i][f[i - 1]]
  <2> HIDE DEF G, n
  <2>1. \E f \in [0..n -> A] : Iterates(f, n, first, G)
    BY <1>1, <1>2, <1>4, Iterated
  <2> QED
    BY <2>1 DEF Iterates
<1>6. \A i \in 0..n : f[i] = Body(f, i)
  <2> TAKE i \in 0..n
  <2>1. CASE i = 0
    BY <1>5, <2>1
  <2>2. CASE i # 0
    <3>1. i \in 1..n /\ i - 1 \in 0..n
      BY <1>1, <2>2
    <3>2. f[i] = G[i][f[i - 1]] /\ f[i - 1] \in A
      BY <1>5, <3>1
    <3> QED
      BY <2>2, <3>1, <3>2
  <2> QED
    BY <2>1, <2>2
<1> HIDE DEF G, Body
<1>7. g = [i \in 0..n |-> Body(g, i)]
  <2>1. f = [i \in 0..n |-> Body(f, i)]
    BY <1>6
  <2> QED
    BY <2>1
<1>8. ScheduledWaiting(hit) = g[n]
  BY DEF ScheduledWaiting, Body, first
<1> HIDE DEF g
<1>9. g[0] = first /\ \A i \in 1..n : g[i] = NextWaiting(hit, g[i - 1], waiting[i])
  <2>1. \A i \in 0..n : g[i] = Body(g, i)
    BY <1>7
  <2>2. 0 \in 0..n /\ \A i \in 1..n : i \in 0..n /\ i # 0
    BY <1>1
  <2>3. Body(g, 0) = first /\ \A i \in 1..n : Body(g, i) = NextWaiting(hit, g[i - 1], waiting[i])
    BY <2>2 DEF Body
  <2> QED
    BY <2>1, <2>2, <2>3
<1>10. \A i \in 0..n : g[i] \in A
  <2> DEFINE P == {j \in 0..n : g[j] \in A}
  <2>1. 0 \in P
    <3>1. 0 \in 0..n
      BY <1>1
    <3> QED
      BY <1>2, <1>9, <3>1
  <2>2. ASSUME NEW i \in 0..(n - 1), i \in P PROVE i + 1 \in P
    <3>1. i + 1 \in 1..n /\ (i + 1) - 1 = i /\ i + 1 \in 0..n
      BY <1>1
    <3>2. NextWaiting(hit, g[i], waiting[i + 1]) \in A
      BY <1>3, <2>2, <3>1
    <3> QED
      BY <1>9, <2>2, <3>1, <3>2
  <2> HIDE DEF P
  <2>3. \A i \in 0..n : i \in P
    BY <1>1, <2>1, <2>2, Induction
  <2> QED
    BY <2>3 DEF P
<1>11. g \in [0..n -> A]
  <2>1. g = [i \in 0..n |-> g[i]]
    BY <1>7, <1>9
  <2> QED
    BY <1>10, <2>1
<1>12. Waits(g, hit)
  BY <1>8, <1>9 DEF Waits, first
<1> QED
  BY <1>11, <1>12 DEF A

First(m) == {waiting[k] : k \in 1..m}
WaitGood(hit, acc, m) ==
  /\ acc.budget + Len(RowsOfBatch(acc.batch)) = config.budget
  /\ Sole(acc.batch)
  /\ IsInjective(acc.running) /\ IsInjective(acc.waiting)
  /\ ToSet(acc.running) \cup ToSet(acc.waiting) = ToSet(running) \cup First(m)
  /\ ToSet(acc.running) \cap ToSet(acc.waiting) = {}
  /\ \A e \in ToSet(acc.batch) :
       /\ e.r \in ToSet(acc.running)
       /\ e.r \in ToSet(running) => RunEntry(e)
       /\ e.r \notin ToSet(running) => WaitEntry(hit, e)

\* And what it takes of the waiting ones.
LEMMA WaitingFacts ==
  ASSUME TypeOK, QueueInv, TokenInv, NEW hit, GoodHit(hit)
  PROVE  Holds(ScheduledWaiting(hit)) /\ WaitGood(hit, ScheduledWaiting(hit), Len(waiting))
<1> DEFINE n == Len(waiting)
           s == ScheduledRunning
<1>1. /\ n \in Nat /\ (\A i \in 1..n : waiting[i] \in Requests /\ life[waiting[i]] = "waiting")
      /\ \A i, j \in 1..n : waiting[i] = waiting[j] => i = j
  <2>1. /\ n \in Nat /\ (\A i \in 1..n : waiting[i] \in Requests) /\ ToSet(waiting) = {waiting[i] : i \in 1..n}
        /\ \A i, j \in 1..n : waiting[i] = waiting[j] => i = j
    BY SeqFacts, Distinct DEF QueueInv
  <2>2. \A r \in Requests : r \in ToSet(waiting) => life[r] = "waiting"
    BY DEF TypeOK
  <2> QED
    BY <2>1, <2>2
<1>2. PICK g \in [0..n -> {acc \in WaitStates : Holds(acc)}] : Waits(g, hit)
  BY WaitSteps
<1>3. /\ g[0] = [budget |-> s.budget, batch |-> s.batch, running |-> running, waiting |-> <<>>]
      /\ g[n] = ScheduledWaiting(hit)
      /\ \A i \in 1..n : g[i] = NextWaiting(hit, g[i - 1], waiting[i])
  BY <1>2 DEF Waits
<1>4. \A i \in 0..n : Holds(g[i])
  BY <1>2
<1>5. s \in RunStates /\ RunGood(s, Len(running))
  BY RunningFacts
<1>6. \A r \in Requests : r \in ToSet(running) => life[r] = "running"
  BY DEF TypeOK
<1> DEFINE P == {m \in 0..n : WaitGood(hit, g[m], m)}
<1> HIDE DEF n, s
<1>7. 0 \in P
  <2>1. 0 \in 0..n
    BY <1>1
  <2>2. g[0].budget = s.budget /\ g[0].batch = s.batch /\ g[0].running = running /\ g[0].waiting = <<>>
    BY <1>3
  <2>3. ToSet(<<>>) = {} /\ IsInjective(<<>>)
    BY EmptyEntries DEF Sole
  <2>4. First(0) = {}
    BY DEF First
  <2>5. \A e \in ToSet(s.batch) : e.r \in ToSet(running) /\ RunEntry(e)
    <3>1. ToSet(running) = {running[i] : i \in 1..Len(running)}
      BY SeqFacts DEF QueueInv
    <3> QED
      BY <1>5, <3>1 DEF RunGood
  <2>6. /\ s.budget + Len(RowsOfBatch(s.batch)) = config.budget /\ Sole(s.batch) /\ IsInjective(running)
    BY <1>5 DEF RunGood, QueueInv
  <2>7. WaitGood(hit, g[0], 0)
    BY <2>2, <2>3, <2>4, <2>5, <2>6, Zenon DEF WaitGood
  <2> QED
    BY <2>1, <2>7
<1>8. ASSUME NEW m \in 0..(n - 1), m \in P PROVE m + 1 \in P
  <2> DEFINE acc == g[m]
             r == waiting[m + 1]
             b == g[m + 1]
  <2>1. /\ m + 1 \in 1..n /\ m + 1 \in 0..n /\ (m + 1) - 1 = m /\ m \in 0..n /\ m \in Nat
        /\ r \in Requests /\ life[r] = "waiting"
    BY <1>1
  <2>2. WaitGood(hit, acc, m) /\ b = NextWaiting(hit, acc, r) /\ Holds(acc)
    BY <1>3, <1>4, <1>8, <2>1
  <2>3. /\ acc \in WaitStates /\ acc.budget \in Nat /\ acc.batch \in Seq(Entries)
        /\ acc.running \in Seq(Requests) /\ acc.waiting \in Seq(Requests)
        /\ ToSet(running) \subseteq ToSet(acc.running)
    BY <2>2 DEF Holds, WaitStates
  <2>4. r \notin First(m) /\ First(m + 1) = First(m) \cup {r} /\ r \notin ToSet(running)
    <3>1. \A k \in 1..m : k \in 1..n /\ k # m + 1
      BY <1>1, <2>1
    <3>2. 1..(m + 1) = (1..m) \cup {m + 1}
      BY <2>1
    <3>3. r \notin First(m)
      BY <1>1, <2>1, <3>1 DEF First
    <3>4. First(m + 1) = First(m) \cup {r}
      BY <3>2 DEF First
    <3>5. r \notin ToSet(running)
      BY <1>6, <2>1
    <3> QED
      BY <3>3, <3>4, <3>5
  <2>5. r \notin ToSet(acc.running) /\ r \notin ToSet(acc.waiting)
    BY <2>2, <2>4 DEF WaitGood
  <2>6. /\ acc.budget + Len(RowsOfBatch(acc.batch)) = config.budget
        /\ Sole(acc.batch)
        /\ IsInjective(acc.running) /\ IsInjective(acc.waiting)
        /\ ToSet(acc.running) \cup ToSet(acc.waiting) = ToSet(running) \cup First(m)
        /\ ToSet(acc.running) \cap ToSet(acc.waiting) = {}
        /\ \A e \in ToSet(acc.batch) :
             /\ e.r \in ToSet(acc.running)
             /\ e.r \in ToSet(running) => RunEntry(e)
             /\ e.r \notin ToSet(running) => WaitEntry(hit, e)
    BY <2>2 DEF WaitGood
  <2> HIDE DEF acc, r, b
  <2>7. CASE b = [budget |-> acc.budget, batch |-> acc.batch, running |-> acc.running,
                  waiting |-> Append(acc.waiting, r)]
    <3>1. /\ ToSet(Append(acc.waiting, r)) = ToSet(acc.waiting) \cup {r}
          /\ IsInjective(Append(acc.waiting, r))
      BY <2>1, <2>3, <2>5, <2>6, AppendFacts, AppendDistinct
    <3>2. /\ b.budget = acc.budget /\ b.batch = acc.batch /\ b.running = acc.running
          /\ b.waiting = Append(acc.waiting, r)
      BY <2>7
    <3>3. /\ ToSet(b.running) \cup ToSet(b.waiting) = ToSet(running) \cup First(m + 1)
          /\ ToSet(b.running) \cap ToSet(b.waiting) = {}
      BY <2>4, <2>5, <2>6, <3>1, <3>2
    <3>4. WaitGood(hit, b, m + 1)
      BY <2>6, <3>1, <3>2, <3>3 DEF WaitGood
    <3> QED
      BY <2>1, <3>4 DEF b
  <2>8. CASE b # [budget |-> acc.budget, batch |-> acc.batch, running |-> acc.running,
                  waiting |-> Append(acc.waiting, r)]
    <3>1. PICK k \in Nat \ {0} :
            LET e == Entry(r, hit[r], tokens[r], k) IN
            /\ k <= acc.budget /\ e.r = r /\ e.n = k /\ WaitEntry(hit, e)
            /\ NextWaiting(hit, acc, r) =
                 [budget |-> acc.budget - k, batch |-> Append(acc.batch, e),
                  running |-> Append(acc.running, r), waiting |-> acc.waiting]
      <4>1. NextWaiting(hit, acc, r) # [budget |-> acc.budget, batch |-> acc.batch, running |-> acc.running,
                                         waiting |-> Append(acc.waiting, r)]
        BY <2>2, <2>8
      <4>2. acc \in WaitStates /\ ToSet(running) \subseteq ToSet(acc.running) /\ r \in Requests /\ life[r] = "waiting"
        BY <2>1, <2>3
      <4> QED
        BY <4>1, <4>2, NextWaitingFacts
    <3> DEFINE e == Entry(r, hit[r], tokens[r], k)
    <3>2. /\ k <= acc.budget /\ e.r = r /\ e.n = k /\ WaitEntry(hit, e) /\ e \in Entries
          /\ b = [budget |-> acc.budget - k, batch |-> Append(acc.batch, e),
                  running |-> Append(acc.running, r), waiting |-> acc.waiting]
      BY <2>2, <3>1 DEF WaitEntry, Share
    <3> HIDE DEF e
    <3>3. /\ b.budget = acc.budget - k /\ b.batch = Append(acc.batch, e)
          /\ b.running = Append(acc.running, r) /\ b.waiting = acc.waiting
      BY <3>2
    <3>4. \A f \in ToSet(acc.batch) : f.r # e.r
      BY <2>5, <2>6, <3>2
    <3>5. /\ Sole(Append(acc.batch, e)) /\ ToSet(Append(acc.batch, e)) = ToSet(acc.batch) \cup {e}
          /\ Len(RowsOfBatch(Append(acc.batch, e))) = Len(RowsOfBatch(acc.batch)) + e.n
      BY <2>3, <2>6, <3>2, <3>4, AppendEntry
    <3>6. ToSet(Append(acc.running, r)) = ToSet(acc.running) \cup {r} /\ IsInjective(Append(acc.running, r))
      BY <2>1, <2>3, <2>5, <2>6, AppendFacts, AppendDistinct
    <3>7. b.budget + Len(RowsOfBatch(b.batch)) = config.budget
      <4>1. Len(RowsOfBatch(acc.batch)) \in Nat
        BY <2>3, EntriesSized
      <4> QED
        BY <2>3, <2>6, <3>2, <3>3, <3>5, <4>1
    <3>8. /\ ToSet(b.running) \cup ToSet(b.waiting) = ToSet(running) \cup First(m + 1)
          /\ ToSet(b.running) \cap ToSet(b.waiting) = {}
      BY <2>4, <2>5, <2>6, <3>3, <3>6
    <3>9. \A f \in ToSet(b.batch) :
             /\ f.r \in ToSet(b.running)
             /\ f.r \in ToSet(running) => RunEntry(f)
             /\ f.r \notin ToSet(running) => WaitEntry(hit, f)
      BY <2>4, <2>6, <3>2, <3>3, <3>5, <3>6
    <3>10. WaitGood(hit, b, m + 1)
      BY <2>6, <3>3, <3>5, <3>6, <3>7, <3>8, <3>9 DEF WaitGood
    <3> QED
      BY <2>1, <3>10 DEF b
  <2> QED
    BY <2>7, <2>8
<1>9. \A m \in 0..n : m \in P
  <2> HIDE DEF P
  <2> QED
    BY <1>1, <1>7, <1>8, Induction
<1>10. n \in 0..n
  BY <1>1
<1> QED
  BY <1>3, <1>4, <1>9, <1>10 DEF n

LEMMA ConcatDistinct ==
  ASSUME NEW S, NEW s \in Seq(S), NEW t \in Seq(S)
  PROVE  /\ s \o t \in Seq(S) /\ ToSet(s \o t) = ToSet(s) \cup ToSet(t)
         /\ IsInjective(s) /\ IsInjective(t) /\ ToSet(s) \cap ToSet(t) = {} => IsInjective(s \o t)
<1> DEFINE u == s \o t
           k == Len(s)
<1>1. /\ k \in Nat /\ Len(t) \in Nat /\ u \in Seq(S) /\ Len(u) = k + Len(t)
      /\ \A i \in 1..Len(u) : u[i] = IF i <= k THEN s[i] ELSE t[i - k]
      /\ ToSet(s) = {s[i] : i \in 1..k} /\ ToSet(t) = {t[i] : i \in 1..Len(t)}
  BY SeqFacts, ConcatProperties
<1> HIDE DEF u, k
<1>2. ToSet(u) = {u[i] : i \in 1..Len(u)}
  BY <1>1, SeqFacts
<1>3. \A i \in 1..k : i \in 1..Len(u) /\ u[i] = s[i]
  BY <1>1
<1>4. \A i \in 1..Len(t) : i + k \in 1..Len(u) /\ u[i + k] = t[i]
  <2> TAKE i \in 1..Len(t)
  <2>1. i + k \in 1..Len(u) /\ ~ (i + k <= k) /\ (i + k) - k = i
    BY <1>1
  <2> QED
    BY <1>1, <2>1
<1>5. \A i \in 1..Len(u) : (i \in 1..k /\ u[i] = s[i]) \/ (i - k \in 1..Len(t) /\ u[i] = t[i - k])
  BY <1>1
<1>6. ToSet(u) = ToSet(s) \cup ToSet(t)
  <2>1. \A y \in ToSet(u) : y \in ToSet(s) \cup ToSet(t)
    BY <1>1, <1>2, <1>5
  <2>2. \A y \in ToSet(s) : y \in ToSet(u)
    BY <1>1, <1>2, <1>3
  <2>3. \A y \in ToSet(t) : y \in ToSet(u)
    BY <1>1, <1>2, <1>4
  <2> QED
    BY <2>1, <2>2, <2>3
<1>7. ASSUME IsInjective(s), IsInjective(t), ToSet(s) \cap ToSet(t) = {} PROVE IsInjective(u)
  <2>1. /\ \A i, j \in 1..k : s[i] = s[j] => i = j
        /\ \A i, j \in 1..Len(t) : t[i] = t[j] => i = j
    BY <1>7, Distinct DEF k
  <2>2. \A i \in 1..k : \A j \in 1..Len(t) : s[i] # t[j]
    BY <1>1, <1>7
  <2>3. \A i, j \in 1..Len(u) : u[i] = u[j] => i = j
    <3> SUFFICES ASSUME NEW i \in 1..Len(u), NEW j \in 1..Len(u), u[i] = u[j] PROVE i = j
      OBVIOUS
    <3>1. CASE i \in 1..k /\ u[i] = s[i]
      BY <1>5, <2>1, <2>2, <3>1
    <3>2. CASE i - k \in 1..Len(t) /\ u[i] = t[i - k]
      <4>1. j - k \in 1..Len(t) /\ u[j] = t[j - k]
        BY <1>5, <2>2, <3>2
      <4>2. i - k = j - k
        BY <2>1, <3>2, <4>1
      <4> QED
        BY <1>1, <4>2
    <3> QED
      BY <1>5, <3>1, <3>2
  <2> QED
    BY <1>1, <2>3, Distinct
<1> QED
  BY <1>1, <1>6, <1>7 DEF u

LEMMA SoleApart ==
  ASSUME NEW b \in Seq(Entries), Sole(b)
  PROVE  Apart(b)
<1>1. ToSet(b) = {b[i] : i \in 1..Len(b)} /\ \A i, j \in 1..Len(b) : b[i] = b[j] => i = j
  BY SeqFacts, Distinct DEF Sole
<1>2. \A e, f \in ToSet(b) : e.r = f.r => e = f
  BY DEF Sole
<1>3. ASSUME NEW i \in 1..Len(b), NEW j \in 1..Len(b), b[i].r = b[j].r PROVE i = j
  <2>1. b[i] \in ToSet(b) /\ b[j] \in ToSet(b)
    BY <1>1
  <2>2. b[i] = b[j]
    BY <1>2, <1>3, <2>1
  <2> QED
    BY <1>1, <2>2
<1> QED
  BY <1>3 DEF Apart

\* Putting the decodes first loses nothing.
LEMMA DecodesFirstFacts ==
  ASSUME NEW b \in Seq(Entries), Sole(b)
  PROVE  /\ DecodesFirst(b) \in Seq(Entries) /\ Sole(DecodesFirst(b)) /\ ToSet(DecodesFirst(b)) = ToSet(b)
         /\ Len(RowsOfBatch(DecodesFirst(b))) = Len(RowsOfBatch(b))
<1> DEFINE X == {b[i] : i \in {j \in DOMAIN b : b[j].prefilling}}
           Y == ToSet(b) \ X
<1>1. DecodesFirst(b) = Without(b, X) \o Without(b, Y)
  BY DEF DecodesFirst
<1>2. ToSet(b) = {b[i] : i \in 1..Len(b)} /\ DOMAIN b = 1..Len(b)
  BY SeqFacts
<1>3. X \subseteq ToSet(b)
  BY <1>2
<1> HIDE DEF X
<1>4. /\ Without(b, X) \in Seq(Entries) /\ ToSet(Without(b, X)) = ToSet(b) \ X /\ IsInjective(Without(b, X))
      /\ Without(b, Y) \in Seq(Entries) /\ ToSet(Without(b, Y)) = ToSet(b) \ Y /\ IsInjective(Without(b, Y))
  BY WithoutFacts DEF Sole
<1>5. ToSet(Without(b, X)) \cap ToSet(Without(b, Y)) = {}
      /\ ToSet(Without(b, X)) \cup ToSet(Without(b, Y)) = ToSet(b)
  BY <1>3, <1>4
<1>6. \A i \in 1..Len(b) : b[i] \in X <=> b[i] \notin Y
  BY <1>2
<1> HIDE DEF Y
<1>7. /\ DecodesFirst(b) \in Seq(Entries) /\ ToSet(DecodesFirst(b)) = ToSet(b) /\ IsInjective(DecodesFirst(b))
  <2> DEFINE u == Without(b, X)
             v == Without(b, Y)
  <2>1. /\ u \in Seq(Entries) /\ v \in Seq(Entries) /\ IsInjective(u) /\ IsInjective(v)
        /\ ToSet(u) \cap ToSet(v) = {} /\ ToSet(u) \cup ToSet(v) = ToSet(b)
    BY <1>4, <1>5
  <2> HIDE DEF u, v
  <2>2. \A s, t \in Seq(Entries) :
          /\ s \o t \in Seq(Entries) /\ ToSet(s \o t) = ToSet(s) \cup ToSet(t)
          /\ IsInjective(s) /\ IsInjective(t) /\ ToSet(s) \cap ToSet(t) = {} => IsInjective(s \o t)
    BY ConcatDistinct
  <2>3. u \o v \in Seq(Entries) /\ ToSet(u \o v) = ToSet(u) \cup ToSet(v) /\ IsInjective(u \o v)
    BY ONLY <2>1, <2>2, Zenon
  <2> QED
    BY <1>1, <2>1, <2>3 DEF u, v
<1>8. \A e \in Entries : e.r \in Requests /\ e.n \in Nat /\ e.start \in Nat
  BY DEF Entries
<1>9. Len(RowsOfBatch(DecodesFirst(b))) = Len(RowsOfBatch(b))
  BY <1>1, <1>6, <1>8, TotalParted
<1> QED
  BY <1>7, <1>9 DEF Sole

\* A batch has a row.
LEMMA SomeRow ==
  ASSUME NEW b \in Seq(Entries), b # <<>>, \A e \in ToSet(b) : e.n >= 1
  PROVE  Len(RowsOfBatch(b)) >= 1
<1>1. /\ Len(b) \in Nat /\ Len(b) # 0 /\ ToSet(b) = {b[i] : i \in 1..Len(b)} /\ Sized(b)
      /\ Len(RowsOfBatch(b)) \in Nat
  BY SeqFacts, EntriesSized
<1>2. 1 \in 1..Len(b)
  BY <1>1
<1>3. b[1].n \in Nat /\ b[1].n >= 1
  BY <1>1, <1>2 DEF Sized
<1>4. 1 \in 1..b[1].n
  BY <1>3
<1>5. StartLoc(b, 1) \in Nat /\ StartLoc(b, 1) + 1 \in 1..Len(RowsOfBatch(b))
  <2>1. /\ \A i \in 1..Len(b) : StartLoc(b, i) \in Nat
        /\ \A i \in 1..Len(b) : \A j \in 1..b[i].n : StartLoc(b, i) + j \in 1..Len(RowsOfBatch(b))
    BY <1>1, RowsFacts
  <2> QED
    BY <1>2, <1>4, <2>1
<1> QED
  BY <1>1, <1>5

LEMMA HitFacts ==
  ASSUME TypeOK, TokenInv,
         NEW hit \in [Requests -> {0} \cup {MaxHit(r) : r \in Requests}],
         \A r \in Requests : hit[r] \in (IF life[r] = "waiting" THEN {0, MaxHit(r)} ELSE {0})
  PROVE  GoodHit(hit)
<1>1. ASSUME NEW r \in Requests
      PROVE  hit[r] \in Nat /\ hit[r] < tokens[r] /\ (Yoco => hit[r] <= AtLeast(tokens[r] - config.keep, 0))
  <2>1. tokens[r] \in Nat /\ tokens[r] >= 1 /\ config.keep \in Nat
    <3>1. tokens[r] \in Prompt[r]..(Prompt[r] + MaxNew) /\ Prompt[r] \in Nat \ {0} /\ MaxNew \in Nat
      BY LoopAssumption DEF TypeOK, LoopAssumption
    <3>2. config.keep \in Nat
      BY ConfigFacts DEF TypeOK
    <3> QED
      BY <3>1, <3>2
  <2>2. Yoco <=> config.keep > 0
    BY DEF Yoco
  <2>3. hit[r] = 0 \/ hit[r] = MaxHit(r)
    OBVIOUS
  <2>4. MaxHit(r) = IF Yoco THEN AtLeast(tokens[r] - config.keep, 0) ELSE tokens[r] - 1
    BY DEF MaxHit
  <2> QED
    BY <2>1, <2>2, <2>3, <2>4 DEF AtLeast
<1>2. hit = [r \in Requests |-> hit[r]]
  OBVIOUS
<1>3. hit \in [Requests -> Nat]
  BY <1>1, <1>2
<1> QED
  BY <1>1, <1>3 DEF GoodHit

\* What is scheduled, and what of it is admitted.
LEMMA ScheduleKeeps == IInv /\ Schedule => IInv'
<1> SUFFICES ASSUME IInv, Schedule PROVE IInv'
  OBVIOUS
<1>1. /\ TypeOK /\ QueueInv /\ TokenInv /\ BatchInv /\ PlanInv /\ CacheInv /\ HookInv /\ HandoverReleased
  BY DEF IInv
<1>2. PICK hit \in [Requests -> {0} \cup {MaxHit(r) : r \in Requests}] :
        /\ \A r \in Requests : hit[r] \in (IF life[r] = "waiting" THEN {0, MaxHit(r)} ELSE {0})
        /\ \E s \in {ScheduledWaiting(hit)} :
             LET admitted == ToSet(s.running) \ ToSet(running)
                 Admitted(new, old) == [r \in Requests |-> IF r \in admitted THEN new[r] ELSE old[r]]
                 rows == [r \in Requests |-> 0..(hit[r] - 1)]
             IN /\ s.batch # <<>>
                /\ batch' = DecodesFirst(s.batch)
                /\ running' = s.running /\ waiting' = s.waiting
                /\ life' = [r \in Requests |-> IF r \in admitted THEN "running" ELSE life[r]]
                /\ computed' = Admitted(hit, computed)
                /\ prefill' = Admitted(tokens, prefill)
                /\ kv' = Admitted(rows, kv)
                /\ swa' = Admitted(IF Yoco THEN [r \in Requests |-> {}] ELSE rows, swa)
  BY DEF Schedule
<1> DEFINE s == ScheduledWaiting(hit)
           admitted == ToSet(s.running) \ ToSet(running)
<1>3. /\ s.batch # <<>>
      /\ batch' = DecodesFirst(s.batch)
      /\ running' = s.running /\ waiting' = s.waiting
      /\ life' = [r \in Requests |-> IF r \in admitted THEN "running" ELSE life[r]]
      /\ computed' = [r \in Requests |-> IF r \in admitted THEN hit[r] ELSE computed[r]]
      /\ prefill' = [r \in Requests |-> IF r \in admitted THEN tokens[r] ELSE prefill[r]]
      /\ kv' = [r \in Requests |-> IF r \in admitted THEN 0..(hit[r] - 1) ELSE kv[r]]
      /\ swa' = [r \in Requests |-> IF r \in admitted THEN (IF Yoco THEN {} ELSE 0..(hit[r] - 1)) ELSE swa[r]]
  BY <1>2
<1>4. /\ at = "schedule" /\ at' = "attach" /\ config' = config /\ tokens' = tokens /\ logprobs' = logprobs
      /\ preempts' = preempts /\ graph' = graph /\ current' = current /\ skip' = skip /\ hook' = hook
  BY DEF Schedule
<1>5. GoodHit(hit)
  BY <1>1, <1>2, HitFacts
<1>6. Holds(s) /\ WaitGood(hit, s, Len(waiting))
  BY <1>1, <1>5, WaitingFacts
<1>7. /\ s.budget \in Nat /\ s.batch \in Seq(Entries) /\ s.running \in Seq(Requests) /\ s.waiting \in Seq(Requests)
      /\ ToSet(running) \subseteq ToSet(s.running)
  BY <1>6 DEF Holds, WaitStates
<1>8. First(Len(waiting)) = ToSet(waiting)
  BY <1>1, SeqFacts DEF First, QueueInv
<1>9. /\ s.budget + Len(RowsOfBatch(s.batch)) = config.budget
      /\ Sole(s.batch)
      /\ IsInjective(s.running) /\ IsInjective(s.waiting)
      /\ ToSet(s.running) \cup ToSet(s.waiting) = ToSet(running) \cup ToSet(waiting)
      /\ ToSet(s.running) \cap ToSet(s.waiting) = {}
      /\ \A e \in ToSet(s.batch) :
           /\ e.r \in ToSet(s.running)
           /\ e.r \in ToSet(running) => RunEntry(e)
           /\ e.r \notin ToSet(running) => WaitEntry(hit, e)
  BY <1>6, <1>8 DEF WaitGood
<1> HIDE DEF s
<1>10. /\ batch' \in Seq(Entries) /\ Sole(batch') /\ ToSet(batch') = ToSet(s.batch)
       /\ Len(RowsOfBatch(batch')) = Len(RowsOfBatch(s.batch))
  BY <1>3, <1>7, <1>9, DecodesFirstFacts
<1>11. /\ life \in [Requests -> {"new", "waiting", "running", "done", "refused"}]
       /\ config \in Configs
       /\ \A r \in Requests : /\ (life[r] = "running") <=> (r \in ToSet(running))
                              /\ (life[r] = "waiting") <=> (r \in ToSet(waiting))
                              /\ tokens[r] \in Prompt[r]..(Prompt[r] + MaxNew)
                              /\ life[r] = "running" => computed[r] \in 0..(tokens[r] - 1)
                              /\ prefill[r] \in Prompt[r]..tokens[r]
       /\ logprobs \in [Requests -> BOOLEAN] /\ preempts \in 0..MaxPreempts
       /\ graph \in BOOLEAN /\ current \in {"full", "decoder"} /\ skip \in BOOLEAN
       /\ inPrefill \in BOOLEAN /\ held \in BOOLEAN /\ decodeSteps \in 0..2
  BY <1>1 DEF TypeOK
<1>12. /\ \A r \in Requests : tokens[r] \in Nat /\ computed[r] \in Nat /\ prefill[r] \in Nat /\ Prompt[r] \in Nat
                              /\ kv[r] \subseteq Nat /\ swa[r] \subseteq Nat
       /\ \A r \in Requests : hit[r] \in Nat /\ hit[r] < tokens[r]
                              /\ (Yoco => hit[r] <= AtLeast(tokens[r] - config.keep, 0))
  BY <1>1, <1>5, LoopAssumption DEF TokenInv, GoodHit, LoopAssumption
<1>13. /\ ToSet(s.running) \subseteq Requests /\ ToSet(s.waiting) \subseteq Requests
       /\ admitted \subseteq ToSet(waiting) /\ admitted \subseteq Requests
  BY <1>7, <1>9, SeqFacts
<1>14. /\ \A r \in Requests :
            /\ life'[r] = (IF r \in admitted THEN "running" ELSE life[r])
            /\ computed'[r] = (IF r \in admitted THEN hit[r] ELSE computed[r])
            /\ prefill'[r] = (IF r \in admitted THEN tokens[r] ELSE prefill[r])
            /\ kv'[r] = (IF r \in admitted THEN 0..(hit[r] - 1) ELSE kv[r])
            /\ swa'[r] = (IF r \in admitted THEN (IF Yoco THEN {} ELSE 0..(hit[r] - 1)) ELSE swa[r])
       /\ life' \in [Requests -> {"new", "waiting", "running", "done", "refused"}]
       /\ computed' \in [Requests -> Nat] /\ prefill' \in [Requests -> Nat]
       /\ kv' \in [Requests -> SUBSET Nat] /\ swa' \in [Requests -> SUBSET Nat]
  <2> HIDE DEF admitted
  <2>1. \A r \in Requests :
            /\ life'[r] = (IF r \in admitted THEN "running" ELSE life[r])
            /\ computed'[r] = (IF r \in admitted THEN hit[r] ELSE computed[r])
            /\ prefill'[r] = (IF r \in admitted THEN tokens[r] ELSE prefill[r])
            /\ kv'[r] = (IF r \in admitted THEN 0..(hit[r] - 1) ELSE kv[r])
            /\ swa'[r] = (IF r \in admitted THEN (IF Yoco THEN {} ELSE 0..(hit[r] - 1)) ELSE swa[r])
    BY <1>3
  <2>2. life' \in [Requests -> {"new", "waiting", "running", "done", "refused"}]
    BY <1>3, <1>11
  <2>3. computed' \in [Requests -> Nat] /\ prefill' \in [Requests -> Nat]
    BY <1>3, <1>12
  <2>4. \A r \in Requests : 0..(hit[r] - 1) \subseteq Nat
    BY <1>12
  <2>5. kv' \in [Requests -> SUBSET Nat]
    BY <1>3, <1>12, <2>4
  <2>6. swa' \in [Requests -> SUBSET Nat]
    BY <1>3, <1>12, <2>4
  <2> QED
    BY <2>1, <2>2, <2>3, <2>5, <2>6
<1>15. \A r \in Requests : /\ (life'[r] = "running") <=> (r \in ToSet(running'))
                           /\ (life'[r] = "waiting") <=> (r \in ToSet(waiting'))
                           /\ r \in admitted => life[r] = "waiting"
                           /\ life'[r] = "running" => r \in admitted \/ (r \notin admitted /\ life[r] = "running")
  <2> TAKE r \in Requests
  <2>1. life[r] = "running" <=> r \in ToSet(running)
    BY <1>11
  <2>2. life[r] = "waiting" <=> r \in ToSet(waiting)
    BY <1>11
  <2>3. life'[r] = (IF r \in admitted THEN "running" ELSE life[r])
    BY <1>14
  <2> QED
    BY <1>3, <1>7, <1>9, <1>13, <2>1, <2>2, <2>3
<1> HIDE DEF admitted
<1>16. QueueInv'
  BY <1>3, <1>7, <1>9 DEF QueueInv
<1>17. \A e \in ToSet(batch') :
         /\ Share(e) /\ e.r \in Requests /\ life'[e.r] = "running"
         /\ e = Entry(e.r, computed'[e.r], prefill'[e.r], e.n)
         /\ ~ e.prefilling => e.r \in ToSet(running) /\ computed[e.r] >= prefill[e.r]
  <2> TAKE e \in ToSet(batch')
  <2>1. /\ e.r \in ToSet(s.running) /\ e.r \in Requests
        /\ e.r \in ToSet(running) => RunEntry(e)
        /\ e.r \notin ToSet(running) => WaitEntry(hit, e)
    BY <1>9, <1>10, <1>13
  <2>2. CASE e.r \in ToSet(running)
    <3>1. e.r \notin admitted
      BY <2>2 DEF admitted
    <3>2. Share(e) /\ e = Entry(e.r, computed[e.r], prefill[e.r], e.n)
      BY <2>1, <2>2 DEF RunEntry
    <3>3. computed'[e.r] = computed[e.r] /\ prefill'[e.r] = prefill[e.r] /\ life'[e.r] = "running"
      BY <1>11, <1>14, <2>1, <2>2, <3>1
    <3>4. e.prefilling <=> computed[e.r] < prefill[e.r]
      <4> DEFINE f == Entry(e.r, computed[e.r], prefill[e.r], e.n)
      <4>1. f.prefilling <=> computed[e.r] < prefill[e.r]
        BY EntryFields
      <4> HIDE DEF f
      <4>2. e = f
        BY <3>2 DEF f
      <4> QED
        BY <4>1, <4>2
    <3> QED
      BY <1>12, <2>1, <2>2, <3>2, <3>3, <3>4
  <2>3. CASE e.r \notin ToSet(running)
    <3>1. e.r \in admitted
      BY <2>1, <2>3 DEF admitted
    <3>2. Share(e) /\ e.prefilling /\ e = Entry(e.r, hit[e.r], tokens[e.r], e.n)
      BY <2>1, <2>3 DEF WaitEntry
    <3>3. computed'[e.r] = hit[e.r] /\ prefill'[e.r] = tokens[e.r] /\ life'[e.r] = "running"
      BY <1>14, <2>1, <3>1
    <3> QED
      BY <2>1, <3>2, <3>3
  <2> QED
    BY <2>2, <2>3
<1>18. DOMAIN batch' = 1..Len(batch') /\ Len(batch') \in Nat /\ \A i \in 1..Len(batch') : batch'[i] \in ToSet(batch')
  <2>1. ToSet(batch') = {batch'[i] : i \in 1..Len(batch')} /\ DOMAIN batch' = 1..Len(batch') /\ Len(batch') \in Nat
    BY <1>10, SeqFacts
  <2> QED
    BY <2>1
<1>19. BatchInv'
  <2>1. \A i, j \in 1..Len(batch') : batch'[i].r = batch'[j].r => i = j
    BY <1>10, SoleApart DEF Apart
  <2>2. \A i \in 1..Len(batch') :
          /\ life'[batch'[i].r] = "running"
          /\ batch'[i] = Entry(batch'[i].r, computed'[batch'[i].r], prefill'[batch'[i].r], batch'[i].n)
          /\ batch'[i].n >= 1
          /\ batch'[i].n <= (IF batch'[i].prefilling THEN batch'[i].prefill - batch'[i].start ELSE 1 + Drafts)
    <3> TAKE i \in 1..Len(batch')
    <3> DEFINE e == batch'[i]
    <3>1. e \in ToSet(batch')
      BY <1>18
    <3> HIDE DEF e
    <3>2. /\ Share(e) /\ life'[e.r] = "running" /\ e = Entry(e.r, computed'[e.r], prefill'[e.r], e.n)
      BY <1>17, <3>1
    <3>3. e.n >= 1 /\ e.n <= (IF e.prefilling THEN e.prefill - e.start ELSE 1 + Drafts)
      BY <3>2 DEF Share
    <3> QED
      BY <3>2, <3>3 DEF e
  <2> QED
    BY <1>10, <1>18, <2>1, <2>2 DEF BatchInv, Entry
<1>20. FloorHeld'
  <2> SUFFICES ASSUME config.mixed >= 0, NEW i \in DOMAIN batch', ~ batch'[i].prefilling,
                      NEW j \in DOMAIN batch', batch'[j].start < Prompt[batch'[j].r]
               PROVE  batch'[j].n <= config.mixed
    BY <1>4 DEF FloorHeld
  <2> DEFINE e == batch'[i]
             f == batch'[j]
  <2>1. e \in ToSet(batch') /\ f \in ToSet(batch')
    BY <1>18
  <2> HIDE DEF e, f
  <2>2. ~ e.prefilling /\ f.start < Prompt[f.r]
    BY DEF e, f
  <2>3. e.r \in Requests /\ e.r \in ToSet(running) /\ computed[e.r] >= prefill[e.r]
    BY <1>17, <2>1, <2>2
  <2>4. computed[e.r] >= Prompt[e.r]
    <3>1. prefill[e.r] \in Prompt[e.r]..tokens[e.r] /\ computed[e.r] \in Nat /\ tokens[e.r] \in Nat /\ Prompt[e.r] \in Nat
      BY <1>11, <1>12, <2>3
    <3> QED
      BY <2>3, <3>1
  <2>5. Share(f) /\ f.r \in Requests /\ f = Entry(f.r, computed'[f.r], prefill'[f.r], f.n) /\ Share(e)
    BY <1>17, <2>1
  <2>6. f.prefilling /\ f \in Entries /\ e.r # f.r
    <3>1. f.prefilling
      <4>1. ~ f.prefilling => computed[f.r] >= prefill[f.r] /\ f.r \in ToSet(running)
        BY <1>17, <2>1
      <4>2. f.start = computed'[f.r]
        <5> DEFINE g == Entry(f.r, computed'[f.r], prefill'[f.r], f.n)
        <5>1. g.start = computed'[f.r]
          BY EntryFields
        <5> HIDE DEF g
        <5>2. f = g
          BY <2>5 DEF g
        <5> QED
          BY <5>1, <5>2
      <4>3. f.r \in ToSet(running) => f.r \notin admitted
        BY DEF admitted
      <4>4. f.r \in ToSet(running) => computed'[f.r] = computed[f.r]
        BY <1>14, <2>5, <4>3
      <4>5. prefill[f.r] \in Prompt[f.r]..tokens[f.r] /\ computed[f.r] \in Nat /\ tokens[f.r] \in Nat /\ Prompt[f.r] \in Nat
        BY <1>11, <1>12, <2>5
      <4> QED
        BY <2>2, <4>1, <4>2, <4>4, <4>5
    <3>2. e # f
      BY <2>2, <3>1
    <3>3. e.r # f.r
      BY <1>10, <2>1, <3>2 DEF Sole
    <3> QED
      BY <2>5, <3>1, <3>3 DEF Share
  <2>7. e.r \in ToSet(running) \ {f.r}
    BY <2>3, <2>6
  <2>8. f.n <= config.mixed
    BY <2>2, <2>4, <2>5, <2>7 DEF Share, Floored
  <2> QED
    BY <2>8 DEF f
<1>21. Yoco' = Yoco /\ config.keep \in Nat /\ (Yoco <=> config.keep > 0)
  BY <1>4, <1>11, ConfigFacts DEF Yoco
<1>22. TokenInv'
  <2>1. \A r \in Requests : logprobs[r] /\ Yoco => life'[r] = "refused"
    <3> TAKE r \in Requests
    <3>1. logprobs[r] /\ Yoco => life[r] = "refused"
      BY <1>1 DEF TokenInv
    <3> QED
      BY <1>14, <1>15, <3>1
  <2>2. \A r \in Requests : life'[r] = "running" =>
          IF computed'[r] < prefill'[r] THEN prefill'[r] = tokens[r] ELSE computed'[r] = tokens[r] - 1
    <3> TAKE r \in Requests
    <3>1. CASE r \in admitted
      BY <1>12, <1>14, <3>1
    <3>2. CASE r \notin admitted
      <4>1. life[r] = "running" =>
              IF computed[r] < prefill[r] THEN prefill[r] = tokens[r] ELSE computed[r] = tokens[r] - 1
        BY <1>1 DEF TokenInv
      <4> QED
        BY <1>14, <3>2, <4>1
    <3> QED
      BY <3>1, <3>2
  <2>3. tokens \in [Requests -> Nat]
    BY <1>1 DEF TokenInv
  <2> QED
    BY <1>4, <1>14, <1>21, <2>1, <2>2, <2>3 DEF TokenInv
<1>23. CacheInv'
  <2> SUFFICES ASSUME NEW r \in Requests, life'[r] = "running"
               PROVE  0..(computed'[r] - 1) \subseteq kv'[r] /\ Low(r)'..(computed'[r] - 1) \subseteq swa'[r]
    BY <1>4 DEF CacheInv
  <2>1. Low(r)' = IF Yoco /\ prefill'[r] > config.keep THEN prefill'[r] - config.keep ELSE 0
    BY <1>4, <1>21 DEF Low
  <2>2. CASE r \in admitted
    <3>1. computed'[r] = hit[r] /\ prefill'[r] = tokens[r] /\ kv'[r] = 0..(hit[r] - 1)
          /\ swa'[r] = (IF Yoco THEN {} ELSE 0..(hit[r] - 1))
      BY <1>14, <2>2
    <3>2. /\ tokens[r] \in Nat /\ hit[r] \in Nat /\ (Yoco => hit[r] <= AtLeast(tokens[r] - config.keep, 0))
      BY <1>12
    <3>3. CASE Yoco
      <4>1. Low(r)' = AtLeast(tokens[r] - config.keep, 0)
        BY <1>21, <2>1, <3>1, <3>2, <3>3 DEF AtLeast
      <4>2. Low(r)'..(hit[r] - 1) = {}
        BY <1>21, <3>2, <3>3, <4>1 DEF AtLeast
      <4> QED
        BY <3>1, <4>2
    <3>4. CASE ~ Yoco
      BY <2>1, <3>1, <3>4
    <3> QED
      BY <3>3, <3>4
  <2>3. CASE r \notin admitted
    <3>1. /\ life[r] = "running" /\ computed'[r] = computed[r] /\ prefill'[r] = prefill[r] /\ kv'[r] = kv[r]
          /\ swa'[r] = swa[r]
      BY <1>14, <2>3
    <3>2. Low(r)' = Low(r)
      BY <2>1, <3>1 DEF Low
    <3>3. 0..(computed[r] - 1) \subseteq kv[r] /\ Low(r)..(computed[r] - 1) \subseteq swa[r]
      BY <1>1, <3>1 DEF CacheInv
    <3> QED
      BY <3>1, <3>2, <3>3
  <2> QED
    BY <2>2, <2>3
<1>24. PlanInv'
  BY <1>1, <1>4 DEF PlanInv
<1>25. /\ HookInv' /\ HandoverReleased' /\ NeverRaises'
       /\ inPrefill' = inPrefill /\ held' = held /\ decodeSteps' = decodeSteps
  BY <1>1, <1>4 DEF HookInv, HandoverReleased, NeverRaises, hook
<1>26. TypeOK'
  <2>1. Len(RowsOfBatch(batch')) \in 1..config.budget
    <3>1. s.batch # <<>> /\ \A e \in ToSet(s.batch) : e.n >= 1
      BY <1>3, <1>10, <1>17 DEF Share
    <3>2. Len(RowsOfBatch(s.batch)) >= 1 /\ Len(RowsOfBatch(s.batch)) \in Nat
      BY <1>7, <3>1, SomeRow, EntriesSized
    <3>3. config.budget \in Nat
      BY <1>11, ConfigFacts
    <3> QED
      BY <1>7, <1>9, <1>10, <3>2, <3>3
  <2>2. \A r \in Requests : life'[r] = "running" => computed'[r] \in 0..(tokens[r] - 1)
    <3> TAKE r \in Requests
    <3>1. CASE r \in admitted
      BY <1>12, <1>14, <3>1
    <3>2. CASE r \notin admitted
      BY <1>11, <1>14, <3>2
    <3> QED
      BY <3>1, <3>2
  <2>3. \A r \in Requests : prefill'[r] \in Prompt[r]..tokens[r]
    <3> TAKE r \in Requests
    <3>1. CASE r \in admitted
      <4>1. tokens[r] \in Prompt[r]..(Prompt[r] + MaxNew) /\ Prompt[r] \in Nat /\ tokens[r] \in Nat
        BY <1>11, <1>12
      <4>2. MaxNew \in Nat
        BY LoopAssumption DEF LoopAssumption
      <4> QED
        BY <1>14, <3>1, <4>1, <4>2
    <3>2. CASE r \notin admitted
      BY <1>11, <1>14, <3>2
    <3> QED
      BY <3>1, <3>2
  <2>4. at' \in {"schedule", "attach", "encode", "boundary", "finish", "raised"}
    BY <1>4
  <2> QED
    BY <1>4, <1>11, <1>14, <1>15, <1>25, <2>1, <2>2, <2>3, <2>4 DEF TypeOK
<1> QED
  BY <1>16, <1>19, <1>20, <1>22, <1>23, <1>24, <1>25, <1>26 DEF IInv

\* Nothing is scheduled yet.
LEMMA InitKeeps == Init => IInv
<1> SUFFICES ASSUME Init PROVE IInv
  OBVIOUS
<1>1. /\ config \in Configs
      /\ life = [r \in Requests |-> "new"] /\ running = <<>> /\ waiting = <<>>
      /\ tokens = Prompt /\ computed = [r \in Requests |-> 0] /\ prefill = Prompt
      /\ logprobs = [r \in Requests |-> FALSE] /\ preempts = 0
      /\ at = "schedule" /\ batch = <<>> /\ graph = FALSE
      /\ current = "full" /\ skip = FALSE
      /\ kv = [r \in Requests |-> {}] /\ swa = [r \in Requests |-> {}]
      /\ inPrefill = FALSE /\ held = FALSE /\ decodeSteps = 0
  BY DEF Init
<1>2. Prompt \in [Requests -> Nat \ {0}] /\ MaxNew \in Nat \ {0} /\ MaxPreempts \in Nat
  BY LoopAssumption DEF LoopAssumption
<1>3. <<>> \in Seq(Requests) /\ ToSet(<<>>) = {} /\ IsInjective(<<>>)
  <2>1. ToSet(<<>>) = {} /\ Sole(<<>>)
    BY EmptyEntries
  <2>2. IsInjective(<<>>)
    BY <2>1 DEF Sole
  <2>3. <<>> \in Seq(Requests)
    OBVIOUS
  <2> QED
    BY <2>1, <2>2, <2>3
<1>4. QueueInv
  BY <1>1, <1>3 DEF QueueInv
<1>5. \A r \in Requests : life[r] = "new" /\ tokens[r] = Prompt[r] /\ computed[r] = 0 /\ prefill[r] = Prompt[r]
                          /\ logprobs[r] = FALSE
  BY <1>1
<1>6. TokenInv
  <2>1. /\ tokens \in [Requests -> Nat] /\ computed \in [Requests -> Nat] /\ prefill \in [Requests -> Nat]
        /\ kv \in [Requests -> SUBSET Nat] /\ swa \in [Requests -> SUBSET Nat]
    BY <1>1, <1>2
  <2> QED
    BY <1>5, <2>1 DEF TokenInv
<1>7. TypeOK
  <2>1. life \in [Requests -> {"new", "waiting", "running", "done", "refused"}]
    BY <1>1
  <2>2. \A r \in Requests : /\ (life[r] = "running") <=> (r \in ToSet(running))
                            /\ (life[r] = "waiting") <=> (r \in ToSet(waiting))
    BY <1>1, <1>3, <1>5
  <2>3. \A r \in Requests : /\ tokens[r] \in Prompt[r]..(Prompt[r] + MaxNew)
                            /\ life[r] = "running" => computed[r] \in 0..(tokens[r] - 1)
                            /\ prefill[r] \in Prompt[r]..tokens[r]
    BY <1>2, <1>5
  <2>4. logprobs \in [Requests -> BOOLEAN] /\ preempts \in 0..MaxPreempts
    BY <1>1, <1>2
  <2>5. /\ at \in {"schedule", "attach", "encode", "boundary", "finish", "raised"}
        /\ at \notin {"attach", "encode", "boundary", "finish"}
        /\ current \in {"full", "decoder"}
    BY <1>1
  <2>6. graph \in BOOLEAN /\ skip \in BOOLEAN /\ inPrefill \in BOOLEAN /\ held \in BOOLEAN
    BY <1>1, Zenon
  <2>7. decodeSteps \in 0..2
    BY <1>1
  <2>8. config \in Configs
    BY <1>1
  <2> QED
    BY <2>1, <2>2, <2>3, <2>4, <2>5, <2>6, <2>7, <2>8 DEF TypeOK
<1>8. BatchInv /\ FloorHeld /\ NeverRaises
  BY <1>1 DEF BatchInv, InStep, FloorHeld, NeverRaises
<1>9. PlanInv
  BY <1>1 DEF PlanInv
<1>10. CacheInv
  BY <1>1, <1>5 DEF CacheInv
<1>11. HookInv /\ HandoverReleased
  BY <1>1 DEF HookInv, HandoverReleased
<1> QED
  BY <1>4, <1>6, <1>7, <1>8, <1>9, <1>10, <1>11 DEF IInv

LEMMA StutterKeeps == IInv /\ UNCHANGED vars => IInv'
<1> SUFFICES ASSUME IInv, UNCHANGED vars PROVE IInv'
  OBVIOUS
<1>1. /\ TypeOK /\ QueueInv /\ TokenInv /\ BatchInv /\ PlanInv /\ CacheInv /\ HookInv
      /\ NeverRaises /\ FloorHeld /\ HandoverReleased
  BY DEF IInv
<1>2. /\ config' = config /\ life' = life /\ running' = running /\ waiting' = waiting /\ tokens' = tokens
      /\ computed' = computed /\ prefill' = prefill /\ logprobs' = logprobs /\ preempts' = preempts
      /\ at' = at /\ step' = step /\ batch' = batch /\ graph' = graph /\ current' = current
      /\ skip' = skip /\ kv' = kv /\ swa' = swa /\ hook' = hook
      /\ inPrefill' = inPrefill /\ held' = held /\ decodeSteps' = decodeSteps
  BY DEF vars, scheduler, step, model, hook
<1>3. TypeOK'
  BY <1>1, <1>2 DEF TypeOK
<1>4. QueueInv' /\ NeverRaises' /\ FloorHeld' /\ BatchInv'
  BY <1>1, <1>2 DEF QueueInv, NeverRaises, FloorHeld, BatchInv, InStep, Entry
<1>5. TokenInv' /\ CacheInv'
  BY <1>1, <1>2 DEF TokenInv, CacheInv, Yoco, Low
<1>6. PlanInv' /\ HookInv' /\ HandoverReleased'
  BY <1>1, <1>2, QueueKept
<1> QED
  BY <1>3, <1>4, <1>5, <1>6 DEF IInv

LEMMA NextKeeps == IInv /\ [Next]_vars => IInv'
<1> SUFFICES ASSUME IInv, [Next]_vars PROVE IInv'
  OBVIOUS
<1>1. CASE Step
  BY <1>1, ScheduleKeeps, AttachKeeps, EncodeKeeps, BoundaryKeeps, FinishKeeps DEF Step
<1>2. CASE Preempt
  BY <1>2, PreemptKeeps
<1>3. ASSUME NEW r \in Requests, AddRequest(r) PROVE IInv'
  BY <1>3, AddKeeps
<1>4. ASSUME NEW r \in Requests, Abort(r) PROVE IInv'
  BY <1>4, AbortKeeps
<1>5. CASE UNCHANGED vars
  BY <1>5, StutterKeeps
<1> QED
  BY <1>1, <1>2, <1>3, <1>4, <1>5 DEF Next

\* What every step of the engine keeps: the queues are disjoint and hold no request
\* twice, a batch continues its requests where they stand, the plan is the batch's own,
\* and the caches hold all that is counted as computed.
THEOREM ServeInvariant == Spec => []IInv
<1>1. Init => IInv
  BY InitKeeps
<1>2. IInv /\ [Next]_vars => IInv'
  BY NextKeeps
<1> QED
  BY <1>1, <1>2, PTL DEF Spec

\* Whatever a step mixes, the rows that are sampled from come back with the hidden state
\* of their own position (build_keep_plan, StepPlan.finish).
THEOREM LogitsAreReal == Spec => []LogitsReal
<1>1. IInv => LogitsReal
  BY LogitsFacts DEF IInv, TypeOK
<1> QED
  BY <1>1, ServeInvariant, PTL

\* No position is missing in the boundary layer's KV although truncated steps skip its
\* attention, and no decoder row reads a row the decoder did not store.
THEOREM CachesAreRight == Spec => []CachesRight
<1>1. IInv => CachesRight
  <2> SUFFICES ASSUME IInv PROVE CachesRight
    OBVIOUS
  <2>1. TypeOK /\ QueueInv /\ BatchInv /\ PlanInv /\ CacheInv /\ config \in Configs
    BY DEF IInv, TypeOK
  <2>2. KvComplete
    <3>1. ToSet(running) \subseteq Requests
      BY <2>1, SeqFacts DEF QueueInv
    <3>2. \A r \in Requests : life[r] = "running" <=> r \in ToSet(running)
      BY <2>1 DEF TypeOK
    <3>3. \A r \in Requests : life[r] = "running" => 0..(computed[r] - 1) \subseteq kv[r]
      BY <2>1 DEF CacheInv
    <3> QED
      BY <3>1, <3>2, <3>3 DEF KvComplete
  <2>3. DecoderReadsGood
    BY <2>1, ReadsFacts
  <2> QED
    BY <2>2, <2>3 DEF CachesRight
<1> QED
  BY <1>1, ServeInvariant, PTL

\* The layers below the boundary run under metadata that describe every row, and the
\* checks of begin() never fire.
THEOREM PlansAlwaysFit == Spec => []PlansFit
<1>1. IInv => PlansFit
  <2> SUFFICES ASSUME IInv PROVE PlansFit
    OBVIOUS
  <2>1. TypeOK /\ BatchInv /\ PlanInv /\ NeverRaises
    BY DEF IInv
  <2>2. EncoderSeesAll
    <3> SUFFICES ASSUME at \in {"encode", "boundary"} PROVE RowsOfBatch(Metadata(current)) = x
      BY DEF EncoderSeesAll
    <3>1. current = "full" /\ primary = Full(batch) /\ x = RowsOfBatch(batch)
      BY <2>1 DEF PlanInv
    <3>2. Metadata(current) = Full(batch)
      BY <3>1 DEF Metadata
    <3>3. Shares(batch)
      BY <2>1, InStepFacts DEF InStep
    <3>4. RowsOfBatch(Full(batch)) = RowsOfBatch(batch)
      BY <3>3, FullRows
    <3> QED
      BY <3>1, <3>2, <3>4
  <2> QED
    BY <2>1, <2>2 DEF PlansFit
<1> QED
  BY <1>1, ServeInvariant, PTL

\* While a request decodes, a peer that is still in its prompt gets at most the capped
\* chunk, in the step that admits it as well (_glm53_mixed_prefill_policy).
THEOREM FloorIsHeld == Spec => []FloorHeld
<1>1. IInv => FloorHeld
  BY DEF IInv
<1> QED
  BY <1>1, ServeInvariant, PTL

\* No decode step but the first after a long prefill runs beside the prefill's transients
\* (the hook of patch_memory_log.py).
THEOREM HandoverIsReleased == Spec => []HandoverReleased
<1>1. IInv => HandoverReleased
  BY DEF IInv
<1> QED
  BY <1>1, ServeInvariant, PTL
=============================================================================
