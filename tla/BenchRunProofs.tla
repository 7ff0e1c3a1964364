---------------------------- MODULE BenchRunProofs ----------------------------
(* Proofs about the benchmark runner of BenchRun.                            *)
EXTENDS BenchRun, FiniteSetTheorems, SequenceTheorems, WellFoundedInduction, TLAPS

-----------------------------------------------------------------------------
(* Sequences without duplicates *)

\* Every nonempty set of naturals has a least element: what induction rests on.
LEMMA Least ==
  ASSUME NEW T \in SUBSET Nat, T # {}
  PROVE  \E x \in T : \A y \in T : x <= y
<1> DEFINE R == OpToRel(<, Nat)
<1>1. IsWellFoundedOn(R, Nat)
  BY NatLessThanWellFounded
<1>2. \E x \in T : \A y \in T : ~ (<<y, x>> \in R)
  BY <1>1, WFMin, Zenon
<1>3. \A x, y \in T : <<y, x>> \notin R => x <= y
  BY DEF OpToRel
<1> QED BY <1>2, <1>3

LEMMA SeqFacts ==
  ASSUME NEW S, NEW s \in Seq(S)
  PROVE  /\ Len(s) \in Nat /\ DOMAIN s = 1..Len(s)
         /\ \A i \in 1..Len(s) : s[i] \in S
         /\ ToSet(s) = {s[i] : i \in 1..Len(s)} /\ ToSet(s) \subseteq S
         /\ s = <<>> <=> Len(s) = 0
<1>1. Len(s) \in Nat /\ DOMAIN s = 1..Len(s) /\ s \in [1..Len(s) -> S]
  BY LenProperties
<1>2. s = <<>> <=> Len(s) = 0
  BY EmptySeq
<1> QED
  BY <1>1, <1>2 DEF ToSet

LEMMA Distinct ==
  ASSUME NEW S, NEW s \in Seq(S)
  PROVE  IsInjective(s) <=> \A i, j \in 1..Len(s) : s[i] = s[j] => i = j
BY SeqFacts DEF IsInjective

LEMMA AppendFacts ==
  ASSUME NEW S, NEW s \in Seq(S), NEW e \in S
  PROVE  /\ Append(s, e) \in Seq(S) /\ Len(Append(s, e)) = Len(s) + 1
         /\ \A i \in 1..Len(s) : Append(s, e)[i] = s[i]
         /\ Append(s, e)[Len(s) + 1] = e
         /\ ToSet(Append(s, e)) = ToSet(s) \cup {e}
<1>1. /\ Append(s, e) \in Seq(S) /\ Len(Append(s, e)) = Len(s) + 1
      /\ \A i \in 1..Len(s) : Append(s, e)[i] = s[i]
      /\ Append(s, e)[Len(s) + 1] = e
  OBVIOUS
<1>2. ToSet(Append(s, e)) = ToSet(s) \cup {e}
  <2>1. ToSet(Append(s, e)) = {Append(s, e)[i] : i \in 1..Len(s) + 1} /\ ToSet(s) = {s[i] : i \in 1..Len(s)}
    BY <1>1, SeqFacts
  <2>2. Len(s) \in Nat
    BY SeqFacts
  <2> QED
    BY <1>1, <2>1, <2>2
<1> QED
  BY <1>1, <1>2

LEMMA AppendDistinct ==
  ASSUME NEW S, NEW s \in Seq(S), NEW e \in S, IsInjective(s), e \notin ToSet(s)
  PROVE  IsInjective(Append(s, e))
<1>1. Append(s, e) \in Seq(S) /\ Len(s) \in Nat /\ ToSet(s) = {s[i] : i \in 1..Len(s)}
  BY AppendFacts, SeqFacts
<1>2. \A i, j \in 1..Len(s) : s[i] = s[j] => i = j
  BY Distinct
<1>3. \A i, j \in 1..Len(s) + 1 : Append(s, e)[i] = Append(s, e)[j] => i = j
  BY <1>1, <1>2, AppendFacts
<1>4. Append(s, e) \in Seq(S) /\ Len(Append(s, e)) = Len(s) + 1
  BY AppendFacts
<1> QED
  BY <1>3, <1>4, Distinct

LEMMA TailFacts ==
  ASSUME NEW S, NEW s \in Seq(S), s # <<>>
  PROVE  /\ Head(s) \in S /\ Head(s) = s[1] /\ Tail(s) \in Seq(S) /\ Len(Tail(s)) = Len(s) - 1
         /\ \A i \in 1..Len(s) - 1 : Tail(s)[i] = s[i + 1]
         /\ ToSet(s) = {Head(s)} \cup ToSet(Tail(s))
<1>1. /\ Head(s) \in S /\ Tail(s) \in Seq(S) /\ Len(Tail(s)) = Len(s) - 1
      /\ \A i \in 1..Len(s) - 1 : Tail(s)[i] = s[i + 1]
  BY HeadTailProperties
<1>2. Len(s) \in Nat \ {0}
  BY SeqFacts
<1>3. Head(s) = s[1]
  BY <1>2
<1>4. ToSet(s) = {s[i] : i \in 1..Len(s)} /\ ToSet(Tail(s)) = {Tail(s)[i] : i \in 1..Len(s) - 1}
  BY <1>1, SeqFacts
<1>5. ASSUME NEW i \in 1..Len(s), i # 1 PROVE s[i] = Tail(s)[i - 1] /\ i - 1 \in 1..Len(s) - 1
  <2>1. i - 1 \in 1..Len(s) - 1 /\ (i - 1) + 1 = i
    BY <1>2, <1>5
  <2> QED
    BY <1>1, <2>1
<1>6. \A i \in 1..Len(s) - 1 : Tail(s)[i] = s[i + 1] /\ i + 1 \in 1..Len(s)
  BY <1>1, <1>2
<1>7. 1 \in 1..Len(s)
  BY <1>2
<1>8. ToSet(s) = {Head(s)} \cup ToSet(Tail(s))
  <2>1. ASSUME NEW i \in 1..Len(s) PROVE s[i] \in {Head(s)} \cup ToSet(Tail(s))
    BY <1>3, <1>4, <1>5
  <2>2. ASSUME NEW i \in 1..Len(s) - 1 PROVE Tail(s)[i] \in ToSet(s)
    BY <1>4, <1>6
  <2> QED
    BY <1>3, <1>4, <1>7, <2>1, <2>2
<1> QED
  BY <1>1, <1>3, <1>8

LEMMA TailDistinct ==
  ASSUME NEW S, NEW s \in Seq(S), s # <<>>, IsInjective(s)
  PROVE  IsInjective(Tail(s)) /\ Head(s) \notin ToSet(Tail(s))
<1>1. Tail(s) \in Seq(S) /\ Len(Tail(s)) = Len(s) - 1 /\ Len(s) \in Nat \ {0}
  BY TailFacts, SeqFacts
<1>2. \A i, j \in 1..Len(s) : s[i] = s[j] => i = j
  BY Distinct
<1>3. ToSet(Tail(s)) = {Tail(s)[i] : i \in 1..Len(s) - 1}
  BY <1>1, SeqFacts
<1>4. \A i \in 1..Len(s) - 1 : Tail(s)[i] = s[i + 1] /\ i + 1 \in 1..Len(s) /\ i + 1 # 1
  BY <1>1, TailFacts
<1>5. \A i, j \in 1..Len(s) - 1 : Tail(s)[i] = Tail(s)[j] => i = j
  BY <1>1, <1>2, <1>4
<1>6. Head(s) \notin ToSet(Tail(s))
  BY <1>1, <1>2, <1>3, <1>4, TailFacts
<1> QED
  BY <1>1, <1>5, <1>6, Distinct

LEMMA PushFacts ==
  ASSUME NEW S, NEW s \in Seq(S), NEW e \in S
  PROVE  /\ <<e>> \o s \in Seq(S) /\ ToSet(<<e>> \o s) = {e} \cup ToSet(s)
         /\ IsInjective(s) /\ e \notin ToSet(s) => IsInjective(<<e>> \o s)
<1> DEFINE t == <<e>> \o s
<1>1. t \in Seq(S) /\ Len(t) = Len(s) + 1 /\ Len(s) \in Nat
  <2>1. <<e>> \in Seq(S) /\ Len(<<e>>) = 1
    OBVIOUS
  <2> QED
    BY <2>1, ConcatProperties, SeqFacts
<1>2. t[1] = e /\ \A i \in 1..Len(s) : t[i + 1] = s[i]
  <2>1. <<e>> \in Seq(S) /\ Len(<<e>>) = 1 /\ <<e>>[1] = e
    OBVIOUS
  <2>2. \A i \in 1..1 + Len(s) : t[i] = IF i <= 1 THEN <<e>>[i] ELSE s[i - 1]
    BY <2>1, ConcatProperties
  <2> QED
    BY <1>1, <2>1, <2>2
<1>3. ToSet(t) = {t[i] : i \in 1..Len(s) + 1} /\ ToSet(s) = {s[i] : i \in 1..Len(s)}
  BY <1>1, SeqFacts
<1>4. ASSUME NEW i \in 1..Len(s) + 1, i # 1 PROVE t[i] = s[i - 1] /\ i - 1 \in 1..Len(s)
  <2>1. i - 1 \in 1..Len(s) /\ (i - 1) + 1 = i
    BY <1>1, <1>4
  <2> HIDE DEF t
  <2> QED
    BY <1>2, <2>1
<1>5. \A i \in 1..Len(s) : i + 1 \in 1..Len(s) + 1
  BY <1>1
<1> HIDE DEF t
<1>6. ToSet(t) = {e} \cup ToSet(s)
  <2>1. ASSUME NEW i \in 1..Len(s) + 1 PROVE t[i] \in {e} \cup ToSet(s)
    BY <1>2, <1>3, <1>4
  <2>2. ASSUME NEW i \in 1..Len(s) PROVE s[i] \in ToSet(t)
    BY <1>2, <1>3, <1>5
  <2>3. e \in ToSet(t)
    BY <1>1, <1>2, <1>3
  <2> QED
    BY <1>3, <2>1, <2>2, <2>3
<1>7. IsInjective(s) /\ e \notin ToSet(s) => IsInjective(t)
  <2> SUFFICES ASSUME IsInjective(s), e \notin ToSet(s) PROVE IsInjective(t)
    OBVIOUS
  <2>1. \A i, j \in 1..Len(s) : s[i] = s[j] => i = j
    BY Distinct
  <2>2. \A i, j \in 1..Len(s) + 1 : t[i] = t[j] => i = j
    <3> SUFFICES ASSUME NEW i \in 1..Len(s) + 1, NEW j \in 1..Len(s) + 1, t[i] = t[j] PROVE i = j
      OBVIOUS
    <3>1. \A k \in 1..Len(s) : s[k] # e
      BY <1>3
    <3>2. CASE i = 1 \/ j = 1
      BY <1>2, <1>4, <3>1, <3>2
    <3>3. CASE i # 1 /\ j # 1
      <4>1. s[i - 1] = s[j - 1] /\ i - 1 \in 1..Len(s) /\ j - 1 \in 1..Len(s)
        BY <1>4, <3>3
      <4>2. i - 1 = j - 1
        BY <2>1, <4>1
      <4> QED
        BY <1>1, <4>2
    <3> QED
      BY <3>2, <3>3
  <2> QED
    BY <1>1, <2>2, Distinct
<1> QED
  BY <1>1, <1>6, <1>7 DEF t

\* Taking one of at most two elements out leaves the other.
LEMMA RemoveFacts ==
  ASSUME NEW S, NEW s \in Seq(S), NEW i \in 1..Len(s), Len(s) <= 2
  PROVE  /\ RemoveAt(s, i) \in Seq(S) /\ Len(RemoveAt(s, i)) = Len(s) - 1
         /\ Len(s) = 2 => RemoveAt(s, i) = <<s[3 - i]>>
         /\ Len(s) = 1 => RemoveAt(s, i) = <<>>
<1>1. Len(s) \in Nat /\ \A k \in 1..Len(s) : s[k] \in S
  BY SeqFacts
<1>2. CASE Len(s) = 1
  <2>1. i = 1 /\ SubSeq(s, 1, 0) = <<>> /\ SubSeq(s, 2, 1) = <<>>
    BY <1>2, SubSeqEmpty
  <2>2. RemoveAt(s, i) = <<>>
    BY <1>2, <2>1, ConcatEmptySeq, EmptySeq DEF RemoveAt
  <2> QED
    BY <1>2, <2>2, EmptySeq
<1>3. CASE Len(s) = 2
  <2> DEFINE a == SubSeq(s, 1, i - 1)
             b == SubSeq(s, i + 1, 2)
  <2>1. CASE i = 1
    <3>1. a = <<>>
      BY <2>1, SubSeqEmpty
    <3>2. b \in Seq(S) /\ Len(b) = 1 /\ b[1] = s[2]
      <4>1. \A k \in 2..2 : s[k] \in S
        BY <1>1, <1>3
      <4> QED
        BY <2>1, <4>1, SubSeqProperties
    <3>3. <<s[2]>> \in Seq(S) /\ Len(<<s[2]>>) = 1 /\ <<s[2]>>[1] = s[2]
      BY <1>1, <1>3
    <3>4. b = <<s[2]>>
      <4>1. \A k \in 1..Len(b) : b[k] = <<s[2]>>[k]
        BY <3>2, <3>3
      <4> HIDE DEF b
      <4> QED
        BY <3>2, <3>3, <4>1, SeqEqual
    <3>5. RemoveAt(s, i) = <<>> \o b
      BY <1>3, <2>1, <3>1 DEF RemoveAt
    <3>6. <<>> \o b = b
      BY <3>2, ConcatEmptySeq
    <3> QED
      BY <1>3, <2>1, <3>3, <3>4, <3>5, <3>6
  <2>2. CASE i = 2
    <3>1. b = <<>>
      BY <2>2, SubSeqEmpty
    <3>2. a \in Seq(S) /\ Len(a) = 1 /\ a[1] = s[1]
      <4>1. \A k \in 1..1 : s[k] \in S
        BY <1>1, <1>3
      <4> QED
        BY <2>2, <4>1, SubSeqProperties
    <3>3. <<s[1]>> \in Seq(S) /\ Len(<<s[1]>>) = 1 /\ <<s[1]>>[1] = s[1]
      BY <1>1, <1>3
    <3>4. a = <<s[1]>>
      <4>1. \A k \in 1..Len(a) : a[k] = <<s[1]>>[k]
        BY <3>2, <3>3
      <4> HIDE DEF a
      <4> QED
        BY <3>2, <3>3, <4>1, SeqEqual
    <3>5. RemoveAt(s, i) = a \o <<>>
      BY <1>3, <2>2, <3>1 DEF RemoveAt
    <3>6. a \o <<>> = a
      BY <3>2, ConcatEmptySeq
    <3> QED
      BY <1>3, <2>2, <3>3, <3>4, <3>5, <3>6
  <2> QED
    BY <1>3, <2>1, <2>2
<1>4. Len(s) = 1 \/ Len(s) = 2
  <2>1. Len(s) \in Nat /\ Len(s) # 0
    BY <1>1
  <2>2. \A n \in Nat : n # 0 /\ n <= 2 => n = 1 \/ n = 2
    OBVIOUS
  <2> QED
    BY <2>1, <2>2, Zenon
<1> QED
  BY <1>2, <1>3, <1>4

LEMMA RemoveDistinct ==
  ASSUME NEW S, NEW s \in Seq(S), NEW i \in 1..Len(s), Len(s) <= 2, IsInjective(s)
  PROVE  IsInjective(RemoveAt(s, i)) /\ ToSet(RemoveAt(s, i)) = ToSet(s) \ {s[i]}
<1> DEFINE t == RemoveAt(s, i)
<1>1. t \in Seq(S) /\ Len(t) = Len(s) - 1 /\ Len(s) \in Nat
  BY RemoveFacts, SeqFacts
<1>2. ToSet(s) = {s[k] : k \in 1..Len(s)} /\ ToSet(t) = {t[k] : k \in 1..Len(t)}
  BY <1>1, SeqFacts
<1>3. \A k, l \in 1..Len(s) : s[k] = s[l] => k = l
  BY Distinct
<1>4. Len(s) = 2 => t[1] = s[3 - i]
  <2>1. Len(s) = 2 => t = <<s[3 - i]>>
    BY RemoveFacts
  <2> HIDE DEF t
  <2> QED
    BY <2>1
<1> HIDE DEF t
<1>5. \A k, l \in 1..Len(t) : t[k] = t[l] => k = l
  BY <1>1
<1>6. IsInjective(t)
  BY <1>1, <1>5, Distinct
<1>7. ToSet(t) = ToSet(s) \ {s[i]}
  <2>1. CASE Len(s) = 1
    BY <1>1, <1>2, <2>1
  <2>2. CASE Len(s) = 2
    BY <1>1, <1>2, <1>3, <1>4, <2>2
  <2> QED
    BY <1>1, <2>1, <2>2
<1> QED
  BY <1>6, <1>7 DEF t
-----------------------------------------------------------------------------
(* What an invocation runs *)

\* The filter keeps, of the jobs, each that is not done, and adds no duplicate.
LEMMA RemainingFacts ==
  ASSUME NEW S, NEW jobs \in Seq(S), NEW D
  PROVE  /\ Remaining(jobs, D) \in Seq(S)
         /\ ToSet(Remaining(jobs, D)) = ToSet(jobs) \ D
         /\ IsInjective(jobs) => IsInjective(Remaining(jobs, D))
<1> DEFINE n == Len(jobs)
           Step(f, i) == IF i = 0 THEN <<>> ELSE IF jobs[i] \in D THEN f[i - 1] ELSE Append(f[i - 1], jobs[i])
           Some(m) == \E f \in [0..m -> Seq(S)] : \A i \in 0..m : f[i] = Step(f, i)
           g == CHOOSE f : f = [i \in 0..n |-> Step(f, i)]
           First(m) == {jobs[i] : i \in 1..m}
           Good(m) == /\ g[m] \in Seq(S) /\ ToSet(g[m]) = First(m) \ D
                      /\ IsInjective(jobs) => IsInjective(g[m])
<1>1. n \in Nat /\ (\A i \in 1..n : jobs[i] \in S) /\ ToSet(jobs) = First(n)
  BY SeqFacts
<1>2. Some(0)
  <2>1. <<>> \in Seq(S)
    BY EmptySeq
  <2>2. [i \in 0..0 |-> <<>>] \in [0..0 -> Seq(S)]
    BY <2>1
  <2>3. \A i \in 0..0 : [j \in 0..0 |-> <<>>][i] = Step([j \in 0..0 |-> <<>>], i)
    OBVIOUS
  <2> QED
    BY <2>2, <2>3
<1>3. ASSUME NEW m \in 0..(n - 1), Some(m) PROVE Some(m + 1)
  <2>1. PICK f \in [0..m -> Seq(S)] : \A i \in 0..m : f[i] = Step(f, i)
    BY <1>3
  <2> DEFINE last == IF jobs[m + 1] \in D THEN f[m] ELSE Append(f[m], jobs[m + 1])
             h == [i \in 0..(m + 1) |-> IF i = m + 1 THEN last ELSE f[i]]
  <2>2. last \in Seq(S)
    <3>1. f[m] \in Seq(S) /\ jobs[m + 1] \in S
      BY <1>1
    <3>2. Append(f[m], jobs[m + 1]) \in Seq(S)
      BY <3>1, AppendFacts
    <3> QED
      BY <3>1, <3>2
  <2>3. h \in [0..(m + 1) -> Seq(S)]
    BY <1>1, <2>2
  <2>4. ASSUME NEW i \in 0..(m + 1) PROVE h[i] = Step(h, i)
    <3>1. CASE i = m + 1
      <4>1. i # 0 /\ i - 1 = m /\ h[m] = f[m] /\ h[i] = last
        BY <1>1, <3>1
      <4> HIDE DEF h
      <4> QED
        BY <3>1, <4>1
    <3>2. CASE i # m + 1
      <4>1. i \in 0..m /\ h[i] = f[i] /\ (i # 0 => h[i - 1] = f[i - 1])
        BY <1>1, <3>2
      <4>2. f[i] = Step(f, i)
        BY <2>1, <4>1
      <4> HIDE DEF h
      <4> QED
        BY <4>1, <4>2
    <3> QED
      BY <3>1, <3>2
  <2> HIDE DEF h, Step
  <2> QED
    BY <2>3, <2>4
<1>4. Some(n)
  <2> HIDE DEF Some
  <2> DEFINE T == {m \in 0..n : ~Some(m)}
  <2> SUFFICES ASSUME T # {} PROVE FALSE
    BY <1>1
  <2>1. T \in SUBSET Nat
    BY <1>1
  <2>2. PICK x \in T : \A y \in T : x <= y
    BY <2>1, Least, Zenon
  <2>3. x # 0
    BY <1>2, <2>2
  <2>4. x - 1 \in 0..(n - 1) /\ x - 1 \notin T
    BY <1>1, <2>2, <2>3
  <2>5. Some(x - 1)
    BY <1>1, <2>4
  <2>6. Some((x - 1) + 1)
    BY <1>3, <2>4, <2>5
  <2>7. (x - 1) + 1 = x
    BY <2>1
  <2> QED
    BY <2>2, <2>6, <2>7
<1>5. g = [i \in 0..n |-> Step(g, i)]
  <2>1. PICK f \in [0..n -> Seq(S)] : \A i \in 0..n : f[i] = Step(f, i)
    BY <1>4
  <2> HIDE DEF Step
  <2>2. f = [i \in 0..n |-> Step(f, i)]
    BY <2>1
  <2> QED
    BY <2>2
<1>6. \A i \in 0..n : g[i] = Step(g, i)
  <2> HIDE DEF Step, g
  <2> QED
    BY <1>5
<1> HIDE DEF g
<1>7. Good(0)
  <2>1. g[0] = <<>>
    BY <1>1, <1>6
  <2>2. <<>> \in Seq(S) /\ Len(<<>>) = 0
    BY EmptySeq
  <2>3. ToSet(<<>>) = {} /\ IsInjective(<<>>)
    BY DEF ToSet, IsInjective
  <2>4. First(0) = {}
    OBVIOUS
  <2> QED
    BY <2>1, <2>2, <2>3, <2>4
<1>8. ASSUME NEW m \in 0..(n - 1), Good(m) PROVE Good(m + 1)
  <2> DEFINE e == jobs[m + 1]
  <2>1. m + 1 \in 1..n /\ m + 1 # 0 /\ (m + 1) - 1 = m /\ e \in S
    BY <1>1
  <2>2. g[m + 1] = IF e \in D THEN g[m] ELSE Append(g[m], e)
    <3>1. g[m + 1] = Step(g, m + 1)
      BY <1>1, <1>6
    <3> QED
      BY <2>1, <3>1
  <2>3. First(m + 1) = First(m) \cup {e}
    <3>1. 1..(m + 1) = (1..m) \cup {m + 1}
      BY <1>1
    <3> QED
      BY <3>1
  <2>4. IsInjective(jobs) => e \notin First(m)
    <3>1. \A i \in 1..m : i \in 1..n /\ i # m + 1
      BY <1>1
    <3>2. IsInjective(jobs) => \A i, j \in 1..n : jobs[i] = jobs[j] => i = j
      BY Distinct
    <3> QED
      BY <2>1, <3>1, <3>2
  <2>5. CASE e \in D
    BY <1>8, <2>2, <2>3, <2>5
  <2>6. CASE e \notin D
    <3> HIDE DEF e, First
    <3>1. Append(g[m], e) \in Seq(S) /\ ToSet(Append(g[m], e)) = ToSet(g[m]) \cup {e}
      BY <1>8, <2>1, AppendFacts
    <3>2. IsInjective(jobs) => IsInjective(Append(g[m], e))
      BY <1>8, <2>1, <2>4, AppendDistinct
    <3> QED
      BY <1>8, <2>2, <2>3, <2>6, <3>1, <3>2
  <2> QED
    BY <2>5, <2>6
<1>9. Good(n)
  <2> HIDE DEF Good
  <2> DEFINE T == {m \in 0..n : ~Good(m)}
  <2> SUFFICES ASSUME T # {} PROVE FALSE
    BY <1>1
  <2>1. T \in SUBSET Nat
    BY <1>1
  <2>2. PICK x \in T : \A y \in T : x <= y
    BY <2>1, Least, Zenon
  <2>3. x # 0
    BY <1>7, <2>2
  <2>4. x - 1 \in 0..(n - 1) /\ x - 1 \notin T
    BY <1>1, <2>2, <2>3
  <2>5. Good(x - 1)
    BY <1>1, <2>4
  <2>6. Good((x - 1) + 1)
    BY <1>8, <2>4, <2>5
  <2>7. (x - 1) + 1 = x
    BY <2>1
  <2> QED
    BY <2>2, <2>6, <2>7
<1>10. Remaining(jobs, D) = g[n]
  BY DEF Remaining, g
<1> QED
  BY <1>1, <1>9, <1>10

\* Division with a remainder, and that it is unique.
LEMMA Divided ==
  ASSUME NEW d \in Nat \ {0}, NEW x \in Nat
  PROVE  x \div d \in Nat /\ x % d \in 0..(d - 1) /\ x = d * (x \div d) + (x % d)
<1> DEFINE q == x \div d
<1>1. q \in Nat /\ x = d * q + (x % d) /\ (x % d) \in 0..(d - 1)
  BY Z3
<1> QED
  BY <1>1, Zenon

LEMMA DivUnique ==
  ASSUME NEW d \in Nat \ {0}, NEW q \in Nat, NEW r \in 0..(d - 1), NEW x \in Nat, x = d * q + r
  PROVE  x \div d = q /\ x % d = r
<1> DEFINE p == x \div d
           m == x % d
<1>1. p \in Nat /\ m \in 0..(d - 1) /\ x = d * p + m
  BY Divided
<1> HIDE DEF p, m
<1>2. ASSUME p < q PROVE FALSE
  <2>1. q - p - 1 \in Nat
    BY <1>1, <1>2
  <2>2. d * q = d * p + d + d * (q - p - 1)
    BY <1>1, <2>1
  <2>3. d * (q - p - 1) >= 0
    BY <2>1
  <2> QED
    BY <1>1, <2>2, <2>3
<1>3. ASSUME q < p PROVE FALSE
  <2>1. p - q - 1 \in Nat
    BY <1>1, <1>3
  <2>2. d * p = d * q + d + d * (p - q - 1)
    BY <1>1, <2>1
  <2>3. d * (p - q - 1) >= 0
    BY <2>1
  <2> QED
    BY <1>1, <2>2, <2>3
<1>4. p = q
  BY <1>1, <1>2, <1>3
<1> QED
  BY <1>1, <1>4 DEF p, m

\* The three digits of an index, and that they are those of no other.
LEMMA Digits ==
  ASSUME NEW W \in Nat \ {0}, NEW L \in Nat \ {0}, NEW n \in Nat, NEW x \in 0..(n * L * W - 1)
  PROVE  /\ x \div (W * L) \in 0..(n - 1)
         /\ x = W * (L * (x \div (W * L)) + ((x \div W) % L)) + (x % W)
<1> DEFINE u == x \div W
           v == u \div L
<1>0. x \in Nat
  <2>1. n * L * W \in Nat
    OBVIOUS
  <2> QED
    BY <2>1
<1>1. u \in Nat /\ x % W \in 0..(W - 1) /\ x = W * u + (x % W)
  BY <1>0, Divided
<1>2. v \in Nat /\ u % L \in 0..(L - 1) /\ u = L * v + (u % L)
  BY <1>1, Divided
<1> DEFINE a == x % W
           t == u % L
<1>3. W * L \in Nat \ {0} /\ x = W * u + a /\ u = L * v + t
  BY <1>1, <1>2
<1> HIDE DEF u, v, a, t
<1>4. x = (W * L) * v + (W * t + a)
  <2>1. a \in Nat /\ t \in Nat
    BY <1>1, <1>2 DEF a, t
  <2>2. x = W * (L * v + t) + a
    BY <1>3
  <2>3. W * (L * v + t) = (W * L) * v + W * t
    BY <1>2, <2>1
  <2> QED
    BY <1>2, <2>1, <2>2, <2>3
<1>5. W * t + a \in 0..(W * L - 1)
  <2>1. a \in 0..(W - 1) /\ t \in 0..(L - 1)
    BY <1>1, <1>2 DEF a, t
  <2>2. W * L = W * t + W + W * (L - t - 1) /\ L - t - 1 \in Nat
    BY <2>1
  <2>3. W * (L - t - 1) \in Nat /\ W * t \in Nat
    BY <2>1, <2>2
  <2> QED
    BY <2>1, <2>2, <2>3
<1>6. x \div (W * L) = v
  <2> DEFINE d == W * L
             k == W * t + a
  <2>1. d \in Nat \ {0} /\ k \in 0..(d - 1) /\ x = d * v + k
    BY <1>3, <1>4, <1>5, Zenon
  <2> HIDE DEF d, k
  <2>2. x \div d = v
    BY <1>0, <1>2, <2>1, DivUnique
  <2> QED
    BY <2>2 DEF d
<1>7. v \in 0..(n - 1)
  <2>1. ASSUME v >= n PROVE FALSE
    <3>1. v - n \in Nat
      BY <1>2, <2>1
    <3>2. (W * L) * v = (W * L) * n + (W * L) * (v - n)
      BY <1>2, <3>1
    <3>3. (W * L) * (v - n) \in Nat /\ (W * L) * n = n * L * W
      BY <3>1
    <3> QED
      BY <1>2, <1>4, <1>5, <3>2, <3>3
  <2> QED
    BY <1>2, <2>1
<1>8. x = W * (L * (x \div (W * L)) + t) + a
  BY <1>3, <1>6
<1> QED
  BY <1>6, <1>7, <1>8, Zenon DEF u, a, t

\* plan_jobs plans each sample of each item in each arm, once.
LEMMA PlanFacts ==
  ASSUME NEW c \in Calls, NEW arms \in Arms(c.efforts)
  PROVE  /\ Plan(c, arms) \in Seq({<<t, e, s>> : t \in ToSet(c.tasks), e \in c.efforts, s \in 0..(c.n - 1)})
         /\ IsInjective(Plan(c, arms))
<1> DEFINE W == Cardinality(c.efforts)
           L == Len(c.tasks)
           jobs == {<<t, e, s>> : t \in ToSet(c.tasks), e \in c.efforts, s \in 0..(c.n - 1)}
           count == c.n * L * W
           task(j) == c.tasks[((j \div W) % L) + 1]
           arm(j) == arms[(j % W) + 1]
           sample(j) == j \div (W * L)
           p == [i \in 1..count |-> <<task(i - 1), arm(i - 1), sample(i - 1)>>]
<1>1. /\ c.tasks \in Seq(ToSet(c.tasks)) /\ IsInjective(c.tasks)
      /\ c.n \in Nat \ {0} /\ IsFiniteSet(c.efforts)
  BY BenchAssumption
<1>2. L \in Nat /\ W \in Nat
  BY <1>1, SeqFacts, FS_CardinalityType
<1>3. arms \in [1..W -> c.efforts] /\ ToSet(arms) = c.efforts /\ Len(arms) = W
  <2>1. arms \in [1..W -> c.efforts] /\ ToSet(arms) = c.efforts
    BY DEF Arms
  <2> QED
    BY <1>2, <2>1
<1>4. \A i, j \in 1..W : arms[i] = arms[j] => i = j
  <2>1. arms \in Surjection(1..W, c.efforts)
    BY <1>3 DEF ToSet, Surjection
  <2>2. IsFiniteSet(1..W) /\ Cardinality(1..W) = W
    BY <1>2, FS_Interval
  <2>3. arms \in Injection(1..W, c.efforts)
    BY <1>1, <2>1, <2>2, FS_SurjSameCardinalityImpliesInj
  <2> QED
    BY <1>3, <2>3 DEF Injection, IsInjective
<1>5. \A i, j \in 1..L : c.tasks[i] = c.tasks[j] => i = j
  BY <1>1, Distinct
<1>6. Plan(c, arms) = p
  BY <1>3 DEF Plan
<1>7. count \in Nat
  BY <1>1, <1>2
<1>8. ASSUME NEW i \in 1..count
      PROVE  /\ W \in Nat \ {0} /\ L \in Nat \ {0} /\ i - 1 \in 0..(count - 1)
             /\ ((i - 1) \div W) % L \in 0..(L - 1) /\ (i - 1) % W \in 0..(W - 1)
             /\ task(i - 1) \in ToSet(c.tasks) /\ arm(i - 1) \in c.efforts /\ sample(i - 1) \in 0..(c.n - 1)
  <2>1. i - 1 \in 0..(count - 1) /\ i - 1 \in Nat
    BY <1>7
  <2>2. W # 0 /\ L # 0
    <3>1. ASSUME W = 0 \/ L = 0 PROVE FALSE
      <4>1. count = 0
        BY <1>1, <1>2, <3>1
      <4> QED
        BY <2>1, <4>1
    <3> QED
      BY <3>1
  <2>3. (i - 1) \div W \in Nat /\ (i - 1) % W \in 0..(W - 1)
    BY <1>2, <2>1, <2>2, Divided
  <2>4. ((i - 1) \div W) % L \in 0..(L - 1)
    BY <1>2, <2>2, <2>3, Divided
  <2>5. (((i - 1) \div W) % L) + 1 \in 1..L /\ ((i - 1) % W) + 1 \in 1..W
    <3>1. \A d \in Nat : \A k \in 0..(d - 1) : k + 1 \in 1..d
      OBVIOUS
    <3> QED
      BY <1>2, <2>3, <2>4, <3>1
  <2>6. ToSet(c.tasks) = {c.tasks[k] : k \in 1..L}
    <3>1. DOMAIN c.tasks = 1..L
      BY <1>1, SeqFacts
    <3> QED
      BY <3>1 DEF ToSet
  <2>7. sample(i - 1) \in 0..(c.n - 1)
    BY <1>1, <1>2, <2>1, <2>2, Digits
  <2> QED
    BY <1>2, <1>3, <2>1, <2>2, <2>3, <2>4, <2>5, <2>6, <2>7
<1>9. p \in Seq(jobs) /\ Len(p) = count
  <2>1. p \in [1..count -> jobs]
    <3> SUFFICES ASSUME NEW i \in 1..count PROVE <<task(i - 1), arm(i - 1), sample(i - 1)>> \in jobs
      OBVIOUS
    <3>1. task(i - 1) \in ToSet(c.tasks) /\ arm(i - 1) \in c.efforts /\ sample(i - 1) \in 0..(c.n - 1)
      BY <1>8
    <3> HIDE DEF task, arm, sample
    <3> QED
      BY <3>1
  <2> HIDE DEF p, jobs, count
  <2> QED
    BY <1>7, <2>1, SeqDef
<1>10. ASSUME NEW i \in 1..count, NEW j \in 1..count, p[i] = p[j] PROVE i = j
  <2>1. task(i - 1) = task(j - 1) /\ arm(i - 1) = arm(j - 1) /\ sample(i - 1) = sample(j - 1)
    BY <1>10
  <2>2. ((i - 1) \div W) % L = ((j - 1) \div W) % L
    <3>1. ((i - 1) \div W) % L \in 0..(L - 1) /\ ((j - 1) \div W) % L \in 0..(L - 1)
      BY <1>8
    <3>2. \A k, l \in 0..(L - 1) : c.tasks[k + 1] = c.tasks[l + 1] => k = l
      BY <1>2, <1>5
    <3>3. c.tasks[(((i - 1) \div W) % L) + 1] = c.tasks[(((j - 1) \div W) % L) + 1]
      BY <2>1, Zenon
    <3> QED
      BY <3>1, <3>2, <3>3, Zenon
  <2>3. (i - 1) % W = (j - 1) % W
    <3>1. (i - 1) % W \in 0..(W - 1) /\ (j - 1) % W \in 0..(W - 1)
      BY <1>8
    <3>2. \A k, l \in 0..(W - 1) : arms[k + 1] = arms[l + 1] => k = l
      BY <1>2, <1>4
    <3>3. arms[((i - 1) % W) + 1] = arms[((j - 1) % W) + 1]
      BY <2>1, Zenon
    <3> QED
      BY <3>1, <3>2, <3>3, Zenon
  <2>4. /\ i - 1 = W * (L * sample(i - 1) + (((i - 1) \div W) % L)) + ((i - 1) % W)
        /\ j - 1 = W * (L * sample(j - 1) + (((j - 1) \div W) % L)) + ((j - 1) % W)
    <3>1. W \in Nat \ {0} /\ L \in Nat \ {0} /\ c.n \in Nat /\ i - 1 \in 0..(count - 1) /\ j - 1 \in 0..(count - 1)
      BY <1>1, <1>8
    <3>2. ASSUME NEW x \in 0..(count - 1)
          PROVE  x = W * (L * (x \div (W * L)) + ((x \div W) % L)) + (x % W)
      <4> HIDE DEF W, L
      <4> QED
        BY <3>1, Digits
    <3> QED
      BY <3>1, <3>2, Zenon
  <2>5. W * (L * sample(i - 1) + (((i - 1) \div W) % L)) + ((i - 1) % W)
        = W * (L * sample(j - 1) + (((j - 1) \div W) % L)) + ((j - 1) % W)
    <3>1. \A s1, s2, t1, t2, a1, a2 :
            s1 = s2 /\ t1 = t2 /\ a1 = a2 => W * (L * s1 + t1) + a1 = W * (L * s2 + t2) + a2
      OBVIOUS
    <3> QED
      BY <2>1, <2>2, <2>3, <3>1, Zenon
  <2>6. i - 1 = j - 1
    BY <2>4, <2>5, Zenon
  <2> QED
    BY <1>7, <2>6
<1>11. IsInjective(p)
  <2> HIDE DEF p
  <2> QED
    BY <1>9, <1>10, Distinct, SMTT(20)
<1> QED
  BY <1>6, <1>9, <1>11

LEMMA JobsAreKeys ==
  ASSUME NEW c \in Calls
  PROVE  {<<t, e, s>> : t \in ToSet(c.tasks), e \in c.efforts, s \in 0..(c.n - 1)} \subseteq Keys
BY DEF Keys

-----------------------------------------------------------------------------
(* The steps *)

\* One lemma for all of them: what keeps I over each action keeps it over Next.
LEMMA NextCases ==
  ASSUME [Next]_vars
  PROVE  \/ \E c \in Calls : \E arms \in Arms(c.efforts) : Call(c, arms)
         \/ Round \/ Harvest \/ Write \/ Account \/ Budgets
         \/ \E answered, gauges, sustained, settled \in BOOLEAN : Poll(answered, gauges, sustained, settled)
         \/ Start \/ Launch
         \/ \E k \in Running : Connect(k) \/ Accept(k)
         \/ \E k \in Running : \E last \in BOOLEAN : Chunk(k, last)
         \/ \E k \in Running : \E broken \in BOOLEAN : End(k, broken)
         \/ Interrupt \/ JoinOne \/ \E tear \in BOOLEAN : Kill(tear)
         \/ Foreign \/ EngineRestart \/ TimeOver \/ UNCHANGED vars
<1>1. CASE Next
  BY <1>1, Zenon DEF Next, Loop, Polls, Stream
<1>2. CASE UNCHANGED vars
  BY <1>2
<1> QED
  BY <1>1, <1>2

LEMMA EmptyFacts ==
  ASSUME NEW S
  PROVE  <<>> \in Seq(S) /\ Len(<<>>) = 0 /\ ToSet(<<>>) = {} /\ IsInjective(<<>>)
BY EmptySeq DEF ToSet, IsInjective

\* A call that starts a run: what it is to run, planned and not done.
LEMMA CallFacts ==
  ASSUME TypeInv, NEW c \in Calls, NEW arms \in Arms(c.efforts)
  PROVE  LET jobs == Remaining(Plan(c, arms), DoneKeys)
         IN /\ jobs \in Seq(ToSet(jobs)) /\ IsInjective(jobs)
            /\ ToSet(jobs) \in SUBSET Keys /\ ToSet(jobs) \cap DoneKeys = {}
            /\ \A k \in ToSet(jobs) : k[1] \in ToSet(c.tasks) /\ k[2] \in c.efforts /\ k[3] \in 0..(c.n - 1)
<1> DEFINE all == {<<t, e, s>> : t \in ToSet(c.tasks), e \in c.efforts, s \in 0..(c.n - 1)}
           jobs == Remaining(Plan(c, arms), DoneKeys)
<1>1. Plan(c, arms) \in Seq(all) /\ IsInjective(Plan(c, arms)) /\ all \subseteq Keys
  BY PlanFacts, JobsAreKeys, SMTT(20)
<1>2. jobs \in Seq(all) /\ ToSet(jobs) = ToSet(Plan(c, arms)) \ DoneKeys /\ IsInjective(jobs)
  <2> HIDE DEF all
  <2> QED
    BY <1>1, RemainingFacts
<1>3. ToSet(jobs) \subseteq all
  <2> HIDE DEF all, jobs
  <2> QED
    BY <1>2, SeqFacts
<1>4. jobs \in Seq(ToSet(jobs))
  <2> HIDE DEF all, jobs
  <2>1. jobs \in [1..Len(jobs) -> ToSet(jobs)] /\ Len(jobs) \in Nat
    <3>1. jobs \in [1..Len(jobs) -> all] /\ Len(jobs) \in Nat /\ DOMAIN jobs = 1..Len(jobs)
      BY <1>2, LenProperties
    <3> QED
      BY <3>1 DEF ToSet
  <2> QED
    BY <2>1, SeqDef
<1>5. \A k \in all : k[1] \in ToSet(c.tasks) /\ k[2] \in c.efforts /\ k[3] \in 0..(c.n - 1)
  OBVIOUS
<1> HIDE DEF all, jobs
<1> QED
  BY <1>1, <1>2, <1>3, <1>4, <1>5 DEF jobs

LEMMA AbortFacts ==
  ASSUME TypeInv, NEW reason \in {"budget", "yielded", "interrupted"}, AbortAll(reason)
  PROVE  /\ ro' \in [Keys -> Rollouts]
         /\ \A k \in Keys :
              /\ ro'[k].tokens = ro[k].tokens /\ ro'[k].over = ro[k].over
              /\ ro'[k].abort \in {ro[k].abort, reason}
              /\ ro'[k].at = ro[k].at \/ (ro[k].at = "open" /\ ro'[k].at = "shut")
              /\ k \notin ToSet(inflight) => ro'[k] = ro[k]
<1>1. ro \in [Keys -> Rollouts] /\ ToSet(inflight) = {inflight[i] : i \in DOMAIN inflight}
  BY DEF TypeInv, RolloutType, ToSet
<1>2. \A x \in Rollouts :
        /\ Aborted(x, reason) \in Rollouts
        /\ Aborted(x, reason).tokens = x.tokens /\ Aborted(x, reason).over = x.over
        /\ Aborted(x, reason).abort \in {x.abort, reason}
        /\ Aborted(x, reason).at = x.at \/ (x.at = "open" /\ Aborted(x, reason).at = "shut")
  <2> SUFFICES ASSUME NEW x \in Rollouts
               PROVE  /\ Aborted(x, reason) \in Rollouts
                      /\ Aborted(x, reason).tokens = x.tokens /\ Aborted(x, reason).over = x.over
                      /\ Aborted(x, reason).abort \in {x.abort, reason}
                      /\ Aborted(x, reason).at = x.at \/ (x.at = "open" /\ Aborted(x, reason).at = "shut")
    OBVIOUS
  <2> DEFINE place == IF x.at = "open" THEN "shut" ELSE x.at
             y == [x EXCEPT !.abort = reason, !.at = place]
  <2>1. /\ y \in Rollouts /\ y.tokens = x.tokens /\ y.over = x.over /\ y.abort = reason /\ y.at = place
    BY DEF Rollouts
  <2>2. Aborted(x, reason) = IF x.abort # "" THEN x ELSE y
    BY DEF Aborted
  <2> HIDE DEF y
  <2>3. CASE x.abort # ""
    BY <2>2, <2>3, Zenon
  <2>4. CASE x.abort = ""
    <3>1. Aborted(x, reason) = y
      BY <2>2, <2>4
    <3>2. y.at = x.at \/ (x.at = "open" /\ y.at = "shut")
      BY <2>1
    <3> QED
      BY <2>1, <3>1, <3>2, Zenon
  <2> QED
    BY <2>3, <2>4
<1>3. ro' = [k \in Keys |-> IF k \in ToSet(inflight) THEN Aborted(ro[k], reason) ELSE ro[k]]
  BY <1>1 DEF AbortAll
<1>4. ASSUME NEW k \in Keys
      PROVE  /\ ro'[k] \in Rollouts
             /\ ro'[k].tokens = ro[k].tokens /\ ro'[k].over = ro[k].over
             /\ ro'[k].abort \in {ro[k].abort, reason}
             /\ ro'[k].at = ro[k].at \/ (ro[k].at = "open" /\ ro'[k].at = "shut")
             /\ k \notin ToSet(inflight) => ro'[k] = ro[k]
  <2>1. ro[k] \in Rollouts
    BY <1>1
  <2>2. CASE k \in ToSet(inflight)
    <3>1. ro'[k] = Aborted(ro[k], reason)
      BY <1>3, <2>2
    <3> QED
      BY <1>2, <2>1, <2>2, <3>1
  <2>3. CASE k \notin ToSet(inflight)
    <3>1. ro'[k] = ro[k]
      BY <1>3, <2>3
    <3> QED
      BY <2>1, <2>3, <3>1, Zenon
  <2> QED
    BY <2>2, <2>3
<1> QED
  BY <1>3, <1>4

LEMMA Blank ==
  /\ NoRollout \in Rollouts /\ NoRollout.at = "none" /\ NoRollout.tokens = 0 /\ NoRollout.abort = "" /\ ~NoRollout.over
  /\ [k \in Keys |-> NoRollout] \in [Keys -> Rollouts]
  /\ NoRow \in Rows /\ NoRow.key = <<>> /\ NoRow.status = "" /\ NoRow.tokens = 0 /\ ~NoRow.over
  /\ \A S : <<>> \in Seq(S)
<1>1. NoRollout \in Rollouts /\ NoRollout.at = "none" /\ NoRollout.tokens = 0 /\ NoRollout.abort = "" /\ ~NoRollout.over
  BY DEF NoRollout, Rollouts
<1>2. NoRow \in Rows /\ NoRow.key = <<>> /\ NoRow.status = "" /\ NoRow.tokens = 0 /\ ~NoRow.over
  BY DEF NoRow, Rows
<1> QED
  BY <1>1, <1>2, EmptySeq

LEMMA StatusFacts ==
  ASSUME NEW x \in Rollouts
  PROVE  /\ StatusOf(x) \in Statuses
         /\ StatusOf(x) = "done" => x.abort = ""
         /\ StatusOf(x) \in {"yielded", "budget", "interrupted"} => StatusOf(x) = x.abort
BY DEF StatusOf, Statuses, Rollouts

LEMMA QueueFacts ==
  ASSUME TypeInv
  PROVE  /\ pending \in Seq(todo) /\ inflight \in Seq(todo) /\ todo \subseteq Keys
         /\ Len(inflight) \in Nat /\ (inflight = <<>> <=> Len(inflight) = 0)
         /\ ToSet(inflight) = {inflight[i] : i \in 1..Len(inflight)} /\ DOMAIN inflight = 1..Len(inflight)
         /\ ToSet(inflight) \subseteq todo /\ ToSet(pending) \subseteq todo
         /\ \A i \in 1..Len(inflight) : inflight[i] \in todo /\ inflight[i] \in Keys
<1>1. pending \in Seq(todo) /\ inflight \in Seq(todo) /\ todo \subseteq Keys
  BY DEF TypeInv, QueueType
<1> QED
  BY <1>1, SeqFacts

\* What a call without work leaves, and what one with work sets up.
LEMMA CallEffect ==
  ASSUME TypeInv, PlaceInv, NEW c \in Calls, NEW arms \in Arms(c.efforts), Call(c, arms)
  PROVE  /\ pc = "off" /\ calls' = calls + 1 /\ rows' = rows /\ torn' = torn /\ failed' = {} /\ stop' = FALSE
         /\ \/ /\ todo' = {} /\ exit' = (IF torn THEN "raised" ELSE "ok")
               /\ UNCHANGED <<meta, pc, set, pending, inflight, spent, errorsInRow, quiet, harvested, late, ro, tally, detector>>
            \/ /\ meta' = Merged(c) /\ pc' = "loop" /\ set' = c /\ inflight' = <<>> /\ spent' = 0 /\ errorsInRow' = 0
               /\ quiet' = FALSE /\ harvested' = NoRow /\ late' = FALSE /\ exit' = "none"
               /\ ro' = [k \in Keys |-> NoRollout] /\ attempts' = 0 /\ recorded' = 0
               /\ polled' = FALSE /\ credit' = 0 /\ ours' = 0 /\ foreign' = 0 /\ lost' = 0 /\ flagged' = 0
               /\ todo' \in SUBSET Keys /\ pending' \in Seq(todo') /\ IsInjective(pending') /\ todo' = ToSet(pending')
               /\ \A k \in todo' : rows[k] = 0 /\ k[1] \in ToSet(c.tasks) /\ k[2] \in c.efforts /\ k[3] \in 0..(c.n - 1)
<1> DEFINE jobs == Remaining(Plan(c, arms), DoneKeys)
<1>1. /\ jobs \in Seq(ToSet(jobs)) /\ IsInjective(jobs)
      /\ ToSet(jobs) \in SUBSET Keys /\ ToSet(jobs) \cap DoneKeys = {}
      /\ \A k \in ToSet(jobs) : k[1] \in ToSet(c.tasks) /\ k[2] \in c.efforts /\ k[3] \in 0..(c.n - 1)
  BY CallFacts
<1> HIDE DEF jobs
<1>2. CASE torn \/ jobs = <<>>
  BY <1>2 DEF Call, disk, jobs
<1>3. CASE ~(torn \/ jobs = <<>>)
  <2>1. /\ meta' = Merged(c) /\ pc' = "loop" /\ todo' = ToSet(jobs) /\ failed' = {} /\ pending' = jobs /\ inflight' = <<>>
        /\ spent' = 0 /\ set' = c /\ errorsInRow' = 0 /\ stop' = FALSE /\ quiet' = FALSE /\ harvested' = NoRow
        /\ late' = FALSE /\ exit' = "none" /\ ro' = [k \in Keys |-> NoRollout] /\ attempts' = 0 /\ recorded' = 0
        /\ polled' = FALSE /\ credit' = 0 /\ ours' = 0 /\ foreign' = 0 /\ lost' = 0 /\ flagged' = 0 /\ rows' = rows /\ torn' = torn
        /\ calls' = calls + 1 /\ pc = "off"
    BY <1>3 DEF Call, jobs
  <2>2. \A k \in ToSet(jobs) : rows[k] = 0
    BY <1>1 DEF DoneKeys, TypeInv, DiskType
  <2> QED
    BY <1>1, <2>1, <2>2
<1> QED
  BY <1>2, <1>3

LEMMA HarvestEffect ==
  ASSUME TypeInv, PlaceInv, Harvest
  PROVE  /\ pc = "harvest" /\ UNCHANGED <<rows, torn, meta, set, todo, failed, pending, spent, errorsInRow, stop, quiet, late, exit, calls, tally, detector>>
         /\ \/ pc' = "budget" /\ UNCHANGED <<inflight, harvested, ro>>
            \/ \E i \in 1..Len(inflight) :
                 /\ pc' = "write" /\ inflight' = RemoveAt(inflight, i) /\ harvested' = RowOf(inflight[i])
                 /\ ro[inflight[i]].at = "dead" /\ ro' = [ro EXCEPT ![inflight[i]] = NoRollout]
<1>1. CASE Dead = {}
  BY <1>1 DEF Harvest, disk
<1>2. CASE Dead # {}
  <2>1. DOMAIN inflight = 1..Len(inflight)
    BY QueueFacts
  <2> QED
    BY <1>2, <2>1 DEF Harvest, Dead, disk
<1> QED
  BY <1>1, <1>2

LEMMA RowFacts ==
  ASSUME TypeInv, NEW k \in Keys
  PROVE  /\ RowOf(k) \in Rows /\ RowOf(k) # NoRow
         /\ RowOf(k).key = k /\ RowOf(k).status = StatusOf(ro[k]) /\ RowOf(k).status \in Statuses
         /\ RowOf(k).tokens = ro[k].tokens /\ RowOf(k).over = ro[k].over
<1>1. ro[k] \in Rollouts /\ StatusOf(ro[k]) \in Statuses
  BY StatusFacts DEF TypeInv, RolloutType
<1>2. StatusOf(ro[k]) # ""
  BY <1>1 DEF Statuses
<1> QED
  BY <1>1, <1>2 DEF RowOf, Rows, NoRow, Rollouts

LEMMA StartEffect ==
  ASSUME TypeInv, PlaceInv, Start
  PROVE  /\ pc = "start" /\ quiet' = FALSE
         /\ UNCHANGED <<rows, torn, meta, set, todo, failed, spent, errorsInRow, stop, harvested, late, exit, calls, recorded, polled, prev, counter, ours, foreign, lost, flagged>>
         /\ \/ pc' = "loop" /\ UNCHANGED <<ro, credit, inflight, pending, attempts>>
            \/ /\ pc' = "launch" /\ ~stop /\ quiet /\ pending # <<>> /\ Len(inflight) < set.concurrency
               /\ credit' = credit + PromptTokens /\ attempts' = attempts + 1
               /\ inflight' = Append(inflight, Head(pending)) /\ pending' = Tail(pending)
               /\ ro' = [ro EXCEPT ![Head(pending)] = [NoRollout EXCEPT !.at = "new"]]
BY DEF Start, Room, disk

LEMMA JoinEffect ==
  ASSUME TypeInv, PlaceInv, JoinOne
  PROVE  /\ pc = "interrupt" /\ UNCHANGED <<torn, meta, set, todo, failed, stop, calls, attempts>>
         /\ \/ /\ exit' = "interrupted" /\ inflight = <<>> /\ rows' = rows /\ recorded' = recorded /\ Gone("interrupted")
            \/ /\ exit' = "raised" /\ rows' = rows /\ recorded' = recorded /\ Gone("raised")
            \/ /\ inflight # <<>> /\ inflight' = Tail(inflight) /\ recorded' = recorded + 1
               /\ rows' = Written(Head(inflight), StatusOf(ro[Head(inflight)]))
               /\ UNCHANGED <<pc, exit, pending, spent, errorsInRow, quiet, harvested, late, ro, detector>>
<1>1. pc = "interrupt" /\ UNCHANGED <<torn, meta, set, todo, failed, stop, calls, attempts>>
  BY DEF JoinOne
<1>2. CASE inflight = <<>>
  BY <1>1, <1>2 DEF JoinOne, Gone
<1>3. CASE inflight # <<>> /\ ro[Head(inflight)].at = "new"
  BY <1>1, <1>3 DEF JoinOne, Gone
<1>4. CASE inflight # <<>> /\ ro[Head(inflight)].at # "new"
  BY <1>1, <1>4 DEF JoinOne
<1> QED
  BY <1>2, <1>3, <1>4

\* The sums look at the tokens of the rollouts in flight only.
LEMMA SpentSame ==
  ASSUME TypeInv, NEW r, NEW q, \A k \in Keys : r[k].tokens = q[k].tokens
  PROVE  SpentWith(r) = SpentWith(q) /\ MadeWith(r) = MadeWith(q)
<1>1. Len(inflight) \in Nat /\ (inflight = <<>> <=> Len(inflight) = 0) /\ \A i \in 1..Len(inflight) : inflight[i] \in Keys
  BY QueueFacts
<1>2. inflight # <<>> => r[inflight[1]].tokens = q[inflight[1]].tokens
  <2>1. inflight # <<>> => 1 \in 1..Len(inflight)
    BY <1>1
  <2> QED
    BY <1>1, <2>1
<1>3. ~(Len(inflight) < 2) => r[inflight[2]].tokens = q[inflight[2]].tokens
  <2>1. ~(Len(inflight) < 2) => 2 \in 1..Len(inflight)
    BY <1>1
  <2> QED
    BY <1>1, <2>1
<1> QED
  BY <1>2, <1>3 DEF SpentWith, MadeWith

\* What the thread of a rollout does: to its own record alone.
LEMMA StreamEffect ==
  ASSUME TypeInv, PlaceInv, NEW k \in Running,
         \/ Connect(k) \/ Accept(k) \/ (\E last \in BOOLEAN : Chunk(k, last)) \/ (\E broken \in BOOLEAN : End(k, broken))
  PROVE  /\ k \in Keys /\ pc \in InLoop
         /\ UNCHANGED <<disk, main, calls, tally, polled, prev, credit, foreign, lost, flagged>>
         /\ ro' \in [Keys -> Rollouts] /\ \A j \in Keys \ {k} : ro'[j] = ro[j]
         /\ ro[k].at \notin {"none", "new", "dead"} /\ ro'[k].at \notin {"none", "new", "started"}
         /\ ro'[k].tokens >= ro[k].tokens
         /\ ro'[k].abort = ro[k].abort \/ (ro'[k].abort = "budget" /\ OverBudget(ro'))
         /\ ro'[k].over = ro[k].over \/ (~OverBudget(ro') /\ (ro'[k].over <=> MadeWith(ro') > Budget))
         /\ \/ counter' = counter + PromptTokens /\ ours' = ours + PromptTokens /\ ro[k].at = "opening" /\ ro'[k].at = "open"
            \/ counter' = counter /\ ours' = ours /\ (ro'[k].at = "opening" => ro[k].at = "started")
<1>1. k \in Keys /\ pc \in InLoop /\ ro[k].at \notin {"none", "new", "dead"} /\ ro \in [Keys -> Rollouts]
  BY DEF Running, TypeInv, RolloutType
<1>2. ro[k] \in Rollouts /\ ro[k].tokens \in Nat
  BY <1>1 DEF Rollouts
<1>3. CASE Connect(k)
  <2> DEFINE to == IF ro[k].abort # "" THEN "dead" ELSE "opening"
             x == [ro[k] EXCEPT !.at = to]
  <2>1. x \in Rollouts /\ x.at = to /\ x.tokens = ro[k].tokens /\ x.abort = ro[k].abort /\ x.over = ro[k].over
    BY <1>2 DEF Rollouts
  <2>2. ro' = [ro EXCEPT ![k] = x]
    BY <1>3 DEF Connect
  <2>3. counter' = counter /\ ours' = ours /\ UNCHANGED <<disk, main, calls, tally, polled, prev, credit, foreign, lost, flagged>> /\ ro[k].at = "started"
    BY <1>3 DEF Connect, detector
  <2>4. to \in {"dead", "opening"}
    OBVIOUS
  <2> HIDE DEF x, to
  <2>5. ro' \in [Keys -> Rollouts] /\ (\A j \in Keys \ {k} : ro'[j] = ro[j]) /\ ro'[k] = x
    BY <1>1, <2>1, <2>2
  <2> QED
    BY <1>1, <1>2, <2>1, <2>3, <2>4, <2>5
<1>4. CASE Accept(k)
  <2> DEFINE x == [ro[k] EXCEPT !.at = "open"]
  <2>1. x \in Rollouts /\ x.at = "open" /\ x.tokens = ro[k].tokens /\ x.abort = ro[k].abort /\ x.over = ro[k].over
    BY <1>2 DEF Rollouts
  <2>2. ro' = [ro EXCEPT ![k] = x]
    BY <1>4 DEF Accept
  <2>3. counter' = counter + PromptTokens /\ ours' = ours + PromptTokens /\ UNCHANGED <<disk, main, calls, tally, polled, prev, credit, foreign, lost, flagged>> /\ ro[k].at = "opening"
    BY <1>4 DEF Accept
  <2> HIDE DEF x
  <2> QED
    BY <1>1, <1>2, <2>1, <2>2, <2>3
<1>5. ASSUME NEW broken \in BOOLEAN, End(k, broken) PROVE
         /\ UNCHANGED <<disk, main, calls, tally, polled, prev, credit, foreign, lost, flagged>>
         /\ ro' \in [Keys -> Rollouts] /\ \A j \in Keys \ {k} : ro'[j] = ro[j]
         /\ ro'[k].at = "dead" /\ ro'[k].tokens = ro[k].tokens /\ ro'[k].abort = ro[k].abort /\ ro'[k].over = ro[k].over
         /\ counter' = counter /\ ours' = ours
  <2> DEFINE x == [ro[k] EXCEPT !.at = "dead", !.error = broken]
  <2>1. x \in Rollouts /\ x.at = "dead" /\ x.tokens = ro[k].tokens /\ x.abort = ro[k].abort /\ x.over = ro[k].over
    BY <1>2 DEF Rollouts
  <2>2. ro' = [ro EXCEPT ![k] = x]
    BY <1>5 DEF End
  <2>3. counter' = counter /\ ours' = ours /\ UNCHANGED <<disk, main, calls, tally, polled, prev, credit, foreign, lost, flagged>>
    BY <1>5 DEF End, detector
  <2> HIDE DEF x
  <2> QED
    BY <1>1, <1>2, <2>1, <2>2, <2>3
<1>6. ASSUME NEW last \in BOOLEAN, Chunk(k, last) PROVE
         /\ UNCHANGED <<disk, main, calls, tally, polled, prev, credit, foreign, lost, flagged>>
         /\ ro' \in [Keys -> Rollouts] /\ \A j \in Keys \ {k} : ro'[j] = ro[j]
         /\ ro'[k].at \in {"open", "dead"} /\ ro'[k].tokens = ro[k].tokens + 1
         /\ ro'[k].abort = ro[k].abort \/ (ro'[k].abort = "budget" /\ OverBudget(ro'))
         /\ ro'[k].over = ro[k].over \/ (~OverBudget(ro') /\ (ro'[k].over <=> MadeWith(ro') > Budget))
         /\ counter' = counter /\ ours' = ours
  <2> DEFINE more == ro[k].tokens + 1
             after == [ro EXCEPT ![k].tokens = more]
             reason == IF ro[k].abort = "" THEN "budget" ELSE ro[k].abort
             above == MadeWith(after) > Budget
             x == [ro[k] EXCEPT !.tokens = more]
             y == [x EXCEPT !.abort = reason, !.at = "dead"]
             z == [x EXCEPT !.finished = last, !.over = above]
  <2>0. more \in Nat /\ above \in BOOLEAN /\ more = ro[k].tokens + 1
    BY <1>2
  <2> HIDE DEF more, above
  <2>1. x \in Rollouts /\ x.tokens = more /\ x.abort = ro[k].abort /\ x.at = ro[k].at /\ x.over = ro[k].over
    BY <1>2, <2>0 DEF Rollouts
  <2>2. after = [ro EXCEPT ![k] = x] /\ after \in [Keys -> Rollouts] /\ after[k] = x
    BY <1>1, <2>1
  <2>3. y \in Rollouts /\ y.tokens = more /\ y.abort = reason /\ y.at = "dead" /\ y.over = x.over
    BY <2>1 DEF Rollouts
  <2>4. z \in Rollouts /\ z.tokens = more /\ z.abort = x.abort /\ z.at = x.at /\ z.over = above
    BY <2>0, <2>1 DEF Rollouts
  <2>5. counter' = counter /\ ours' = ours /\ UNCHANGED <<disk, main, calls, tally, polled, prev, credit, foreign, lost, flagged>> /\ ro[k].at = "open"
    BY <1>6 DEF Chunk, detector
  <2>6. ro' = IF OverBudget(after)
              THEN [after EXCEPT ![k].abort = reason, ![k].at = "dead"]
              ELSE [after EXCEPT ![k].finished = last, ![k].over = above]
    <3>1. after[k].abort = ro[k].abort
      BY <2>1, <2>2
    <3> QED
      BY <1>1, <1>6, <3>1 DEF Chunk, more, above
  <2> HIDE DEF after
  <2>7. ro' = IF OverBudget(after) THEN [after EXCEPT ![k] = y] ELSE [after EXCEPT ![k] = z]
    BY <1>1, <2>2, <2>6
  <2> HIDE DEF x, y, z
  <2>8. ro' \in [Keys -> Rollouts] /\ (\A j \in Keys \ {k} : ro'[j] = ro[j]) /\ ro'[k] = IF OverBudget(after) THEN y ELSE z
    BY <1>1, <2>1, <2>2, <2>3, <2>4, <2>7
  <2>9. \A j \in Keys : after[j].tokens = ro'[j].tokens
    BY <1>1, <2>1, <2>2, <2>3, <2>4, <2>8
  <2>10. (OverBudget(after) <=> OverBudget(ro')) /\ (above <=> MadeWith(ro') > Budget)
    <3>1. SpentWith(after) = SpentWith(ro') /\ MadeWith(after) = MadeWith(ro')
      BY <2>9, SpentSame
    <3> QED
      BY <3>1 DEF OverBudget, above
  <2>11. CASE OverBudget(after)
    BY <2>0, <2>1, <2>3, <2>5, <2>8, <2>10, <2>11
  <2>12. CASE ~OverBudget(after)
    BY <2>0, <2>1, <2>4, <2>5, <2>8, <2>10, <2>12
  <2> QED
    BY <2>11, <2>12
<1> QED
  BY <1>1, <1>2, <1>3, <1>4, <1>5, <1>6

\* What aborting rollouts leaves alone.
LEMMA AbortEffect ==
  ASSUME TypeInv,
         \/ Budgets \/ Interrupt
         \/ \E answered, gauges, sustained, settled \in BOOLEAN : Poll(answered, gauges, sustained, settled)
  PROVE  /\ ro' \in [Keys -> Rollouts]
         /\ \A k \in Keys :
              /\ ro'[k].tokens = ro[k].tokens /\ ro'[k].over = ro[k].over
              /\ ro'[k].abort = ro[k].abort \/ ro'[k].abort = "yielded" \/ (Budgets /\ ro'[k].abort = "budget" /\ stop')
                 \/ (pc' = "interrupt" /\ ro'[k].abort = "interrupted")
              /\ ro'[k].at = ro[k].at \/ (ro[k].at = "open" /\ ro'[k].at = "shut")
              /\ k \notin ToSet(inflight) => ro'[k] = ro[k]
<1>1. ro \in [Keys -> Rollouts]
  BY DEF TypeInv, RolloutType
<1>2. CASE ro' = ro
  BY <1>1, <1>2
<1>3. CASE AbortAll("yielded")
  BY <1>3, AbortFacts
<1>4. CASE Budgets /\ AbortAll("budget") /\ stop'
  BY <1>4, AbortFacts
<1>5. CASE pc' = "interrupt" /\ AbortAll("interrupted")
  BY <1>5, AbortFacts
<1>6. Budgets => ro' = ro \/ (AbortAll("budget") /\ stop')
  BY DEF Budgets
<1>7. Interrupt => pc' = "interrupt" /\ AbortAll("interrupted")
  BY DEF Interrupt
<1>8. ASSUME NEW answered \in BOOLEAN, NEW gauges \in BOOLEAN, NEW sustained \in BOOLEAN, NEW settled \in BOOLEAN,
             Poll(answered, gauges, sustained, settled)
      PROVE  ro' = ro \/ AbortAll("yielded")
  BY <1>8 DEF Poll
<1> QED
  BY <1>2, <1>3, <1>4, <1>5, <1>6, <1>7, <1>8

\* The row that is accounted, and where its key goes.
LEMMA AccountEffect ==
  ASSUME TypeInv, PlaceInv, Account
  PROVE  /\ pc = "account" /\ pc' = "harvest" /\ harvested.key \in todo /\ harvested.key \in Keys /\ harvested' = NoRow
         /\ harvested.tokens \in Nat /\ harvested.status \in {"done", "error", "yielded", "budget"}
         /\ UNCHANGED <<rows, torn, meta, set, todo, inflight, quiet, late, exit, ro, calls, tally, detector>>
         /\ spent' = spent + harvested.tokens
         /\ pending' \in Seq(todo) /\ IsInjective(pending')
         /\ ToSet(pending') = ToSet(pending) \cup (IF harvested.status = "yielded" THEN {harvested.key} ELSE {})
         /\ errorsInRow' = IF harvested.status = "done" THEN 0
                           ELSE IF harvested.status = "error" THEN errorsInRow + 1 ELSE errorsInRow
         /\ failed' = IF harvested.status = "error" THEN failed \cup {harvested.key} ELSE failed \ {harvested.key}
         /\ stop' = (stop \/ errorsInRow' >= MaxErrors)
<1>1. /\ pc = "account" /\ pc' = "harvest" /\ harvested' = NoRow /\ spent' = spent + harvested.tokens
      /\ UNCHANGED <<rows, torn, meta, set, todo, inflight, quiet, late, exit, ro, calls, tally, detector>>
      /\ pending' = IF harvested.status = "yielded" THEN <<harvested.key>> \o pending ELSE pending
      /\ errorsInRow' = IF harvested.status = "done" THEN 0
                        ELSE IF harvested.status = "error" THEN errorsInRow + 1 ELSE errorsInRow
      /\ failed' = IF harvested.status = "error" THEN failed \cup {harvested.key} ELSE failed \ {harvested.key}
      /\ stop' = (stop \/ errorsInRow' >= MaxErrors)
  BY DEF Account, Requeued, disk
<1>2. /\ harvested.key \in todo /\ harvested.key \in Keys /\ harvested.key \notin ToSet(pending)
      /\ IsInjective(pending) /\ harvested.tokens \in Nat
      /\ harvested.status \in {"done", "error", "yielded", "budget"}
  BY <1>1 DEF PlaceInv, RowPlace, RoomLeft, KeyPlace, RolloutPlace, TypeInv, LoopType, QueueType, Rows, Statuses
<1>3. pending \in Seq(todo)
  BY QueueFacts
<1>4. pending' \in Seq(todo) /\ IsInjective(pending')
      /\ ToSet(pending') = ToSet(pending) \cup (IF harvested.status = "yielded" THEN {harvested.key} ELSE {})
  <2> DEFINE longer == <<harvested.key>> \o pending
  <2>1. longer \in Seq(todo) /\ ToSet(longer) = {harvested.key} \cup ToSet(pending) /\ IsInjective(longer)
    BY <1>2, <1>3, PushFacts
  <2>2. pending' = IF harvested.status = "yielded" THEN longer ELSE pending
    BY <1>1
  <2> HIDE DEF longer
  <2> QED
    BY <1>2, <1>3, <2>1, <2>2
<1> QED
  BY <1>1, <1>2, <1>4

LEMMA DiskStep ==
  ASSUME TypeInv, PlaceInv, [Next]_vars
  PROVE  DiskType'
<1>1. ASSUME NEW c \in Calls, NEW arms \in Arms(c.efforts), Call(c, arms)
      PROVE  DiskType'
  <2>1. meta' \in [tasks : SUBSET Tasks, efforts : SUBSET Efforts, n : Nat]
    <3>1. ToSet(c.tasks) \subseteq Tasks /\ c.efforts \subseteq Efforts /\ c.n \in Nat
      BY BenchAssumption DEF Tasks, Efforts
    <3>2. meta.tasks \in SUBSET Tasks /\ meta.efforts \in SUBSET Efforts /\ meta.n \in Nat
      BY DEF TypeInv, DiskType
    <3>3. Merged(c) \in [tasks : SUBSET Tasks, efforts : SUBSET Efforts, n : Nat]
      BY <3>1, <3>2 DEF Merged
    <3>4. meta' = Merged(c) \/ meta' = meta
      BY <1>1 DEF Call, disk
    <3> QED
      BY <3>3, <3>4 DEF TypeInv, DiskType
  <2>2. rows' = rows /\ torn' = torn
    BY <1>1 DEF Call, disk
  <2> QED
    BY <2>1, <2>2 DEF TypeInv, DiskType
<1>2. CASE Round
  BY <1>2 DEF Round, Gone, disk, detector, tally, TypeInv, DiskType
<1>3. CASE Harvest
  BY <1>3 DEF Harvest, disk, detector, tally, TypeInv, DiskType
<1>4. CASE Write
  <2>1. \A k \in Keys : \A s : Written(k, s) \in [Keys -> Nat]
    BY DEF Written, TypeInv, DiskType
  <2>2. harvested.key \in Keys
    BY <1>4 DEF Write, PlaceInv, RowPlace, RoomLeft, KeyPlace, RolloutPlace, TypeInv, QueueType
  <2> QED
    BY <1>4, <2>1, <2>2 DEF Write, TypeInv, DiskType
<1>5. CASE Account
  BY <1>5 DEF Account, disk, detector, tally, TypeInv, DiskType
<1>6. CASE Budgets
  BY <1>6 DEF Budgets, disk, detector, tally, TypeInv, DiskType
<1>7. ASSUME NEW answered \in BOOLEAN, NEW gauges \in BOOLEAN, NEW sustained \in BOOLEAN, NEW settled \in BOOLEAN,
            Poll(answered, gauges, sustained, settled)
      PROVE  DiskType'
  BY <1>7 DEF Poll, disk, tally, TypeInv, DiskType
<1>8. CASE Start
  BY <1>8 DEF Start, disk, TypeInv, DiskType
<1>9. CASE Launch
  BY <1>9 DEF Launch, disk, detector, tally, TypeInv, DiskType
<1>10. ASSUME NEW k \in Running, Connect(k)
      PROVE  DiskType'
  BY <1>10 DEF Connect, disk, main, detector, tally, TypeInv, DiskType
<1>11. ASSUME NEW k \in Running, Accept(k)
      PROVE  DiskType'
  BY <1>11 DEF Accept, disk, main, tally, TypeInv, DiskType
<1>12. ASSUME NEW k \in Running, NEW last \in BOOLEAN, Chunk(k, last)
      PROVE  DiskType'
  BY <1>12 DEF Chunk, disk, main, detector, tally, TypeInv, DiskType
<1>13. ASSUME NEW k \in Running, NEW broken \in BOOLEAN, End(k, broken)
      PROVE  DiskType'
  BY <1>13 DEF End, disk, main, detector, tally, TypeInv, DiskType
<1>14. CASE Interrupt
  BY <1>14 DEF Interrupt, disk, detector, tally, TypeInv, DiskType
<1>15. CASE JoinOne
  <2>1. \A k \in Keys : \A s : Written(k, s) \in [Keys -> Nat]
    BY DEF Written, TypeInv, DiskType
  <2>2. inflight # <<>> => Head(inflight) \in Keys
    BY TailFacts DEF TypeInv, QueueType
  <2>3. rows' = rows \/ (inflight # <<>> /\ rows' = Written(Head(inflight), StatusOf(ro[Head(inflight)])))
    BY <1>15 DEF JoinOne
  <2>4. torn' = torn /\ meta' = meta
    BY <1>15 DEF JoinOne
  <2> QED
    BY <2>1, <2>2, <2>3, <2>4 DEF TypeInv, DiskType
<1>16. ASSUME NEW tear \in BOOLEAN, Kill(tear)
      PROVE  DiskType'
  BY <1>16 DEF Kill, Gone, tally, TypeInv, DiskType
<1>17. CASE Foreign \/ EngineRestart
  BY <1>17 DEF Foreign, EngineRestart, disk, main, tally, TypeInv, DiskType
<1>18. CASE TimeOver
  BY <1>18 DEF TimeOver, disk, detector, tally, TypeInv, DiskType
<1>19. CASE UNCHANGED vars
  BY <1>19 DEF vars, disk, main, detector, tally, TypeInv, DiskType
<1> QED
  BY NextCases, <1>1, <1>2, <1>3, <1>4, <1>5, <1>6, <1>7, <1>8, <1>9, <1>10, <1>11, <1>12, <1>13, <1>14, <1>15, <1>16, <1>17, <1>18, <1>19

LEMMA LoopStep ==
  ASSUME TypeInv, PlaceInv, [Next]_vars
  PROVE  LoopType'
<1>1. ASSUME NEW c \in Calls, NEW arms \in Arms(c.efforts), Call(c, arms)
      PROVE  LoopType'
  <2>1. NoRow \in Rows
    BY Blank
  <2>2. \/ UNCHANGED <<pc, set, spent, errorsInRow, quiet, late, harvested>> /\ exit' \in {"ok", "raised"}
        \/ /\ pc' = "loop" /\ set' = c /\ spent' = 0 /\ errorsInRow' = 0 /\ quiet' = FALSE /\ late' = FALSE
           /\ harvested' = NoRow /\ exit' = "none"
    BY <1>1, CallEffect
  <2>3. failed' = {} /\ stop' = FALSE
    BY <1>1, CallEffect
  <2>4. CASE UNCHANGED <<pc, set, spent, errorsInRow, quiet, late, harvested>> /\ exit' \in {"ok", "raised"}
    BY <2>3, <2>4 DEF TypeInv, LoopType
  <2>5. CASE /\ pc' = "loop" /\ set' = c /\ spent' = 0 /\ errorsInRow' = 0 /\ quiet' = FALSE /\ late' = FALSE
             /\ harvested' = NoRow /\ exit' = "none"
    BY <2>1, <2>3, <2>5 DEF TypeInv, LoopType, InLoop
  <2> QED
    BY <2>2, <2>4, <2>5
<1>2. CASE Round
  <2>1. CASE More
    BY <1>2, <2>1 DEF Round, TypeInv, LoopType, InLoop
  <2>2. CASE ~More
    <3>1. /\ pc' = "off" /\ exit' = "ok" /\ harvested' = NoRow /\ late' = FALSE /\ spent' = 0 /\ errorsInRow' = 0
          /\ quiet' = FALSE /\ set' = set /\ failed' = failed /\ stop' = stop
      BY <1>2, <2>2 DEF Round, Gone
    <3>2. NoRow \in Rows
      BY Blank
    <3> QED
      BY <3>1, <3>2 DEF TypeInv, LoopType
  <2> QED
    BY <2>1, <2>2
<1>3. CASE Harvest
  BY <1>3, HarvestEffect, QueueFacts, RowFacts DEF TypeInv, LoopType, InLoop
<1>4. CASE Write
  BY BenchAssumption, Blank, <1>4 DEF Write, detector, TypeInv, LoopType, InLoop
<1>5. CASE Account
  <2>1. NoRow \in Rows
    BY Blank
  <2>2. /\ pc' = "harvest" /\ UNCHANGED <<set, quiet, late, exit>> /\ harvested' = NoRow
        /\ failed' \in {failed \cup {harvested.key}, failed \ {harvested.key}}
        /\ harvested.key \in Keys /\ harvested.tokens \in Nat /\ spent' = spent + harvested.tokens
        /\ errorsInRow' \in {0, errorsInRow, errorsInRow + 1} /\ stop' \in BOOLEAN
    BY <1>5, AccountEffect DEF TypeInv, LoopType
  <2> QED
    BY <2>1, <2>2 DEF TypeInv, LoopType, InLoop
<1>6. CASE Budgets
  BY BenchAssumption, Blank, <1>6 DEF Budgets, disk, detector, tally, TypeInv, LoopType, InLoop
<1>7. ASSUME NEW answered \in BOOLEAN, NEW gauges \in BOOLEAN, NEW sustained \in BOOLEAN, NEW settled \in BOOLEAN,
            Poll(answered, gauges, sustained, settled)
      PROVE  LoopType'
  BY BenchAssumption, Blank, <1>7 DEF Poll, disk, tally, TypeInv, LoopType, InLoop
<1>8. CASE Start
  BY BenchAssumption, Blank, <1>8 DEF Start, disk, TypeInv, LoopType, InLoop
<1>9. CASE Launch
  BY BenchAssumption, Blank, <1>9 DEF Launch, disk, detector, tally, TypeInv, LoopType, InLoop
<1>10. ASSUME NEW k \in Running, Connect(k)
      PROVE  LoopType'
  BY BenchAssumption, Blank, <1>10 DEF Connect, disk, main, detector, tally, TypeInv, LoopType, InLoop
<1>11. ASSUME NEW k \in Running, Accept(k)
      PROVE  LoopType'
  BY BenchAssumption, Blank, <1>11 DEF Accept, disk, main, tally, TypeInv, LoopType, InLoop
<1>12. ASSUME NEW k \in Running, NEW last \in BOOLEAN, Chunk(k, last)
      PROVE  LoopType'
  BY BenchAssumption, Blank, <1>12 DEF Chunk, disk, main, detector, tally, TypeInv, LoopType, InLoop
<1>13. ASSUME NEW k \in Running, NEW broken \in BOOLEAN, End(k, broken)
      PROVE  LoopType'
  BY BenchAssumption, Blank, <1>13 DEF End, disk, main, detector, tally, TypeInv, LoopType, InLoop
<1>14. CASE Interrupt
  BY BenchAssumption, Blank, <1>14 DEF Interrupt, disk, detector, tally, TypeInv, LoopType, InLoop
<1>15. CASE JoinOne
  <2>1. NoRow \in Rows
    BY Blank
  <2>2. \/ UNCHANGED <<pc, exit, spent, errorsInRow, quiet, harvested, late>>
        \/ /\ pc' = "off" /\ exit' \in {"raised", "interrupted"} /\ spent' = 0 /\ errorsInRow' = 0 /\ quiet' = FALSE
           /\ harvested' = NoRow /\ late' = FALSE
    BY <1>15, JoinEffect DEF Gone
  <2>3. UNCHANGED <<set, failed, stop>>
    BY <1>15, JoinEffect
  <2>4. CASE UNCHANGED <<pc, exit, spent, errorsInRow, quiet, harvested, late>>
    BY <2>3, <2>4 DEF TypeInv, LoopType
  <2>5. CASE /\ pc' = "off" /\ exit' \in {"raised", "interrupted"} /\ spent' = 0 /\ errorsInRow' = 0 /\ quiet' = FALSE
             /\ harvested' = NoRow /\ late' = FALSE
    BY <2>1, <2>3, <2>5 DEF TypeInv, LoopType
  <2> QED
    BY <2>2, <2>4, <2>5
<1>16. ASSUME NEW tear \in BOOLEAN, Kill(tear)
      PROVE  LoopType'
  BY BenchAssumption, Blank, <1>16 DEF Kill, Gone, tally, TypeInv, LoopType, InLoop
<1>17. CASE Foreign \/ EngineRestart
  BY BenchAssumption, Blank, <1>17 DEF Foreign, EngineRestart, disk, main, tally, TypeInv, LoopType, InLoop
<1>18. CASE TimeOver
  BY BenchAssumption, Blank, <1>18 DEF TimeOver, disk, detector, tally, TypeInv, LoopType, InLoop
<1>19. CASE UNCHANGED vars
  BY BenchAssumption, Blank, <1>19 DEF vars, disk, main, detector, tally, TypeInv, LoopType, InLoop
<1> QED
  BY NextCases, <1>1, <1>2, <1>3, <1>4, <1>5, <1>6, <1>7, <1>8, <1>9, <1>10, <1>11, <1>12, <1>13, <1>14, <1>15, <1>16, <1>17, <1>18, <1>19

LEMMA QueueStep ==
  ASSUME TypeInv, PlaceInv, [Next]_vars
  PROVE  QueueType'
<1>1. ASSUME NEW c \in Calls, NEW arms \in Arms(c.efforts), Call(c, arms)
      PROVE  QueueType'
  <2>1. CASE todo' = {} /\ UNCHANGED <<pending, inflight>>
    BY <1>1, <2>1, CallEffect, Blank DEF PlaceInv, RowPlace, RoomLeft, KeyPlace, RolloutPlace, QueueType
  <2>2. CASE ~(todo' = {} /\ UNCHANGED <<pending, inflight>>)
    BY <1>1, <2>2, CallEffect, Blank DEF QueueType
  <2> QED
    BY <2>1, <2>2
<1>2. CASE Round
  BY Blank, <1>2 DEF Round, Gone, disk, detector, tally, TypeInv, QueueType
<1>3. CASE Harvest
  <2>1. CASE inflight' = inflight
    BY <1>3, <2>1, HarvestEffect DEF TypeInv, QueueType
  <2>2. ASSUME NEW i \in 1..Len(inflight), inflight' = RemoveAt(inflight, i) PROVE inflight' \in Seq(todo)
    <3>1. Len(inflight) <= 2
      BY QueueFacts, BenchAssumption, SMTT(20) DEF PlaceInv, RowPlace, RoomLeft, KeyPlace, RolloutPlace, Holding, TypeInv, LoopType
    <3> QED
      BY <2>2, <3>1, QueueFacts, RemoveFacts
  <2> QED
    BY <1>3, <2>1, <2>2, HarvestEffect DEF TypeInv, QueueType
<1>4. CASE Write
  BY Blank, <1>4 DEF Write, detector, TypeInv, QueueType
<1>5. CASE Account
  BY <1>5, AccountEffect DEF TypeInv, QueueType
<1>6. CASE Budgets
  BY Blank, <1>6 DEF Budgets, disk, detector, tally, TypeInv, QueueType
<1>7. ASSUME NEW answered \in BOOLEAN, NEW gauges \in BOOLEAN, NEW sustained \in BOOLEAN, NEW settled \in BOOLEAN,
            Poll(answered, gauges, sustained, settled)
      PROVE  QueueType'
  BY Blank, <1>7 DEF Poll, disk, tally, TypeInv, QueueType
<1>8. CASE Start
  <2>1. pending # <<>> => Head(pending) \in todo /\ Tail(pending) \in Seq(todo)
    BY QueueFacts, TailFacts
  <2>2. pending # <<>> => Append(inflight, Head(pending)) \in Seq(todo)
    BY <2>1, QueueFacts, AppendFacts
  <2> QED
    BY <1>8, <2>1, <2>2, StartEffect DEF TypeInv, QueueType
<1>9. CASE Launch
  BY Blank, <1>9 DEF Launch, disk, detector, tally, TypeInv, QueueType
<1>10. ASSUME NEW k \in Running, Connect(k)
      PROVE  QueueType'
  BY Blank, <1>10 DEF Connect, disk, main, detector, tally, TypeInv, QueueType
<1>11. ASSUME NEW k \in Running, Accept(k)
      PROVE  QueueType'
  BY Blank, <1>11 DEF Accept, disk, main, tally, TypeInv, QueueType
<1>12. ASSUME NEW k \in Running, NEW last \in BOOLEAN, Chunk(k, last)
      PROVE  QueueType'
  BY Blank, <1>12 DEF Chunk, disk, main, detector, tally, TypeInv, QueueType
<1>13. ASSUME NEW k \in Running, NEW broken \in BOOLEAN, End(k, broken)
      PROVE  QueueType'
  BY Blank, <1>13 DEF End, disk, main, detector, tally, TypeInv, QueueType
<1>14. CASE Interrupt
  BY Blank, <1>14 DEF Interrupt, disk, detector, tally, TypeInv, QueueType
<1>15. CASE JoinOne
  <2>1. inflight # <<>> => Tail(inflight) \in Seq(todo)
    BY QueueFacts, TailFacts
  <2> QED
    BY <1>15, <2>1, JoinEffect, Blank DEF Gone, TypeInv, QueueType
<1>16. ASSUME NEW tear \in BOOLEAN, Kill(tear)
      PROVE  QueueType'
  BY Blank, <1>16 DEF Kill, Gone, tally, TypeInv, QueueType
<1>17. CASE Foreign \/ EngineRestart
  BY Blank, <1>17 DEF Foreign, EngineRestart, disk, main, tally, TypeInv, QueueType
<1>18. CASE TimeOver
  BY Blank, <1>18 DEF TimeOver, disk, detector, tally, TypeInv, QueueType
<1>19. CASE UNCHANGED vars
  BY Blank, <1>19 DEF vars, disk, main, detector, tally, TypeInv, QueueType
<1> QED
  BY NextCases, <1>1, <1>2, <1>3, <1>4, <1>5, <1>6, <1>7, <1>8, <1>9, <1>10, <1>11, <1>12, <1>13, <1>14, <1>15, <1>16, <1>17, <1>18, <1>19

LEMMA RolloutStep ==
  ASSUME TypeInv, PlaceInv, [Next]_vars
  PROVE  RolloutType'
<1>1. ASSUME NEW c \in Calls, NEW arms \in Arms(c.efforts), Call(c, arms)
      PROVE  RolloutType'
  BY <1>1, CallEffect, Blank DEF TypeInv, RolloutType
<1>2. CASE Round
  BY Blank, <1>2 DEF Round, Gone, disk, detector, tally, TypeInv, RolloutType
<1>3. CASE Harvest
  BY <1>3, HarvestEffect, Blank DEF TypeInv, RolloutType
<1>4. CASE Write
  BY Blank, <1>4 DEF Write, detector, TypeInv, RolloutType
<1>5. CASE Account
  BY Blank, <1>5 DEF Account, disk, detector, tally, TypeInv, RolloutType
<1>6. CASE Budgets
  BY <1>6, AbortEffect DEF RolloutType
<1>7. ASSUME NEW answered \in BOOLEAN, NEW gauges \in BOOLEAN, NEW sustained \in BOOLEAN, NEW settled \in BOOLEAN,
            Poll(answered, gauges, sustained, settled)
      PROVE  RolloutType'
  BY <1>7, AbortEffect DEF RolloutType
<1>8. CASE Start
  <2>1. [NoRollout EXCEPT !.at = "new"] \in Rollouts
    BY Blank DEF Rollouts
  <2> QED
    BY <1>8, <2>1, StartEffect DEF TypeInv, RolloutType
<1>9. CASE Launch
  <2>1. \A x \in Rollouts : [x EXCEPT !.at = "started"] \in Rollouts
    BY DEF Rollouts
  <2>2. ro' = [ro EXCEPT ![Last(inflight)] = [ro[Last(inflight)] EXCEPT !.at = "started"]] \/ Last(inflight) \notin Keys
    BY <1>9 DEF Launch, TypeInv, RolloutType
  <2>3. ro' = [ro EXCEPT ![Last(inflight)].at = "started"]
    BY <1>9 DEF Launch
  <2> QED
    BY <2>1, <2>3 DEF TypeInv, RolloutType
<1>10. ASSUME NEW k \in Running, Connect(k)
      PROVE  RolloutType'
  BY <1>10, StreamEffect DEF RolloutType
<1>11. ASSUME NEW k \in Running, Accept(k)
      PROVE  RolloutType'
  BY <1>11, StreamEffect DEF RolloutType
<1>12. ASSUME NEW k \in Running, NEW last \in BOOLEAN, Chunk(k, last)
      PROVE  RolloutType'
  BY <1>12, StreamEffect DEF RolloutType
<1>13. ASSUME NEW k \in Running, NEW broken \in BOOLEAN, End(k, broken)
      PROVE  RolloutType'
  BY <1>13, StreamEffect DEF RolloutType
<1>14. CASE Interrupt
  BY <1>14, AbortEffect DEF RolloutType
<1>15. CASE JoinOne
  BY Blank, <1>15 DEF JoinOne, Gone, detector, TypeInv, RolloutType
<1>16. ASSUME NEW tear \in BOOLEAN, Kill(tear)
      PROVE  RolloutType'
  BY Blank, <1>16 DEF Kill, Gone, tally, TypeInv, RolloutType
<1>17. CASE Foreign \/ EngineRestart
  BY Blank, <1>17 DEF Foreign, EngineRestart, disk, main, tally, TypeInv, RolloutType
<1>18. CASE TimeOver
  BY Blank, <1>18 DEF TimeOver, disk, detector, tally, TypeInv, RolloutType
<1>19. CASE UNCHANGED vars
  BY Blank, <1>19 DEF vars, disk, main, detector, tally, TypeInv, RolloutType
<1> QED
  BY NextCases, <1>1, <1>2, <1>3, <1>4, <1>5, <1>6, <1>7, <1>8, <1>9, <1>10, <1>11, <1>12, <1>13, <1>14, <1>15, <1>16, <1>17, <1>18, <1>19

LEMMA CountStep ==
  ASSUME TypeInv, PlaceInv, [Next]_vars
  PROVE  CountType'
<1>1. ASSUME NEW c \in Calls, NEW arms \in Arms(c.efforts), Call(c, arms)
      PROVE  CountType'
  BY BenchAssumption, <1>1 DEF Call, disk, detector, tally, TypeInv, CountType
<1>2. CASE Round
  BY BenchAssumption, <1>2 DEF Round, Gone, disk, detector, tally, TypeInv, CountType
<1>3. CASE Harvest
  BY BenchAssumption, <1>3 DEF Harvest, disk, detector, tally, TypeInv, CountType
<1>4. CASE Write
  BY BenchAssumption, <1>4 DEF Write, detector, TypeInv, CountType
<1>5. CASE Account
  BY BenchAssumption, <1>5 DEF Account, disk, detector, tally, TypeInv, CountType
<1>6. CASE Budgets
  BY BenchAssumption, <1>6 DEF Budgets, disk, detector, tally, TypeInv, CountType
<1>7. ASSUME NEW answered \in BOOLEAN, NEW gauges \in BOOLEAN, NEW sustained \in BOOLEAN, NEW settled \in BOOLEAN,
            Poll(answered, gauges, sustained, settled)
      PROVE  CountType'
  <2>1. \A d \in Int : Excess(d) \in Nat /\ CreditLeft(d) \in Nat
    BY DEF Excess, CreditLeft, TypeInv, CountType
  <2>2. counter - prev \in Int
    BY DEF TypeInv, CountType
  <2>3. UNCHANGED <<calls, attempts, recorded, counter, ours>>
    BY <1>7 DEF Poll, tally
  <2>4. answered => Update
    BY <1>7 DEF Poll
  <2>5. ~answered => UNCHANGED <<polled, prev, credit, foreign, lost, flagged>>
    BY <1>7 DEF Poll
  <2>6. flagged' \in Nat /\ credit' \in Nat /\ prev' \in Nat /\ foreign' \in Nat /\ lost' \in Nat
    <3>1. CASE ~answered
      BY <2>5, <3>1 DEF TypeInv, CountType
    <3>2. CASE answered /\ Baseline
      BY <3>2 DEF Baseline, TypeInv, CountType
    <3>3. CASE answered /\ Compare
      BY <2>1, <2>2, <3>3 DEF Compare, TypeInv, CountType
    <3> QED
      BY <2>4, <3>1, <3>2, <3>3 DEF Update
  <2> QED
    BY <2>3, <2>6 DEF TypeInv, CountType
<1>8. CASE Start
  <2>1. PromptTokens \in Nat
    BY BenchAssumption
  <2> QED
    BY <1>8, <2>1, StartEffect, SMTT(20) DEF TypeInv, CountType
<1>9. CASE Launch
  BY BenchAssumption, <1>9 DEF Launch, disk, detector, tally, TypeInv, CountType
<1>10. ASSUME NEW k \in Running, Connect(k)
      PROVE  CountType'
  BY BenchAssumption, <1>10 DEF Connect, disk, main, detector, tally, TypeInv, CountType
<1>11. ASSUME NEW k \in Running, Accept(k)
      PROVE  CountType'
  BY BenchAssumption, <1>11 DEF Accept, disk, main, tally, TypeInv, CountType
<1>12. ASSUME NEW k \in Running, NEW last \in BOOLEAN, Chunk(k, last)
      PROVE  CountType'
  BY BenchAssumption, <1>12 DEF Chunk, disk, main, detector, tally, TypeInv, CountType
<1>13. ASSUME NEW k \in Running, NEW broken \in BOOLEAN, End(k, broken)
      PROVE  CountType'
  BY BenchAssumption, <1>13 DEF End, disk, main, detector, tally, TypeInv, CountType
<1>14. CASE Interrupt
  BY BenchAssumption, <1>14 DEF Interrupt, disk, detector, tally, TypeInv, CountType
<1>15. CASE JoinOne
  BY BenchAssumption, <1>15 DEF JoinOne, Gone, detector, TypeInv, CountType
<1>16. ASSUME NEW tear \in BOOLEAN, Kill(tear)
      PROVE  CountType'
  BY BenchAssumption, <1>16 DEF Kill, Gone, tally, TypeInv, CountType
<1>17. CASE Foreign \/ EngineRestart
  <2>1. CASE Foreign
    BY BenchAssumption, <2>1 DEF Foreign, disk, main, tally, TypeInv, CountType
  <2>2. CASE EngineRestart
    <3>1. counter' = 0 /\ lost' = lost + counter
          /\ UNCHANGED <<calls, attempts, recorded, prev, credit, ours, foreign, flagged>>
      BY <2>2 DEF EngineRestart, tally
    <3> QED
      BY <3>1 DEF TypeInv, CountType
  <2> QED
    BY <1>17, <2>1, <2>2
<1>18. CASE TimeOver
  BY BenchAssumption, <1>18 DEF TimeOver, disk, detector, tally, TypeInv, CountType
<1>19. CASE UNCHANGED vars
  BY BenchAssumption, <1>19 DEF vars, disk, main, detector, tally, TypeInv, CountType
<1> QED
  BY NextCases, <1>1, <1>2, <1>3, <1>4, <1>5, <1>6, <1>7, <1>8, <1>9, <1>10, <1>11, <1>12, <1>13, <1>14, <1>15, <1>16, <1>17, <1>18, <1>19

LEMMA SmallNat == \A n \in Nat : n <= 2 => n \in {0, 1, 2}
OBVIOUS

LEMMA TypedStep ==
  ASSUME TypeInv, PlaceInv, [Next]_vars
  PROVE  TypeInv'
BY DiskStep, LoopStep, QueueStep, RolloutStep, CountStep DEF TypeInv

\* How many are in flight.
LEMMA FlightFacts ==
  ASSUME TypeInv, PlaceInv
  PROVE  /\ Len(inflight) <= 2 /\ Holding \in {0, 1} /\ Len(inflight) + Holding <= set.concurrency
         /\ set.concurrency \in {1, 2} /\ (harvested = NoRow <=> Holding = 0)
         /\ harvested # NoRow => Len(inflight) <= 1
<1>1. set.concurrency \in {1, 2}
  BY BenchAssumption DEF TypeInv, LoopType
<1> QED
  BY <1>1, QueueFacts DEF PlaceInv, RoomLeft, Holding

\* Taking out the row of a dead rollout.
LEMMA HarvestPlaces ==
  ASSUME TypeInv, PlaceInv, NEW i \in 1..Len(inflight), inflight' = RemoveAt(inflight, i)
  PROVE  /\ inflight[i] \in todo /\ inflight[i] \in Keys
         /\ Len(inflight') = Len(inflight) - 1 /\ Len(inflight) \in {1, 2}
         /\ Len(inflight) = 1 => inflight' = <<>>
         /\ Len(inflight) = 2 => inflight' = <<inflight[3 - i]>>
         /\ IsInjective(inflight') /\ ToSet(inflight') = ToSet(inflight) \ {inflight[i]} /\ inflight[i] \in ToSet(inflight)
<1>1. Len(inflight) \in Nat /\ Len(inflight) <= 2 /\ inflight \in Seq(todo) /\ IsInjective(inflight)
  BY QueueFacts, FlightFacts DEF PlaceInv, KeyPlace
<1>2. Len(inflight) \in {1, 2}
  <2>1. Len(inflight) # 0
    BY <1>1
  <2> QED
    BY <1>1, <2>1, SmallNat, Zenon
<1>3. /\ Len(inflight') = Len(inflight) - 1 /\ (Len(inflight) = 1 => inflight' = <<>>)
      /\ Len(inflight) = 2 => inflight' = <<inflight[3 - i]>>
  BY <1>1, RemoveFacts
<1>4. IsInjective(inflight') /\ ToSet(inflight') = ToSet(inflight) \ {inflight[i]}
  BY <1>1, RemoveDistinct
<1>5. inflight[i] \in todo /\ inflight[i] \in Keys /\ inflight[i] \in ToSet(inflight)
  BY QueueFacts
<1> QED
  BY <1>2, <1>3, <1>4, <1>5

\* Starting the first that waits.
LEMMA StartPlaces ==
  ASSUME TypeInv, PlaceInv, pending # <<>>, inflight' = Append(inflight, Head(pending)), pending' = Tail(pending),
         Len(inflight) < set.concurrency
  PROVE  /\ Head(pending) \in todo /\ Head(pending) \in Keys /\ Head(pending) \in ToSet(pending)
         /\ Head(pending) \notin ToSet(inflight)
         /\ Len(inflight') = Len(inflight) + 1 /\ Len(inflight) \in {0, 1} /\ inflight' # <<>>
         /\ Len(inflight) = 0 => inflight'[1] = Head(pending)
         /\ Len(inflight) = 1 => inflight'[1] = inflight[1] /\ inflight'[2] = Head(pending)
         /\ IsInjective(inflight') /\ IsInjective(pending') /\ ToSet(inflight') = ToSet(inflight) \cup {Head(pending)}
         /\ ToSet(pending') = ToSet(pending) \ {Head(pending)}
<1>1. /\ Len(inflight) \in Nat /\ inflight \in Seq(todo) /\ pending \in Seq(todo) /\ IsInjective(inflight) /\ IsInjective(pending)
      /\ ToSet(pending) \cap ToSet(inflight) = {} /\ todo \subseteq Keys
  BY QueueFacts DEF PlaceInv, KeyPlace
<1>2. /\ Head(pending) \in todo /\ ToSet(pending) = {Head(pending)} \cup ToSet(pending')
      /\ IsInjective(pending') /\ Head(pending) \notin ToSet(pending')
  BY <1>1, TailFacts, TailDistinct
<1>3. /\ inflight' \in Seq(todo) /\ Len(inflight') = Len(inflight) + 1
      /\ \A j \in 1..Len(inflight) : inflight'[j] = inflight[j]
      /\ inflight'[Len(inflight) + 1] = Head(pending) /\ ToSet(inflight') = ToSet(inflight) \cup {Head(pending)}
  BY <1>1, <1>2, AppendFacts
<1>4. IsInjective(inflight')
  <2>1. Head(pending) \notin ToSet(inflight)
    BY <1>1, <1>2
  <2> QED
    BY <1>1, <1>2, <2>1, AppendDistinct
<1>5. Len(inflight) \in {0, 1} /\ inflight' # <<>>
  <2>1. Len(inflight) \in Nat /\ Len(inflight) <= 1
    BY <1>1, FlightFacts
  <2>2. inflight' # <<>>
    BY <1>1, <1>3, SeqFacts
  <2>3. \A n \in Nat : n <= 1 => n \in {0, 1}
    OBVIOUS
  <2> QED
    BY <2>1, <2>2, <2>3, Zenon
<1> QED
  BY <1>1, <1>2, <1>3, <1>4, <1>5

\* After an interrupt, one rollout is written and joined.
LEMMA JoinPlaces ==
  ASSUME TypeInv, PlaceInv, inflight # <<>>, inflight' = Tail(inflight)
  PROVE  /\ Head(inflight) \in todo /\ Head(inflight) \in Keys /\ Head(inflight) \in ToSet(inflight)
         /\ Len(inflight') = Len(inflight) - 1 /\ Len(inflight) \in {1, 2}
         /\ Len(inflight) = 2 => inflight'[1] = inflight[2]
         /\ IsInjective(inflight') /\ ToSet(inflight') = ToSet(inflight) \ {Head(inflight)}
<1>1. /\ Len(inflight) \in Nat /\ Len(inflight) # 0 /\ Len(inflight) <= 2 /\ inflight \in Seq(todo) /\ IsInjective(inflight)
      /\ todo \subseteq Keys
  BY QueueFacts, FlightFacts DEF PlaceInv, KeyPlace
<1>2. /\ Head(inflight) \in todo /\ Len(inflight') = Len(inflight) - 1
      /\ \A j \in 1..Len(inflight) - 1 : inflight'[j] = inflight[j + 1]
      /\ ToSet(inflight) = {Head(inflight)} \cup ToSet(inflight')
      /\ IsInjective(inflight') /\ Head(inflight) \notin ToSet(inflight')
  BY <1>1, TailFacts, TailDistinct
<1>3. Len(inflight) \in {1, 2}
  BY <1>1, SmallNat, Zenon
<1>4. Len(inflight) = 2 => inflight'[1] = inflight[2]
  <2>1. Len(inflight) = 2 => 1 \in 1..Len(inflight) - 1 /\ 1 + 1 = 2
    OBVIOUS
  <2> QED
    BY <1>2, <2>1, Zenon
<1> QED
  BY <1>1, <1>2, <1>3, <1>4

LEMMA Everyone == <<>> \notin Keys
BY DEF Keys

LEMMA RowStep ==
  ASSUME TypeInv, PlaceInv, [Next]_vars
  PROVE  RowPlace'
<1>1. ASSUME NEW c \in Calls, NEW arms \in Arms(c.efforts), Call(c, arms)
      PROVE  RowPlace'
  BY <1>1, CallEffect DEF PlaceInv, RowPlace
<1>2. CASE Round
  BY <1>2 DEF Round, Gone, disk, detector, tally, PlaceInv, RowPlace, InLoop
<1>3. CASE Harvest
  <2>1. pc = "harvest" /\ UNCHANGED <<todo, errorsInRow>>
    BY <1>3, HarvestEffect
  <2>2. CASE pc' = "budget" /\ harvested' = harvested
    BY <2>1, <2>2 DEF PlaceInv, RowPlace
  <2>3. ASSUME NEW i \in 1..Len(inflight), pc' = "write", harvested' = RowOf(inflight[i])
        PROVE  harvested'.key \in todo /\ harvested'.status \in Statuses \ {"interrupted"}
    <3>1. inflight[i] \in todo /\ inflight[i] \in Keys
      BY QueueFacts
    <3>2. harvested'.key = inflight[i] /\ harvested'.status = StatusOf(ro[inflight[i]]) /\ harvested'.status \in Statuses
      BY <2>3, <3>1, RowFacts
    <3>3. ro[inflight[i]].abort # "interrupted" /\ ro[inflight[i]] \in Rollouts
      BY <2>1, <3>1 DEF PlaceInv, RolloutPlace, TypeInv, RolloutType
    <3> QED
      BY <3>1, <3>2, <3>3, StatusFacts
  <2> QED
    BY <1>3, <2>1, <2>2, <2>3, HarvestEffect DEF RowPlace
<1>4. CASE Write
  BY <1>4 DEF Write, detector, PlaceInv, RowPlace, InLoop
<1>5. CASE Account
  BY <1>5, AccountEffect DEF RowPlace
<1>6. CASE Budgets
  BY <1>6 DEF Budgets, disk, detector, tally, PlaceInv, RowPlace, InLoop
<1>7. ASSUME NEW answered \in BOOLEAN, NEW gauges \in BOOLEAN, NEW sustained \in BOOLEAN, NEW settled \in BOOLEAN,
            Poll(answered, gauges, sustained, settled)
      PROVE  RowPlace'
  BY <1>7 DEF Poll, disk, tally, PlaceInv, RowPlace, InLoop
<1>8. CASE Start
  <2>1. CASE inflight' = inflight /\ pc' = "loop"
    BY <1>8, <2>1, StartEffect DEF PlaceInv, RowPlace
  <2>2. CASE pc' = "launch" /\ pending # <<>> /\ Len(inflight) < set.concurrency
             /\ inflight' = Append(inflight, Head(pending)) /\ pending' = Tail(pending)
    <3>1. inflight' # <<>>
      BY <2>2, StartPlaces
    <3> QED
      BY <1>8, <2>2, <3>1, StartEffect DEF PlaceInv, RowPlace
  <2> QED
    BY <1>8, <2>1, <2>2, StartEffect
<1>9. CASE Launch
  BY <1>9 DEF Launch, disk, detector, tally, PlaceInv, RowPlace, InLoop
<1>10. ASSUME NEW k \in Running, Connect(k)
      PROVE  RowPlace'
  BY <1>10, StreamEffect DEF main, TypeInv, PlaceInv, RowPlace
<1>11. ASSUME NEW k \in Running, Accept(k)
      PROVE  RowPlace'
  BY <1>11, StreamEffect DEF main, TypeInv, PlaceInv, RowPlace
<1>12. ASSUME NEW k \in Running, NEW last \in BOOLEAN, Chunk(k, last)
      PROVE  RowPlace'
  BY <1>12, StreamEffect DEF main, TypeInv, PlaceInv, RowPlace
<1>13. ASSUME NEW k \in Running, NEW broken \in BOOLEAN, End(k, broken)
      PROVE  RowPlace'
  BY <1>13, StreamEffect DEF main, TypeInv, PlaceInv, RowPlace
<1>14. CASE Interrupt
  BY <1>14 DEF Interrupt, disk, detector, tally, PlaceInv, RowPlace, InLoop
<1>15. CASE JoinOne
  BY <1>15, JoinEffect DEF Gone, PlaceInv, RowPlace
<1>16. ASSUME NEW tear \in BOOLEAN, Kill(tear)
      PROVE  RowPlace'
  BY <1>16 DEF Kill, Gone, tally, PlaceInv, RowPlace, InLoop
<1>17. CASE Foreign \/ EngineRestart
  BY <1>17 DEF Foreign, EngineRestart, disk, main, tally, PlaceInv, RowPlace, InLoop
<1>18. CASE TimeOver
  BY <1>18 DEF TimeOver, disk, detector, tally, PlaceInv, RowPlace, InLoop
<1>19. CASE UNCHANGED vars
  BY <1>19 DEF vars, disk, main, detector, tally, PlaceInv, RowPlace, InLoop
<1> QED
  BY NextCases, <1>1, <1>2, <1>3, <1>4, <1>5, <1>6, <1>7, <1>8, <1>9, <1>10, <1>11, <1>12, <1>13, <1>14, <1>15, <1>16, <1>17, <1>18, <1>19

\* A process that is gone holds nothing.
LEMMA GoneRoom ==
  ASSUME TypeInv, inflight' = <<>>, harvested' = NoRow, set' = set
  PROVE  RoomLeft'
<1>1. set.concurrency \in {1, 2}
  BY BenchAssumption DEF TypeInv, LoopType
<1>2. Len(inflight') = 0 /\ Holding' = 0
  BY EmptyFacts DEF Holding
<1> QED
  BY <1>1, <1>2 DEF RoomLeft

LEMMA GoneKeys ==
  ASSUME inflight' = <<>>, pending' = <<>>, harvested' = NoRow
  PROVE  KeyPlace'
BY EmptyFacts DEF KeyPlace

LEMMA RoomStep ==
  ASSUME TypeInv, PlaceInv, [Next]_vars
  PROVE  RoomLeft'
<1>1. ASSUME NEW c \in Calls, NEW arms \in Arms(c.efforts), Call(c, arms)
      PROVE  RoomLeft'
  <2>1. CASE UNCHANGED <<set, inflight, harvested>>
    BY <2>1 DEF PlaceInv, RoomLeft, Holding
  <2>2. CASE set' = c /\ inflight' = <<>> /\ harvested' = NoRow
    BY <2>2, EmptyFacts, BenchAssumption DEF RoomLeft, Holding
  <2> QED
    BY <1>1, <2>1, <2>2, CallEffect
<1>2. CASE Round
  <2>1. CASE More
    BY <1>2, <2>1 DEF Round, PlaceInv, RoomLeft, Holding
  <2>2. CASE ~More
    BY <1>2, <2>2, GoneRoom DEF Round, Gone
  <2> QED
    BY <2>1, <2>2
<1>3. CASE Harvest
  <2>1. CASE UNCHANGED <<inflight, harvested>>
    BY <1>3, <2>1, HarvestEffect DEF PlaceInv, RoomLeft, Holding
  <2>2. ASSUME NEW i \in 1..Len(inflight), inflight' = RemoveAt(inflight, i) PROVE RoomLeft'
    <3>1. Len(inflight') = Len(inflight) - 1 /\ Len(inflight) \in {1, 2} /\ Holding' \in {0, 1}
      BY <2>2, HarvestPlaces DEF Holding
    <3>2. harvested = NoRow /\ set' = set
      BY <1>3, HarvestEffect DEF PlaceInv, RowPlace
    <3>3. Len(inflight) + Holding <= set.concurrency /\ Holding = 0 /\ set.concurrency \in {1, 2}
      BY <3>2, FlightFacts DEF Holding
    <3> QED
      BY <3>1, <3>2, <3>3 DEF RoomLeft
  <2> QED
    BY <1>3, <2>1, <2>2, HarvestEffect
<1>4. CASE Write
  BY <1>4 DEF Write, detector, PlaceInv, RoomLeft, Holding
<1>5. CASE Account
  <2>1. harvested' = NoRow /\ UNCHANGED <<set, inflight>>
    BY <1>5, AccountEffect
  <2>2. Len(inflight) \in Nat /\ Len(inflight) + Holding <= set.concurrency /\ Holding \in {0, 1} /\ set.concurrency \in {1, 2}
    BY FlightFacts, QueueFacts
  <2> QED
    BY <2>1, <2>2 DEF RoomLeft, Holding
<1>6. CASE Budgets
  BY <1>6 DEF Budgets, disk, detector, tally, PlaceInv, RoomLeft, Holding
<1>7. ASSUME NEW answered \in BOOLEAN, NEW gauges \in BOOLEAN, NEW sustained \in BOOLEAN, NEW settled \in BOOLEAN,
            Poll(answered, gauges, sustained, settled)
      PROVE  RoomLeft'
  BY <1>7 DEF Poll, disk, tally, PlaceInv, RoomLeft, Holding
<1>8. CASE Start
  <2>1. CASE UNCHANGED inflight
    BY <1>8, <2>1, StartEffect DEF PlaceInv, RoomLeft, Holding
  <2>2. CASE pc' = "launch" /\ pending # <<>> /\ Len(inflight) < set.concurrency
             /\ inflight' = Append(inflight, Head(pending)) /\ pending' = Tail(pending)
    <3>1. Len(inflight') = Len(inflight) + 1 /\ Len(inflight) \in {0, 1}
      BY <2>2, StartPlaces
    <3>2. harvested' = NoRow /\ set' = set /\ set.concurrency \in {1, 2}
      BY <1>8, StartEffect, FlightFacts DEF PlaceInv, RowPlace
    <3> QED
      BY <2>2, <3>1, <3>2 DEF RoomLeft, Holding
  <2> QED
    BY <1>8, <2>1, <2>2, StartEffect
<1>9. CASE Launch
  BY <1>9 DEF Launch, disk, detector, tally, PlaceInv, RoomLeft, Holding
<1>10. ASSUME NEW k \in Running, Connect(k)
      PROVE  RoomLeft'
  BY <1>10, StreamEffect DEF main, TypeInv, PlaceInv, RoomLeft, Holding
<1>11. ASSUME NEW k \in Running, Accept(k)
      PROVE  RoomLeft'
  BY <1>11, StreamEffect DEF main, TypeInv, PlaceInv, RoomLeft, Holding
<1>12. ASSUME NEW k \in Running, NEW last \in BOOLEAN, Chunk(k, last)
      PROVE  RoomLeft'
  BY <1>12, StreamEffect DEF main, TypeInv, PlaceInv, RoomLeft, Holding
<1>13. ASSUME NEW k \in Running, NEW broken \in BOOLEAN, End(k, broken)
      PROVE  RoomLeft'
  BY <1>13, StreamEffect DEF main, TypeInv, PlaceInv, RoomLeft, Holding
<1>14. CASE Interrupt
  BY <1>14 DEF Interrupt, disk, detector, tally, PlaceInv, RoomLeft, Holding
<1>15. CASE JoinOne
  <2>1. CASE Gone("interrupted") \/ Gone("raised")
    BY <1>15, <2>1, GoneRoom DEF JoinOne, Gone
  <2>2. CASE inflight # <<>> /\ inflight' = Tail(inflight) /\ UNCHANGED harvested
    <3>1. Len(inflight') = Len(inflight) - 1 /\ Len(inflight) \in {1, 2}
      BY <2>2, JoinPlaces
    <3>2. Len(inflight) + Holding <= set.concurrency /\ Holding \in {0, 1} /\ set.concurrency \in {1, 2} /\ Holding' = Holding
      BY <2>2, FlightFacts DEF Holding
    <3>3. set' = set
      BY <1>15 DEF JoinOne
    <3> QED
      BY <3>1, <3>2, <3>3 DEF RoomLeft
  <2> QED
    BY <1>15, <2>1, <2>2, JoinEffect
<1>16. ASSUME NEW tear \in BOOLEAN, Kill(tear)
      PROVE  RoomLeft'
  BY <1>16, GoneRoom DEF Kill, Gone
<1>17. CASE Foreign \/ EngineRestart
  BY <1>17 DEF Foreign, EngineRestart, disk, main, tally, PlaceInv, RoomLeft, Holding
<1>18. CASE TimeOver
  BY <1>18 DEF TimeOver, disk, detector, tally, PlaceInv, RoomLeft, Holding
<1>19. CASE UNCHANGED vars
  BY <1>19 DEF vars, disk, main, detector, tally, PlaceInv, RoomLeft, Holding
<1> QED
  BY NextCases, <1>1, <1>2, <1>3, <1>4, <1>5, <1>6, <1>7, <1>8, <1>9, <1>10, <1>11, <1>12, <1>13, <1>14, <1>15, <1>16, <1>17, <1>18, <1>19

LEMMA KeyStep ==
  ASSUME TypeInv, PlaceInv, [Next]_vars
  PROVE  KeyPlace'
<1>1. ASSUME NEW c \in Calls, NEW arms \in Arms(c.efforts), Call(c, arms)
      PROVE  KeyPlace'
  <2>1. CASE UNCHANGED <<pending, inflight, harvested>>
    BY <2>1 DEF PlaceInv, KeyPlace
  <2>2. CASE inflight' = <<>> /\ harvested' = NoRow /\ todo' \in SUBSET Keys /\ IsInjective(pending') /\ todo' = ToSet(pending')
    BY <2>2, EmptyFacts, Everyone, Blank DEF KeyPlace
  <2> QED
    BY <1>1, <2>1, <2>2, CallEffect
<1>2. CASE Round
  BY <1>2, GoneKeys DEF Round, Gone, PlaceInv, KeyPlace
<1>3. CASE Harvest
  <2>1. CASE UNCHANGED <<inflight, harvested>>
    BY <1>3, <2>1, HarvestEffect DEF PlaceInv, KeyPlace
  <2>2. ASSUME NEW i \in 1..Len(inflight), inflight' = RemoveAt(inflight, i), harvested' = RowOf(inflight[i]) PROVE KeyPlace'
    <3>1. /\ IsInjective(inflight') /\ ToSet(inflight') = ToSet(inflight) \ {inflight[i]} /\ inflight[i] \in ToSet(inflight)
          /\ inflight[i] \in Keys
      BY <2>2, HarvestPlaces
    <3>2. harvested'.key = inflight[i] /\ pending' = pending
      BY <1>3, <2>2, <3>1, RowFacts, HarvestEffect
    <3> QED
      BY <3>1, <3>2 DEF PlaceInv, KeyPlace
  <2> QED
    BY <1>3, <2>1, <2>2, HarvestEffect
<1>4. CASE Write
  BY <1>4 DEF Write, detector, PlaceInv, KeyPlace
<1>5. CASE Account
  <2>1. ToSet(inflight') \subseteq Keys /\ ToSet(pending') \subseteq Keys
    BY <1>5, AccountEffect, QueueFacts
  <2>2. IsInjective(pending') /\ ToSet(pending') \cap ToSet(inflight') = {} /\ IsInjective(inflight')
    BY <1>5, AccountEffect DEF PlaceInv, KeyPlace
  <2>3. harvested'.key = <<>>
    BY <1>5, AccountEffect, Blank
  <2> QED
    BY <2>1, <2>2, <2>3, Everyone DEF KeyPlace
<1>6. CASE Budgets
  BY <1>6 DEF Budgets, disk, detector, tally, PlaceInv, KeyPlace
<1>7. ASSUME NEW answered \in BOOLEAN, NEW gauges \in BOOLEAN, NEW sustained \in BOOLEAN, NEW settled \in BOOLEAN,
            Poll(answered, gauges, sustained, settled)
      PROVE  KeyPlace'
  BY <1>7 DEF Poll, disk, tally, PlaceInv, KeyPlace
<1>8. CASE Start
  <2>1. CASE UNCHANGED <<inflight, pending>>
    BY <1>8, <2>1, StartEffect DEF PlaceInv, KeyPlace
  <2>2. CASE pc' = "launch" /\ pending # <<>> /\ Len(inflight) < set.concurrency
             /\ inflight' = Append(inflight, Head(pending)) /\ pending' = Tail(pending)
    BY <1>8, <2>2, StartPlaces, StartEffect DEF PlaceInv, KeyPlace
  <2> QED
    BY <1>8, <2>1, <2>2, StartEffect
<1>9. CASE Launch
  BY <1>9 DEF Launch, disk, detector, tally, PlaceInv, KeyPlace
<1>10. ASSUME NEW k \in Running, Connect(k)
      PROVE  KeyPlace'
  BY <1>10, StreamEffect DEF main, TypeInv, PlaceInv, KeyPlace
<1>11. ASSUME NEW k \in Running, Accept(k)
      PROVE  KeyPlace'
  BY <1>11, StreamEffect DEF main, TypeInv, PlaceInv, KeyPlace
<1>12. ASSUME NEW k \in Running, NEW last \in BOOLEAN, Chunk(k, last)
      PROVE  KeyPlace'
  BY <1>12, StreamEffect DEF main, TypeInv, PlaceInv, KeyPlace
<1>13. ASSUME NEW k \in Running, NEW broken \in BOOLEAN, End(k, broken)
      PROVE  KeyPlace'
  BY <1>13, StreamEffect DEF main, TypeInv, PlaceInv, KeyPlace
<1>14. CASE Interrupt
  BY <1>14 DEF Interrupt, disk, detector, tally, PlaceInv, KeyPlace
<1>15. CASE JoinOne
  <2>1. CASE Gone("interrupted") \/ Gone("raised")
    BY <2>1, GoneKeys DEF Gone
  <2>2. CASE inflight # <<>> /\ inflight' = Tail(inflight) /\ UNCHANGED <<harvested, pending>>
    BY <2>2, JoinPlaces DEF PlaceInv, KeyPlace
  <2> QED
    BY <1>15, <2>1, <2>2, JoinEffect
<1>16. ASSUME NEW tear \in BOOLEAN, Kill(tear)
      PROVE  KeyPlace'
  BY <1>16, GoneKeys DEF Kill, Gone
<1>17. CASE Foreign \/ EngineRestart
  BY <1>17 DEF Foreign, EngineRestart, disk, main, tally, PlaceInv, KeyPlace
<1>18. CASE TimeOver
  BY <1>18 DEF TimeOver, disk, detector, tally, PlaceInv, KeyPlace
<1>19. CASE UNCHANGED vars
  BY <1>19 DEF vars, disk, main, detector, tally, PlaceInv, KeyPlace
<1> QED
  BY NextCases, <1>1, <1>2, <1>3, <1>4, <1>5, <1>6, <1>7, <1>8, <1>9, <1>10, <1>11, <1>12, <1>13, <1>14, <1>15, <1>16, <1>17, <1>18, <1>19

LEMMA RolloutPlaceStep ==
  ASSUME TypeInv, PlaceInv, [Next]_vars
  PROVE  RolloutPlace'
<1>1. ASSUME NEW c \in Calls, NEW arms \in Arms(c.efforts), Call(c, arms)
      PROVE  RolloutPlace'
  BY <1>1, CallEffect, Blank DEF PlaceInv, RolloutPlace
<1>2. CASE Round
  BY <1>2, Blank DEF Round, Gone, PlaceInv, RolloutPlace
<1>3. CASE Harvest
  <2>1. pc = "harvest"
    BY <1>3, HarvestEffect
  <2>2. CASE UNCHANGED <<inflight, ro>>
    BY <2>1, <2>2 DEF PlaceInv, RolloutPlace
  <2>3. ASSUME NEW i \in 1..Len(inflight), inflight' = RemoveAt(inflight, i), ro' = [ro EXCEPT ![inflight[i]] = NoRollout]
        PROVE  RolloutPlace'
    <3>1. ToSet(inflight') = ToSet(inflight) \ {inflight[i]} /\ inflight[i] \in Keys /\ ro \in [Keys -> Rollouts]
      BY <2>3, HarvestPlaces DEF TypeInv, RolloutType
    <3> QED
      BY <2>1, <2>3, <3>1, Blank DEF PlaceInv, RolloutPlace
  <2> QED
    BY <1>3, <2>2, <2>3, HarvestEffect
<1>4. CASE Write
  BY <1>4 DEF Write, detector, PlaceInv, RolloutPlace
<1>5. CASE Account
  BY <1>5, AccountEffect DEF PlaceInv, RolloutPlace
<1>6. CASE Budgets
  BY <1>6, AbortEffect DEF Budgets, disk, detector, tally, PlaceInv, RolloutPlace
<1>7. ASSUME NEW answered \in BOOLEAN, NEW gauges \in BOOLEAN, NEW sustained \in BOOLEAN, NEW settled \in BOOLEAN,
            Poll(answered, gauges, sustained, settled)
      PROVE  RolloutPlace'
  BY <1>7, AbortEffect DEF Poll, disk, tally, PlaceInv, RolloutPlace
<1>8. CASE Start
  <2>1. pc = "start"
    BY <1>8, StartEffect
  <2>2. CASE UNCHANGED <<inflight, ro>>
    BY <2>1, <2>2 DEF PlaceInv, RolloutPlace
  <2>3. CASE /\ pc' = "launch" /\ pending # <<>> /\ Len(inflight) < set.concurrency
             /\ inflight' = Append(inflight, Head(pending)) /\ pending' = Tail(pending)
             /\ ro' = [ro EXCEPT ![Head(pending)] = [NoRollout EXCEPT !.at = "new"]]
    <3> DEFINE k == Head(pending)
               x == [NoRollout EXCEPT !.at = "new"]
    <3>1. ToSet(inflight') = ToSet(inflight) \cup {k} /\ k \in Keys
      BY <2>3, StartPlaces
    <3>2. x.abort = "" /\ ro \in [Keys -> Rollouts] /\ ro' = [ro EXCEPT ![k] = x]
      BY <2>3 DEF TypeInv, RolloutType, NoRollout
    <3> HIDE DEF k, x
    <3> QED
      BY <2>1, <3>1, <3>2 DEF PlaceInv, RolloutPlace
  <2> QED
    BY <1>8, <2>2, <2>3, StartEffect
<1>9. CASE Launch
  <2>1. /\ pc = "launch" /\ UNCHANGED inflight
        /\ ro' = [ro EXCEPT ![Last(inflight)].at = "started"] /\ ro \in [Keys -> Rollouts]
    BY <1>9 DEF Launch, TypeInv, RolloutType
  <2>2. Last(inflight) \in ToSet(inflight)
    <3>1. Len(inflight) \in 1..Len(inflight)
      BY <2>1, QueueFacts DEF PlaceInv, RowPlace
    <3> QED
      BY <3>1, QueueFacts DEF Last
  <2>3. \A j \in Keys : /\ j \notin ToSet(inflight) => ro'[j] = ro[j]
                        /\ ro'[j].abort = ro[j].abort
    <3>1. \A x \in Rollouts : [x EXCEPT !.at = "started"].abort = x.abort
      BY DEF Rollouts
    <3> QED
      BY <2>1, <2>2, <3>1
  <2> QED
    BY <2>1, <2>3 DEF PlaceInv, RolloutPlace
<1>10. ASSUME NEW k \in Running, Connect(k)
      PROVE  RolloutPlace'
  <2>1. k \in ToSet(inflight)
    BY <1>10, StreamEffect, Blank DEF PlaceInv, RolloutPlace, InLoop
  <2>2. UNCHANGED <<pc, inflight>> /\ pc # "interrupt"
    BY <1>10, StreamEffect DEF main, InLoop
  <2>3. (\A j \in Keys \ {k} : ro'[j] = ro[j]) /\ (ro'[k].abort = ro[k].abort \/ ro'[k].abort = "budget")
    BY <1>10, StreamEffect
  <2> QED
    BY <2>1, <2>2, <2>3 DEF PlaceInv, RolloutPlace
<1>11. ASSUME NEW k \in Running, Accept(k)
      PROVE  RolloutPlace'
  <2>1. k \in ToSet(inflight)
    BY <1>11, StreamEffect, Blank DEF PlaceInv, RolloutPlace, InLoop
  <2>2. UNCHANGED <<pc, inflight>> /\ pc # "interrupt"
    BY <1>11, StreamEffect DEF main, InLoop
  <2>3. (\A j \in Keys \ {k} : ro'[j] = ro[j]) /\ (ro'[k].abort = ro[k].abort \/ ro'[k].abort = "budget")
    BY <1>11, StreamEffect
  <2> QED
    BY <2>1, <2>2, <2>3 DEF PlaceInv, RolloutPlace
<1>12. ASSUME NEW k \in Running, NEW last \in BOOLEAN, Chunk(k, last)
      PROVE  RolloutPlace'
  <2>1. k \in ToSet(inflight)
    BY <1>12, StreamEffect, Blank DEF PlaceInv, RolloutPlace, InLoop
  <2>2. UNCHANGED <<pc, inflight>> /\ pc # "interrupt"
    BY <1>12, StreamEffect DEF main, InLoop
  <2>3. (\A j \in Keys \ {k} : ro'[j] = ro[j]) /\ (ro'[k].abort = ro[k].abort \/ ro'[k].abort = "budget")
    BY <1>12, StreamEffect
  <2> QED
    BY <2>1, <2>2, <2>3 DEF PlaceInv, RolloutPlace
<1>13. ASSUME NEW k \in Running, NEW broken \in BOOLEAN, End(k, broken)
      PROVE  RolloutPlace'
  <2>1. k \in ToSet(inflight)
    BY <1>13, StreamEffect, Blank DEF PlaceInv, RolloutPlace, InLoop
  <2>2. UNCHANGED <<pc, inflight>> /\ pc # "interrupt"
    BY <1>13, StreamEffect DEF main, InLoop
  <2>3. (\A j \in Keys \ {k} : ro'[j] = ro[j]) /\ (ro'[k].abort = ro[k].abort \/ ro'[k].abort = "budget")
    BY <1>13, StreamEffect
  <2> QED
    BY <2>1, <2>2, <2>3 DEF PlaceInv, RolloutPlace
<1>14. CASE Interrupt
  BY <1>14, AbortEffect DEF Interrupt, disk, detector, tally, PlaceInv, RolloutPlace
<1>15. CASE JoinOne
  BY <1>15, JoinEffect, Blank DEF Gone, PlaceInv, RolloutPlace
<1>16. ASSUME NEW tear \in BOOLEAN, Kill(tear)
      PROVE  RolloutPlace'
  BY <1>16, Blank DEF Kill, Gone, RolloutPlace
<1>17. CASE Foreign \/ EngineRestart
  BY <1>17 DEF Foreign, EngineRestart, disk, main, tally, PlaceInv, RolloutPlace
<1>18. CASE TimeOver
  BY <1>18 DEF TimeOver, disk, detector, tally, PlaceInv, RolloutPlace
<1>19. CASE UNCHANGED vars
  BY <1>19 DEF vars, disk, main, detector, tally, PlaceInv, RolloutPlace
<1> QED
  BY NextCases, <1>1, <1>2, <1>3, <1>4, <1>5, <1>6, <1>7, <1>8, <1>9, <1>10, <1>11, <1>12, <1>13, <1>14, <1>15, <1>16, <1>17, <1>18, <1>19

LEMMA PlaceStep ==
  ASSUME TypeInv, PlaceInv, [Next]_vars
  PROVE  PlaceInv'
BY RowStep, RoomStep, KeyStep, RolloutPlaceStep DEF PlaceInv

\* What is written: one row more for a key that was done, none otherwise.
LEMMA WrittenFacts ==
  ASSUME TypeInv, NEW k \in Keys, NEW s, rows' = Written(k, s)
  PROVE  /\ \A j \in Keys \ {k} : rows'[j] = rows[j]
         /\ rows'[k] = (IF s = "done" THEN rows[k] + 1 ELSE rows[k]) /\ rows[k] \in Nat
BY DEF Written, TypeInv, DiskType

LEMMA ScoreStep ==
  ASSUME TypeInv, PlaceInv, ScoreInv, [Next]_vars
  PROVE  ScoreInv'
<1>1. ASSUME NEW c \in Calls, NEW arms \in Arms(c.efforts), Call(c, arms)
      PROVE  ScoreInv'
  <2>1. CASE UNCHANGED <<pc, pending, inflight>>
    BY <1>1, <2>1, CallEffect DEF ScoreInv
  <2>2. CASE /\ pc' = "loop" /\ inflight' = <<>> /\ todo' = ToSet(pending') /\ \A k \in todo' : rows[k] = 0
    BY <1>1, <2>2, CallEffect, EmptyFacts DEF ScoreInv
  <2> QED
    BY <1>1, <2>1, <2>2, CallEffect
<1>2. CASE Round
  BY <1>2, EmptyFacts DEF Round, Gone, disk, ScoreInv
<1>3. CASE Harvest
  <2>1. pc = "harvest" /\ UNCHANGED <<rows, pending>>
    BY <1>3, HarvestEffect
  <2>2. CASE pc' = "budget" /\ UNCHANGED <<inflight, harvested>>
    BY <2>1, <2>2 DEF ScoreInv
  <2>3. ASSUME NEW i \in 1..Len(inflight), pc' = "write", inflight' = RemoveAt(inflight, i), harvested' = RowOf(inflight[i])
        PROVE  ScoreInv'
    <3>1. ToSet(inflight') = ToSet(inflight) \ {inflight[i]} /\ inflight[i] \in ToSet(inflight) /\ inflight[i] \in Keys
      BY <2>3, HarvestPlaces
    <3>2. harvested'.key = inflight[i]
      BY <2>3, <3>1, RowFacts
    <3> QED
      BY <2>1, <2>3, <3>1, <3>2 DEF ScoreInv
  <2> QED
    BY <1>3, <2>2, <2>3, HarvestEffect
<1>4. CASE Write
  <2>1. harvested.key \in Keys /\ harvested.key \notin ToSet(pending) \cup ToSet(inflight)
    BY <1>4 DEF Write, PlaceInv, RowPlace, KeyPlace, TypeInv, QueueType
  <2>2. rows' = Written(harvested.key, harvested.status) /\ pc = "write" /\ pc' = "account" /\ UNCHANGED <<pending, inflight, harvested>>
    BY <1>4 DEF Write
  <2>3. /\ \A j \in Keys \ {harvested.key} : rows'[j] = rows[j]
        /\ rows'[harvested.key] = (IF harvested.status = "done" THEN 1 ELSE 0)
    BY <2>1, <2>2, WrittenFacts DEF ScoreInv
  <2>4. ToSet(pending) \cup ToSet(inflight) \subseteq Keys
    BY QueueFacts
  <2> QED
    BY <2>1, <2>2, <2>3, <2>4 DEF ScoreInv
<1>5. CASE Account
  <2>1. rows[harvested.key] \in Nat /\ rows[harvested.key] <= 1
    BY <1>5, AccountEffect DEF ScoreInv, TypeInv, DiskType
  <2>2. harvested.status = "yielded" => rows[harvested.key] = 0
    BY <1>5, <2>1, AccountEffect DEF ScoreInv
  <2> QED
    BY <1>5, <2>2, AccountEffect DEF ScoreInv
<1>6. CASE Budgets
  BY <1>6 DEF Budgets, disk, detector, tally, ScoreInv, InLoop
<1>7. ASSUME NEW answered \in BOOLEAN, NEW gauges \in BOOLEAN, NEW sustained \in BOOLEAN, NEW settled \in BOOLEAN,
            Poll(answered, gauges, sustained, settled)
      PROVE  ScoreInv'
  BY <1>7 DEF Poll, disk, tally, ScoreInv, InLoop
<1>8. CASE Start
  <2>1. CASE UNCHANGED <<inflight, pending>>
    BY <1>8, <2>1, StartEffect DEF ScoreInv
  <2>2. CASE pc' = "launch" /\ pending # <<>> /\ Len(inflight) < set.concurrency
             /\ inflight' = Append(inflight, Head(pending)) /\ pending' = Tail(pending)
    BY <1>8, <2>2, StartPlaces, StartEffect DEF ScoreInv
  <2> QED
    BY <1>8, <2>1, <2>2, StartEffect
<1>9. CASE Launch
  BY <1>9 DEF Launch, disk, detector, tally, ScoreInv, InLoop
<1>10. ASSUME NEW k \in Running, Connect(k)
      PROVE  ScoreInv'
  BY <1>10, StreamEffect DEF main, disk, TypeInv, ScoreInv
<1>11. ASSUME NEW k \in Running, Accept(k)
      PROVE  ScoreInv'
  BY <1>11, StreamEffect DEF main, disk, TypeInv, ScoreInv
<1>12. ASSUME NEW k \in Running, NEW last \in BOOLEAN, Chunk(k, last)
      PROVE  ScoreInv'
  BY <1>12, StreamEffect DEF main, disk, TypeInv, ScoreInv
<1>13. ASSUME NEW k \in Running, NEW broken \in BOOLEAN, End(k, broken)
      PROVE  ScoreInv'
  BY <1>13, StreamEffect DEF main, disk, TypeInv, ScoreInv
<1>14. CASE Interrupt
  BY <1>14 DEF Interrupt, disk, detector, tally, ScoreInv, InLoop
<1>15. CASE JoinOne
  <2>1. CASE Gone("interrupted") \/ Gone("raised")
    <3>1. pc' = "off" /\ pending' = <<>> /\ inflight' = <<>>
      BY <2>1 DEF Gone
    <3>2. CASE rows' = rows
      BY <3>1, <3>2, EmptyFacts DEF ScoreInv
    <3>3. CASE inflight # <<>> /\ inflight' = Tail(inflight) /\ rows' = Written(Head(inflight), StatusOf(ro[Head(inflight)]))
      BY <3>1, <3>3, JoinPlaces, WrittenFacts, EmptyFacts DEF ScoreInv
    <3> QED
      BY <1>15, <3>2, <3>3, JoinEffect
  <2>2. CASE /\ inflight # <<>> /\ inflight' = Tail(inflight) /\ UNCHANGED <<pc, harvested, pending>>
             /\ rows' = Written(Head(inflight), StatusOf(ro[Head(inflight)]))
    <3>1. /\ Head(inflight) \in Keys /\ Head(inflight) \in ToSet(inflight)
          /\ ToSet(inflight') = ToSet(inflight) \ {Head(inflight)}
      BY <2>2, JoinPlaces
    <3>2. /\ \A j \in Keys \ {Head(inflight)} : rows'[j] = rows[j]
          /\ rows'[Head(inflight)] <= 1
      BY <2>2, <3>1, WrittenFacts DEF ScoreInv
    <3>3. ToSet(pending) \cap ToSet(inflight) = {} /\ ToSet(pending) \cup ToSet(inflight) \subseteq Keys
      BY QueueFacts DEF PlaceInv, KeyPlace
    <3>4. pc' = "interrupt"
      BY <1>15, <2>2, JoinEffect
    <3> QED
      BY <2>2, <3>1, <3>2, <3>3, <3>4 DEF ScoreInv
  <2> QED
    BY <1>15, <2>1, <2>2, JoinEffect
<1>16. ASSUME NEW tear \in BOOLEAN, Kill(tear)
      PROVE  ScoreInv'
  <2>1. pc' = "off" /\ rows' = rows /\ pending' = <<>> /\ inflight' = <<>>
    BY <1>16 DEF Kill, Gone
  <2> QED
    BY <2>1, EmptyFacts DEF ScoreInv
<1>17. CASE Foreign \/ EngineRestart
  BY <1>17 DEF Foreign, EngineRestart, disk, main, tally, ScoreInv, InLoop
<1>18. CASE TimeOver
  BY <1>18 DEF TimeOver, disk, detector, tally, ScoreInv, InLoop
<1>19. CASE UNCHANGED vars
  BY <1>19 DEF vars, disk, main, detector, tally, ScoreInv, InLoop
<1> QED
  BY NextCases, <1>1, <1>2, <1>3, <1>4, <1>5, <1>6, <1>7, <1>8, <1>9, <1>10, <1>11, <1>12, <1>13, <1>14, <1>15, <1>16, <1>17, <1>18, <1>19

LEMMA ErrorStep ==
  ASSUME TypeInv, PlaceInv, ErrorInv, [Next]_vars
  PROVE  ErrorInv'
<1>1. ASSUME NEW c \in Calls, NEW arms \in Arms(c.efforts), Call(c, arms)
      PROVE  ErrorInv'
  <2>1. pc = "off" => errorsInRow = 0
    BY DEF PlaceInv, RowPlace
  <2>2. errorsInRow' = 0
    BY <1>1, <2>1, CallEffect
  <2> QED
    BY <2>2, BenchAssumption DEF ErrorInv
<1>2. CASE Round
  <2>1. CASE More
    BY <1>2, <2>1 DEF Round, ErrorInv, Holding
  <2>2. CASE ~More
    <3>1. errorsInRow' = 0
      BY <1>2, <2>2 DEF Round, Gone
    <3> QED
      BY <3>1, BenchAssumption DEF ErrorInv
  <2> QED
    BY <2>1, <2>2
<1>3. CASE Harvest
  <2>1. CASE UNCHANGED <<inflight, harvested>>
    BY <1>3, <2>1, HarvestEffect DEF ErrorInv, Holding
  <2>2. ASSUME NEW i \in 1..Len(inflight), inflight' = RemoveAt(inflight, i) PROVE ErrorInv'
    <3>1. Len(inflight') = Len(inflight) - 1 /\ Len(inflight) \in {1, 2} /\ Holding' \in {0, 1}
      BY <2>2, HarvestPlaces DEF Holding
    <3>2. harvested = NoRow /\ UNCHANGED <<errorsInRow, stop>> /\ errorsInRow \in Nat
      BY <1>3, HarvestEffect DEF PlaceInv, RowPlace, TypeInv, LoopType
    <3>3. Holding = 0
      BY <3>2, FlightFacts DEF Holding
    <3>4. MaxErrors \in Nat
      BY BenchAssumption
    <3> QED
      BY <3>1, <3>2, <3>3, <3>4 DEF ErrorInv
  <2> QED
    BY <1>3, <2>1, <2>2, HarvestEffect
<1>4. CASE Write
  BY <1>4 DEF Write, detector, ErrorInv, Holding
<1>5. CASE Account
  <2>1. /\ Len(inflight) \in Nat /\ Len(inflight) + Holding <= 2 /\ Holding = 1 /\ Holding' = 0
    <3>1. harvested # NoRow /\ harvested' = NoRow
      BY <1>5, AccountEffect, Blank, Everyone
    <3> QED
      BY <3>1, FlightFacts, QueueFacts DEF Holding
  <2>2. /\ UNCHANGED inflight /\ errorsInRow \in Nat /\ stop' = (stop \/ errorsInRow' >= MaxErrors)
        /\ errorsInRow' \in {0, errorsInRow, errorsInRow + 1}
    BY <1>5, AccountEffect DEF TypeInv, LoopType
  <2>3. MaxErrors \in Nat \ {0}
    BY BenchAssumption
  <2>4. errorsInRow' \in Nat /\ errorsInRow' <= errorsInRow + 1
    BY <2>2
  <2>5. Len(inflight') = Len(inflight)
    BY <2>2
  <2>6. SUFFICES ASSUME errorsInRow' >= MaxErrors
                 PROVE  stop' /\ errorsInRow' + Len(inflight) <= MaxErrors + 1
    BY <2>1, <2>4, <2>5 DEF ErrorInv
  <2>7. stop'
    BY <2>2, <2>6
  <2>8. errorsInRow >= MaxErrors => errorsInRow + Len(inflight) + 1 <= MaxErrors + 1
    BY <2>1 DEF ErrorInv
  <2>9. \A l, e, m, x \in Nat : /\ l + 1 <= 2 /\ x <= e + 1 /\ (e >= m => e + l + 1 <= m + 1)
                                => x + l <= m + 1
    OBVIOUS
  <2> QED
    BY <2>1, <2>2, <2>3, <2>4, <2>7, <2>8, <2>9
<1>6. CASE Budgets
  BY <1>6 DEF Budgets, disk, detector, tally, ErrorInv, Holding
<1>7. ASSUME NEW answered \in BOOLEAN, NEW gauges \in BOOLEAN, NEW sustained \in BOOLEAN, NEW settled \in BOOLEAN,
            Poll(answered, gauges, sustained, settled)
      PROVE  ErrorInv'
  BY <1>7 DEF Poll, disk, tally, ErrorInv, Holding
<1>8. CASE Start
  <2>1. CASE UNCHANGED inflight
    BY <1>8, <2>1, StartEffect DEF ErrorInv, Holding
  <2>2. CASE ~stop
    BY <1>8, <2>2, StartEffect DEF ErrorInv
  <2> QED
    BY <1>8, <2>1, <2>2, StartEffect
<1>9. CASE Launch
  BY <1>9 DEF Launch, disk, detector, tally, ErrorInv, Holding
<1>10. ASSUME NEW k \in Running, Connect(k)
      PROVE  ErrorInv'
  BY <1>10, StreamEffect DEF main, disk, TypeInv, ErrorInv, Holding
<1>11. ASSUME NEW k \in Running, Accept(k)
      PROVE  ErrorInv'
  BY <1>11, StreamEffect DEF main, disk, TypeInv, ErrorInv, Holding
<1>12. ASSUME NEW k \in Running, NEW last \in BOOLEAN, Chunk(k, last)
      PROVE  ErrorInv'
  BY <1>12, StreamEffect DEF main, disk, TypeInv, ErrorInv, Holding
<1>13. ASSUME NEW k \in Running, NEW broken \in BOOLEAN, End(k, broken)
      PROVE  ErrorInv'
  BY <1>13, StreamEffect DEF main, disk, TypeInv, ErrorInv, Holding
<1>14. CASE Interrupt
  BY <1>14 DEF Interrupt, disk, detector, tally, ErrorInv, Holding
<1>15. CASE JoinOne
  <2>1. CASE Gone("interrupted") \/ Gone("raised")
    <3>1. errorsInRow' = 0
      BY <2>1 DEF Gone
    <3> QED
      BY <3>1, BenchAssumption DEF ErrorInv
  <2>2. CASE inflight # <<>> /\ inflight' = Tail(inflight) /\ UNCHANGED <<errorsInRow, harvested>>
    <3>1. Len(inflight') = Len(inflight) - 1 /\ Len(inflight) \in {1, 2} /\ Holding' = Holding /\ Holding \in {0, 1}
      BY <2>2, JoinPlaces DEF Holding
    <3>2. stop' = stop /\ errorsInRow \in Nat /\ MaxErrors \in Nat
      BY <1>15, BenchAssumption DEF JoinOne, TypeInv, LoopType
    <3> QED
      BY <2>2, <3>1, <3>2 DEF ErrorInv
  <2> QED
    BY <1>15, <2>1, <2>2, JoinEffect
<1>16. ASSUME NEW tear \in BOOLEAN, Kill(tear)
      PROVE  ErrorInv'
  <2>1. errorsInRow' = 0
    BY <1>16 DEF Kill, Gone
  <2> QED
    BY <2>1, BenchAssumption DEF ErrorInv
<1>17. CASE Foreign \/ EngineRestart
  BY <1>17 DEF Foreign, EngineRestart, disk, main, tally, ErrorInv, Holding
<1>18. CASE TimeOver
  BY <1>18 DEF TimeOver, disk, detector, tally, ErrorInv, Holding
<1>19. CASE UNCHANGED vars
  BY <1>19 DEF vars, disk, main, detector, tally, ErrorInv, Holding
<1> QED
  BY NextCases, <1>1, <1>2, <1>3, <1>4, <1>5, <1>6, <1>7, <1>8, <1>9, <1>10, <1>11, <1>12, <1>13, <1>14, <1>15, <1>16, <1>17, <1>18, <1>19

LEMMA SeqFinite ==
  ASSUME NEW S, NEW s \in Seq(S)
  PROVE  IsFiniteSet(ToSet(s))
<1>1. Len(s) \in Nat /\ ToSet(s) = {s[i] : i \in 1..Len(s)}
  BY SeqFacts
<1>2. IsFiniteSet(1..Len(s))
  BY <1>1, FS_Interval
<1>3. [i \in 1..Len(s) |-> s[i]] \in Surjection(1..Len(s), ToSet(s))
  BY <1>1 DEF Surjection
<1> QED
  BY <1>2, <1>3, FS_Surjection

LEMMA CoverStep ==
  ASSUME TypeInv, PlaceInv, CoverInv, [Next]_vars
  PROVE  CoverInv'
<1>1. ASSUME NEW c \in Calls, NEW arms \in Arms(c.efforts), Call(c, arms)
      PROVE  CoverInv'
  <2>1. rows' = rows
    BY <1>1, CallEffect
  <2>2. CASE UNCHANGED <<meta, pc>>
    BY <1>1, <2>1, <2>2, CallEffect DEF CoverInv, Planned, DoneKeys
  <2>3. CASE meta' = Merged(c) /\ \A k \in todo' : k[1] \in ToSet(c.tasks) /\ k[2] \in c.efforts /\ k[3] \in 0..(c.n - 1)
    <3>1. meta.n \in Nat /\ c.n \in Nat \ {0} /\ c.tasks \in Seq(ToSet(c.tasks))
      BY BenchAssumption DEF TypeInv, DiskType
    <3>2. /\ meta'.tasks = meta.tasks \cup ToSet(c.tasks) /\ meta'.efforts = meta.efforts \cup c.efforts
          /\ meta'.n = IF meta.n > c.n THEN meta.n ELSE c.n
      BY <2>3 DEF Merged
    <3>3. meta'.n \in Nat \ {0} /\ meta.n <= meta'.n /\ c.n <= meta'.n
      BY <3>1, <3>2
    <3>4. IsFiniteSet(ToSet(c.tasks))
      BY <3>1, SeqFinite
    <3>5. IsFiniteSet(meta'.tasks)
      BY <3>2, <3>4, FS_Union, ZenonT(30) DEF CoverInv
    <3>6. \A k \in DoneKeys : k[3] \in Nat
      BY DEF DoneKeys, Keys
    <3>7. \A k \in DoneKeys : Planned(k)'
      BY <3>1, <3>2, <3>3, <3>6 DEF CoverInv, Planned
    <3>8. \A k \in todo' : Planned(k)'
      <4>1. \A k \in todo' : k[3] < c.n
        BY <2>3, <3>1
      <4>2. \A k \in todo' : k[3] \in Nat
        BY <2>3, <3>1
      <4> QED
        BY <2>3, <3>1, <3>2, <3>3, <4>1, <4>2 DEF Planned
    <3> QED
      BY <2>1, <3>3, <3>5, <3>7, <3>8 DEF CoverInv, DoneKeys
  <2> QED
    BY <1>1, <2>2, <2>3, CallEffect
<1>2. CASE Round
  BY <1>2 DEF Round, Gone, disk, detector, tally, CoverInv, Planned, DoneKeys, InLoop
<1>3. CASE Harvest
  BY <1>3, HarvestEffect DEF CoverInv, Planned, DoneKeys
<1>4. CASE Write
  <2>1. harvested.key \in Keys /\ harvested.key \in todo
    BY <1>4 DEF Write, PlaceInv, RowPlace, TypeInv, QueueType
  <2>2. rows' = Written(harvested.key, harvested.status) /\ pc = "write" /\ pc' = "account" /\ UNCHANGED <<meta, todo>>
    BY <1>4 DEF Write
  <2>3. DoneKeys' \subseteq DoneKeys \cup {harvested.key}
    BY <2>1, <2>2, WrittenFacts DEF DoneKeys
  <2> QED
    BY <2>1, <2>2, <2>3 DEF CoverInv, Planned
<1>5. CASE Account
  BY <1>5, AccountEffect DEF CoverInv, Planned, DoneKeys
<1>6. CASE Budgets
  BY <1>6 DEF Budgets, disk, detector, tally, CoverInv, Planned, DoneKeys, InLoop
<1>7. ASSUME NEW answered \in BOOLEAN, NEW gauges \in BOOLEAN, NEW sustained \in BOOLEAN, NEW settled \in BOOLEAN,
            Poll(answered, gauges, sustained, settled)
      PROVE  CoverInv'
  BY <1>7 DEF Poll, disk, tally, CoverInv, Planned, DoneKeys, InLoop
<1>8. CASE Start
  BY <1>8, StartEffect DEF CoverInv, Planned, DoneKeys
<1>9. CASE Launch
  BY <1>9 DEF Launch, disk, detector, tally, CoverInv, Planned, DoneKeys, InLoop
<1>10. ASSUME NEW k \in Running, Connect(k)
      PROVE  CoverInv'
  BY <1>10, StreamEffect DEF main, disk, TypeInv, CoverInv, Planned, DoneKeys
<1>11. ASSUME NEW k \in Running, Accept(k)
      PROVE  CoverInv'
  BY <1>11, StreamEffect DEF main, disk, TypeInv, CoverInv, Planned, DoneKeys
<1>12. ASSUME NEW k \in Running, NEW last \in BOOLEAN, Chunk(k, last)
      PROVE  CoverInv'
  BY <1>12, StreamEffect DEF main, disk, TypeInv, CoverInv, Planned, DoneKeys
<1>13. ASSUME NEW k \in Running, NEW broken \in BOOLEAN, End(k, broken)
      PROVE  CoverInv'
  BY <1>13, StreamEffect DEF main, disk, TypeInv, CoverInv, Planned, DoneKeys
<1>14. CASE Interrupt
  BY <1>14 DEF Interrupt, disk, detector, tally, CoverInv, Planned, DoneKeys, InLoop
<1>15. CASE JoinOne
  <2>1. pc = "interrupt" /\ UNCHANGED <<meta, todo>>
    BY <1>15, JoinEffect
  <2>2. DoneKeys' \subseteq DoneKeys \cup todo
    <3>1. CASE rows' = rows
      BY <3>1 DEF DoneKeys
    <3>2. CASE inflight # <<>> /\ rows' = Written(Head(inflight), StatusOf(ro[Head(inflight)]))
      <4>1. Head(inflight) \in todo /\ Head(inflight) \in Keys
        BY <3>2, QueueFacts, TailFacts
      <4> QED
        BY <3>2, <4>1, WrittenFacts DEF DoneKeys
    <3> QED
      BY <1>15, <3>1, <3>2, JoinEffect
  <2> QED
    BY <2>1, <2>2 DEF CoverInv, Planned
<1>16. ASSUME NEW tear \in BOOLEAN, Kill(tear)
      PROVE  CoverInv'
  BY <1>16 DEF Kill, Gone, tally, CoverInv, Planned, DoneKeys, InLoop
<1>17. CASE Foreign \/ EngineRestart
  BY <1>17 DEF Foreign, EngineRestart, disk, main, tally, CoverInv, Planned, DoneKeys, InLoop
<1>18. CASE TimeOver
  BY <1>18 DEF TimeOver, disk, detector, tally, CoverInv, Planned, DoneKeys, InLoop
<1>19. CASE UNCHANGED vars
  BY <1>19 DEF vars, disk, main, detector, tally, CoverInv, Planned, DoneKeys, InLoop
<1> QED
  BY NextCases, <1>1, <1>2, <1>3, <1>4, <1>5, <1>6, <1>7, <1>8, <1>9, <1>10, <1>11, <1>12, <1>13, <1>14, <1>15, <1>16, <1>17, <1>18, <1>19

LEMMA TallyStep ==
  ASSUME TypeInv, PlaceInv, TallyInv, [Next]_vars
  PROVE  TallyInv'
<1>1. ASSUME NEW c \in Calls, NEW arms \in Arms(c.efforts), Call(c, arms)
      PROVE  TallyInv'
  <2>1. CASE todo' = {} /\ exit' = (IF torn THEN "raised" ELSE "ok") /\ UNCHANGED <<pc, inflight, tally>>
    BY <1>1, <2>1, CallEffect DEF TallyInv, AttemptsRecorded, InLoop
  <2>2. CASE pc' = "loop" /\ inflight' = <<>> /\ recorded' = 0 /\ attempts' = 0
    BY <2>2, EmptyFacts DEF TallyInv, AttemptsRecorded, InLoop
  <2> QED
    BY <1>1, <2>1, <2>2, CallEffect
<1>2. CASE Round
  <2>1. Len(inflight) \in Nat /\ (inflight = <<>> <=> Len(inflight) = 0) /\ recorded \in Nat /\ attempts \in Nat
    BY QueueFacts DEF TypeInv, CountType
  <2>2. CASE More
    BY <1>2, <2>1, <2>2 DEF Round, disk, tally, TallyInv, AttemptsRecorded, InLoop
  <2>3. CASE ~More
    BY <1>2, <2>1, <2>3 DEF Round, Gone, More, disk, tally, TallyInv, AttemptsRecorded, InLoop
  <2> QED
    BY <2>2, <2>3
<1>3. CASE Harvest
  <2>1. Len(inflight) \in Nat /\ recorded \in Nat /\ attempts \in Nat /\ pc = "harvest" /\ UNCHANGED <<recorded, attempts>>
    BY <1>3, QueueFacts, HarvestEffect DEF TypeInv, CountType, tally
  <2>2. recorded + Len(inflight) = attempts
    BY <2>1 DEF TallyInv, InLoop
  <2>3. CASE pc' = "budget" /\ UNCHANGED inflight
    BY <2>1, <2>2, <2>3 DEF TallyInv, AttemptsRecorded, InLoop
  <2>4. ASSUME NEW i \in 1..Len(inflight), pc' = "write", inflight' = RemoveAt(inflight, i)
        PROVE  TallyInv'
    BY <2>1, <2>2, <2>4, HarvestPlaces DEF TallyInv, AttemptsRecorded, InLoop
  <2> QED
    BY <1>3, <2>3, <2>4, HarvestEffect
<1>4. CASE Write
  <2>1. Len(inflight) \in Nat /\ recorded \in Nat /\ attempts \in Nat
    BY QueueFacts DEF TypeInv, CountType
  <2> QED
    BY <1>4, <2>1 DEF Write, TallyInv, AttemptsRecorded, InLoop
<1>5. CASE Account
  BY <1>5, AccountEffect DEF tally, TallyInv, AttemptsRecorded, InLoop
<1>6. CASE Budgets
  BY <1>6 DEF Budgets, disk, detector, tally, TallyInv, AttemptsRecorded, InLoop
<1>7. ASSUME NEW answered \in BOOLEAN, NEW gauges \in BOOLEAN, NEW sustained \in BOOLEAN, NEW settled \in BOOLEAN,
            Poll(answered, gauges, sustained, settled)
      PROVE  TallyInv'
  BY <1>7 DEF Poll, disk, tally, TallyInv, AttemptsRecorded, InLoop
<1>8. CASE Start
  <2>1. Len(inflight) \in Nat /\ recorded \in Nat /\ attempts \in Nat
    BY QueueFacts DEF TypeInv, CountType
  <2>2. CASE pc' = "loop" /\ UNCHANGED <<inflight, attempts>>
    BY <1>8, <2>1, <2>2, StartEffect DEF TallyInv, AttemptsRecorded, InLoop
  <2>3. CASE /\ pc' = "launch" /\ pending # <<>> /\ Len(inflight) < set.concurrency /\ attempts' = attempts + 1
             /\ inflight' = Append(inflight, Head(pending)) /\ pending' = Tail(pending)
    BY <1>8, <2>1, <2>3, StartEffect, StartPlaces DEF TallyInv, AttemptsRecorded, InLoop
  <2> QED
    BY <1>8, <2>2, <2>3, StartEffect
<1>9. CASE Launch
  BY <1>9 DEF Launch, disk, detector, tally, TallyInv, AttemptsRecorded, InLoop
<1>10. ASSUME NEW k \in Running, Connect(k)
      PROVE  TallyInv'
  BY <1>10, StreamEffect DEF main, disk, tally, TypeInv, TallyInv, AttemptsRecorded
<1>11. ASSUME NEW k \in Running, Accept(k)
      PROVE  TallyInv'
  BY <1>11, StreamEffect DEF main, disk, tally, TypeInv, TallyInv, AttemptsRecorded
<1>12. ASSUME NEW k \in Running, NEW last \in BOOLEAN, Chunk(k, last)
      PROVE  TallyInv'
  BY <1>12, StreamEffect DEF main, disk, tally, TypeInv, TallyInv, AttemptsRecorded
<1>13. ASSUME NEW k \in Running, NEW broken \in BOOLEAN, End(k, broken)
      PROVE  TallyInv'
  BY <1>13, StreamEffect DEF main, disk, tally, TypeInv, TallyInv, AttemptsRecorded
<1>14. CASE Interrupt
  <2>1. Len(inflight) \in Nat /\ recorded \in Nat /\ attempts \in Nat
    BY QueueFacts DEF TypeInv, CountType
  <2> QED
    BY <1>14, <2>1 DEF Interrupt, tally, disk, detector, TallyInv, AttemptsRecorded, InLoop
<1>15. CASE JoinOne
  <2>1. Len(inflight) \in Nat /\ recorded \in Nat /\ attempts \in Nat /\ (inflight = <<>> => Len(inflight) = 0)
    BY QueueFacts DEF TypeInv, CountType
  <2>2. pc = "interrupt" /\ attempts' = attempts
    BY <1>15, JoinEffect
  <2>3. CASE inflight = <<>> /\ recorded' = recorded /\ Gone("interrupted")
    BY <2>1, <2>2, <2>3 DEF Gone, TallyInv, AttemptsRecorded, InLoop
  <2>4. CASE Gone("raised")
    BY <2>4 DEF Gone, TallyInv, AttemptsRecorded, InLoop
  <2>5. CASE inflight # <<>> /\ inflight' = Tail(inflight) /\ recorded' = recorded + 1 /\ UNCHANGED pc
    BY <2>1, <2>2, <2>5, JoinPlaces DEF TallyInv, AttemptsRecorded, InLoop
  <2> QED
    BY <1>15, <2>3, <2>4, <2>5, JoinEffect
<1>16. ASSUME NEW tear \in BOOLEAN, Kill(tear)
      PROVE  TallyInv'
  BY <1>16 DEF Kill, Gone, tally, TallyInv, AttemptsRecorded, InLoop
<1>17. CASE Foreign \/ EngineRestart
  BY <1>17 DEF Foreign, EngineRestart, disk, main, tally, TallyInv, AttemptsRecorded, InLoop
<1>18. CASE TimeOver
  BY <1>18 DEF TimeOver, disk, detector, tally, TallyInv, AttemptsRecorded, InLoop
<1>19. CASE UNCHANGED vars
  BY <1>19 DEF vars, disk, main, detector, tally, TallyInv, AttemptsRecorded, InLoop
<1> QED
  BY NextCases, <1>1, <1>2, <1>3, <1>4, <1>5, <1>6, <1>7, <1>8, <1>9, <1>10, <1>11, <1>12, <1>13, <1>14, <1>15, <1>16, <1>17, <1>18, <1>19

\* Tokens made are numbers, and those of more are more.
LEMMA MadeFacts ==
  ASSUME TypeInv, NEW r, NEW q, \A k \in Keys : r[k].tokens \in Nat /\ q[k].tokens \in Nat /\ r[k].tokens <= q[k].tokens
  PROVE  /\ SpentWith(r) \in Nat /\ SpentWith(q) \in Nat /\ SpentWith(r) <= SpentWith(q)
         /\ MadeWith(r) = SpentWith(r) + harvested.tokens /\ MadeWith(q) = SpentWith(q) + harvested.tokens
         /\ harvested.tokens \in Nat
<1>1. Len(inflight) \in Nat /\ (inflight = <<>> <=> Len(inflight) = 0) /\ \A i \in 1..Len(inflight) : inflight[i] \in Keys
  BY QueueFacts
<1>2. spent \in Nat /\ harvested.tokens \in Nat
  BY DEF TypeInv, LoopType, Rows
<1>3. inflight # <<>> => r[inflight[1]].tokens \in Nat /\ q[inflight[1]].tokens \in Nat /\ r[inflight[1]].tokens <= q[inflight[1]].tokens
  BY <1>1
<1>4. ~(Len(inflight) < 2) => r[inflight[2]].tokens \in Nat /\ q[inflight[2]].tokens \in Nat /\ r[inflight[2]].tokens <= q[inflight[2]].tokens
  BY <1>1
<1>5. CASE inflight = <<>>
  BY <1>1, <1>2, <1>5 DEF SpentWith, MadeWith
<1>6. CASE inflight # <<>> /\ Len(inflight) < 2
  BY <1>1, <1>2, <1>3, <1>6, SMTT(20) DEF SpentWith, MadeWith
<1>7. CASE inflight # <<>> /\ ~(Len(inflight) < 2)
  <2>1. /\ SpentWith(r) = spent + r[inflight[1]].tokens + r[inflight[2]].tokens
        /\ SpentWith(q) = spent + q[inflight[1]].tokens + q[inflight[2]].tokens
    BY <1>7 DEF SpentWith
  <2>2. \A s, a, b, c, d \in Nat : a <= c /\ b <= d => s + a + b \in Nat /\ s + c + d \in Nat /\ s + a + b <= s + c + d
    OBVIOUS
  <2>3. SpentWith(r) \in Nat /\ SpentWith(q) \in Nat /\ SpentWith(r) <= SpentWith(q)
    <3>1. /\ r[inflight[1]].tokens \in Nat /\ q[inflight[1]].tokens \in Nat /\ r[inflight[1]].tokens <= q[inflight[1]].tokens
          /\ r[inflight[2]].tokens \in Nat /\ q[inflight[2]].tokens \in Nat /\ r[inflight[2]].tokens <= q[inflight[2]].tokens
      BY <1>3, <1>4, <1>7
    <3>2. /\ spent + r[inflight[1]].tokens + r[inflight[2]].tokens \in Nat
          /\ spent + q[inflight[1]].tokens + q[inflight[2]].tokens \in Nat
          /\ spent + r[inflight[1]].tokens + r[inflight[2]].tokens <= spent + q[inflight[1]].tokens + q[inflight[2]].tokens
      BY <1>2, <2>2, <3>1, Zenon
    <3> QED
      BY <2>1, <3>2, Zenon
  <2> QED
    BY <1>2, <2>3 DEF MadeWith
<1> QED
  BY <1>5, <1>6, <1>7

LEMMA MadeNat ==
  ASSUME TypeInv, NEW r \in [Keys -> Rollouts]
  PROVE  /\ SpentWith(r) \in Nat /\ MadeWith(r) \in Nat
         /\ harvested.tokens \in Nat /\ MadeWith(r) = SpentWith(r) + harvested.tokens
<1>1. \A k \in Keys : r[k].tokens \in Nat
  BY DEF Rollouts
<1>0. \A k \in Keys : r[k].tokens \in Nat /\ r[k].tokens <= r[k].tokens
  BY <1>1
<1>2. SpentWith(r) \in Nat /\ MadeWith(r) = SpentWith(r) + harvested.tokens /\ harvested.tokens \in Nat
  BY <1>0, MadeFacts
<1> QED
  BY <1>2

\* A thread that runs is that of a rollout in flight.
LEMMA RunningFacts ==
  ASSUME TypeInv, PlaceInv, NEW k \in Running
  PROVE  k \in Keys /\ pc \in InLoop /\ k \in ToSet(inflight) /\ ro[k].at \notin {"none", "new", "dead"}
<1>1. k \in Keys /\ pc \in InLoop /\ pc # "interrupt" /\ ro[k].at \notin {"none", "new", "dead"}
  BY DEF Running, InLoop
<1>2. ro[k] # NoRollout
  BY <1>1, Blank
<1> QED
  BY <1>1, <1>2 DEF PlaceInv, RolloutPlace

LEMMA AloneStep ==
  ASSUME TypeInv, PlaceInv, AloneInv, [Next]_vars
  PROVE  AloneInv'
<1>1. ASSUME NEW c \in Calls, NEW arms \in Arms(c.efforts), Call(c, arms)
      PROVE  AloneInv'
  <2>1. CASE UNCHANGED <<set, harvested, ro>>
    BY <2>1 DEF AloneInv
  <2>2. CASE harvested' = NoRow /\ ro' = [k \in Keys |-> NoRollout]
    BY <2>2, Blank DEF AloneInv
  <2> QED
    BY <1>1, <2>1, <2>2, CallEffect
<1>2. CASE Round
  <2>1. CASE UNCHANGED <<set, harvested, ro>>
    BY <2>1 DEF AloneInv
  <2>2. CASE harvested' = NoRow /\ ro' = [k \in Keys |-> NoRollout]
    BY <2>2, Blank DEF AloneInv
  <2> QED
    BY <1>2, <2>1, <2>2 DEF Round, Gone
<1>3. CASE Harvest
  <2>1. CASE UNCHANGED <<set, harvested, ro>>
    BY <2>1 DEF AloneInv
  <2>2. ASSUME NEW i \in 1..Len(inflight), harvested' = RowOf(inflight[i]), ro' = [ro EXCEPT ![inflight[i]] = NoRollout]
        PROVE  AloneInv'
    <3>1. inflight[i] \in Keys /\ ro \in [Keys -> Rollouts]
      BY QueueFacts DEF TypeInv, RolloutType
    <3>2. harvested'.over = ro[inflight[i]].over
      BY <2>2, <3>1, RowFacts
    <3>3. \A k \in Keys : ro'[k] \in {ro[k], NoRollout}
      BY <2>2, <3>1
    <3>4. set' = set
      BY <1>3, HarvestEffect
    <3> QED
      BY <3>1, <3>2, <3>3, <3>4, Blank DEF AloneInv
  <2> QED
    BY <1>3, <2>1, <2>2, HarvestEffect
<1>4. CASE Write
  BY <1>4 DEF Write, detector, AloneInv
<1>5. CASE Account
  BY <1>5, AccountEffect, Blank DEF AloneInv
<1>6. CASE Budgets
  BY <1>6, AbortEffect DEF Budgets, disk, detector, tally, AloneInv
<1>7. ASSUME NEW answered \in BOOLEAN, NEW gauges \in BOOLEAN, NEW sustained \in BOOLEAN, NEW settled \in BOOLEAN,
            Poll(answered, gauges, sustained, settled)
      PROVE  AloneInv'
  BY <1>7, AbortEffect DEF Poll, disk, tally, AloneInv
<1>8. CASE Start
  <2>1. UNCHANGED <<set, harvested>> /\ ro \in [Keys -> Rollouts]
    BY <1>8, StartEffect DEF TypeInv, RolloutType
  <2>2. CASE UNCHANGED ro
    BY <2>1, <2>2 DEF AloneInv
  <2>3. CASE pending # <<>> /\ ro' = [ro EXCEPT ![Head(pending)] = [NoRollout EXCEPT !.at = "new"]]
    <3>1. \A k \in Keys : ro'[k] = ro[k] \/ ro'[k] = [NoRollout EXCEPT !.at = "new"]
      BY <2>1, <2>3
    <3>2. ~[NoRollout EXCEPT !.at = "new"].over
      BY DEF NoRollout
    <3> QED
      BY <2>1, <3>1, <3>2 DEF AloneInv
  <2> QED
    BY <1>8, <2>2, <2>3, StartEffect
<1>9. CASE Launch
  <2>1. ro' = [ro EXCEPT ![Last(inflight)].at = "started"] /\ ro \in [Keys -> Rollouts] /\ UNCHANGED <<set, harvested>>
    BY <1>9 DEF Launch, TypeInv, RolloutType
  <2>2. \A k \in Keys : ro'[k].over = ro[k].over
    BY <2>1 DEF Rollouts
  <2> QED
    BY <2>1, <2>2 DEF AloneInv
<1>10. ASSUME NEW k \in Running, Connect(k)
      PROVE  AloneInv'
  <2>1. UNCHANGED <<set, harvested>> /\ k \in Keys /\ \A j \in Keys \ {k} : ro'[j] = ro[j]
    BY <1>10, StreamEffect DEF main
  <2>2. SUFFICES ASSUME set.concurrency = 1
                 PROVE  ~ro'[k].over
    BY <2>1, <2>2 DEF AloneInv
  <2>3. harvested = NoRow
    <3>1. Len(inflight) \in Nat /\ Len(inflight) # 0
      BY QueueFacts, RunningFacts, EmptyFacts
    <3> QED
      BY <2>2, <3>1, FlightFacts
  <2>4. MadeWith(ro') = SpentWith(ro') /\ SpentWith(ro') \in Nat
    <3>1. ro' \in [Keys -> Rollouts]
      BY <1>10, StreamEffect
    <3>2. SpentWith(ro') \in Nat /\ MadeWith(ro') = SpentWith(ro') + harvested.tokens
      BY <3>1, MadeNat
    <3>3. harvested.tokens = 0
      BY <2>3, Blank
    <3> QED
      BY <3>2, <3>3
  <2>5. ro'[k].over = ro[k].over \/ (~OverBudget(ro') /\ (ro'[k].over <=> MadeWith(ro') > Budget))
    BY <1>10, StreamEffect
  <2> QED
    BY <2>1, <2>2, <2>4, <2>5 DEF AloneInv, OverBudget
<1>11. ASSUME NEW k \in Running, Accept(k)
      PROVE  AloneInv'
  <2>1. UNCHANGED <<set, harvested>> /\ k \in Keys /\ \A j \in Keys \ {k} : ro'[j] = ro[j]
    BY <1>11, StreamEffect DEF main
  <2>2. SUFFICES ASSUME set.concurrency = 1
                 PROVE  ~ro'[k].over
    BY <2>1, <2>2 DEF AloneInv
  <2>3. harvested = NoRow
    <3>1. Len(inflight) \in Nat /\ Len(inflight) # 0
      BY QueueFacts, RunningFacts, EmptyFacts
    <3> QED
      BY <2>2, <3>1, FlightFacts
  <2>4. MadeWith(ro') = SpentWith(ro') /\ SpentWith(ro') \in Nat
    <3>1. ro' \in [Keys -> Rollouts]
      BY <1>11, StreamEffect
    <3>2. SpentWith(ro') \in Nat /\ MadeWith(ro') = SpentWith(ro') + harvested.tokens
      BY <3>1, MadeNat
    <3>3. harvested.tokens = 0
      BY <2>3, Blank
    <3> QED
      BY <3>2, <3>3
  <2>5. ro'[k].over = ro[k].over \/ (~OverBudget(ro') /\ (ro'[k].over <=> MadeWith(ro') > Budget))
    BY <1>11, StreamEffect
  <2> QED
    BY <2>1, <2>2, <2>4, <2>5 DEF AloneInv, OverBudget
<1>12. ASSUME NEW k \in Running, NEW last \in BOOLEAN, Chunk(k, last)
      PROVE  AloneInv'
  <2>1. UNCHANGED <<set, harvested>> /\ k \in Keys /\ \A j \in Keys \ {k} : ro'[j] = ro[j]
    BY <1>12, StreamEffect DEF main
  <2>2. SUFFICES ASSUME set.concurrency = 1
                 PROVE  ~ro'[k].over
    BY <2>1, <2>2 DEF AloneInv
  <2>3. harvested = NoRow
    <3>1. Len(inflight) \in Nat /\ Len(inflight) # 0
      BY QueueFacts, RunningFacts, EmptyFacts
    <3> QED
      BY <2>2, <3>1, FlightFacts
  <2>4. MadeWith(ro') = SpentWith(ro') /\ SpentWith(ro') \in Nat
    <3>1. ro' \in [Keys -> Rollouts]
      BY <1>12, StreamEffect
    <3>2. SpentWith(ro') \in Nat /\ MadeWith(ro') = SpentWith(ro') + harvested.tokens
      BY <3>1, MadeNat
    <3>3. harvested.tokens = 0
      BY <2>3, Blank
    <3> QED
      BY <3>2, <3>3
  <2>5. ro'[k].over = ro[k].over \/ (~OverBudget(ro') /\ (ro'[k].over <=> MadeWith(ro') > Budget))
    BY <1>12, StreamEffect
  <2> QED
    BY <2>1, <2>2, <2>4, <2>5 DEF AloneInv, OverBudget
<1>13. ASSUME NEW k \in Running, NEW broken \in BOOLEAN, End(k, broken)
      PROVE  AloneInv'
  <2>1. UNCHANGED <<set, harvested>> /\ k \in Keys /\ \A j \in Keys \ {k} : ro'[j] = ro[j]
    BY <1>13, StreamEffect DEF main
  <2>2. SUFFICES ASSUME set.concurrency = 1
                 PROVE  ~ro'[k].over
    BY <2>1, <2>2 DEF AloneInv
  <2>3. harvested = NoRow
    <3>1. Len(inflight) \in Nat /\ Len(inflight) # 0
      BY QueueFacts, RunningFacts, EmptyFacts
    <3> QED
      BY <2>2, <3>1, FlightFacts
  <2>4. MadeWith(ro') = SpentWith(ro') /\ SpentWith(ro') \in Nat
    <3>1. ro' \in [Keys -> Rollouts]
      BY <1>13, StreamEffect
    <3>2. SpentWith(ro') \in Nat /\ MadeWith(ro') = SpentWith(ro') + harvested.tokens
      BY <3>1, MadeNat
    <3>3. harvested.tokens = 0
      BY <2>3, Blank
    <3> QED
      BY <3>2, <3>3
  <2>5. ro'[k].over = ro[k].over \/ (~OverBudget(ro') /\ (ro'[k].over <=> MadeWith(ro') > Budget))
    BY <1>13, StreamEffect
  <2> QED
    BY <2>1, <2>2, <2>4, <2>5 DEF AloneInv, OverBudget
<1>14. CASE Interrupt
  BY <1>14, AbortEffect DEF Interrupt, disk, detector, tally, AloneInv
<1>15. CASE JoinOne
  <2>1. CASE Gone("interrupted") \/ Gone("raised")
    <3>1. harvested' = NoRow /\ ro' = [k \in Keys |-> NoRollout]
      BY <2>1 DEF Gone
    <3> QED
      BY <3>1, Blank DEF AloneInv
  <2>2. CASE UNCHANGED <<harvested, ro>>
    BY <1>15, <2>2, JoinEffect DEF AloneInv
  <2> QED
    BY <1>15, <2>1, <2>2, JoinEffect
<1>16. ASSUME NEW tear \in BOOLEAN, Kill(tear)
      PROVE  AloneInv'
  <2>1. harvested' = NoRow /\ ro' = [k \in Keys |-> NoRollout]
    BY <1>16 DEF Kill, Gone
  <2> QED
    BY <2>1, Blank DEF AloneInv
<1>17. CASE Foreign \/ EngineRestart
  BY <1>17 DEF Foreign, EngineRestart, disk, main, tally, AloneInv
<1>18. CASE TimeOver
  BY <1>18 DEF TimeOver, disk, detector, tally, AloneInv
<1>19. CASE UNCHANGED vars
  BY <1>19 DEF vars, disk, main, detector, tally, AloneInv
<1> QED
  BY NextCases, <1>1, <1>2, <1>3, <1>4, <1>5, <1>6, <1>7, <1>8, <1>9, <1>10, <1>11, <1>12, <1>13, <1>14, <1>15, <1>16, <1>17, <1>18, <1>19

\* Nothing of what was made is lost when only the rollouts move.
LEMMA MadeHeld ==
  ASSUME TypeInv, UNCHANGED <<spent, inflight, harvested>>,
         \A j \in Keys : ro[j].tokens \in Nat /\ ro'[j].tokens \in Nat /\ ro[j].tokens <= ro'[j].tokens
  PROVE  MadeWith(ro) <= MadeWith(ro)'
<1>1. MadeWith(ro)' = MadeWith(ro')
  BY DEF MadeWith, SpentWith
<1>2. /\ SpentWith(ro) \in Nat /\ SpentWith(ro') \in Nat /\ SpentWith(ro) <= SpentWith(ro')
      /\ MadeWith(ro) = SpentWith(ro) + harvested.tokens /\ MadeWith(ro') = SpentWith(ro') + harvested.tokens
      /\ harvested.tokens \in Nat
  BY MadeFacts
<1> QED
  BY <1>1, <1>2

\* In the loop what an invocation has made only grows.
LEMMA MadeStep ==
  ASSUME TypeInv, PlaceInv, pc \in InLoop, pc' \in InLoop, [Next]_vars
  PROVE  MadeWith(ro) <= MadeWith(ro)'
<1>1. ASSUME NEW c \in Calls, NEW arms \in Arms(c.efforts), Call(c, arms)
      PROVE  MadeWith(ro) <= MadeWith(ro)'
  BY <1>1, CallEffect DEF InLoop
<1>2. CASE Round
  <2>1. UNCHANGED <<spent, inflight, harvested, ro>>
    BY <1>2 DEF Round, Gone, InLoop
  <2>2. ro \in [Keys -> Rollouts]
    BY DEF TypeInv, RolloutType
  <2>3. \A j \in Keys : ro[j].tokens \in Nat
    BY <2>2 DEF Rollouts
  <2>4. \A j \in Keys : ro'[j].tokens \in Nat /\ ro[j].tokens <= ro'[j].tokens
    BY <2>1, <2>3
  <2> QED
    BY <2>1, <2>3, <2>4, MadeHeld
<1>3. CASE Harvest
  <2>0. ro \in [Keys -> Rollouts] /\ spent \in Nat /\ spent' = spent /\ harvested = NoRow
    BY <1>3, HarvestEffect DEF TypeInv, RolloutType, LoopType, PlaceInv, RowPlace
  <2>1. \A j \in Keys : ro[j].tokens \in Nat
    BY <2>0 DEF Rollouts
  <2>2. CASE UNCHANGED <<inflight, harvested, ro>>
    <3>1. \A j \in Keys : ro'[j].tokens \in Nat /\ ro[j].tokens <= ro'[j].tokens
      BY <2>1, <2>2
    <3> QED
      BY <2>0, <2>1, <2>2, <3>1, MadeHeld
  <2>3. ASSUME NEW i \in 1..Len(inflight), inflight' = RemoveAt(inflight, i), harvested' = RowOf(inflight[i]),
               ro' = [ro EXCEPT ![inflight[i]] = NoRollout]
        PROVE  MadeWith(ro) <= MadeWith(ro)'
    <3>1. /\ Len(inflight) \in {1, 2} /\ \A j \in 1..Len(inflight) : inflight[j] \in Keys
          /\ inflight # <<>>
      <4>1. Len(inflight) \in {1, 2}
        BY <2>3, HarvestPlaces
      <4> QED
        BY <4>1, QueueFacts
    <3>2. harvested'.tokens = ro[inflight[i]].tokens /\ harvested.tokens = 0
      BY <2>0, <2>3, <3>1, RowFacts, Blank
    <3>3. CASE Len(inflight) = 1
      <4>1. inflight' = <<>> /\ Len(inflight') = 0 /\ i = 1
        BY <2>3, <3>1, <3>3, HarvestPlaces
      <4>2. MadeWith(ro)' = spent + 0 + 0 + ro[inflight[1]].tokens
        BY <2>0, <3>2, <4>1 DEF MadeWith, SpentWith
      <4>3. MadeWith(ro) = spent + ro[inflight[1]].tokens + 0 + 0
        BY <3>1, <3>2, <3>3 DEF MadeWith, SpentWith
      <4>4. ro[inflight[1]].tokens \in Nat
        BY <2>1, <3>1, <3>3
      <4> QED
        BY <2>0, <4>2, <4>3, <4>4
    <3>4. CASE Len(inflight) = 2
      <4>1. inflight' = <<inflight[3 - i]>> /\ i \in {1, 2} /\ 3 - i \in {1, 2} /\ 3 - i # i
        BY <2>3, <3>4, HarvestPlaces
      <4>2. inflight[3 - i] # inflight[i]
        BY <2>3, <3>4, <4>1, QueueFacts, Distinct DEF PlaceInv, KeyPlace
      <4>3. ro'[inflight'[1]].tokens = ro[inflight[3 - i]].tokens /\ inflight' # <<>> /\ Len(inflight') = 1
        BY <2>0, <2>3, <3>1, <3>4, <4>1, <4>2
      <4>4. MadeWith(ro)' = spent + ro[inflight[3 - i]].tokens + 0 + ro[inflight[i]].tokens
        BY <2>0, <3>2, <4>3 DEF MadeWith, SpentWith
      <4>5. MadeWith(ro) = spent + ro[inflight[1]].tokens + ro[inflight[2]].tokens + 0
        BY <3>1, <3>2, <3>4 DEF MadeWith, SpentWith
      <4>6. ro[inflight[1]].tokens \in Nat /\ ro[inflight[2]].tokens \in Nat
        BY <2>1, <3>1, <3>4
      <4>7. CASE i = 1
        BY <2>0, <4>4, <4>5, <4>6, <4>7, SMTT(20)
      <4>8. CASE i = 2
        BY <2>0, <4>4, <4>5, <4>6, <4>8
      <4> QED
        BY <4>1, <4>7, <4>8
    <3> QED
      BY <3>1, <3>3, <3>4
  <2> QED
    BY <1>3, <2>2, <2>3, HarvestEffect
<1>4. CASE Write
  <2>1. UNCHANGED <<spent, inflight, harvested, ro>>
    BY <1>4 DEF Write, detector
  <2>2. ro \in [Keys -> Rollouts]
    BY DEF TypeInv, RolloutType
  <2>3. \A j \in Keys : ro[j].tokens \in Nat
    BY <2>2 DEF Rollouts
  <2>4. \A j \in Keys : ro'[j].tokens \in Nat /\ ro[j].tokens <= ro'[j].tokens
    BY <2>1, <2>3
  <2> QED
    BY <2>1, <2>3, <2>4, MadeHeld
<1>5. CASE Account
  <2>1. spent' = spent + harvested.tokens /\ harvested' = NoRow /\ UNCHANGED <<inflight, ro>> /\ harvested.tokens \in Nat /\ spent \in Nat
    BY <1>5, AccountEffect DEF TypeInv, LoopType
  <2>2. ro \in [Keys -> Rollouts] /\ harvested'.tokens = 0
    BY <2>1, Blank DEF TypeInv, RolloutType
  <2> DEFINE a == IF inflight = <<>> THEN 0 ELSE ro[inflight[1]].tokens
             b == IF Len(inflight) < 2 THEN 0 ELSE ro[inflight[2]].tokens
  <2>3. MadeWith(ro)' = spent + harvested.tokens + a + b + 0 /\ MadeWith(ro) = spent + a + b + harvested.tokens
    BY <2>1, <2>2 DEF MadeWith, SpentWith
  <2>4. a \in Nat /\ b \in Nat
    <3>1. \A j \in Keys : ro[j].tokens \in Nat
      BY <2>2 DEF Rollouts
    <3>2. inflight # <<>> => inflight[1] \in Keys
      BY QueueFacts
    <3>3. ~(Len(inflight) < 2) => inflight[2] \in Keys
      BY QueueFacts
    <3> QED
      BY <3>1, <3>2, <3>3
  <2> HIDE DEF a, b
  <2> QED
    BY <2>1, <2>3, <2>4
<1>6. CASE Budgets
  <2>1. UNCHANGED <<spent, inflight, harvested>>
    BY <1>6 DEF Budgets, disk, detector, tally
  <2>2. ro' \in [Keys -> Rollouts] /\ \A j \in Keys : ro'[j].tokens = ro[j].tokens
    BY <1>6, AbortEffect
  <2>3. \A j \in Keys : ro[j].tokens \in Nat /\ ro'[j].tokens \in Nat
    BY <2>2 DEF TypeInv, RolloutType, Rollouts
  <2> QED
    BY <2>1, <2>2, <2>3, MadeHeld
<1>7. ASSUME NEW answered \in BOOLEAN, NEW gauges \in BOOLEAN, NEW sustained \in BOOLEAN, NEW settled \in BOOLEAN,
            Poll(answered, gauges, sustained, settled)
      PROVE  MadeWith(ro) <= MadeWith(ro)'
  <2>1. UNCHANGED <<spent, inflight, harvested>>
    BY <1>7 DEF Poll, disk, tally
  <2>2. ro' \in [Keys -> Rollouts] /\ \A j \in Keys : ro'[j].tokens = ro[j].tokens
    BY <1>7, AbortEffect
  <2>3. \A j \in Keys : ro[j].tokens \in Nat /\ ro'[j].tokens \in Nat
    BY <2>2 DEF TypeInv, RolloutType, Rollouts
  <2> QED
    BY <2>1, <2>2, <2>3, MadeHeld
<1>8. CASE Start
  <2>0. ro \in [Keys -> Rollouts] /\ spent \in Nat /\ UNCHANGED <<spent, harvested>> /\ harvested.tokens \in Nat
    BY <1>8, StartEffect DEF TypeInv, RolloutType, LoopType, Rows
  <2>1. \A j \in Keys : ro[j].tokens \in Nat
    BY <2>0 DEF Rollouts
  <2>2. CASE UNCHANGED <<inflight, ro>>
    <3>1. \A j \in Keys : ro'[j].tokens \in Nat /\ ro[j].tokens <= ro'[j].tokens
      BY <2>1, <2>2
    <3> QED
      BY <2>0, <2>1, <2>2, <3>1, MadeHeld
  <2>3. CASE /\ pending # <<>> /\ Len(inflight) < set.concurrency
             /\ inflight' = Append(inflight, Head(pending)) /\ pending' = Tail(pending)
             /\ ro' = [ro EXCEPT ![Head(pending)] = [NoRollout EXCEPT !.at = "new"]]
    <3>1. /\ Len(inflight) \in {0, 1} /\ Len(inflight') = Len(inflight) + 1 /\ inflight' # <<>> /\ Head(pending) \in Keys
          /\ Head(pending) \notin ToSet(inflight) /\ \A j \in 1..Len(inflight) : inflight[j] \in Keys
      BY <2>3, StartPlaces, QueueFacts
    <3>2. ro'[Head(pending)].tokens = 0
      BY <2>0, <2>3, <3>1 DEF NoRollout
    <3>3. CASE Len(inflight) = 0
      <4>1. inflight'[1] = Head(pending) /\ inflight = <<>>
        BY <2>3, <3>3, StartPlaces, QueueFacts
      <4>2. MadeWith(ro)' = spent + 0 + 0 + harvested.tokens
        BY <2>0, <3>1, <3>2, <3>3, <4>1 DEF MadeWith, SpentWith
      <4>3. MadeWith(ro) = spent + 0 + 0 + harvested.tokens
        BY <3>3, <4>1 DEF MadeWith, SpentWith
      <4> QED
        BY <2>0, <4>2, <4>3
    <3>4. CASE Len(inflight) = 1
      <4>1. inflight'[1] = inflight[1] /\ inflight'[2] = Head(pending) /\ inflight # <<>> /\ inflight[1] \in ToSet(inflight) /\ inflight[1] \in Keys
        BY <2>3, <3>4, StartPlaces, QueueFacts
      <4>2. ro'[inflight[1]] = ro[inflight[1]]
        BY <2>0, <2>3, <3>1, <4>1
      <4>3. MadeWith(ro)' = spent + ro[inflight[1]].tokens + 0 + harvested.tokens
        BY <2>0, <3>1, <3>2, <3>4, <4>1, <4>2 DEF MadeWith, SpentWith
      <4>4. MadeWith(ro) = spent + ro[inflight[1]].tokens + 0 + harvested.tokens
        BY <3>4, <4>1 DEF MadeWith, SpentWith
      <4>5. ro[inflight[1]].tokens \in Nat
        BY <2>1, <4>1
      <4> QED
        BY <2>0, <4>3, <4>4, <4>5
    <3> QED
      BY <3>1, <3>3, <3>4
  <2> QED
    BY <1>8, <2>2, <2>3, StartEffect
<1>9. CASE Launch
  <2>1. ro' = [ro EXCEPT ![Last(inflight)].at = "started"] /\ ro \in [Keys -> Rollouts] /\ UNCHANGED <<spent, inflight, harvested>>
    BY <1>9 DEF Launch, TypeInv, RolloutType
  <2>2. \A k \in Keys : ro'[k].tokens = ro[k].tokens /\ ro[k].tokens \in Nat
    BY <2>1 DEF Rollouts
  <2>3. \A k \in Keys : ro'[k].tokens \in Nat /\ ro[k].tokens <= ro'[k].tokens
    BY <2>2
  <2> QED
    BY <2>1, <2>2, <2>3, MadeHeld
<1>10. ASSUME NEW k \in Running, Connect(k)
      PROVE  MadeWith(ro) <= MadeWith(ro)'
  <2>1. UNCHANGED <<spent, inflight, harvested>> /\ \A j \in Keys : ro[j].tokens <= ro'[j].tokens
    <3>1. ro' \in [Keys -> Rollouts] /\ (\A j \in Keys \ {k} : ro'[j] = ro[j]) /\ ro'[k].tokens >= ro[k].tokens
      BY <1>10, StreamEffect
    <3>2. \A j \in Keys : ro[j].tokens \in Nat /\ ro'[j].tokens \in Nat
      BY <3>1 DEF TypeInv, RolloutType, Rollouts
    <3>3. UNCHANGED <<spent, inflight, harvested>>
      BY <1>10, StreamEffect DEF main
    <3> QED
      BY <3>1, <3>2, <3>3
  <2>2. \A j \in Keys : ro[j].tokens \in Nat /\ ro'[j].tokens \in Nat
    BY <1>10, StreamEffect DEF TypeInv, RolloutType, Rollouts
  <2> QED
    BY <2>1, <2>2, MadeHeld
<1>11. ASSUME NEW k \in Running, Accept(k)
      PROVE  MadeWith(ro) <= MadeWith(ro)'
  <2>1. UNCHANGED <<spent, inflight, harvested>> /\ \A j \in Keys : ro[j].tokens <= ro'[j].tokens
    <3>1. ro' \in [Keys -> Rollouts] /\ (\A j \in Keys \ {k} : ro'[j] = ro[j]) /\ ro'[k].tokens >= ro[k].tokens
      BY <1>11, StreamEffect
    <3>2. \A j \in Keys : ro[j].tokens \in Nat /\ ro'[j].tokens \in Nat
      BY <3>1 DEF TypeInv, RolloutType, Rollouts
    <3>3. UNCHANGED <<spent, inflight, harvested>>
      BY <1>11, StreamEffect DEF main
    <3> QED
      BY <3>1, <3>2, <3>3
  <2>2. \A j \in Keys : ro[j].tokens \in Nat /\ ro'[j].tokens \in Nat
    BY <1>11, StreamEffect DEF TypeInv, RolloutType, Rollouts
  <2> QED
    BY <2>1, <2>2, MadeHeld
<1>12. ASSUME NEW k \in Running, NEW last \in BOOLEAN, Chunk(k, last)
      PROVE  MadeWith(ro) <= MadeWith(ro)'
  <2>1. UNCHANGED <<spent, inflight, harvested>> /\ \A j \in Keys : ro[j].tokens <= ro'[j].tokens
    <3>1. ro' \in [Keys -> Rollouts] /\ (\A j \in Keys \ {k} : ro'[j] = ro[j]) /\ ro'[k].tokens >= ro[k].tokens
      BY <1>12, StreamEffect
    <3>2. \A j \in Keys : ro[j].tokens \in Nat /\ ro'[j].tokens \in Nat
      BY <3>1 DEF TypeInv, RolloutType, Rollouts
    <3>3. UNCHANGED <<spent, inflight, harvested>>
      BY <1>12, StreamEffect DEF main
    <3> QED
      BY <3>1, <3>2, <3>3
  <2>2. \A j \in Keys : ro[j].tokens \in Nat /\ ro'[j].tokens \in Nat
    BY <1>12, StreamEffect DEF TypeInv, RolloutType, Rollouts
  <2> QED
    BY <2>1, <2>2, MadeHeld
<1>13. ASSUME NEW k \in Running, NEW broken \in BOOLEAN, End(k, broken)
      PROVE  MadeWith(ro) <= MadeWith(ro)'
  <2>1. UNCHANGED <<spent, inflight, harvested>> /\ \A j \in Keys : ro[j].tokens <= ro'[j].tokens
    <3>1. ro' \in [Keys -> Rollouts] /\ (\A j \in Keys \ {k} : ro'[j] = ro[j]) /\ ro'[k].tokens >= ro[k].tokens
      BY <1>13, StreamEffect
    <3>2. \A j \in Keys : ro[j].tokens \in Nat /\ ro'[j].tokens \in Nat
      BY <3>1 DEF TypeInv, RolloutType, Rollouts
    <3>3. UNCHANGED <<spent, inflight, harvested>>
      BY <1>13, StreamEffect DEF main
    <3> QED
      BY <3>1, <3>2, <3>3
  <2>2. \A j \in Keys : ro[j].tokens \in Nat /\ ro'[j].tokens \in Nat
    BY <1>13, StreamEffect DEF TypeInv, RolloutType, Rollouts
  <2> QED
    BY <2>1, <2>2, MadeHeld
<1>14. CASE Interrupt
  <2>1. pc = "off" \/ pc' \notin InLoop
    BY <1>14 DEF Interrupt, disk, detector, tally, InLoop
  <2> QED
    BY <2>1 DEF InLoop
<1>15. CASE JoinOne
  BY <1>15 DEF JoinOne, InLoop
<1>16. ASSUME NEW tear \in BOOLEAN, Kill(tear)
      PROVE  MadeWith(ro) <= MadeWith(ro)'
  BY <1>16 DEF Kill, Gone, InLoop
<1>17. CASE Foreign \/ EngineRestart
  <2>1. UNCHANGED <<spent, inflight, harvested, ro>>
    BY <1>17 DEF Foreign, EngineRestart, disk, main, tally
  <2>2. ro \in [Keys -> Rollouts]
    BY DEF TypeInv, RolloutType
  <2>3. \A j \in Keys : ro[j].tokens \in Nat
    BY <2>2 DEF Rollouts
  <2>4. \A j \in Keys : ro'[j].tokens \in Nat /\ ro[j].tokens <= ro'[j].tokens
    BY <2>1, <2>3
  <2> QED
    BY <2>1, <2>3, <2>4, MadeHeld
<1>18. CASE TimeOver
  <2>1. UNCHANGED <<spent, inflight, harvested, ro>>
    BY <1>18 DEF TimeOver, disk, detector, tally
  <2>2. ro \in [Keys -> Rollouts]
    BY DEF TypeInv, RolloutType
  <2>3. \A j \in Keys : ro[j].tokens \in Nat
    BY <2>2 DEF Rollouts
  <2>4. \A j \in Keys : ro'[j].tokens \in Nat /\ ro[j].tokens <= ro'[j].tokens
    BY <2>1, <2>3
  <2> QED
    BY <2>1, <2>3, <2>4, MadeHeld
<1>19. CASE UNCHANGED vars
  <2>1. UNCHANGED <<spent, inflight, harvested, ro>>
    BY <1>19 DEF vars, disk, main, detector, tally
  <2>2. ro \in [Keys -> Rollouts]
    BY DEF TypeInv, RolloutType
  <2>3. \A j \in Keys : ro[j].tokens \in Nat
    BY <2>2 DEF Rollouts
  <2>4. \A j \in Keys : ro'[j].tokens \in Nat /\ ro[j].tokens <= ro'[j].tokens
    BY <2>1, <2>3
  <2> QED
    BY <2>1, <2>3, <2>4, MadeHeld
<1> QED
  BY NextCases, <1>1, <1>2, <1>3, <1>4, <1>5, <1>6, <1>7, <1>8, <1>9, <1>10, <1>11, <1>12, <1>13, <1>14, <1>15, <1>16, <1>17, <1>18, <1>19

LEMMA MadeTyped == TypeInv => MadeWith(ro) \in Nat
BY MadeNat DEF TypeInv, RolloutType

\* Within the loop it is enough that no key is newly lost, no rollout newly
\* aborted, and no row newly one of such a rollout, below the budget.
LEMMA ForgetKeep ==
  ASSUME TypeInv, PlaceInv, ForgetInv, [Next]_vars, pc \in InLoop, pc' \in InLoop, stop' \/ ~stop,
         ~stop' => \A k \in todo' : Lost(k)' =>
                     /\ pc' \in {"harvest", "write", "account", "budget"}
                     /\ (k \in todo /\ Lost(k)) \/ harvested.status = "budget",
         ~stop' => \A k \in Keys : ro'[k].abort = "budget" => ro[k].abort = "budget" \/ MadeWith(ro)' > Budget,
         harvested'.status = "budget" => harvested.status = "budget" \/ \E k \in Keys : ro[k].abort = "budget"
  PROVE  ForgetInv'
<1>1. TypeInv'
  BY TypedStep
<1>2. MadeWith(ro) \in Nat
  BY MadeTyped
<1>3. (MadeWith(ro) \in Nat)'
  BY <1>1, MadeTyped, PTL
<1>4. MadeWith(ro) <= MadeWith(ro)'
  BY MadeStep
<1>5. Budget \in Nat /\ pc' # "off"
  BY BenchAssumption DEF InLoop
<1>6. MadeWith(ro) > Budget => MadeWith(ro)' > Budget
  BY <1>2, <1>3, <1>4, <1>5
<1>7. SUFFICES ASSUME ~stop'
               PROVE  /\ \A k \in todo' : Lost(k)' => pc' \in {"harvest", "write", "account", "budget"} /\ MadeWith(ro)' > Budget
                      /\ \A k \in Keys : ro'[k].abort = "budget" => MadeWith(ro)' > Budget
                      /\ harvested'.status = "budget" => MadeWith(ro)' > Budget
  BY <1>5, <1>7 DEF ForgetInv, NothingForgotten
<1>8. /\ \A k \in todo : Lost(k) => MadeWith(ro) > Budget
      /\ \A k \in Keys : ro[k].abort = "budget" => MadeWith(ro) > Budget
      /\ harvested.status = "budget" => MadeWith(ro) > Budget
  BY <1>7 DEF ForgetInv
<1>9. ASSUME NEW k \in todo', Lost(k)'
      PROVE  pc' \in {"harvest", "write", "account", "budget"} /\ MadeWith(ro)' > Budget
  <2>1. /\ pc' \in {"harvest", "write", "account", "budget"}
        /\ (k \in todo /\ Lost(k)) \/ harvested.status = "budget"
    BY <1>7, <1>9, Zenon
  <2> QED
    BY <1>6, <1>8, <2>1, Zenon
<1>10. ASSUME NEW k \in Keys, ro'[k].abort = "budget"
       PROVE  MadeWith(ro)' > Budget
  BY <1>6, <1>7, <1>8, <1>10
<1>11. harvested'.status = "budget" => MadeWith(ro)' > Budget
  BY <1>6, <1>7, <1>8
<1> QED
  BY <1>9, <1>10, <1>11

\* Out of the loop there is nothing to keep but what the end has shown.
LEMMA ForgetOut ==
  ASSUME pc' \notin InLoop, (pc' = "off" /\ exit' = "ok" /\ ~stop') => \A k \in todo' : rows'[k] = 1 \/ k \in failed'
  PROVE  ForgetInv'
BY DEF ForgetInv, NothingForgotten

LEMMA ForgetStep ==
  ASSUME TypeInv, PlaceInv, ScoreInv, ForgetInv, [Next]_vars
  PROVE  ForgetInv'
<1>1. ASSUME NEW c \in Calls, NEW arms \in Arms(c.efforts), Call(c, arms)
      PROVE  ForgetInv'
  <2>1. pc = "off"
    BY <1>1, CallEffect
  <2>2. CASE todo' = {} /\ UNCHANGED pc
    BY <2>1, <2>2, ForgetOut DEF InLoop
  <2>3. CASE /\ pc' = "loop" /\ todo' = ToSet(pending') /\ harvested' = NoRow /\ ro' = [k \in Keys |-> NoRollout]
    <3>1. \A k \in todo' : ~Lost(k)'
      BY <2>3 DEF Lost
    <3>2. \A k \in Keys : ro'[k].abort # "budget"
      BY <2>3, Blank
    <3>3. harvested'.status # "budget"
      BY <2>3, Blank
    <3> QED
      BY <2>3, <3>1, <3>2, <3>3 DEF ForgetInv, NothingForgotten
  <2> QED
    BY <1>1, <2>2, <2>3, CallEffect
<1>2. CASE Round
  <2>1. pc = "loop" /\ UNCHANGED <<rows, todo, failed, stop>> /\ harvested = NoRow /\ todo \subseteq Keys
    BY <1>2, QueueFacts DEF Round, disk, PlaceInv, RowPlace
  <2>2. ~stop => \A k \in todo : ~Lost(k)
    BY <2>1 DEF ForgetInv, InLoop
  <2>3. CASE More
    <3>1. UNCHANGED <<pending, inflight, harvested, ro>> /\ pc' = "harvest"
      BY <1>2, <2>3 DEF Round
    <3>2. \A j \in Keys : Lost(j)' <=> Lost(j)
      BY <2>1, <3>1 DEF Lost
    <3> QED
      BY <2>1, <2>2, <3>1, <3>2, ForgetKeep DEF InLoop
  <2>4. CASE ~More
    <3>1. pc' = "off"
      BY <1>2, <2>4 DEF Round, Gone
    <3>2. ~stop => pending = <<>> /\ inflight = <<>>
      BY <2>4 DEF More
    <3>3. ~stop => ToSet(pending) = {} /\ ToSet(inflight) = {}
      BY <3>2, EmptyFacts
    <3>4. ~stop => \A k \in todo : k \in failed \/ rows[k] # 0
      BY <2>1, <2>2, <3>3, Blank, Everyone DEF Lost
    <3>5. \A k \in todo : rows[k] \in Nat /\ rows[k] <= 1
      BY <2>1 DEF TypeInv, DiskType, ScoreInv
    <3>6. ~stop => \A k \in todo : k \in failed \/ rows[k] = 1
      BY <3>4, <3>5
    <3> QED
      BY <2>1, <3>1, <3>6, ForgetOut DEF InLoop
  <2> QED
    BY <2>3, <2>4
<1>3. CASE Harvest
  <2>1. pc = "harvest" /\ UNCHANGED <<rows, todo, failed, stop, pending>> /\ harvested = NoRow /\ todo \subseteq Keys
    BY <1>3, QueueFacts, HarvestEffect DEF PlaceInv, RowPlace
  <2>2. CASE pc' = "budget" /\ UNCHANGED <<inflight, harvested, ro>>
    <3>1. \A j \in Keys : Lost(j)' <=> Lost(j)
      BY <2>1, <2>2 DEF Lost
    <3> QED
      BY <2>1, <2>2, <3>1, ForgetKeep DEF InLoop
  <2>3. ASSUME NEW i \in 1..Len(inflight), pc' = "write", inflight' = RemoveAt(inflight, i), harvested' = RowOf(inflight[i]),
               ro' = [ro EXCEPT ![inflight[i]] = NoRollout]
        PROVE  ForgetInv'
    <3>1. /\ ToSet(inflight') = ToSet(inflight) \ {inflight[i]} /\ inflight[i] \in ToSet(inflight) /\ inflight[i] \in Keys
      BY <2>3, HarvestPlaces
    <3>2. harvested'.key = inflight[i] /\ harvested'.status = StatusOf(ro[inflight[i]])
      BY <2>3, <3>1, RowFacts
    <3>3. \A j \in Keys : Lost(j)' => Lost(j)
      BY <2>1, <3>1, <3>2, Blank, Everyone DEF Lost
    <3>4. ro \in [Keys -> Rollouts]
      BY DEF TypeInv, RolloutType
    <3>5. \A j \in Keys : ro'[j].abort = "budget" => ro[j].abort = "budget"
      BY <2>3, <3>1, <3>4, Blank
    <3>6. harvested'.status = "budget" => ro[inflight[i]].abort = "budget"
      BY <3>1, <3>2, <3>4, StatusFacts
    <3> QED
      BY <2>1, <2>3, <3>1, <3>3, <3>5, <3>6, ForgetKeep DEF InLoop
  <2> QED
    BY <1>3, <2>2, <2>3, HarvestEffect
<1>4. CASE Write
  <2>1. /\ UNCHANGED <<stop, todo, pending, inflight, failed, harvested, ro>> /\ pc = "write" /\ pc' = "account"
        /\ rows' = Written(harvested.key, harvested.status) /\ todo \subseteq Keys
    BY <1>4, QueueFacts DEF Write
  <2>2. harvested.key \in Keys
    BY <2>1, QueueFacts DEF PlaceInv, RowPlace
  <2>3. \A j \in Keys \ {harvested.key} : rows'[j] = rows[j]
    BY <2>1, <2>2, WrittenFacts
  <2>4. \A j \in Keys : Lost(j)' => Lost(j)
    BY <2>1, <2>3 DEF Lost
  <2> QED
    BY <2>1, <2>4, ForgetKeep DEF InLoop
<1>5. CASE Account
  <2>1. /\ UNCHANGED <<rows, todo, inflight, ro>> /\ pc = "account" /\ pc' = "harvest" /\ (stop' \/ ~stop)
        /\ harvested' = NoRow /\ harvested.key \in Keys /\ todo \subseteq Keys
        /\ harvested.status \in {"done", "error", "yielded", "budget"}
    BY <1>5, QueueFacts, AccountEffect
  <2>2. /\ ToSet(pending') = ToSet(pending) \cup (IF harvested.status = "yielded" THEN {harvested.key} ELSE {})
        /\ failed' = IF harvested.status = "error" THEN failed \cup {harvested.key} ELSE failed \ {harvested.key}
    BY <1>5, AccountEffect
  <2>3. harvested.status = "done" => rows[harvested.key] # 0
    BY <2>1 DEF ScoreInv
  <2>4. ASSUME NEW j \in Keys, Lost(j)'
        PROVE  Lost(j) \/ harvested.status = "budget"
    <3>1. CASE j = harvested.key
      BY <2>1, <2>2, <2>3, <2>4, <3>1 DEF Lost
    <3>2. CASE j # harvested.key
      BY <2>1, <2>2, <2>4, <3>2 DEF Lost
    <3> QED
      BY <3>1, <3>2
  <2>5. harvested'.status # "budget"
    BY <2>1, Blank
  <2> QED
    BY <2>1, <2>4, <2>5, ForgetKeep DEF InLoop
<1>6. CASE Budgets
  <2>1. /\ UNCHANGED <<todo, pending, inflight, failed, harvested, rows, spent>> /\ pc = "budget" /\ pc' = "poll"
        /\ stop' = (stop \/ Exhausted) /\ todo \subseteq Keys /\ harvested = NoRow
        /\ stop \in BOOLEAN
    BY <1>6, QueueFacts DEF Budgets, disk, PlaceInv, RowPlace, TypeInv, LoopType
  <2>2. CASE Exhausted \/ stop
    BY <2>1, <2>2 DEF ForgetInv, NothingForgotten, InLoop
  <2>3. CASE ~Exhausted /\ ~stop
    <3>1. UNCHANGED ro
      BY <1>6, <2>3 DEF Budgets
    <3>2. ~(MadeWith(ro) > Budget)
      <4>1. SpentWith(ro) \in Nat /\ MadeWith(ro) = SpentWith(ro) + harvested.tokens
        BY MadeNat DEF TypeInv, RolloutType
      <4>2. harvested.tokens = 0 /\ ~OverBudget(ro)
        BY <2>1, <2>3, Blank DEF Exhausted, ExhaustedTokens
      <4> QED
        BY <4>1, <4>2 DEF OverBudget
    <3>3. /\ \A k \in todo : ~Lost(k)
          /\ \A k \in Keys : ro[k].abort # "budget"
          /\ harvested.status # "budget"
      BY <2>1, <2>3, <3>2 DEF ForgetInv, InLoop
    <3>4. \A j \in Keys : Lost(j)' <=> Lost(j)
      BY <2>1 DEF Lost
    <3> QED
      BY <2>1, <3>1, <3>3, <3>4 DEF ForgetInv, NothingForgotten
  <2> QED
    BY <2>1, <2>2, <2>3
<1>7. ASSUME NEW answered \in BOOLEAN, NEW gauges \in BOOLEAN, NEW sustained \in BOOLEAN, NEW settled \in BOOLEAN,
            Poll(answered, gauges, sustained, settled)
      PROVE  ForgetInv'
  <2>1. /\ UNCHANGED <<stop, todo, pending, inflight, failed, harvested, rows>> /\ pc = "poll" /\ pc' = "start"
        /\ todo \subseteq Keys
    BY <1>7, QueueFacts DEF Poll, disk
  <2>2. \A j \in Keys : Lost(j)' <=> Lost(j)
    BY <2>1 DEF Lost
  <2>3. ~stop => \A j \in todo : ~Lost(j)
    BY <2>1 DEF ForgetInv, InLoop
  <2>4. \A j \in Keys : ro'[j].abort = "budget" => ro[j].abort = "budget"
    BY <1>7, <2>1, AbortEffect DEF Budgets
  <2> QED
    BY <2>1, <2>2, <2>3, <2>4, ForgetKeep DEF InLoop
<1>8. CASE Start
  <2>1. /\ UNCHANGED <<stop, todo, failed, harvested, rows>> /\ pc = "start" /\ pc' \in {"loop", "launch"}
        /\ todo \subseteq Keys
    BY <1>8, QueueFacts, StartEffect
  <2>2. ~stop => \A j \in todo : ~Lost(j)
    BY <2>1 DEF ForgetInv, InLoop
  <2>3. CASE UNCHANGED <<ro, inflight, pending>>
    <3>1. \A j \in Keys : Lost(j)' <=> Lost(j)
      BY <2>1, <2>3 DEF Lost
    <3> QED
      BY <2>1, <2>2, <2>3, <3>1, ForgetKeep DEF InLoop
  <2>4. CASE /\ pending # <<>> /\ Len(inflight) < set.concurrency
             /\ inflight' = Append(inflight, Head(pending)) /\ pending' = Tail(pending)
             /\ ro' = [ro EXCEPT ![Head(pending)] = [NoRollout EXCEPT !.at = "new"]]
    <3>1. /\ ToSet(inflight') = ToSet(inflight) \cup {Head(pending)} /\ ToSet(pending') = ToSet(pending) \ {Head(pending)}
          /\ Head(pending) \in Keys
      BY <2>4, StartPlaces
    <3>2. \A j \in Keys : Lost(j)' => Lost(j)
      BY <2>1, <3>1 DEF Lost
    <3>3. ro \in [Keys -> Rollouts] /\ [NoRollout EXCEPT !.at = "new"].abort # "budget"
      BY DEF TypeInv, RolloutType, NoRollout
    <3>4. \A j \in Keys : ro'[j].abort = "budget" => ro[j].abort = "budget"
      BY <2>4, <3>1, <3>3
    <3> QED
      BY <2>1, <2>2, <3>2, <3>4, ForgetKeep DEF InLoop
  <2> QED
    BY <1>8, <2>3, <2>4, StartEffect
<1>9. CASE Launch
  <2>1. /\ UNCHANGED <<stop, todo, failed, harvested, rows, pending, inflight>> /\ pc = "launch" /\ pc' = "loop"
        /\ todo \subseteq Keys /\ ro' = [ro EXCEPT ![Last(inflight)].at = "started"] /\ ro \in [Keys -> Rollouts]
    BY <1>9, QueueFacts DEF Launch, disk, TypeInv, RolloutType
  <2>2. ~stop => \A j \in todo : ~Lost(j)
    BY <2>1 DEF ForgetInv, InLoop
  <2>3. \A j \in Keys : Lost(j)' <=> Lost(j)
    BY <2>1 DEF Lost
  <2>4. \A j \in Keys : ro'[j].abort = ro[j].abort
    BY <2>1 DEF Rollouts
  <2> QED
    BY <2>1, <2>2, <2>3, <2>4, ForgetKeep DEF InLoop
<1>10. ASSUME NEW k \in Running, Connect(k)
      PROVE  ForgetInv'
  <2>1. UNCHANGED <<pc, stop, todo, pending, inflight, failed, harvested, rows, spent>> /\ pc \in InLoop
    BY <1>10, StreamEffect DEF main, disk
  <2>2. \A j \in Keys : Lost(j)' <=> Lost(j)
    BY <2>1 DEF Lost
  <2>3. todo \subseteq Keys
    BY QueueFacts
  <2>4. SUFFICES ASSUME ~stop
                 PROVE  \A j \in Keys : ro'[j].abort = "budget" => ro[j].abort = "budget" \/ MadeWith(ro)' > Budget
    BY <2>1, <2>2, <2>3, <2>4, ForgetKeep DEF ForgetInv
  <2>5. ro' \in [Keys -> Rollouts]
    BY <1>10, StreamEffect
  <2>6. /\ SpentWith(ro') \in Nat /\ MadeWith(ro') = SpentWith(ro') + harvested.tokens /\ harvested.tokens \in Nat
    BY <2>5, MadeNat
  <2>7. MadeWith(ro)' = MadeWith(ro') /\ Budget \in Nat
    BY <2>1, BenchAssumption DEF MadeWith, SpentWith
  <2>8. OverBudget(ro') => MadeWith(ro)' > Budget
    BY <2>6, <2>7 DEF OverBudget
  <2> QED
    BY <1>10, <2>8, StreamEffect
<1>11. ASSUME NEW k \in Running, Accept(k)
      PROVE  ForgetInv'
  <2>1. UNCHANGED <<pc, stop, todo, pending, inflight, failed, harvested, rows, spent>> /\ pc \in InLoop
    BY <1>11, StreamEffect DEF main, disk
  <2>2. \A j \in Keys : Lost(j)' <=> Lost(j)
    BY <2>1 DEF Lost
  <2>3. todo \subseteq Keys
    BY QueueFacts
  <2>4. SUFFICES ASSUME ~stop
                 PROVE  \A j \in Keys : ro'[j].abort = "budget" => ro[j].abort = "budget" \/ MadeWith(ro)' > Budget
    BY <2>1, <2>2, <2>3, <2>4, ForgetKeep DEF ForgetInv
  <2>5. ro' \in [Keys -> Rollouts]
    BY <1>11, StreamEffect
  <2>6. /\ SpentWith(ro') \in Nat /\ MadeWith(ro') = SpentWith(ro') + harvested.tokens /\ harvested.tokens \in Nat
    BY <2>5, MadeNat
  <2>7. MadeWith(ro)' = MadeWith(ro') /\ Budget \in Nat
    BY <2>1, BenchAssumption DEF MadeWith, SpentWith
  <2>8. OverBudget(ro') => MadeWith(ro)' > Budget
    BY <2>6, <2>7 DEF OverBudget
  <2> QED
    BY <1>11, <2>8, StreamEffect
<1>12. ASSUME NEW k \in Running, NEW last \in BOOLEAN, Chunk(k, last)
      PROVE  ForgetInv'
  <2>1. UNCHANGED <<pc, stop, todo, pending, inflight, failed, harvested, rows, spent>> /\ pc \in InLoop
    BY <1>12, StreamEffect DEF main, disk
  <2>2. \A j \in Keys : Lost(j)' <=> Lost(j)
    BY <2>1 DEF Lost
  <2>3. todo \subseteq Keys
    BY QueueFacts
  <2>4. SUFFICES ASSUME ~stop
                 PROVE  \A j \in Keys : ro'[j].abort = "budget" => ro[j].abort = "budget" \/ MadeWith(ro)' > Budget
    BY <2>1, <2>2, <2>3, <2>4, ForgetKeep DEF ForgetInv
  <2>5. ro' \in [Keys -> Rollouts]
    BY <1>12, StreamEffect
  <2>6. /\ SpentWith(ro') \in Nat /\ MadeWith(ro') = SpentWith(ro') + harvested.tokens /\ harvested.tokens \in Nat
    BY <2>5, MadeNat
  <2>7. MadeWith(ro)' = MadeWith(ro') /\ Budget \in Nat
    BY <2>1, BenchAssumption DEF MadeWith, SpentWith
  <2>8. OverBudget(ro') => MadeWith(ro)' > Budget
    BY <2>6, <2>7 DEF OverBudget
  <2> QED
    BY <1>12, <2>8, StreamEffect
<1>13. ASSUME NEW k \in Running, NEW broken \in BOOLEAN, End(k, broken)
      PROVE  ForgetInv'
  <2>1. UNCHANGED <<pc, stop, todo, pending, inflight, failed, harvested, rows, spent>> /\ pc \in InLoop
    BY <1>13, StreamEffect DEF main, disk
  <2>2. \A j \in Keys : Lost(j)' <=> Lost(j)
    BY <2>1 DEF Lost
  <2>3. todo \subseteq Keys
    BY QueueFacts
  <2>4. SUFFICES ASSUME ~stop
                 PROVE  \A j \in Keys : ro'[j].abort = "budget" => ro[j].abort = "budget" \/ MadeWith(ro)' > Budget
    BY <2>1, <2>2, <2>3, <2>4, ForgetKeep DEF ForgetInv
  <2>5. ro' \in [Keys -> Rollouts]
    BY <1>13, StreamEffect
  <2>6. /\ SpentWith(ro') \in Nat /\ MadeWith(ro') = SpentWith(ro') + harvested.tokens /\ harvested.tokens \in Nat
    BY <2>5, MadeNat
  <2>7. MadeWith(ro)' = MadeWith(ro') /\ Budget \in Nat
    BY <2>1, BenchAssumption DEF MadeWith, SpentWith
  <2>8. OverBudget(ro') => MadeWith(ro)' > Budget
    BY <2>6, <2>7 DEF OverBudget
  <2> QED
    BY <1>13, <2>8, StreamEffect
<1>14. CASE Interrupt
  BY <1>14, ForgetOut DEF Interrupt, InLoop
<1>15. CASE JoinOne
  <2>1. CASE Gone("interrupted") \/ Gone("raised")
    BY <2>1, ForgetOut DEF Gone, InLoop
  <2>2. CASE UNCHANGED pc
    BY <1>15, <2>2, ForgetOut, JoinEffect DEF InLoop
  <2> QED
    BY <1>15, <2>1, <2>2, JoinEffect
<1>16. ASSUME NEW tear \in BOOLEAN, Kill(tear)
      PROVE  ForgetInv'
  BY <1>16, ForgetOut DEF Kill, Gone, InLoop
<1>17. CASE Foreign \/ EngineRestart
  <2>1. CASE pc \in InLoop
    <3>1. UNCHANGED <<pc, stop, todo, pending, inflight, failed, harvested, rows, ro>>
      BY <1>17 DEF Foreign, EngineRestart, disk, main, tally
    <3>2. \A j \in Keys : Lost(j)' <=> Lost(j)
      BY <3>1 DEF Lost
    <3>3. todo \subseteq Keys
      BY QueueFacts
    <3> QED
      BY <2>1, <3>1, <3>2, <3>3, ForgetKeep DEF ForgetInv
  <2>2. CASE pc \notin InLoop
    <3>1. UNCHANGED <<pc, stop, exit, todo, rows, failed>>
      BY <1>17 DEF Foreign, EngineRestart, disk, main, tally
    <3> QED
      BY <2>2, <3>1, ForgetOut DEF ForgetInv, NothingForgotten
  <2> QED
    BY <2>1, <2>2
<1>18. CASE TimeOver
  <2>1. UNCHANGED <<stop, todo, pending, inflight, failed, harvested, rows, ro>> /\ pc \in InLoop /\ pc' \in InLoop
    BY <1>18 DEF TimeOver, disk, detector, tally, InLoop
  <2>2. \A j \in Keys : Lost(j)' <=> Lost(j)
    BY <2>1 DEF Lost
  <2>3. todo \subseteq Keys
    BY QueueFacts
  <2>4. ~stop => \A j \in todo : Lost(j) => pc \in {"harvest", "write", "account", "budget"} /\ pc' \in {"harvest", "write", "account", "budget"}
    BY <1>18, <2>1 DEF TimeOver, disk, detector, tally, ForgetInv
  <2> QED
    BY <2>1, <2>2, <2>3, <2>4, ForgetKeep
<1>19. CASE UNCHANGED vars
  <2>1. CASE pc \in InLoop
    <3>1. UNCHANGED <<pc, stop, todo, pending, inflight, failed, harvested, rows, ro>>
      BY <1>19 DEF vars, disk, main, detector, tally
    <3>2. \A j \in Keys : Lost(j)' <=> Lost(j)
      BY <3>1 DEF Lost
    <3>3. todo \subseteq Keys
      BY QueueFacts
    <3> QED
      BY <2>1, <3>1, <3>2, <3>3, ForgetKeep DEF ForgetInv
  <2>2. CASE pc \notin InLoop
    <3>1. UNCHANGED <<pc, stop, exit, todo, rows, failed>>
      BY <1>19 DEF vars, disk, main, detector, tally
    <3> QED
      BY <2>2, <3>1, ForgetOut DEF ForgetInv, NothingForgotten
  <2> QED
    BY <2>1, <2>2
<1> QED
  BY NextCases, <1>1, <1>2, <1>3, <1>4, <1>5, <1>6, <1>7, <1>8, <1>9, <1>10, <1>11, <1>12, <1>13, <1>14, <1>15, <1>16, <1>17, <1>18, <1>19

\* The prompt tokens of no, one or two requests.
LEMMA Times ==
  /\ PromptTokens \in Nat /\ PromptTokens * 0 = 0 /\ PromptTokens * 1 = PromptTokens /\ PromptTokens * 2 = PromptTokens + PromptTokens
  /\ \A n \in Nat : PromptTokens * n \in Nat /\ PromptTokens * (n + 1) = PromptTokens * n + PromptTokens
<1>1. PromptTokens \in Nat
  BY BenchAssumption
<1> QED
  BY <1>1

LEMMA UnsentFacts ==
  ASSUME TypeInv, PlaceInv
  PROVE  /\ \A k \in Keys : Unsent(k) \in {0, 1} /\ Unsent(k)' \in {0, 1}
         /\ UnsentAll \in {0, 1, 2}
         /\ Len(inflight) = 0 => UnsentAll = 0
         /\ Len(inflight) = 1 => UnsentAll = Unsent(inflight[1])
         /\ Len(inflight) = 2 => UnsentAll = Unsent(inflight[1]) + Unsent(inflight[2])
         /\ Len(inflight) \in {0, 1, 2}
<1>1. \A k : Unsent(k) \in {0, 1} /\ Unsent(k)' \in {0, 1}
  BY DEF Unsent
<1>2. Len(inflight) \in {0, 1, 2} /\ (inflight = <<>> <=> Len(inflight) = 0)
  BY QueueFacts, FlightFacts, SmallNat
<1>3. Len(inflight) = 0 => UnsentAll = 0
  BY <1>2 DEF UnsentAll
<1>4. Len(inflight) = 1 => UnsentAll = Unsent(inflight[1])
  BY <1>1, <1>2 DEF UnsentAll
<1>5. Len(inflight) = 2 => UnsentAll = Unsent(inflight[1]) + Unsent(inflight[2])
  BY <1>2 DEF UnsentAll
<1>6. UnsentAll \in {0, 1, 2}
  BY <1>1, <1>2, <1>3, <1>4, <1>5
<1> QED
  BY <1>1, <1>2, <1>3, <1>4, <1>5, <1>6

LEMMA UnsentTyped == TypeInv /\ PlaceInv => UnsentAll \in {0, 1, 2}
BY UnsentFacts

LEMMA UnsentNext ==
  ASSUME TypeInv, PlaceInv, [Next]_vars
  PROVE  UnsentAll' \in {0, 1, 2}
<1>1. (TypeInv /\ PlaceInv)'
  BY TypedStep, PlaceStep
<1>2. (UnsentAll \in {0, 1, 2})'
  BY <1>1, UnsentTyped, PTL
<1> QED
  BY <1>2

\* No request waits that did not: those in flight are the same, and none of
\* them is new.
LEMMA UnsentLess ==
  ASSUME TypeInv, PlaceInv, UNCHANGED inflight, \A k \in Keys : Unsent(k)' <= Unsent(k)
  PROVE  UnsentAll' <= UnsentAll
<1>1. \A i \in 1..Len(inflight) : inflight[i] \in Keys
  BY QueueFacts
<1>2. Len(inflight) = 0 => UnsentAll' = 0
  BY QueueFacts DEF UnsentAll
<1>3. CASE Len(inflight) = 0
  BY <1>2, <1>3, UnsentFacts
<1>4. CASE Len(inflight) = 1
  <2>1. inflight # <<>> /\ inflight[1] \in Keys
    BY <1>1, <1>4, QueueFacts
  <2>2. UnsentAll' = Unsent(inflight[1])'
    BY <1>4, <2>1 DEF UnsentAll, Unsent
  <2>3. UnsentAll = Unsent(inflight[1])
    BY <1>4, UnsentFacts
  <2>4. (ro')[inflight'[1]] = (ro')[inflight[1]]
    OBVIOUS
  <2> QED
    BY <2>1, <2>2, <2>3, <2>4 DEF Unsent
<1>5. CASE Len(inflight) = 2
  <2>1. inflight # <<>> /\ inflight[1] \in Keys /\ inflight[2] \in Keys
    BY <1>1, <1>5, QueueFacts
  <2> DEFINE u(k) == IF ro'[k].at \in {"new", "started", "opening"} THEN 1 ELSE 0
  <2>2. UnsentAll' = u(inflight[1]) + u(inflight[2])
    BY <1>5, <2>1 DEF UnsentAll, Unsent
  <2>3. UnsentAll = Unsent(inflight[1]) + Unsent(inflight[2])
    BY <1>5, UnsentFacts
  <2>4. \A k \in Keys : u(k) \in {0, 1} /\ u(k) <= Unsent(k) /\ Unsent(k) \in {0, 1}
    BY UnsentFacts DEF Unsent
  <2> HIDE DEF u
  <2>5. /\ u(inflight[1]) \in {0, 1} /\ u(inflight[1]) <= Unsent(inflight[1]) /\ Unsent(inflight[1]) \in {0, 1}
        /\ u(inflight[2]) \in {0, 1} /\ u(inflight[2]) <= Unsent(inflight[2]) /\ Unsent(inflight[2]) \in {0, 1}
    BY <2>1, <2>4
  <2> QED
    BY <2>2, <2>3, <2>5
<1> QED
  BY <1>3, <1>4, <1>5, UnsentFacts

LEMMA TimesLess ==
  \A u, v \in {0, 1, 2} : PromptTokens * u \in Nat /\ (v <= u => PromptTokens * v <= PromptTokens * u)
BY Times

\* The detector's account is kept while no poll reads the counter, no rollout
\* starts and no request is sent.
LEMMA CreditKeep ==
  ASSUME TypeInv, PlaceInv, CreditInv, [Next]_vars, pc # "off", pc' # "off",
         UNCHANGED <<attempts, polled, prev, credit, flagged, ours>>,
         \/ UNCHANGED <<counter, foreign, lost>>
         \/ counter' = counter + 1 /\ foreign' = foreign + 1 /\ lost' = lost
         \/ counter' = 0 /\ foreign' = foreign /\ lost' = lost + counter,
         UnsentAll' <= UnsentAll,
         pc' = "launch" => ro'[Last(inflight')].at = "new"
  PROVE  CreditInv'
<1>1. UnsentAll \in {0, 1, 2} /\ UnsentAll' \in {0, 1, 2}
  BY UnsentFacts, UnsentNext
<1>2. PromptTokens * UnsentAll \in Nat /\ PromptTokens * UnsentAll' \in Nat /\ PromptTokens * UnsentAll' <= PromptTokens * UnsentAll
  BY <1>1, TimesLess
<1>3. attempts \in Nat /\ PromptTokens * attempts \in Nat
  BY Times DEF TypeInv, CountType
<1>4. /\ prev \in Nat /\ credit \in Nat /\ counter \in Nat /\ ours \in Nat /\ foreign \in Nat /\ lost \in Nat
      /\ flagged \in Nat
  BY DEF TypeInv, CountType
<1>5. /\ flagged <= foreign
      /\ ours + PromptTokens * UnsentAll <= PromptTokens * attempts
      /\ polled => credit + prev + ours + foreign = counter + lost + PromptTokens * attempts + flagged
  BY DEF CreditInv
<1>6. flagged <= foreign'
  BY <1>4, <1>5
<1>7. ours + PromptTokens * UnsentAll' <= PromptTokens * attempts
  <2>1. \A x, y, o, a \in Nat : y <= x /\ o + x <= a => o + y <= a
    OBVIOUS
  <2> QED
    BY <1>2, <1>3, <1>4, <1>5, <2>1
<1>8. polled => credit + prev + ours + foreign' = counter' + lost' + PromptTokens * attempts + flagged
  BY <1>3, <1>4, <1>5
<1> QED
  BY <1>6, <1>7, <1>8 DEF CreditInv

\* With nothing running the detector has nothing to account for.
LEMMA CreditNone ==
  ASSUME polled' = FALSE, foreign' = 0, flagged' = 0, pc' = "off"
  PROVE  CreditInv'
BY DEF CreditInv

\* One request less waits when one of those in flight is sent.
LEMMA UnsentOne ==
  ASSUME TypeInv, PlaceInv, UNCHANGED inflight, NEW k \in Keys, k \in ToSet(inflight), Unsent(k) = 1, Unsent(k)' = 0,
         \A j \in Keys \ {k} : Unsent(j)' = Unsent(j)
  PROVE  UnsentAll = UnsentAll' + 1
<1> DEFINE u(j) == IF ro'[j].at \in {"new", "started", "opening"} THEN 1 ELSE 0
<1>1. u(k) = 0 /\ \A j \in Keys \ {k} : u(j) = Unsent(j)
  BY DEF Unsent
<1>2. Len(inflight) \in {1, 2} /\ inflight # <<>> /\ \A i \in 1..Len(inflight) : inflight[i] \in Keys
  BY QueueFacts, UnsentFacts
<1>3. CASE Len(inflight) = 1
  <2>1. UnsentAll' = u(inflight[1]) /\ inflight[1] = k
    BY <1>2, <1>3, QueueFacts DEF UnsentAll, Unsent
  <2> HIDE DEF u
  <2> QED
    BY <1>1, <1>3, <2>1, UnsentFacts
<1>4. CASE Len(inflight) = 2
  <2>1. UnsentAll' = u(inflight[1]) + u(inflight[2])
    BY <1>2, <1>4 DEF UnsentAll, Unsent
  <2>2. UnsentAll = Unsent(inflight[1]) + Unsent(inflight[2])
    BY <1>4, UnsentFacts
  <2>3. inflight[1] # inflight[2] /\ inflight[1] \in Keys /\ inflight[2] \in Keys /\ (inflight[1] = k \/ inflight[2] = k)
    BY <1>2, <1>4, QueueFacts, Distinct, SMTT(20) DEF PlaceInv, KeyPlace
  <2>4. \A j \in Keys : Unsent(j) \in {0, 1}
    BY UnsentFacts
  <2> HIDE DEF u
  <2>5. CASE inflight[1] = k
    <3>1. u(inflight[2]) = Unsent(inflight[2]) /\ Unsent(inflight[2]) \in {0, 1}
      BY <1>1, <2>3, <2>4, <2>5
    <3> QED
      BY <1>1, <2>1, <2>2, <2>5, <3>1
  <2>6. CASE inflight[2] = k
    <3>1. u(inflight[1]) = Unsent(inflight[1]) /\ Unsent(inflight[1]) \in {0, 1}
      BY <1>1, <2>3, <2>4, <2>6
    <3> QED
      BY <1>1, <2>1, <2>2, <2>6, <3>1
  <2> QED
    BY <2>3, <2>5, <2>6
<1> QED
  BY <1>2, <1>3, <1>4

LEMMA CreditStep ==
  ASSUME TypeInv, PlaceInv, QuietInv, CreditInv, [Next]_vars
  PROVE  CreditInv'
<1>1. ASSUME NEW c \in Calls, NEW arms \in Arms(c.efforts), Call(c, arms)
      PROVE  CreditInv'
  <2>1. pc = "off"
    BY <1>1, CallEffect
  <2>2. CASE UNCHANGED <<pc, detector>>
    BY <2>1, <2>2 DEF CreditInv, detector
  <2>3. CASE /\ pc' = "loop" /\ inflight' = <<>> /\ attempts' = 0
             /\ polled' = FALSE /\ credit' = 0 /\ ours' = 0 /\ foreign' = 0 /\ lost' = 0 /\ flagged' = 0
    <3>1. UnsentAll' = 0
      BY <2>3, EmptyFacts DEF UnsentAll
    <3> QED
      BY <2>3, <3>1, Times DEF CreditInv
  <2> QED
    BY <1>1, <2>2, <2>3, CallEffect
<1>2. CASE Round
  <2>1. CASE More
    <3>1. UNCHANGED <<inflight, attempts, polled, prev, credit, flagged, counter, ours, foreign, lost, ro>> /\ pc = "loop" /\ pc' = "harvest"
      BY <1>2, <2>1 DEF Round, detector, tally
    <3>2. UnsentAll' = UnsentAll /\ UnsentAll \in {0, 1, 2}
      BY <3>1, UnsentFacts DEF UnsentAll, Unsent
    <3>3. UnsentAll' <= UnsentAll
      BY <3>2
    <3> QED
      BY <3>1, <3>3, CreditKeep
  <2>2. CASE ~More
    BY <1>2, <2>2, CreditNone DEF Round, Gone
  <2> QED
    BY <2>1, <2>2
<1>3. CASE Harvest
  <2>1. /\ UNCHANGED <<attempts, polled, prev, credit, flagged, counter, ours, foreign, lost>> /\ pc = "harvest" /\ pc' \in {"budget", "write"}
        /\ ro \in [Keys -> Rollouts]
    BY <1>3, HarvestEffect DEF detector, tally, TypeInv, RolloutType
  <2>2. CASE UNCHANGED <<inflight, ro>>
    <3>1. UnsentAll' = UnsentAll /\ UnsentAll \in {0, 1, 2}
      BY <2>2, UnsentFacts DEF UnsentAll, Unsent
    <3>2. UnsentAll' <= UnsentAll
      BY <3>1
    <3> QED
      BY <2>1, <3>2, CreditKeep
  <2>3. ASSUME NEW i \in 1..Len(inflight), inflight' = RemoveAt(inflight, i), ro[inflight[i]].at = "dead",
               ro' = [ro EXCEPT ![inflight[i]] = NoRollout]
        PROVE  CreditInv'
    <3>1. /\ Len(inflight) \in {1, 2} /\ \A j \in 1..Len(inflight) : inflight[j] \in Keys
          /\ Unsent(inflight[i]) = 0 /\ i \in {1, 2}
      BY <2>3, QueueFacts, UnsentFacts DEF Unsent
    <3>2. UnsentAll' <= UnsentAll
      <4>1. CASE Len(inflight) = 1
        <5>1. inflight' = <<>> /\ Len(inflight') = 0
          BY <2>3, <4>1, HarvestPlaces
        <5>2. UnsentAll' = 0
          BY <5>1 DEF UnsentAll
        <5> QED
          BY <5>2, UnsentFacts
      <4>2. CASE Len(inflight) = 2
        <5>1. inflight' = <<inflight[3 - i]>> /\ 3 - i \in {1, 2} /\ 3 - i # i
          BY <2>3, <3>1, <4>2, HarvestPlaces
        <5>2. inflight[3 - i] # inflight[i] /\ inflight[3 - i] \in Keys
          BY <2>3, <3>1, <4>2, <5>1, QueueFacts, Distinct, SMTT(20) DEF PlaceInv, KeyPlace
        <5>3. ro'[inflight'[1]] = ro[inflight[3 - i]] /\ inflight' # <<>> /\ Len(inflight') = 1
          BY <2>1, <2>3, <5>1, <5>2
        <5>4. UnsentAll' = Unsent(inflight[3 - i])
          BY <5>3 DEF UnsentAll, Unsent
        <5>5. UnsentAll = Unsent(inflight[1]) + Unsent(inflight[2])
          BY <4>2, UnsentFacts
        <5>6. Unsent(inflight[3 - i]) \in {0, 1}
          BY <5>2, UnsentFacts
        <5>7. CASE i = 1
          BY <3>1, <5>4, <5>5, <5>6, <5>7
        <5>8. CASE i = 2
          BY <3>1, <5>4, <5>5, <5>6, <5>8
        <5> QED
          BY <3>1, <5>7, <5>8
      <4> QED
        BY <3>1, <4>1, <4>2
    <3> QED
      BY <2>1, <3>2, CreditKeep
  <2> QED
    BY <1>3, <2>2, <2>3, HarvestEffect
<1>4. CASE Write
  <2>1. UNCHANGED <<inflight, attempts, polled, prev, credit, flagged, counter, ours, foreign, lost, ro>> /\ pc # "off" /\ pc' # "off" /\ pc' # "launch"
    BY <1>4 DEF Write, detector, InLoop
  <2>2. UnsentAll' = UnsentAll /\ UnsentAll \in {0, 1, 2}
    BY <2>1, UnsentFacts DEF UnsentAll, Unsent
  <2>3. UnsentAll' <= UnsentAll
    BY <2>2
  <2>4. pc' = "launch" => ro'[Last(inflight')].at = "new"
    BY <2>1 DEF CreditInv
  <2> QED
    BY <2>1, <2>3, <2>4, CreditKeep
<1>5. CASE Account
  <2>1. UNCHANGED <<inflight, attempts, polled, prev, credit, flagged, counter, ours, foreign, lost, ro>> /\ pc = "account" /\ pc' = "harvest"
    BY <1>5, AccountEffect DEF tally, detector
  <2>2. UnsentAll' = UnsentAll /\ UnsentAll \in {0, 1, 2}
    BY <2>1, UnsentFacts DEF UnsentAll, Unsent
  <2>3. UnsentAll' <= UnsentAll
    BY <2>2
  <2> QED
    BY <2>1, <2>3, CreditKeep
<1>6. CASE Budgets
  <2>1. UNCHANGED <<inflight, attempts, polled, prev, credit, flagged, counter, ours, foreign, lost>> /\ pc # "off" /\ pc' # "off" /\ pc' # "launch"
    BY <1>6 DEF Budgets, disk, detector, tally, InLoop
  <2>2. \A j \in Keys : Unsent(j)' <= Unsent(j)
    BY <1>6, AbortEffect DEF Unsent
  <2>3. UnsentAll' <= UnsentAll
    BY <2>1, <2>2, UnsentLess
  <2> QED
    BY <2>1, <2>3, CreditKeep
<1>7. ASSUME NEW answered \in BOOLEAN, NEW gauges \in BOOLEAN, NEW sustained \in BOOLEAN, NEW settled \in BOOLEAN,
            Poll(answered, gauges, sustained, settled)
      PROVE  CreditInv'
  <2>1. /\ UNCHANGED <<inflight, attempts, counter, ours>> /\ pc = "poll" /\ pc' = "start"
        /\ IF answered THEN Update ELSE UNCHANGED <<polled, prev, credit, foreign, lost, flagged>>
    BY <1>7 DEF Poll, tally
  <2>2. \A j \in Keys : Unsent(j)' <= Unsent(j)
    BY <1>7, AbortEffect DEF Unsent
  <2>3. UnsentAll' <= UnsentAll
    BY <2>1, <2>2, UnsentLess
  <2>4. CASE ~answered
    BY <2>1, <2>3, <2>4, CreditKeep
  <2>5. CASE answered
    <3>1. UnsentAll \in {0, 1, 2} /\ UnsentAll' \in {0, 1, 2}
      BY UnsentFacts, UnsentNext
    <3>2. PromptTokens * UnsentAll \in Nat /\ PromptTokens * UnsentAll' \in Nat /\ PromptTokens * UnsentAll' <= PromptTokens * UnsentAll
      BY <2>3, <3>1, TimesLess
    <3>3. attempts \in Nat /\ PromptTokens * attempts \in Nat /\ PromptTokens * 0 = 0
      BY Times DEF TypeInv, CountType
    <3>4. /\ prev \in Nat /\ credit \in Nat /\ counter \in Nat /\ ours \in Nat /\ foreign \in Nat /\ lost \in Nat
          /\ flagged \in Nat
      BY DEF TypeInv, CountType
    <3>5. /\ flagged <= foreign
          /\ ours + PromptTokens * UnsentAll <= PromptTokens * attempts
          /\ ~polled => attempts = 0 /\ credit = 0 /\ flagged = 0
          /\ polled => credit + prev + ours + foreign = counter + lost + PromptTokens * attempts + flagged
      BY <2>1 DEF CreditInv
    <3>6. \A x, y, o, a \in Nat : y <= x /\ o + x <= a => o + y <= a /\ o <= a
      OBVIOUS
    <3>7. ours + PromptTokens * UnsentAll' <= PromptTokens * attempts /\ ours <= PromptTokens * attempts
      BY <3>2, <3>3, <3>4, <3>5, <3>6
    <3>8. CASE Baseline
      <4>1. attempts = 0 /\ credit = 0 /\ flagged = 0 /\ ours = 0
        BY <3>3, <3>4, <3>5, <3>7, <3>8 DEF Baseline
      <4>2. polled' = TRUE /\ prev' = counter /\ foreign' = 0 /\ lost' = 0 /\ credit' = 0 /\ flagged' = 0
        BY <3>8, <4>1 DEF Baseline
      <4>3. credit' + prev' + ours + foreign' = counter + lost' + PromptTokens * attempts + flagged'
        BY <3>3, <3>4, <4>1, <4>2
      <4> QED
        BY <2>1, <3>7, <4>2, <4>3 DEF CreditInv
    <3>9. CASE Compare
      <4>1. /\ polled /\ prev' = counter /\ UNCHANGED <<polled, foreign, lost>>
            /\ flagged' = flagged + (IF counter - prev > credit THEN counter - prev - credit ELSE 0)
            /\ credit' = IF credit > counter - prev THEN credit - (counter - prev) ELSE 0
        BY <3>9 DEF Compare, Excess, CreditLeft
      <4>2. ASSUME NEW q \in Nat, NEW v \in Nat, NEW c \in Nat, NEW o \in Nat, NEW g \in Nat, NEW l \in Nat,
                   NEW f \in Nat, NEW a \in Nat, f <= g, o <= a, v + q + o + g = c + l + a + f
            PROVE  /\ f + (IF c - q > v THEN c - q - v ELSE 0) <= g
                   /\ (IF v > c - q THEN v - (c - q) ELSE 0) + c + o + g
                        = c + l + a + (f + (IF c - q > v THEN c - q - v ELSE 0))
        BY <4>2
      <4>3. flagged' <= foreign /\ credit' + counter + ours + foreign = counter + lost + PromptTokens * attempts + flagged'
        BY <3>3, <3>4, <3>5, <3>7, <4>1, <4>2
      <4> QED
        BY <2>1, <3>7, <4>1, <4>3 DEF CreditInv
    <3> QED
      BY <2>1, <2>5, <3>8, <3>9 DEF Update
  <2> QED
    BY <2>4, <2>5
<1>8. CASE Start
  <2>0. /\ UNCHANGED <<polled, prev, counter, ours, foreign, lost, flagged>> /\ pc = "start"
        /\ ro \in [Keys -> Rollouts]
    BY <1>8, StartEffect DEF TypeInv, RolloutType
  <2>1. CASE pc' = "loop" /\ UNCHANGED <<ro, credit, inflight, pending, attempts>>
    <3>1. UnsentAll' = UnsentAll /\ UnsentAll \in {0, 1, 2}
      BY <2>1, UnsentFacts DEF UnsentAll, Unsent
    <3>2. UnsentAll' <= UnsentAll
      BY <3>1
    <3> QED
      BY <2>0, <2>1, <3>2, CreditKeep
  <2>2. CASE /\ pc' = "launch" /\ quiet /\ pending # <<>> /\ Len(inflight) < set.concurrency
             /\ credit' = credit + PromptTokens /\ attempts' = attempts + 1
             /\ inflight' = Append(inflight, Head(pending)) /\ pending' = Tail(pending)
             /\ ro' = [ro EXCEPT ![Head(pending)] = [NoRollout EXCEPT !.at = "new"]]
    <3>1. /\ Len(inflight) \in {0, 1} /\ Len(inflight') = Len(inflight) + 1 /\ inflight' # <<>> /\ Head(pending) \in Keys
          /\ Head(pending) \notin ToSet(inflight) /\ \A j \in 1..Len(inflight) : inflight[j] \in Keys
      BY <2>2, StartPlaces, QueueFacts
    <3>2. ro'[Head(pending)].at = "new" /\ \A j \in Keys \ {Head(pending)} : ro'[j] = ro[j]
      BY <2>0, <2>2, <3>1 DEF NoRollout
    <3>3. inflight'[Len(inflight')] = Head(pending)
      BY <2>2, <3>1, StartPlaces
    <3>4. ro'[Last(inflight')].at = "new"
      BY <3>2, <3>3 DEF Last
    <3>5. UnsentAll' = UnsentAll + 1
      <4>1. CASE Len(inflight) = 0
        <5>1. UnsentAll' = 1
          BY <3>1, <3>2, <3>3, <4>1 DEF UnsentAll, Unsent
        <5> QED
          BY <4>1, <5>1, UnsentFacts
      <4>2. CASE Len(inflight) = 1
        <5>1. inflight'[1] = inflight[1] /\ inflight[1] \in Keys /\ inflight[1] # Head(pending)
          BY <2>2, <3>1, <4>2, StartPlaces, QueueFacts
        <5>2. inflight'[2] = Head(pending) /\ Len(inflight') = 2
          BY <3>1, <3>3, <4>2
        <5>3. UnsentAll' = Unsent(inflight[1]) + 1
          BY <3>1, <3>2, <5>1, <5>2 DEF UnsentAll, Unsent
        <5> QED
          BY <4>2, <5>3, UnsentFacts
      <4> QED
        BY <3>1, <4>1, <4>2
    <3>6. UnsentAll \in {0, 1, 2} /\ attempts \in Nat
      BY UnsentFacts DEF TypeInv, CountType
    <3>7. PromptTokens * UnsentAll' = PromptTokens * UnsentAll + PromptTokens /\ PromptTokens * UnsentAll \in Nat
      BY <3>5, <3>6, Times
    <3>8. PromptTokens * attempts' = PromptTokens * attempts + PromptTokens /\ PromptTokens * attempts \in Nat
      BY <2>2, <3>6, Times
    <3>9. /\ prev \in Nat /\ credit \in Nat /\ counter \in Nat /\ ours \in Nat /\ foreign \in Nat /\ lost \in Nat
          /\ flagged \in Nat /\ PromptTokens \in Nat
      BY Times DEF TypeInv, CountType
    <3>10. \A o, x, p, a \in Nat : o + x <= a => o + (x + p) <= a + p
      OBVIOUS
    <3>11. /\ polled /\ credit + prev + ours + foreign = counter + lost + PromptTokens * attempts + flagged
           /\ ours + PromptTokens * UnsentAll <= PromptTokens * attempts
           /\ flagged <= foreign
      BY <2>0, <2>2 DEF CreditInv, QuietInv
    <3>12. credit' + prev + ours + foreign = counter + lost + PromptTokens * attempts' + flagged
      <4> DEFINE a == PromptTokens * attempts
      <4>0. a \in Nat /\ credit + prev + ours + foreign = counter + lost + a + flagged
        BY <3>8, <3>11
      <4> HIDE DEF a
      <4>2. (credit + PromptTokens) + prev + ours + foreign = counter + lost + (a + PromptTokens) + flagged
        BY <3>9, <4>0
      <4>1. (credit + PromptTokens) + prev + ours + foreign = counter + lost + (PromptTokens * attempts + PromptTokens) + flagged
        BY <4>2 DEF a
      <4> QED
        BY <2>2, <3>8, <4>1
    <3>13. ours + PromptTokens * UnsentAll' <= PromptTokens * attempts'
      BY <3>7, <3>8, <3>9, <3>10, <3>11
    <3> QED
      BY <2>0, <2>2, <3>4, <3>11, <3>12, <3>13 DEF CreditInv
  <2> QED
    BY <1>8, <2>1, <2>2, StartEffect
<1>9. CASE Launch
  <2>1. /\ UNCHANGED <<inflight, attempts, polled, prev, credit, flagged, counter, ours, foreign, lost>> /\ pc = "launch" /\ pc' = "loop"
        /\ ro' = [ro EXCEPT ![Last(inflight)].at = "started"] /\ ro \in [Keys -> Rollouts]
    BY <1>9 DEF Launch, detector, tally, TypeInv, RolloutType
  <2>2. ro[Last(inflight)].at = "new"
    BY <2>1 DEF CreditInv
  <2>3. \A j \in Keys : ro'[j] = ro[j] \/ (ro'[j].at = "started" /\ ro[j].at = "new")
    BY <2>1, <2>2 DEF Rollouts
  <2>4. \A j \in Keys : Unsent(j)' <= Unsent(j)
    BY <2>3 DEF Unsent
  <2>5. UnsentAll' <= UnsentAll
    BY <2>1, <2>4, UnsentLess
  <2> QED
    BY <2>1, <2>5, CreditKeep
<1>10. ASSUME NEW k \in Running, Connect(k)
      PROVE  CreditInv'
  <2>1. UNCHANGED <<pc, inflight, attempts, polled, prev, credit, flagged, foreign, lost>> /\ pc # "off" /\ k \in Running
    BY <1>10, StreamEffect DEF main, tally, InLoop
  <2>2. /\ ro' \in [Keys -> Rollouts] /\ k \in Keys /\ \A j \in Keys \ {k} : ro'[j] = ro[j]
        /\ ro'[k].at \notin {"none", "new", "started"}
        /\ \/ counter' = counter + PromptTokens /\ ours' = ours + PromptTokens /\ ro[k].at = "opening" /\ ro'[k].at = "open"
           \/ counter' = counter /\ ours' = ours /\ (ro'[k].at = "opening" => ro[k].at = "started")
    BY <1>10, StreamEffect
  <2>3. pc' = "launch" => ro'[Last(inflight')].at = "new"
    <3>1. SUFFICES ASSUME pc = "launch"
                   PROVE  ro'[Last(inflight)].at = "new"
      BY <2>1
    <3>2. ro[Last(inflight)].at = "new" /\ inflight # <<>>
      BY <3>1 DEF CreditInv, PlaceInv, RowPlace
    <3>3. Last(inflight) \in Keys
      BY <3>2, QueueFacts DEF Last
    <3>4. k # Last(inflight)
      BY <3>2, RunningFacts, <2>1
    <3> QED
      BY <2>2, <3>2, <3>3, <3>4
  <2>4. counter' = counter /\ ours' = ours
    BY <1>10 DEF Connect, disk, main, detector, tally
  <2>5. \A j \in Keys : Unsent(j)' <= Unsent(j)
    BY <1>10, <2>1, <2>2, <2>4, RunningFacts, Times, BenchAssumption DEF Unsent, CountType, TypeInv
  <2>6. UnsentAll' <= UnsentAll
    BY <2>1, <2>5, UnsentLess
  <2> QED
    BY <2>1, <2>3, <2>4, <2>6, CreditKeep
<1>11. ASSUME NEW k \in Running, Accept(k)
      PROVE  CreditInv'
  <2>1. UNCHANGED <<pc, inflight, attempts, polled, prev, credit, flagged, foreign, lost>> /\ pc # "off" /\ k \in Running
    BY <1>11, StreamEffect DEF main, tally, InLoop
  <2>2. /\ ro' \in [Keys -> Rollouts] /\ k \in Keys /\ \A j \in Keys \ {k} : ro'[j] = ro[j]
        /\ ro'[k].at \notin {"none", "new", "started"}
        /\ \/ counter' = counter + PromptTokens /\ ours' = ours + PromptTokens /\ ro[k].at = "opening" /\ ro'[k].at = "open"
           \/ counter' = counter /\ ours' = ours /\ (ro'[k].at = "opening" => ro[k].at = "started")
    BY <1>11, StreamEffect
  <2>3. pc' = "launch" => ro'[Last(inflight')].at = "new"
    <3>1. SUFFICES ASSUME pc = "launch"
                   PROVE  ro'[Last(inflight)].at = "new"
      BY <2>1
    <3>2. ro[Last(inflight)].at = "new" /\ inflight # <<>>
      BY <3>1 DEF CreditInv, PlaceInv, RowPlace
    <3>3. Last(inflight) \in Keys
      BY <3>2, QueueFacts DEF Last
    <3>4. k # Last(inflight)
      BY <3>2, RunningFacts, <2>1
    <3> QED
      BY <2>2, <3>2, <3>3, <3>4
  <2>4. counter' = counter + PromptTokens /\ ours' = ours + PromptTokens /\ ro[k].at = "opening" /\ ro'[k].at = "open"
    BY <1>11, <2>2, ZenonT(30) DEF Accept, TypeInv, RolloutType, Rollouts
  <2>5. Unsent(k) = 1 /\ Unsent(k)' = 0 /\ \A j \in Keys \ {k} : Unsent(j)' = Unsent(j)
    BY <2>2, <2>4 DEF Unsent
  <2>6. UnsentAll = UnsentAll' + 1
    BY <2>1, <2>5, UnsentOne, RunningFacts
  <2>7. UnsentAll' \in {0, 1, 2} /\ UnsentAll \in {0, 1, 2}
    BY UnsentFacts, UnsentNext
  <2>8. PromptTokens * UnsentAll = PromptTokens * UnsentAll' + PromptTokens /\ PromptTokens * UnsentAll' \in Nat
    BY <2>6, <2>7, Times
  <2>9. /\ prev \in Nat /\ credit \in Nat /\ counter \in Nat /\ ours \in Nat /\ foreign \in Nat /\ lost \in Nat
        /\ flagged \in Nat /\ PromptTokens \in Nat /\ attempts \in Nat /\ PromptTokens * attempts \in Nat
    BY Times DEF TypeInv, CountType
  <2>10. /\ ours + (PromptTokens * UnsentAll' + PromptTokens) <= PromptTokens * attempts
         /\ flagged <= foreign
         /\ ~polled => attempts = 0 /\ credit = 0 /\ flagged = 0
         /\ polled => credit + prev + ours + foreign = counter + lost + PromptTokens * attempts + flagged
    BY <2>1, <2>8 DEF CreditInv
  <2>11. \A o, x, p, a \in Nat : o + (x + p) <= a => (o + p) + x <= a
    OBVIOUS
  <2>12. (ours + PromptTokens) + PromptTokens * UnsentAll' <= PromptTokens * attempts
    BY <2>8, <2>9, <2>10, <2>11
  <2>13. polled => credit + prev + (ours + PromptTokens) + foreign
                     = (counter + PromptTokens) + lost + PromptTokens * attempts + flagged
    BY <2>9, <2>10
  <2> QED
    BY <2>1, <2>3, <2>4, <2>10, <2>12, <2>13 DEF CreditInv
<1>12. ASSUME NEW k \in Running, NEW last \in BOOLEAN, Chunk(k, last)
      PROVE  CreditInv'
  <2>1. UNCHANGED <<pc, inflight, attempts, polled, prev, credit, flagged, foreign, lost>> /\ pc # "off" /\ k \in Running
    BY <1>12, StreamEffect DEF main, tally, InLoop
  <2>2. /\ ro' \in [Keys -> Rollouts] /\ k \in Keys /\ \A j \in Keys \ {k} : ro'[j] = ro[j]
        /\ ro'[k].at \notin {"none", "new", "started"}
        /\ \/ counter' = counter + PromptTokens /\ ours' = ours + PromptTokens /\ ro[k].at = "opening" /\ ro'[k].at = "open"
           \/ counter' = counter /\ ours' = ours /\ (ro'[k].at = "opening" => ro[k].at = "started")
    BY <1>12, StreamEffect
  <2>3. pc' = "launch" => ro'[Last(inflight')].at = "new"
    <3>1. SUFFICES ASSUME pc = "launch"
                   PROVE  ro'[Last(inflight)].at = "new"
      BY <2>1
    <3>2. ro[Last(inflight)].at = "new" /\ inflight # <<>>
      BY <3>1 DEF CreditInv, PlaceInv, RowPlace
    <3>3. Last(inflight) \in Keys
      BY <3>2, QueueFacts DEF Last
    <3>4. k # Last(inflight)
      BY <3>2, RunningFacts, <2>1
    <3> QED
      BY <2>2, <3>2, <3>3, <3>4
  <2>4. counter' = counter /\ ours' = ours
    BY <1>12 DEF Chunk, disk, main, detector, tally
  <2>5. \A j \in Keys : Unsent(j)' <= Unsent(j)
    BY <1>12, <2>1, <2>2, <2>4, RunningFacts, Times, BenchAssumption DEF Unsent, CountType, TypeInv
  <2>6. UnsentAll' <= UnsentAll
    BY <2>1, <2>5, UnsentLess
  <2> QED
    BY <2>1, <2>3, <2>4, <2>6, CreditKeep
<1>13. ASSUME NEW k \in Running, NEW broken \in BOOLEAN, End(k, broken)
      PROVE  CreditInv'
  <2>1. UNCHANGED <<pc, inflight, attempts, polled, prev, credit, flagged, foreign, lost>> /\ pc # "off" /\ k \in Running
    BY <1>13, StreamEffect DEF main, tally, InLoop
  <2>2. /\ ro' \in [Keys -> Rollouts] /\ k \in Keys /\ \A j \in Keys \ {k} : ro'[j] = ro[j]
        /\ ro'[k].at \notin {"none", "new", "started"}
        /\ \/ counter' = counter + PromptTokens /\ ours' = ours + PromptTokens /\ ro[k].at = "opening" /\ ro'[k].at = "open"
           \/ counter' = counter /\ ours' = ours /\ (ro'[k].at = "opening" => ro[k].at = "started")
    BY <1>13, StreamEffect
  <2>3. pc' = "launch" => ro'[Last(inflight')].at = "new"
    <3>1. SUFFICES ASSUME pc = "launch"
                   PROVE  ro'[Last(inflight)].at = "new"
      BY <2>1
    <3>2. ro[Last(inflight)].at = "new" /\ inflight # <<>>
      BY <3>1 DEF CreditInv, PlaceInv, RowPlace
    <3>3. Last(inflight) \in Keys
      BY <3>2, QueueFacts DEF Last
    <3>4. k # Last(inflight)
      BY <3>2, RunningFacts, <2>1
    <3> QED
      BY <2>2, <3>2, <3>3, <3>4
  <2>4. counter' = counter /\ ours' = ours
    BY <1>13 DEF End, disk, main, detector, tally
  <2>5. \A j \in Keys : Unsent(j)' <= Unsent(j)
    BY <1>13, <2>1, <2>2, <2>4, RunningFacts, Times, BenchAssumption DEF Unsent, CountType, TypeInv
  <2>6. UnsentAll' <= UnsentAll
    BY <2>1, <2>5, UnsentLess
  <2> QED
    BY <2>1, <2>3, <2>4, <2>6, CreditKeep
<1>14. CASE Interrupt
  <2>1. UNCHANGED <<inflight, attempts, polled, prev, credit, flagged, counter, ours, foreign, lost>> /\ pc # "off" /\ pc' # "off" /\ pc' # "launch"
    BY <1>14 DEF Interrupt, disk, detector, tally, InLoop
  <2>2. \A j \in Keys : Unsent(j)' <= Unsent(j)
    BY <1>14, AbortEffect DEF Unsent
  <2>3. UnsentAll' <= UnsentAll
    BY <2>1, <2>2, UnsentLess
  <2> QED
    BY <2>1, <2>3, CreditKeep
<1>15. CASE JoinOne
  <2>1. CASE Gone("interrupted") \/ Gone("raised")
    BY <2>1, CreditNone DEF Gone
  <2>2. CASE inflight # <<>> /\ inflight' = Tail(inflight) /\ UNCHANGED <<pc, ro, detector>>
    <3>1. /\ UNCHANGED <<pc, attempts, polled, prev, credit, flagged, counter, ours, foreign, lost>> /\ pc = "interrupt"
      BY <1>15, <2>2, JoinEffect DEF detector
    <3>2. UnsentAll' <= UnsentAll
      <4>1. Len(inflight) \in {1, 2} /\ Len(inflight') = Len(inflight) - 1 /\ (Len(inflight) = 2 => inflight'[1] = inflight[2])
            /\ \A j \in 1..Len(inflight) : inflight[j] \in Keys
        BY <2>2, JoinPlaces, QueueFacts
      <4>2. CASE Len(inflight) = 1
        <5>1. inflight' = <<>>
          <6>1. inflight \in Seq(todo) /\ Len(Tail(inflight)) = 0 /\ Tail(inflight) \in Seq(todo)
            BY <2>2, <4>2, QueueFacts, TailFacts
          <6> QED
            BY <2>2, <6>1, SeqFacts
        <5>2. UnsentAll' = 0
          BY <5>1 DEF UnsentAll
        <5> QED
          BY <5>2, UnsentFacts
      <4>3. CASE Len(inflight) = 2
        <5>1. Len(inflight') = 1 /\ inflight' # <<>>
          BY <4>1, <4>3, EmptyFacts
        <5>0. inflight'[1] = inflight[2] /\ ro' = ro
          BY <2>2, <4>1, <4>3
        <5>2. UnsentAll' = Unsent(inflight[2])
          BY <5>0, <5>1 DEF UnsentAll, Unsent
        <5>3. UnsentAll = Unsent(inflight[1]) + Unsent(inflight[2]) /\ Unsent(inflight[1]) \in {0, 1} /\ Unsent(inflight[2]) \in {0, 1}
          BY <4>1, <4>3, UnsentFacts
        <5> QED
          BY <5>2, <5>3
      <4> QED
        BY <4>1, <4>2, <4>3
    <3> QED
      BY <3>1, <3>2, CreditKeep
  <2> QED
    BY <1>15, <2>1, <2>2, JoinEffect
<1>16. ASSUME NEW tear \in BOOLEAN, Kill(tear)
      PROVE  CreditInv'
  BY <1>16, CreditNone DEF Kill, Gone
<1>17. CASE Foreign \/ EngineRestart
  <2>1. /\ UNCHANGED <<pc, inflight, attempts, polled, prev, credit, flagged, ours, ro>> /\ pc # "off"
        /\ \/ counter' = counter + 1 /\ foreign' = foreign + 1 /\ lost' = lost
           \/ counter' = 0 /\ foreign' = foreign /\ lost' = lost + counter
    BY <1>17 DEF Foreign, EngineRestart, disk, main, tally
  <2>2. UnsentAll' = UnsentAll /\ UnsentAll \in {0, 1, 2}
    BY <2>1, UnsentFacts DEF UnsentAll, Unsent
  <2>3. UnsentAll' <= UnsentAll
    BY <2>2
  <2>4. pc' = "launch" => ro'[Last(inflight')].at = "new"
    BY <2>1 DEF CreditInv
  <2> QED
    BY <2>1, <2>3, <2>4, CreditKeep
<1>18. CASE TimeOver
  <2>1. UNCHANGED <<inflight, attempts, polled, prev, credit, flagged, counter, ours, foreign, lost, ro>> /\ pc # "off" /\ pc' = pc
    BY <1>18 DEF TimeOver, disk, detector, tally, InLoop
  <2>2. UnsentAll' = UnsentAll /\ UnsentAll \in {0, 1, 2}
    BY <2>1, UnsentFacts DEF UnsentAll, Unsent
  <2>3. UnsentAll' <= UnsentAll
    BY <2>2
  <2>4. pc' = "launch" => ro'[Last(inflight')].at = "new"
    BY <2>1 DEF CreditInv
  <2> QED
    BY <2>1, <2>3, <2>4, CreditKeep
<1>19. CASE UNCHANGED vars
  BY <1>19 DEF vars, disk, main, detector, tally, CreditInv, UnsentAll, Unsent
<1> QED
  BY NextCases, <1>1, <1>2, <1>3, <1>4, <1>5, <1>6, <1>7, <1>8, <1>9, <1>10, <1>11, <1>12, <1>13, <1>14, <1>15, <1>16, <1>17, <1>18, <1>19

\* The engine is called quiet by a poll that was answered.
LEMMA QuietStep ==
  ASSUME TypeInv, PlaceInv, QuietInv, [Next]_vars
  PROVE  QuietInv'
<1>1. ASSUME NEW c \in Calls, NEW arms \in Arms(c.efforts), Call(c, arms)
      PROVE  QuietInv'
  BY <1>1, CallEffect DEF detector, QuietInv
<1>2. CASE Round
  BY <1>2 DEF Round, Gone, detector, QuietInv
<1>3. CASE Harvest \/ Write \/ Account \/ Budgets \/ Launch \/ Interrupt \/ TimeOver
  BY <1>3 DEF Harvest, Write, Account, Budgets, Launch, Interrupt, TimeOver, detector, QuietInv
<1>4. ASSUME NEW answered \in BOOLEAN, NEW gauges \in BOOLEAN, NEW sustained \in BOOLEAN, NEW settled \in BOOLEAN,
             Poll(answered, gauges, sustained, settled)
      PROVE  QuietInv'
  <2>1. quiet' = settled /\ (settled => answered) /\ (answered => Update) /\ (~answered => polled' = polled)
    BY <1>4 DEF Poll
  <2>2. Update => polled' \in BOOLEAN /\ polled'
    <3>1. ASSUME Baseline PROVE polled' \in BOOLEAN /\ polled'
      <4>1. polled' = TRUE
        BY <3>1, Zenon DEF Baseline
      <4> QED
        BY Zenon, <4>1
    <3>2. ASSUME Compare PROVE polled' \in BOOLEAN /\ polled'
      <4>1. polled' = polled /\ polled
        BY <3>2, SMT DEF Compare
      <4> QED
        BY Zenon, <4>1 DEF QuietInv
    <3> QED
      BY Zenon, <3>1, <3>2 DEF Update
  <2>3. CASE answered
    BY Zenon, <2>1, <2>2, <2>3 DEF QuietInv
  <2>4. CASE ~answered
    BY Zenon, <2>1, <2>4 DEF QuietInv
  <2> QED
    BY <2>3, <2>4
<1>5. CASE Start
  BY <1>5, StartEffect DEF QuietInv
<1>6. ASSUME NEW k \in Running,
             \/ Connect(k) \/ Accept(k) \/ (\E last \in BOOLEAN : Chunk(k, last))
             \/ (\E broken \in BOOLEAN : End(k, broken))
      PROVE  QuietInv'
  BY <1>6, StreamEffect DEF main, QuietInv
<1>7. CASE JoinOne
  BY <1>7 DEF JoinOne, Gone, detector, QuietInv
<1>8. CASE \E tear \in BOOLEAN : Kill(tear)
  BY <1>8 DEF Kill, Gone, QuietInv
<1>9. CASE Foreign \/ EngineRestart
  BY <1>9 DEF Foreign, EngineRestart, main, QuietInv
<1>10. CASE UNCHANGED vars
  BY <1>10 DEF vars, main, detector, QuietInv
<1> QED
  BY NextCases, <1>1, <1>2, <1>3, <1>4, <1>5, <1>6, <1>7, <1>8, <1>9, <1>10

LEMMA InitInv ==
  ASSUME Init
  PROVE  IInv
<1>1. TypeInv
  <2>1. DiskType
    BY DEF Init, DiskType, NoRows, NoMeta
  <2>2. LoopType
    BY Blank DEF Init, LoopType
  <2>3. QueueType
    BY Blank DEF Init, QueueType
  <2>4. RolloutType
    BY Blank DEF Init, RolloutType
  <2>5. CountType
    BY DEF Init, CountType
  <2> QED
    BY <2>1, <2>2, <2>3, <2>4, <2>5 DEF TypeInv
<1>2. PlaceInv
  <2>1. RowPlace
    BY DEF Init, RowPlace
  <2>2. RoomLeft
    BY EmptyFacts, BenchAssumption DEF Init, RoomLeft, Holding
  <2>3. KeyPlace
    BY EmptyFacts DEF Init, KeyPlace
  <2>4. RolloutPlace
    BY Blank DEF Init, RolloutPlace
  <2> QED
    BY <2>1, <2>2, <2>3, <2>4 DEF PlaceInv
<1>3. ScoreInv
  BY EmptyFacts DEF Init, ScoreInv, NoRows
<1>4. ErrorInv
  BY BenchAssumption DEF Init, ErrorInv
<1>5. CoverInv
  BY FS_EmptySet DEF Init, CoverInv, DoneKeys, NoRows, NoMeta
<1>6. TallyInv
  BY DEF Init, TallyInv, AttemptsRecorded, InLoop
<1>7. ForgetInv
  BY DEF Init, ForgetInv, NothingForgotten, InLoop
<1>8. AloneInv
  BY Blank DEF Init, AloneInv
<1>9. CreditInv /\ QuietInv
  <2>1. polled = FALSE /\ quiet = FALSE
    BY DEF Init
  <2>2. QuietInv
    BY Zenon, <2>1 DEF QuietInv
  <2>3. CreditInv
    BY <2>1 DEF Init, CreditInv
  <2> QED
    BY <2>2, <2>3
<1> QED
  BY <1>1, <1>2, <1>3, <1>4, <1>5, <1>6, <1>7, <1>8, <1>9 DEF IInv

LEMMA StepInv ==
  ASSUME IInv, [Next]_vars
  PROVE  IInv'
<1>1. TypeInv' /\ PlaceInv' /\ ScoreInv' /\ ErrorInv' /\ CoverInv'
  BY TypedStep, PlaceStep, ScoreStep, ErrorStep, CoverStep DEF IInv
<1>2. TallyInv' /\ ForgetInv' /\ AloneInv' /\ QuietInv' /\ CreditInv'
  BY TallyStep, ForgetStep, AloneStep, QuietStep, CreditStep DEF IInv
<1> QED
  BY <1>1, <1>2 DEF IInv

\* Whatever the command lines, budgets, chunks, failures, interrupts, kills and
\* foreign users, the runner keeps the invariant the properties follow from.
THEOREM BenchInvariant == Spec => []IInv
<1>1. Init => IInv
  BY InitInv
<1>2. IInv /\ [Next]_vars => IInv'
  BY StepInv
<1> QED
  BY <1>1, <1>2, PTL DEF Spec

-----------------------------------------------------------------------------
LEMMA TypeRight ==
  ASSUME IInv
  PROVE  TypeOK
<1> USE DEF IInv
<1>1. rows \in [Keys -> Nat] /\ torn \in BOOLEAN /\ meta.n \in Nat
  BY DEF TypeInv, DiskType
<1>2. /\ pc \in InLoop \cup {"off", "interrupt"} /\ set \in Calls /\ spent \in Nat /\ {stop, quiet, late} \subseteq BOOLEAN
      /\ exit \in {"none", "ok", "interrupted", "raised", "killed"}
  BY DEF TypeInv, LoopType
<1>3. todo \subseteq Keys /\ Len(inflight) <= 2
  BY QueueFacts, FlightFacts
<1>4. Len(inflight) <= set.concurrency
  <2>1. Len(inflight) \in Nat /\ Holding \in {0, 1} /\ Len(inflight) + Holding <= set.concurrency /\ set.concurrency \in {1, 2}
    BY QueueFacts, FlightFacts
  <2> QED
    BY <2>1
<1>5. ToSet(inflight \o pending) \subseteq todo
  <2>1. inflight \o pending \in Seq(todo)
    BY QueueFacts, ConcatProperties
  <2> QED
    BY <2>1, SeqFacts
<1>6. errorsInRow \in 0..MaxErrors + 1
  <2>1. errorsInRow \in Nat /\ Len(inflight) \in Nat /\ Holding \in {0, 1} /\ MaxErrors \in Nat
    BY QueueFacts, FlightFacts, BenchAssumption DEF TypeInv, LoopType
  <2>2. errorsInRow >= MaxErrors => errorsInRow + Len(inflight) + Holding <= MaxErrors + 1
    BY DEF ErrorInv
  <2> QED
    BY <2>1, <2>2
<1>7. \A k \in Keys : /\ ro[k].at \in {"none", "new", "started", "opening", "open", "shut", "dead"}
                      /\ ro[k].tokens \in Nat /\ ro[k].abort \in Statuses \cup {""}
  BY DEF TypeInv, RolloutType, Rollouts, Statuses
<1>8. {prev, credit, counter, ours, foreign, lost, flagged, attempts, recorded, calls} \subseteq Nat /\ polled \in BOOLEAN
  BY DEF TypeInv, CountType, QuietInv
<1> QED
  BY <1>1, <1>2, <1>3, <1>4, <1>5, <1>6, <1>7, <1>8 DEF TypeOK

LEMMA KeyShape ==
  ASSUME NEW k \in Keys
  PROVE  k = <<k[1], k[2], k[3]>> /\ k[3] \in Nat
<1>1. PICK c \in Calls : \E t \in ToSet(c.tasks), e \in c.efforts, s \in 0..(c.n - 1) : k = <<t, e, s>>
  BY DEF Keys
<1>2. c.n \in Nat
  BY BenchAssumption
<1> QED
  BY <1>1, <1>2

\* The rows of an arm count its planned samples one to one: as many as tasks
\* times samples are all of them.
LEMMA CoverageRight ==
  ASSUME IInv
  PROVE  CoverageTrue
<1>1. SUFFICES ASSUME NEW e \in meta.efforts
               PROVE  CoverageComplete(e) <=> \A t \in meta.tasks, s \in 0..(meta.n - 1) : <<t, e, s>> \in DoneKeys
  BY DEF CoverageTrue
<1> DEFINE S == 0..(meta.n - 1)
           A == ArmRows(e)
           place == [k \in A |-> <<k[1], k[3]>>]
<1>2. meta.n \in Nat /\ meta.n # 0 /\ IsFiniteSet(meta.tasks)
  BY DEF IInv, TypeInv, DiskType, CoverInv
<1>3. IsFiniteSet(S) /\ Cardinality(S) = meta.n /\ 0 \in S
  <2>1. meta.n - 1 \in Int /\ 0 \in Int /\ ~(0 > meta.n - 1) /\ (meta.n - 1) - 0 + 1 = meta.n /\ 0 \in S
    BY <1>2
  <2>2. IsFiniteSet(S) /\ Cardinality(S) = IF 0 > meta.n - 1 THEN 0 ELSE (meta.n - 1) - 0 + 1
    BY <2>1, FS_Interval
  <2> QED
    BY <2>1, <2>2
<1>4. IsFiniteSet(meta.tasks \X S) /\ Cardinality(meta.tasks \X S) = Cardinality(meta.tasks) * meta.n
  BY <1>2, <1>3, FS_Product
<1>5. \A k \in A : /\ k = <<k[1], k[2], k[3]>> /\ k \in DoneKeys /\ k[2] = e /\ k[1] \in meta.tasks /\ k[3] \in S
  <2>1. \A k \in A : k \in Keys /\ k \in DoneKeys /\ k[2] = e /\ k[1] \in meta.tasks
    BY DEF ArmRows, DoneKeys
  <2>2. \A k \in A : k = <<k[1], k[2], k[3]>> /\ k[3] \in Nat
    BY <2>1, KeyShape
  <2>3. \A k \in A : k[3] < meta.n
    BY <2>1 DEF IInv, CoverInv, Planned
  <2> QED
    BY <1>2, <2>1, <2>2, <2>3
<1>6. place \in Injection(A, meta.tasks \X S)
  <2>1. place \in [A -> meta.tasks \X S]
    BY <1>5
  <2>2. ASSUME NEW k \in A, NEW l \in A, place[k] = place[l]
        PROVE  k = l
    <3>1. k[1] = l[1] /\ k[3] = l[3] /\ k[2] = e /\ l[2] = e
      BY <1>5, <2>2
    <3>2. k = <<k[1], k[2], k[3]>> /\ l = <<l[1], l[2], l[3]>>
      BY <1>5
    <3> QED
      BY <3>1, <3>2
  <2> QED
    BY <2>1, <2>2 DEF Injection, IsInjective
<1>7. Cardinality(A) = Cardinality(meta.tasks) * meta.n <=> place \in Surjection(A, meta.tasks \X S)
  BY <1>4, <1>6, FS_Injection
<1>8. place \in Surjection(A, meta.tasks \X S) <=> \A t \in meta.tasks, s \in S : <<t, e, s>> \in DoneKeys
  <2>1. ASSUME place \in Surjection(A, meta.tasks \X S), NEW t \in meta.tasks, NEW s \in S
        PROVE  <<t, e, s>> \in DoneKeys
    <3>1. PICK k \in A : place[k] = <<t, s>>
      BY <2>1 DEF Surjection
    <3>2. k[1] = t /\ k[3] = s
      BY <3>1
    <3> QED
      BY <1>5, <3>2
  <2>2. ASSUME \A t \in meta.tasks, s \in S : <<t, e, s>> \in DoneKeys
        PROVE  place \in Surjection(A, meta.tasks \X S)
    <3>1. ASSUME NEW t \in meta.tasks, NEW s \in S
          PROVE  \E k \in A : place[k] = <<t, s>>
      <4>1. <<t, e, s>> \in A
        BY <2>2, <3>1 DEF ArmRows
      <4>2. place[<<t, e, s>>] = <<t, s>>
        BY <4>1
      <4> QED
        BY <4>1, <4>2
    <3>2. place \in [A -> meta.tasks \X S]
      BY <1>5
    <3>3. \A x \in meta.tasks \X S : \E k \in A : place[k] = x
      <4>1. SUFFICES ASSUME NEW x \in meta.tasks \X S
                     PROVE  \E k \in A : place[k] = x
        OBVIOUS
      <4>2. x = <<x[1], x[2]>> /\ x[1] \in meta.tasks /\ x[2] \in S
        BY <4>1
      <4> HIDE DEF place
      <4>3. PICK k \in A : place[k] = <<x[1], x[2]>>
        BY <3>1, <4>2, Zenon
      <4>4. place[k] = x
        BY <4>2, <4>3, Zenon
      <4> QED
        BY <4>4
    <3> QED
      BY <3>2, <3>3 DEF Surjection
  <2> QED
    BY <2>1, <2>2
<1>9. ASSUME \A t \in meta.tasks, s \in S : <<t, e, s>> \in DoneKeys
      PROVE  {k[1] : k \in A} = meta.tasks
  <2>1. \A t \in meta.tasks : <<t, e, 0>> \in A
    BY <1>3, <1>9 DEF ArmRows
  <2>2. \A t \in meta.tasks : \E k \in A : k[1] = t
    BY <2>1
  <2>3. \A k \in A : k[1] \in meta.tasks
    BY <1>5
  <2> QED
    BY <2>2, <2>3
<1> HIDE DEF A, place
<1>10. CoverageComplete(e) <=> Cardinality(A) = Cardinality(meta.tasks) * meta.n /\ {k[1] : k \in A} = meta.tasks
  BY DEF CoverageComplete, A
<1> QED
  BY <1>7, <1>8, <1>9, <1>10

\* The rows of a directory are the attempts that were made, each key scored at
\* most once whatever was resumed, yielded, interrupted or killed; an invocation
\* that ends has forgotten nothing; and an arm is called complete exactly when it is.
THEOREM RowsAreExact == Spec => []RowsExact
<1>1. IInv => RowsExact
  BY TypeRight, CoverageRight DEF IInv, ScoreInv, DoneOnce, TallyInv, ForgetInv, RowsExact
<1> QED
  BY <1>1, BenchInvariant, PTL

\* One rollout at a time, none that finished past the token budget is scored.
THEOREM BudgetIsHard == Spec => []BudgetHard
<1>1. IInv => BudgetHard
  BY DEF IInv, AloneInv, BudgetHard
<1> QED
  BY <1>1, BenchInvariant, PTL

\* Once the first answered poll has taken its baseline, the detector accuses nobody of
\* prompts that are our own; and what it misses of the others' is at most what no poll has
\* read yet, the credit of our requests that the engine did not take, and what restarts
\* of the engine took off its counter (ForeignDetector.update, expect_prompt).
THEOREM DetectorIsExact == Spec => []DetectorExact
<1>1. IInv => DetectorExact
  <2>1. SUFFICES ASSUME IInv
                 PROVE  DetectorExact
    OBVIOUS
  <2>2. /\ prev \in Nat /\ credit \in Nat /\ counter \in Nat /\ ours \in Nat /\ foreign \in Nat /\ lost \in Nat
        /\ flagged \in Nat /\ attempts \in Nat /\ PromptTokens * attempts \in Nat
    BY <2>1, Times DEF IInv, TypeInv, CountType
  <2>3. /\ flagged <= foreign
        /\ polled => credit + prev + ours + foreign = counter + lost + PromptTokens * attempts + flagged
    BY <2>1 DEF IInv, CreditInv
  <2>4. polled => foreign <= flagged + (counter - prev) + (PromptTokens * attempts - ours) + lost
    BY <2>2, <2>3
  <2> QED
    BY <2>3, <2>4 DEF DetectorExact
<1> QED
  BY <1>1, BenchInvariant, PTL
===============================================================================
