---------------------------- MODULE Exl3Proofs ----------------------------
(* Proofs about the two parts of exl3.py.                                      *)
(* MoeDispatch, for every setting of the environment, the checkpoint and the   *)
(* image, and every routing, number of experts, picks, buffer rows and segment *)
(* rows: a call takes a path its layer's load allows, and whichever it takes   *)
(* adds every slot of a local expert once.                                     *)
(* Exl3Load, for every layer, tensor-parallel size, map of K and checkpoint    *)
(* that lacks a tensor or a matrix: what comes up is the layer, a gap raises,  *)
(* and the shapes of a captured forward that the pretune reached were tuned.    *)
EXTENDS MoeDispatch, Exl3Load, FiniteSetTheorems, FunctionTheorems, WellFoundedInduction, TLAPS

-----------------------------------------------------------------------------
(* The path *)

\* A resolved tier is one of the five, and never above what the image has
\* kernels for.
LEMMA TierTyped ==
  ASSUME NEW c \in Settings
  PROVE  ResolveTier(c) \in {"error", "legacy", "sorted", "batched", "kernel", "grouped"}
BY DEF ResolveTier, ConfiguredTier, KernelTier

LEMMA InitPath == Init => PathInv
BY DEF Init, PathInv

LEMMA StepPath == PathInv /\ [Next]_vars => PathInv'
<1> SUFFICES ASSUME PathInv, [Next]_vars
             PROVE  PathInv'
  OBVIOUS
<1>1. UNCHANGED <<cfg, tier>>
  BY DEF Next, vars, call, Begin, StreamCounts, LoopAll, FusedSmall, GroupedThin,
     GroupedGather, GroupedGateUp, GroupedDown, StageCounts, CopyCounts, Synchronize,
     ReadCounts, ThinOnly, StartTiles, NextTile, StartFat, NextFat, LegacyFat, Return
<1>2. /\ UNCHANGED ResolveTier(cfg)
      /\ UNCHANGED <<UseGrouped, UseBatched, UseSorted>>
  BY <1>1 DEF UseGrouped, UseBatched, UseSorted, WantBatched, WantKernel
<1>3. \/ pc' = pc
      \/ pc' \in {"idle", "apply", "done", "tiles", "legacy"}
      \/ pc \in {"gather", "gateup"} /\ pc' \in {"gateup", "down"}
      \/ pc' = "gather" /\ UseGrouped
      \/ pc' = "staged" /\ UseBatched /\ ~UseGrouped
      \/ pc = "staged" /\ pc' = "decide"
      \/ pc' = "decide" /\ ~UseGrouped
      \/ pc = "decide" /\ pc' = "fat" /\ UseSorted /\ ~cfg.rowTile
  BY DEF Next, vars, call, Begin, StreamCounts, LoopAll, FusedSmall, GroupedThin,
     GroupedGather, GroupedGateUp, GroupedDown, StageCounts, CopyCounts, Synchronize,
     ReadCounts, ThinOnly, StartTiles, NextTile, StartFat, NextFat, LegacyFat, Return
<1> QED
  BY <1>1, <1>2, <1>3 DEF PathInv

\* The four paths the invariant tells apart.
LEMMA PathOfInv == PathInv => PathAllowed
<1> SUFFICES ASSUME PathInv
             PROVE  PathAllowed
  OBVIOUS
<1> DEFINE B == BOOLEAN
<1>1. /\ cfg.grouped \in B /\ cfg.kernel \in B /\ cfg.batched \in B /\ cfg.sorted \in B
      /\ cfg.shared \in B /\ cfg.k4mcg \in B /\ cfg.groupedEligible \in B
      /\ cfg.gemmSymbols \in B /\ cfg.moeSymbols \in B /\ cfg.rowTile \in B
  BY MoeConstants DEF PathInv
<1> USE DEF PathAllowed, PathTaken, TierRank, PathInv
<1>2. TierRank(tier) \in 0..4
  BY TierTyped
<1>3. CASE pc \in {"gather", "gateup", "down"}
  <2>1. tier = "grouped" /\ cfg.grouped
    BY <1>3 DEF UseGrouped
  <2>2. cfg.moeSymbols /\ cfg.groupedEligible
    BY <1>1, <2>1 DEF ResolveTier, ConfiguredTier, KernelTier
  <2> QED
    BY <1>3, <2>1, <2>2
<1>4. CASE pc = "staged"
  <2>1. tier \in {"batched", "kernel", "grouped"}
    BY <1>1, <1>4 DEF ResolveTier, ConfiguredTier, KernelTier, UseBatched, WantBatched, WantKernel
  <2> QED
    BY <1>4, <2>1
<1>5. CASE pc = "fat" /\ UseKernel
  <2>1. tier = "kernel" /\ cfg.gemmSymbols
    BY <1>1, <1>5 DEF ResolveTier, ConfiguredTier, KernelTier, UseKernel, UseBatched,
       WantBatched, WantKernel, UseGrouped
  <2>2. cfg.k4mcg /\ cfg.shared
    BY <1>5 DEF UseKernel, UseBatched
  <2> QED
    BY <1>5, <2>1, <2>2
<1>6. CASE pc = "fat" /\ ~UseKernel /\ UseBatched
  <2>1. tier \in {"batched", "kernel", "grouped"}
    BY <1>1, <1>6 DEF ResolveTier, ConfiguredTier, KernelTier, UseBatched, WantBatched, WantKernel
  <2> QED
    BY <1>6, <2>1
<1>7. CASE pc = "fat" /\ ~UseBatched
  <2>1. tier \in {"sorted", "batched", "kernel", "grouped"}
    BY <1>1, <1>7 DEF ResolveTier, ConfiguredTier, KernelTier, UseSorted, WantBatched, WantKernel
  <2>2. ~UseKernel
    BY <1>7 DEF UseKernel
  <2> QED
    BY <1>7, <2>1, <2>2
<1>8. CASE pc \notin {"gather", "gateup", "down", "staged", "fat"}
  <2>1. PathTaken = "legacy"
    BY <1>8
  <2>2. TierRank("legacy") = 0
    OBVIOUS
  <2> HIDE DEF PathTaken, TierRank
  <2> QED
    BY <1>2, <2>1, <2>2
<1> QED
  BY <1>3, <1>4, <1>5, <1>6, <1>7, <1>8

(* Whatever the environment asks for, the path of a call runs on kernels the   *)
(* image has and this layer can use, and is no higher than the tier its load   *)
(* resolved: apply_exl3_fused_moe, resolve_exl3_fat_tier.                      *)
THEOREM PathsAllowed == Spec => []PathAllowed
<1>1. PathInv => PathAllowed
  BY PathOfInv
<1> QED
  BY <1>1, InitPath, StepPath, PTL DEF Spec

-----------------------------------------------------------------------------
(* Induction and order *)

\* Every nonempty set of naturals has a least element: what induction rests on.
LEMMA Least ==
  ASSUME NEW T \in SUBSET Nat, T # {}
  PROVE  \E k \in T : \A l \in T : k <= l
<1> DEFINE R == OpToRel(<, Nat)
<1>1. IsWellFoundedOn(R, Nat)
  BY NatLessThanWellFounded
<1>2. \E k \in T : \A l \in T : ~ (<<l, k>> \in R)
  BY <1>1, WFMin, Zenon
<1>3. \A k, l \in T : <<l, k>> \notin R => k <= l
  BY DEF OpToRel
<1> QED BY <1>2, <1>3

\* A set of numbers up to len that has 0 and, with a number, the next one has all.
LEMMA Induction ==
  ASSUME NEW len \in Nat, NEW P, 0 \in P, \A i \in 0..(len - 1) : i \in P => i + 1 \in P
  PROVE  \A i \in 0..len : i \in P
<1> DEFINE T == {m \in 0..len : m \notin P}
<1> SUFFICES ASSUME T # {} PROVE FALSE
  OBVIOUS
<1>1. T \in SUBSET Nat
  OBVIOUS
<1>2. PICK k \in T : \A l \in T : k <= l
  BY <1>1, Least, Zenon
<1>3. k \in 0..len /\ k # 0 /\ k \notin P
  BY <1>2
<1>4. k - 1 \in 0..(len - 1) /\ (k - 1) + 1 = k /\ k - 1 \in 0..len
  BY <1>3
<1>5. k - 1 \in P
  BY <1>2, <1>4
<1> QED
  BY <1>3, <1>4, <1>5

\* A function can be built step by step.
Iterates(f, len, a, G) == f[0] = a /\ \A i \in 1..len : f[i] = G[i][f[i - 1]]
LEMMA Iterated ==
  ASSUME NEW len \in Nat, NEW A, NEW a \in A, NEW G \in [1..len -> [A -> A]]
  PROVE  \E f \in [0..len -> A] : Iterates(f, len, a, G)
<1> DEFINE Some(m) == \E f \in [0..m -> A] : f[0] = a /\ \A i \in 1..m : f[i] = G[i][f[i - 1]]
           P == {m \in 0..len : Some(m)}
<1>1. Some(0)
  <2>1. [i \in 0..0 |-> a] \in [0..0 -> A] /\ [i \in 0..0 |-> a][0] = a /\ 1..0 = {}
    OBVIOUS
  <2> QED
    BY <2>1
<1>2. ASSUME NEW m \in 0..(len - 1), Some(m) PROVE Some(m + 1)
  <2>1. PICK f \in [0..m -> A] : f[0] = a /\ \A i \in 1..m : f[i] = G[i][f[i - 1]]
    BY <1>2
  <2> DEFINE last == G[m + 1][f[m]]
             h == [i \in 0..(m + 1) |-> IF i = m + 1 THEN last ELSE f[i]]
  <2>2. m \in Nat /\ m + 1 \in 1..len /\ m \in 0..m /\ f[m] \in A
    OBVIOUS
  <2>3. last \in A
    BY <2>2
  <2> HIDE DEF last
  <2>4. h \in [0..(m + 1) -> A]
    BY <2>2, <2>3
  <2>5. h[0] = a /\ h[m + 1] = last /\ \A i \in 0..m : h[i] = f[i]
    BY <2>1, <2>2
  <2> HIDE DEF h
  <2>6. ASSUME NEW i \in 1..(m + 1) PROVE h[i] = G[i][h[i - 1]]
    <3>1. CASE i = m + 1
      <4>1. i - 1 = m
        BY <2>2, <3>1
      <4> QED
        BY <2>2, <2>5, <3>1, <4>1 DEF last
    <3>2. CASE i # m + 1
      <4>1. i \in 1..m /\ i \in 0..m /\ i - 1 \in 0..m
        BY <2>2, <3>2
      <4> QED
        BY <2>1, <2>5, <4>1
    <3> QED
      BY <3>1, <3>2
  <2> QED
    BY <2>4, <2>5, <2>6
<1>3. \A m \in 0..len : m \in P
  <2> HIDE DEF Some
  <2>1. 0 \in P
    BY <1>1
  <2>2. \A m \in 0..(len - 1) : m \in P => m + 1 \in P
    BY <1>2
  <2> HIDE DEF P
  <2> QED
    BY <2>1, <2>2, Induction
<1>4. Some(len)
  <2> HIDE DEF Some
  <2> QED
    BY <1>3
<1> QED
  BY <1>4 DEF Iterates

\* A map between two sets that misses none and meets none twice says they are of one size.
LEMMA OneToOne ==
  ASSUME NEW S, NEW T, IsFiniteSet(T), NEW f \in [S -> T],
         \A x, y \in S : f[x] = f[y] => x = y,
         \A t \in T : \E x \in S : f[x] = t
  PROVE  IsFiniteSet(S) /\ Cardinality(S) = Cardinality(T)
<1>1. f \in Injection(S, T) /\ f \in Surjection(S, T)
  BY DEF Injection, IsInjective, Surjection
<1> QED
  BY <1>1, FS_Injection

Before(S, L, x) == {u \in S : <<u, x>> \in L}
Orders(S, L) ==
  /\ \A x \in S : <<x, x>> \notin L
  /\ \A x, y \in S : x = y \/ <<x, y>> \in L \/ <<y, x>> \in L
  /\ \A x, y, z \in S : <<x, y>> \in L /\ <<y, z>> \in L => <<x, z>> \in L
Places(S, L) ==
  /\ \A x \in S : Cardinality(Before(S, L, x)) \in 0..(Cardinality(S) - 1)
  /\ \A x, y \in S : <<x, y>> \in L => Cardinality(Before(S, L, x)) < Cardinality(Before(S, L, y))
  /\ \A x, y \in S : Cardinality(Before(S, L, x)) = Cardinality(Before(S, L, y)) => x = y
  /\ \A i \in 0..(Cardinality(S) - 1) : \E x \in S : Cardinality(Before(S, L, x)) = i

\* The number of elements before it is the place of each element of a finite ordered set.
LEMMA Ranked ==
  ASSUME NEW S, IsFiniteSet(S), NEW L, Orders(S, L)
  PROVE  Places(S, L)
<1> DEFINE B(x) == {u \in S : <<u, x>> \in L}
           len == Cardinality(S)
<1> USE DEF Orders
<1>1. len \in Nat
  BY FS_CardinalityType
<1>2. ASSUME NEW x \in S PROVE IsFiniteSet(B(x)) /\ Cardinality(B(x)) \in 0..(len - 1)
  <2>1. B(x) \in SUBSET S /\ B(x) # S
    OBVIOUS
  <2>2. IsFiniteSet(B(x)) /\ Cardinality(B(x)) <= len /\ Cardinality(B(x)) # len
    BY <2>1, FS_Subset
  <2>3. Cardinality(B(x)) \in Nat
    BY <2>2, FS_CardinalityType
  <2> HIDE DEF B, len
  <2> QED
    BY <1>1, <2>2, <2>3
<1>3. ASSUME NEW x \in S, NEW y \in S, <<x, y>> \in L PROVE Cardinality(B(x)) < Cardinality(B(y))
  <2>1. B(x) \in SUBSET B(y)
    BY <1>3
  <2>2. x \in B(y) /\ x \notin B(x)
    BY <1>3
  <2>3. IsFiniteSet(B(y))
    BY <1>2
  <2>4. Cardinality(B(x)) <= Cardinality(B(y)) /\ Cardinality(B(x)) # Cardinality(B(y))
    <3> HIDE DEF B
    <3> QED
      BY <2>1, <2>2, <2>3, FS_Subset
  <2>5. Cardinality(B(x)) \in 0..(len - 1) /\ Cardinality(B(y)) \in 0..(len - 1)
    BY <1>2
  <2> HIDE DEF B, len
  <2> QED
    BY <1>1, <2>4, <2>5
<1>4. ASSUME NEW x \in S, NEW y \in S, Cardinality(B(x)) = Cardinality(B(y)) PROVE x = y
  <2>1. Cardinality(B(x)) \in 0..(len - 1)
    BY <1>2
  <2>2. <<x, y>> \notin L /\ <<y, x>> \notin L
    <3>1. Cardinality(B(x)) \in Nat /\ Cardinality(B(y)) \in Nat
      BY <1>1, <1>4, <2>1
    <3> HIDE DEF B
    <3> QED
      BY <1>3, <1>4, <3>1
  <2> QED
    BY <2>2
<1>5. ASSUME NEW i \in 0..(len - 1) PROVE \E x \in S : Cardinality(B(x)) = i
  <2> DEFINE f == [x \in S |-> Cardinality(B(x))]
             T == 0..(len - 1)
  <2>1. f \in Injection(S, T)
    <3>1. f \in [S -> T]
      BY <1>2
    <3>2. \A x, y \in S : f[x] = f[y] => x = y
      <4> HIDE DEF B
      <4> QED
        BY <1>4
    <3> QED
      BY <3>1, <3>2 DEF Injection, IsInjective
  <2>2. IsFiniteSet(T) /\ Cardinality(T) = len
    <3>1. 0 \in Int /\ len - 1 \in Int /\ (IF 0 > len - 1 THEN 0 ELSE (len - 1) - 0 + 1) = len
      BY <1>1
    <3> QED
      BY <3>1, FS_Interval
  <2>3. f \in Surjection(S, T)
    BY <2>1, <2>2, FS_Injection
  <2>4. PICK x \in S : f[x] = i
    BY <2>3 DEF Surjection
  <2> QED
    BY <2>4
<1>6. \A x : B(x) = Before(S, L, x)
  BY DEF Before
<1> HIDE DEF B
<1> QED
  BY <1>1, <1>2, <1>3, <1>4, <1>5, <1>6 DEF Places

LEMMA Divided ==
  ASSUME NEW d \in Nat, d > 0, NEW x \in Nat
  PROVE  /\ x \div d \in Nat /\ x % d \in Nat /\ x % d < d
         /\ x = d * (x \div d) + (x % d)
OBVIOUS

LEMMA Product ==
  ASSUME NEW d \in Nat, NEW m \in Nat, NEW len \in Nat
  PROVE  /\ d * m \in Nat /\ d * len \in Nat /\ d * (m + 1) = d * m + d
         /\ (m < len => d * m + d <= d * len) /\ (m <= len => d * m <= d * len)
<1>1. d * m \in Nat /\ d * len \in Nat /\ d * (m + 1) = d * m + d
  OBVIOUS
<1>2. ASSUME m < len PROVE d * m + d <= d * len
  <2>1. len - (m + 1) \in Nat /\ len = (m + 1) + (len - (m + 1))
    BY <1>2
  <2>2. d * (len - (m + 1)) \in Nat
    BY <2>1
  <2>3. d * len = d * (m + 1) + d * (len - (m + 1))
    BY <2>1
  <2> QED
    BY <1>1, <2>2, <2>3
<1>3. ASSUME m = len PROVE d * m <= d * len
  BY <1>1, <1>3
<1> QED
  BY <1>1, <1>2, <1>3

\* A quotient and a rest are those of one number only.
LEMMA Quotient ==
  ASSUME NEW d \in Nat, d > 0, NEW q \in Nat, NEW w \in Nat, w < d
  PROVE  /\ d * q + w \in Nat /\ (d * q + w) \div d = q /\ (d * q + w) % d = w
<1> DEFINE x == d * q + w
<1>1. x \in Nat /\ d * q \in Nat
  BY Product
<1>2. x \div d \in Nat /\ x % d \in Nat /\ x % d < d /\ x = d * (x \div d) + (x % d)
  BY <1>1, Divided
<1> DEFINE p == x \div d
           v == x % d
<1>3. x = d * q + w
  OBVIOUS
<1>4. p \in Nat /\ v \in Nat /\ v < d /\ x = d * p + v /\ d * p \in Nat
  BY <1>2, Product
<1> HIDE DEF x, p, v
<1>5. ~ (p < q)
  <2>1. p < q => d * p + d <= d * q
    BY <1>4, Product
  <2> QED
    BY <1>1, <1>3, <1>4, <2>1
<1>6. ~ (q < p)
  <2>1. q < p => d * q + d <= d * p
    BY <1>4, Product
  <2> QED
    BY <1>1, <1>3, <1>4, <2>1
<1>7. p = q
  BY <1>4, <1>5, <1>6
<1>8. v = w
  BY <1>1, <1>3, <1>4, <1>7
<1> QED
  BY <1>1, <1>7, <1>8 DEF x, p, v

\* A number below a product has a quotient below its factor.
LEMMA Below ==
  ASSUME NEW d \in Nat, d > 0, NEW len \in Nat, NEW x \in Nat
  PROVE  /\ x < d * len => x \div d < len
         /\ \A q \in Nat, w \in Nat : q < len /\ w < d => d * q + w < d * len
<1>1. x \div d \in Nat /\ x % d \in Nat /\ x % d < d /\ x = d * (x \div d) + (x % d)
  BY Divided
<1>2. ASSUME x < d * len PROVE x \div d < len
  <2>1. len <= x \div d => d * len <= d * (x \div d)
    BY <1>1, Product
  <2>2. d * len \in Nat /\ d * (x \div d) \in Nat
    BY <1>1, Product
  <2> QED
    BY <1>1, <1>2, <2>1, <2>2
<1>3. ASSUME NEW q \in Nat, NEW w \in Nat, q < len, w < d PROVE d * q + w < d * len
  <2>1. d * q + d <= d * len /\ d * q \in Nat /\ d * len \in Nat
    BY <1>3, Product
  <2> QED
    BY <1>3, <2>1
<1> QED
  BY <1>2, <1>3

\* A set of numbers below len that has all that are smaller than one of its own is the first ones.
LEMMA FirstOnes ==
  ASSUME NEW m \in Nat, NEW D \in SUBSET (0..m - 1), \A i, j \in 0..m - 1 : i <= j /\ j \in D => i \in D
  PROVE  /\ IsFiniteSet(D) /\ Cardinality(D) \in 0..m
         /\ \A i \in 0..m - 1 : i \in D <=> i < Cardinality(D)
<1> DEFINE T == {k \in 0..m : k \notin D}
<1>1. T \in SUBSET Nat /\ T # {}
  <2>1. m \in T
    OBVIOUS
  <2> QED
    BY <2>1
<1>2. PICK k \in T : \A l \in T : k <= l
  BY <1>1, Least, Zenon
<1>3. k \in 0..m /\ k \notin D /\ \A l \in 0..m : l < k => l \in D
  BY <1>2
<1>4. D = 0..k - 1
  <2>1. \A i \in D : i \in 0..k - 1
    BY <1>3
  <2>2. \A i \in 0..k - 1 : i \in D
    BY <1>3
  <2> QED
    BY <2>1, <2>2
<1>5. IsFiniteSet(D) /\ Cardinality(D) = k
  <2>1. 0 \in Int /\ k - 1 \in Int /\ (IF 0 > k - 1 THEN 0 ELSE (k - 1) - 0 + 1) = k
    BY <1>3
  <2> QED
    BY <1>4, <2>1, FS_Interval
<1> QED
  BY <1>3, <1>4, <1>5

-----------------------------------------------------------------------------
(* Sums over the experts and the sections they cut *)

\* What comes before an expert is what came before the last one and its own.
LEMMA SumFacts ==
  ASSUME NEW f \in [Experts -> Nat]
  PROVE  /\ ExclCumsum(f) \in [0..NExp -> Nat] /\ ExclCumsum(f)[0] = 0
         /\ \A e \in Experts : ExclCumsum(f)[e + 1] = ExclCumsum(f)[e] + f[e]
<1> DEFINE Body(g, e) == IF e = 0 THEN 0 ELSE g[e - 1] + f[e - 1]
           G == [e \in 1..NExp |-> [y \in Nat |-> y + f[e - 1]]]
           before == CHOOSE g : g = [e \in 0..NExp |-> Body(g, e)]
<1>1. NExp \in Nat /\ 0 \in Nat
  BY MoeConstants
<1>2. \A e \in 1..NExp : e - 1 \in Experts /\ e - 1 \in 0..NExp /\ f[e - 1] \in Nat
  BY <1>1 DEF Experts
<1>3. G \in [1..NExp -> [Nat -> Nat]]
  <2>1. ASSUME NEW e \in 1..NExp, NEW y \in Nat PROVE y + f[e - 1] \in Nat
    BY <1>2
  <2> QED
    BY <2>1
<1>4. PICK h \in [0..NExp -> Nat] : h[0] = 0 /\ \A e \in 1..NExp : h[e] = G[e][h[e - 1]]
  <2> HIDE DEF G
  <2>1. \E h \in [0..NExp -> Nat] : Iterates(h, NExp, 0, G)
    BY <1>1, <1>3, Iterated
  <2> QED
    BY <2>1 DEF Iterates
<1>5. \A e \in 0..NExp : h[e] = Body(h, e)
  <2> TAKE e \in 0..NExp
  <2>1. CASE e = 0
    BY <1>4, <2>1
  <2>2. CASE e # 0
    <3>1. e \in 1..NExp
      BY <1>1, <2>2
    <3>2. h[e] = G[e][h[e - 1]] /\ h[e - 1] \in Nat
      BY <1>2, <1>4, <3>1
    <3> QED
      BY <2>2, <3>1, <3>2
  <2> QED
    BY <2>1, <2>2
<1> HIDE DEF G, Body
<1>6. before = [e \in 0..NExp |-> Body(before, e)]
  <2>1. h = [e \in 0..NExp |-> Body(h, e)]
    BY <1>5
  <2> QED
    BY <2>1
<1>7. ExclCumsum(f) = before
  BY DEF ExclCumsum, Body
<1> HIDE DEF before
<1>8. \A e \in 0..NExp : before[e] = Body(before, e)
  BY <1>6
<1>9. DOMAIN before = 0..NExp /\ before = [e \in 0..NExp |-> before[e]]
  BY <1>6
<1>10. before[0] = 0
  <2>1. 0 \in 0..NExp
    BY <1>1
  <2> QED
    BY <1>8, <2>1 DEF Body
<1>11. ASSUME NEW e \in 0..NExp - 1 PROVE before[e + 1] = before[e] + f[e]
  <2>1. e + 1 \in 0..NExp /\ e + 1 # 0 /\ (e + 1) - 1 = e
    BY <1>1
  <2> QED
    BY <1>8, <2>1 DEF Body
<1>12. \A e \in 0..NExp : before[e] \in Nat
  <2> DEFINE P == {e \in 0..NExp : before[e] \in Nat}
  <2>1. 0 \in P
    BY <1>1, <1>10
  <2>2. ASSUME NEW e \in 0..(NExp - 1), e \in P PROVE e + 1 \in P
    <3>1. e + 1 \in 0..NExp /\ f[e] \in Nat /\ before[e] \in Nat
      BY <1>1, <2>2 DEF Experts
    <3> QED
      BY <1>11, <3>1
  <2>3. \A e \in 0..NExp : e \in P
    <3> HIDE DEF P
    <3> QED
      BY <1>1, <2>1, <2>2, Induction
  <2> QED
    BY <2>3
<1>13. before \in [0..NExp -> Nat]
  BY <1>9, <1>12
<1> QED
  BY <1>7, <1>10, <1>11, <1>13 DEF Experts

LEMMA SumTyped ==
  ASSUME NEW f \in [Experts -> Nat]
  PROVE  /\ \A e \in 0..NExp : ExclCumsum(f)[e] \in Nat
         /\ Total(f) \in Nat /\ Total(f) = ExclCumsum(f)[NExp] /\ NExp \in Nat /\ NExp > 0
BY SumFacts, MoeConstants DEF Total

\* What comes before grows with the expert.
LEMMA SumMono ==
  ASSUME NEW f \in [Experts -> Nat]
  PROVE  \A d, e \in 0..NExp : d <= e => ExclCumsum(f)[d] <= ExclCumsum(f)[e]
<1> DEFINE g == ExclCumsum(f)
           P == {e \in 0..NExp : \A d \in 0..NExp : d <= e => g[d] <= g[e]}
<1>1. NExp \in Nat /\ \A e \in 0..NExp : g[e] \in Nat
  BY SumTyped
<1>2. \A e \in Experts : g[e + 1] = g[e] + f[e] /\ f[e] \in Nat
  BY SumFacts
<1> HIDE DEF g
<1>3. 0 \in P
  BY <1>1
<1>4. ASSUME NEW e \in 0..(NExp - 1), e \in P PROVE e + 1 \in P
  <2>1. e + 1 \in 0..NExp /\ e \in 0..NExp /\ e \in Experts
    BY <1>1 DEF Experts
  <2>2. g[e] <= g[e + 1]
    BY <1>1, <1>2, <2>1
  <2>3. ASSUME NEW d \in 0..NExp, d <= e + 1 PROVE g[d] <= g[e + 1]
    <3>1. CASE d = e + 1
      BY <1>1, <2>1, <3>1
    <3>2. CASE d # e + 1
      <4>1. d <= e
        BY <2>1, <2>3, <3>2
      <4>2. g[d] <= g[e]
        BY <1>4, <4>1
      <4> QED
        BY <1>1, <2>1, <2>2, <4>2
    <3> QED
      BY <3>1, <3>2
  <2> QED
    BY <2>1, <2>3
<1>5. \A e \in 0..NExp : e \in P
  <2> HIDE DEF P
  <2> QED
    BY <1>1, <1>3, <1>4, Induction
<1> QED
  BY <1>5 DEF g

\* Where x lies between what comes before an expert and before the next.
InSection(f, e, x) == ExclCumsum(f)[e] <= x /\ x < ExclCumsum(f)[e] + f[e]

\* A number below the total lies in the section of one expert.
LEMMA SectionOf ==
  ASSUME NEW f \in [Experts -> Nat], NEW x \in Nat, x < Total(f)
  PROVE  \E e \in Experts : InSection(f, e, x)
<1> DEFINE g == ExclCumsum(f)
           T == {e \in 0..NExp : x < g[e]}
<1>1. NExp \in Nat /\ NExp > 0 /\ (\A e \in 0..NExp : g[e] \in Nat) /\ Total(f) = g[NExp] /\ g[0] = 0
  BY SumTyped, SumFacts
<1>2. \A e \in Experts : g[e + 1] = g[e] + f[e]
  BY SumFacts
<1> HIDE DEF g
<1>3. T \in SUBSET Nat /\ T # {}
  <2>1. NExp \in T
    BY <1>1
  <2>2. \A e \in 0..NExp : e \in Nat
    BY <1>1
  <2> QED
    BY <2>1, <2>2
<1>4. PICK k \in T : \A l \in T : k <= l
  <2> HIDE DEF T
  <2> QED
    BY <1>3, Least, Zenon
<1>5. k \in 0..NExp /\ x < g[k] /\ k # 0
  BY <1>1, <1>4
<1>6. k - 1 \in Experts /\ k - 1 \in 0..NExp /\ (k - 1) + 1 = k
  BY <1>1, <1>5 DEF Experts
<1>7. ~ (x < g[k - 1])
  <2>1. ~ (k <= k - 1)
    BY <1>5
  <2> QED
    BY <1>4, <1>6, <2>1
<1>8. g[k - 1] <= x /\ x < g[k - 1] + f[k - 1]
  BY <1>1, <1>2, <1>5, <1>6, <1>7
<1> QED
  BY <1>6, <1>8 DEF InSection, g

\* searchsorted finds it.
LEMMA SearchIs ==
  ASSUME NEW f \in [Experts -> Nat], NEW x \in Nat, NEW e \in Experts, InSection(f, e, x)
  PROVE  SearchSorted(f, x) = e /\ x < Total(f)
<1> DEFINE g == ExclCumsum(f)
           D == {d \in Experts : g[d + 1] <= x}
<1>1. NExp \in Nat /\ NExp > 0 /\ (\A d \in 0..NExp : g[d] \in Nat) /\ Total(f) = g[NExp]
  BY SumTyped
<1>2. \A d \in Experts : g[d + 1] = g[d] + f[d]
  BY SumFacts
<1>3. \A c, d \in 0..NExp : c <= d => g[c] <= g[d]
  BY SumMono
<1>4. g[e] <= x /\ x < g[e + 1]
  BY <1>2 DEF InSection
<1>5. SearchSorted(f, x) = IF Cardinality(D) < NExp THEN Cardinality(D) ELSE NExp - 1
  BY DEF SearchSorted
<1> HIDE DEF g
<1>6. \A d \in Experts : d + 1 \in 0..NExp /\ d \in 0..NExp /\ d \in Nat
  BY <1>1 DEF Experts
<1>7. ASSUME NEW d \in Experts PROVE d \in D <=> d < e
  <2>1. CASE d < e
    <3>1. d + 1 <= e
      BY <1>6, <2>1
    <3>2. g[d + 1] <= g[e]
      BY <1>3, <1>6, <3>1
    <3> QED
      BY <1>1, <1>4, <1>6, <2>1, <3>2
  <2>2. CASE ~ (d < e)
    <3>1. e + 1 <= d + 1
      BY <1>6, <2>2
    <3>2. g[e + 1] <= g[d + 1]
      BY <1>3, <1>6, <3>1
    <3> QED
      BY <1>1, <1>4, <1>6, <2>2, <3>2
  <2> QED
    BY <2>1, <2>2
<1>8. D = 0..e - 1
  <2>1. \A d \in D : d \in 0..e - 1
    BY <1>6, <1>7 DEF Experts
  <2>2. \A d \in 0..e - 1 : d \in Experts /\ d < e
    BY <1>1, <1>6 DEF Experts
  <2> HIDE DEF D
  <2>3. \A d \in 0..e - 1 : d \in D
    BY <1>7, <2>2
  <2> QED
    BY <2>1, <2>3
<1>9. Cardinality(D) = e
  <2>1. 0 \in Int /\ e - 1 \in Int /\ (IF 0 > e - 1 THEN 0 ELSE (e - 1) - 0 + 1) = e
    BY <1>6
  <2> QED
    BY <1>8, <2>1, FS_Interval
<1>10. e < NExp
  BY <1>1 DEF Experts
<1>11. x < g[NExp]
  <2>1. g[e + 1] <= g[NExp]
    BY <1>1, <1>3, <1>6
  <2> QED
    BY <1>1, <1>4, <1>6, <2>1
<1> QED
  BY <1>1, <1>5, <1>9, <1>10, <1>11

LEMMA SearchFacts ==
  ASSUME NEW f \in [Experts -> Nat], NEW x \in Nat, x < Total(f)
  PROVE  SearchSorted(f, x) \in Experts /\ InSection(f, SearchSorted(f, x), x)
<1>1. PICK e \in Experts : InSection(f, e, x)
  BY SectionOf
<1>2. SearchSorted(f, x) = e
  BY <1>1, SearchIs
<1> QED
  BY <1>1, <1>2

\* One number lies in one section only.
LEMMA OneSection ==
  ASSUME NEW f \in [Experts -> Nat], NEW x \in Nat, NEW d \in Experts, NEW e \in Experts,
         InSection(f, d, x), InSection(f, e, x)
  PROVE  d = e
BY SearchIs

\* Smaller counts add up to less.
LEMMA SumBelow ==
  ASSUME NEW f \in [Experts -> Nat], NEW h \in [Experts -> Nat], \A e \in Experts : f[e] <= h[e]
  PROVE  \A e \in 0..NExp : ExclCumsum(f)[e] <= ExclCumsum(h)[e]
<1> DEFINE P == {e \in 0..NExp : ExclCumsum(f)[e] <= ExclCumsum(h)[e]}
<1>1. /\ NExp \in Nat
      /\ \A e \in 0..NExp : ExclCumsum(f)[e] \in Nat /\ ExclCumsum(h)[e] \in Nat
      /\ ExclCumsum(f)[0] = 0 /\ ExclCumsum(h)[0] = 0
  BY SumTyped, SumFacts
<1>2. 0 \in P
  BY <1>1
<1>3. ASSUME NEW e \in 0..(NExp - 1), e \in P PROVE e + 1 \in P
  <2>1. e \in Experts /\ e + 1 \in 0..NExp /\ e \in 0..NExp
    BY <1>1 DEF Experts
  <2>2. /\ ExclCumsum(f)[e + 1] = ExclCumsum(f)[e] + f[e]
        /\ ExclCumsum(h)[e + 1] = ExclCumsum(h)[e] + h[e]
    BY <2>1, SumFacts
  <2>3. f[e] \in Nat /\ h[e] \in Nat /\ f[e] <= h[e]
    BY <2>1
  <2> QED
    BY <1>1, <1>3, <2>1, <2>2, <2>3
<1>4. \A e \in 0..NExp : e \in P
  <2> HIDE DEF P
  <2> QED
    BY <1>1, <1>2, <1>3, Induction
<1> QED
  BY <1>4

-----------------------------------------------------------------------------
(* The sort *)

LEMMA MapTyped ==
  ASSUME NEW m \in Maps, NEW id
  PROVE  MapTopkToLocal(id, m) \in 0..NExp
BY MoeConstants DEF MapTopkToLocal, Experts

\* The slots of a batch of tokens.
SlotsOf(tokens) == (0..tokens - 1) \X (0..TopK - 1)

LEMMA SlotsCounted ==
  ASSUME NEW tokens \in Nat
  PROVE  /\ IsFiniteSet(SlotsOf(tokens)) /\ Cardinality(SlotsOf(tokens)) = tokens * TopK
         /\ tokens * TopK \in Nat
<1>1. TopK \in Nat /\ tokens - 1 \in Int /\ TopK - 1 \in Int /\ 0 \in Int
  BY MoeConstants
<1>2. IsFiniteSet(0..tokens - 1) /\ Cardinality(0..tokens - 1) = tokens
  <2>1. (IF 0 > tokens - 1 THEN 0 ELSE (tokens - 1) - 0 + 1) = tokens
    OBVIOUS
  <2> QED
    BY <1>1, <2>1, FS_Interval
<1>3. IsFiniteSet(0..TopK - 1) /\ Cardinality(0..TopK - 1) = TopK
  <2>1. (IF 0 > TopK - 1 THEN 0 ELSE (TopK - 1) - 0 + 1) = TopK
    BY <1>1
  <2> QED
    BY <1>1, <2>1, FS_Interval
<1>4. tokens * TopK \in Nat
  BY <1>1
<1>5. /\ IsFiniteSet((0..tokens - 1) \X (0..TopK - 1))
      /\ Cardinality((0..tokens - 1) \X (0..TopK - 1)) = Cardinality(0..tokens - 1) * Cardinality(0..TopK - 1)
  BY <1>2, <1>3, FS_Product, Zenon
<1> QED
  BY <1>2, <1>3, <1>4, <1>5, Zenon DEF SlotsOf

\* argsort returns the slots, each once, by their key.
Sorted(seq, tokens, k) ==
  /\ seq \in [0..tokens * TopK - 1 -> SlotsOf(tokens)]
  /\ \A s \in SlotsOf(tokens) : \E i \in 0..tokens * TopK - 1 : seq[i] = s
  /\ \A i, j \in 0..tokens * TopK - 1 :
       (seq[i] = seq[j] => i = j) /\ (i <= j => k[seq[i]] <= k[seq[j]])

LEMMA ArgsortSorts ==
  ASSUME NEW tokens \in 0..MaxTokens, NEW k \in [SlotsOf(tokens) -> 0..NExp], NEW tie \in Ties
  PROVE  Sorted(Argsort(k, tokens, tie), tokens, k)
<1> DEFINE S == SlotsOf(tokens)
           L == {p \in S \X S : k[p[1]] < k[p[2]] \/ (k[p[1]] = k[p[2]] /\ tie[p[1]] < tie[p[2]])}
           seq == Argsort(k, tokens, tie)
           size == tokens * TopK
           Rank(s) == Cardinality(Before(S, L, s))
<1>1. MaxTokens \in Nat /\ tokens \in Nat
  BY MoeConstants
<1>2. IsFiniteSet(S) /\ Cardinality(S) = size /\ size \in Nat
  BY <1>1, SlotsCounted
<1>3. \A s \in S : k[s] \in Int /\ tie[s] \in Int
  <2>1. S \subseteq (0..MaxTokens - 1) \X (0..TopK - 1)
    BY <1>1 DEF SlotsOf
  <2>2. tie \in [(0..MaxTokens - 1) \X (0..TopK - 1) -> Int]
    BY MoeConstants
  <2> QED
    BY <2>1, <2>2
<1>4. \A r, s \in S : tie[r] = tie[s] => r = s
  <2>1. S \subseteq (0..MaxTokens - 1) \X (0..TopK - 1)
    BY <1>1 DEF SlotsOf
  <2>2. /\ DOMAIN tie = (0..MaxTokens - 1) \X (0..TopK - 1)
        /\ \A r, s \in DOMAIN tie : tie[r] = tie[s] => r = s
    BY MoeConstants
  <2> QED
    BY <2>1, <2>2
<1> HIDE DEF S, size
<1>5. \A r, s \in S : <<r, s>> \in L <=> k[r] < k[s] \/ (k[r] = k[s] /\ tie[r] < tie[s])
  OBVIOUS
<1> HIDE DEF L
<1>6. Orders(S, L)
  <2>1. \A s \in S : <<s, s>> \notin L
    BY <1>3, <1>5
  <2>2. \A r, s \in S : r = s \/ <<r, s>> \in L \/ <<s, r>> \in L
    <3> SUFFICES ASSUME NEW r \in S, NEW s \in S, r # s PROVE <<r, s>> \in L \/ <<s, r>> \in L
      OBVIOUS
    <3>1. tie[r] # tie[s] /\ tie[r] \in Int /\ tie[s] \in Int /\ k[r] \in Int /\ k[s] \in Int
      BY <1>3, <1>4
    <3>2. \/ k[r] < k[s] \/ (k[r] = k[s] /\ tie[r] < tie[s])
          \/ k[s] < k[r] \/ (k[s] = k[r] /\ tie[s] < tie[r])
      BY <3>1
    <3> QED
      BY <1>5, <3>2, Zenon
  <2>3. \A r, s, u \in S : <<r, s>> \in L /\ <<s, u>> \in L => <<r, u>> \in L
    BY <1>3, <1>5
  <2> QED
    BY <2>1, <2>2, <2>3 DEF Orders
<1>7. Places(S, L)
  BY <1>2, <1>6, Ranked
<1> HIDE DEF Rank
<1>8. /\ \A s \in S : Rank(s) \in 0..size - 1
      /\ \A r, s \in S : <<r, s>> \in L => Rank(r) < Rank(s)
      /\ \A i \in 0..size - 1 : \E s \in S : Rank(s) = i
  BY <1>2, <1>7 DEF Places, Rank
<1>9. \A r, s \in S : Rank(r) = Rank(s) => r = s
  BY <1>7 DEF Places, Rank
<1>10. \A s \in S : Before(S, L, s) = {r \in S : k[r] < k[s] \/ (k[r] = k[s] /\ tie[r] < tie[s])}
  BY <1>5 DEF Before
<1>11. seq = [i \in 0..size - 1 |-> CHOOSE s \in S :
                 Cardinality({r \in S : k[r] < k[s] \/ (k[r] = k[s] /\ tie[r] < tie[s])}) = i]
  BY DEF Argsort, SlotsOf, S, size
<1> HIDE DEF seq
<1>12. ASSUME NEW i \in 0..size - 1 PROVE seq[i] \in S /\ Rank(seq[i]) = i
  <2> DEFINE Is(s) == Cardinality({r \in S : k[r] < k[s] \/ (k[r] = k[s] /\ tie[r] < tie[s])}) = i
  <2>1. \A s \in S : Is(s) <=> Rank(s) = i
    BY <1>10, Zenon DEF Rank
  <2>2. \E s \in S : Is(s)
    <3> HIDE DEF Is
    <3> QED
      BY <1>8, <2>1
  <2>3. seq[i] = CHOOSE s \in S : Is(s)
    BY <1>11
  <2> HIDE DEF Is
  <2>4. seq[i] \in S /\ Is(seq[i])
    BY <2>2, <2>3
  <2> QED
    BY <2>1, <2>4
<1>13. seq \in [0..size - 1 -> S]
  BY <1>11, <1>12
<1>14. ASSUME NEW s \in S PROVE \E i \in 0..size - 1 : seq[i] = s
  <2>1. Rank(s) \in 0..size - 1
    BY <1>8
  <2>2. seq[Rank(s)] \in S /\ Rank(seq[Rank(s)]) = Rank(s)
    BY <1>12, <2>1
  <2>3. seq[Rank(s)] = s
    BY <1>9, <2>2
  <2> QED
    BY <2>1, <2>3
<1>15. ASSUME NEW i \in 0..size - 1, NEW j \in 0..size - 1
       PROVE  (seq[i] = seq[j] => i = j) /\ (i <= j => k[seq[i]] <= k[seq[j]])
  <2>1. /\ seq[i] \in S /\ Rank(seq[i]) = i /\ seq[j] \in S /\ Rank(seq[j]) = j
        /\ k[seq[i]] \in Int /\ k[seq[j]] \in Int
    BY <1>3, <1>12
  <2>2. ASSUME i <= j, ~ (k[seq[i]] <= k[seq[j]]) PROVE FALSE
    <3>1. <<seq[j], seq[i]>> \in L
      BY <1>5, <2>1, <2>2
    <3>2. j < i
      BY <1>8, <2>1, <3>1
    <3> QED
      BY <1>2, <2>2, <3>2
  <2> QED
    BY <2>1, <2>2
<1>16. \A s \in S : \E i \in 0..size - 1 : seq[i] = s
  BY <1>14
<1>17. \A i, j \in 0..size - 1 : (seq[i] = seq[j] => i = j) /\ (i <= j => k[seq[i]] <= k[seq[j]])
  BY <1>15
<1>18. Sorted(seq, tokens, k)
  <2> HIDE DEF seq
  <2> QED
    BY <1>13, <1>16, <1>17 DEF Sorted, S, size
<1> QED
  BY <1>18 DEF seq

-----------------------------------------------------------------------------
(* A call's slots in the order of their experts *)

LEMMA CallFacts ==
  ASSUME CallInv, pc # "idle"
  PROVE  /\ n \in Nat /\ n <= MaxTokens /\ MaxTokens \in Nat /\ NumSlots \in Nat
         /\ IsFiniteSet(Slots) /\ Cardinality(Slots) = NumSlots
         /\ ids \in [0..n - 1 -> Routes] /\ order \in [0..NumSlots - 1 -> Slots]
         /\ \A s \in Slots : Local(s) \in 0..NExp
         /\ \A s \in Slots : s[1] \in 0..n - 1 /\ s[2] \in 0..TopK - 1 /\ s = <<s[1], s[2]>>
<1>1. MaxTokens \in Nat /\ n \in 0..MaxTokens /\ emap \in Maps
  BY MoeConstants DEF CallInv
<1>2. n \in Nat /\ n <= MaxTokens
  BY <1>1
<1>3. Slots = SlotsOf(n)
  BY DEF Slots, SlotsOf
<1>4. NumSlots \in Nat /\ IsFiniteSet(Slots) /\ Cardinality(Slots) = NumSlots
  BY <1>2, <1>3, SlotsCounted DEF NumSlots
<1>5. ids \in [0..n - 1 -> Routes] /\ order \in [0..NumSlots - 1 -> Slots]
  BY DEF CallInv
<1>6. \A s \in Slots : Local(s) \in 0..NExp
  BY <1>1, MapTyped DEF Local
<1>7. \A s \in Slots : s[1] \in 0..n - 1 /\ s[2] \in 0..TopK - 1 /\ s = <<s[1], s[2]>>
  BY DEF Slots
<1> QED
  BY <1>1, <1>2, <1>4, <1>5, <1>6, <1>7

LEMMA OrderFacts ==
  ASSUME CallInv, pc # "idle"
  PROVE  /\ \A s \in Slots : \E i \in 0..NumSlots - 1 : order[i] = s
         /\ \A i, j \in 0..NumSlots - 1 : order[i] = order[j] => i = j
         /\ \A i, j \in 0..NumSlots - 1 : i <= j => Local(order[i]) <= Local(order[j])
         /\ \A i \in 0..NumSlots - 1 : order[i] \in Slots
BY DEF CallInv

LEMMA SlotsRoom ==
  ASSUME CallInv, pc # "idle"
  PROVE  n <= NumSlots /\ NumSlots <= MaxTokens * TopK /\ MaxTokens * TopK \in Nat
<1>1. TopK \in Nat /\ 0 < TopK /\ n \in Nat /\ n <= MaxTokens /\ MaxTokens \in Nat
  BY CallFacts, MoeConstants
<1>2. n * 0 + n <= n * TopK
  BY <1>1, Product
<1>3. TopK * n <= TopK * MaxTokens /\ TopK * MaxTokens \in Nat
  BY <1>1, Product
<1>4. TopK * n = n * TopK /\ TopK * MaxTokens = MaxTokens * TopK /\ n * 0 + n = n
  BY <1>1
<1> QED
  BY <1>2, <1>3, <1>4 DEF NumSlots

\* A token picks an expert once.
LEMMA PickedOnce ==
  ASSUME CallInv, pc # "idle", NEW s \in Slots, NEW u \in Slots,
         Local(s) = Local(u), Local(s) \in Experts, s[1] = u[1]
  PROVE  s = u
<1>1. emap \in Maps /\ ids \in [0..n - 1 -> Routes]
  BY DEF CallInv
<1>2. /\ s[1] \in 0..n - 1 /\ s[2] \in 0..TopK - 1 /\ s = <<s[1], s[2]>>
      /\ u[2] \in 0..TopK - 1 /\ u = <<u[1], u[2]>>
  BY CallFacts
<1> DEFINE r == ids[s[1]]
           g == r[s[2]]
           h == r[u[2]]
<1>3. r \in Routes
  BY <1>1, <1>2
<1>4. Local(s) = MapTopkToLocal(g, emap) /\ Local(u) = MapTopkToLocal(h, emap)
  BY DEF Local
<1> HIDE DEF g, h
<1>5. NExp \notin Experts /\ \A e \in Experts : e \in Nat /\ e # -1
  BY MoeConstants DEF Experts
<1>6. g = h /\ g # -1
  <2>1. CASE ~ emap.given
    BY <1>4, <1>5, <2>1 DEF MapTopkToLocal
  <2>2. CASE emap.given
    <3>1. /\ g \in DOMAIN emap.to /\ emap.to[g] = Local(s)
          /\ h \in DOMAIN emap.to /\ emap.to[h] = Local(s)
      BY <1>4, <1>5, <2>2 DEF MapTopkToLocal
    <3>2. /\ DOMAIN emap.to \subseteq Nat
          /\ \A a, b \in DOMAIN emap.to : a # b /\ emap.to[a] = emap.to[b] => emap.to[a] = -1
      BY <1>1, <2>2, MoeConstants
    <3> QED
      BY <1>5, <3>1, <3>2
  <2> QED
    BY <2>1, <2>2
<1>7. \A i, j \in 0..TopK - 1 : i # j /\ r[i] = r[j] => r[i] = -1
  BY <1>3, MoeConstants
<1>8. s[2] = u[2]
  <2>1. s[2] # u[2] /\ r[s[2]] = r[u[2]] => r[s[2]] = -1
    BY <1>2, <1>7
  <2> QED
    BY <1>6, <2>1 DEF g, h
<1> QED
  BY <1>2, <1>8

\* The slots of one expert are counted, and are no more than the tokens.
LEMMA CountsFacts ==
  ASSUME CallInv, pc # "idle"
  PROVE  /\ Counts \in [Experts -> Nat]
         /\ \A e \in Experts : Counts[e] = Cardinality({s \in Slots : Local(s) = e}) /\ Counts[e] <= n
<1>1. n \in Nat /\ IsFiniteSet(Slots)
  BY CallFacts
<1>2. ASSUME NEW e \in Experts
      PROVE  /\ Cardinality({s \in Slots : Local(s) = e}) \in Nat
             /\ Cardinality({s \in Slots : Local(s) = e}) <= n
  <2> DEFINE T == {s \in Slots : Local(s) = e}
             f == [s \in T |-> s[1]]
  <2>1. T \in SUBSET Slots
    OBVIOUS
  <2>2. IsFiniteSet(T) /\ Cardinality(T) \in Nat
    BY <1>1, <2>1, FS_Subset, FS_CardinalityType
  <2>3. f \in [T -> 0..n - 1]
    BY CallFacts
  <2>4. ASSUME NEW s \in T, NEW u \in T, f[s] = f[u] PROVE s = u
    <3>1. s \in Slots /\ u \in Slots /\ Local(s) = Local(u) /\ Local(s) \in Experts /\ s[1] = u[1]
      BY <2>4
    <3> QED
      BY <3>1, PickedOnce
  <2>5. f \in Injection(T, 0..n - 1)
    <3> HIDE DEF T, f
    <3> QED
      BY <2>3, <2>4 DEF Injection, IsInjective
  <2>6. IsFiniteSet(0..n - 1) /\ Cardinality(0..n - 1) = n
    <3>1. n - 1 \in Int /\ 0 \in Int /\ (IF 0 > n - 1 THEN 0 ELSE (n - 1) - 0 + 1) = n
      BY <1>1
    <3> QED
      BY <3>1, FS_Interval
  <2>7. Cardinality(T) <= Cardinality(0..n - 1)
    <3> HIDE DEF T, f
    <3> QED
      BY <2>5, <2>6, FS_Injection
  <2> QED
    BY <2>2, <2>6, <2>7
<1>3. Counts = [e \in Experts |-> Cardinality({s \in Slots : Local(s) = e})]
  BY DEF Counts
<1> QED
  BY <1>2, <1>3

\* What comes before an expert in Counts is the slots of the experts before it.
LEMMA Prefix ==
  ASSUME CallInv, pc # "idle"
  PROVE  \A e \in 0..NExp : Cardinality({s \in Slots : Local(s) < e}) = ExclCumsum(Counts)[e]
<1> DEFINE T(e) == {s \in Slots : Local(s) < e}
           P == {e \in 0..NExp : Cardinality(T(e)) = ExclCumsum(Counts)[e]}
<1>1. /\ IsFiniteSet(Slots) /\ (\A s \in Slots : Local(s) \in Nat) /\ NExp \in Nat
  BY CallFacts, MoeConstants
<1>2. /\ ExclCumsum(Counts)[0] = 0
      /\ \A e \in Experts : ExclCumsum(Counts)[e + 1] = ExclCumsum(Counts)[e] + Counts[e]
  BY CountsFacts, SumFacts
<1>3. 0 \in P
  <2>1. T(0) = {}
    BY <1>1
  <2>2. Cardinality(T(0)) = 0
    BY <2>1, FS_EmptySet
  <2> QED
    BY <1>1, <1>2, <2>2
<1>4. ASSUME NEW e \in 0..(NExp - 1), e \in P PROVE e + 1 \in P
  <2> DEFINE U == {s \in Slots : Local(s) = e}
  <2>1. e \in Experts /\ e + 1 \in 0..NExp /\ e \in Nat
    BY <1>1 DEF Experts
  <2>2. T(e + 1) = T(e) \cup U /\ T(e) \cap U = {}
    <3>1. \A s \in Slots : Local(s) < e + 1 <=> Local(s) < e \/ Local(s) = e
      BY <1>1, <2>1
    <3>2. \A s \in Slots : ~ (Local(s) < e /\ Local(s) = e)
      BY <1>1, <2>1
    <3> QED
      BY <3>1, <3>2
  <2>3. T(e) \in SUBSET Slots /\ U \in SUBSET Slots
    OBVIOUS
  <2> HIDE DEF T, U
  <2>4. IsFiniteSet(T(e)) /\ IsFiniteSet(U) /\ Cardinality(T(e)) \in Nat /\ Cardinality(U) \in Nat
    BY <1>1, <2>3, FS_Subset, FS_CardinalityType
  <2>5. Cardinality(T(e + 1)) = Cardinality(T(e)) + Cardinality(U)
    <3>1. Cardinality(T(e) \cup U) = Cardinality(T(e)) + Cardinality(U) - Cardinality(T(e) \cap U)
      BY <2>4, FS_Union
    <3>2. Cardinality(T(e) \cap U) = 0
      BY <2>2, FS_EmptySet
    <3>3. Cardinality(T(e + 1)) = Cardinality(T(e) \cup U)
      BY <2>2, Zenon
    <3> DEFINE a == Cardinality(T(e))
               b == Cardinality(U)
               c == Cardinality(T(e) \cap U)
    <3>4. a \in Nat /\ b \in Nat /\ c = 0
      BY <2>4, <3>2, Zenon
    <3> HIDE DEF a, b, c
    <3>5. a + b - c = a + b
      BY <3>4
    <3> QED
      BY <3>1, <3>3, <3>5, Zenon DEF a, b, c
  <2>6. Cardinality(U) = Counts[e]
    BY <2>1, CountsFacts DEF U
  <2>7. Cardinality(T(e)) = ExclCumsum(Counts)[e]
    BY <1>4
  <2> QED
    BY <1>2, <2>1, <2>5, <2>6, <2>7
<1>5. \A e \in 0..NExp : e \in P
  <2> HIDE DEF P
  <2> QED
    BY <1>1, <1>3, <1>4, Induction
<1> QED
  BY <1>5

LEMMA OrderSections ==
  ASSUME CallInv, pc # "idle", NEW e \in 0..NExp
  PROVE  /\ \A i \in 0..NumSlots - 1 : Local(order[i]) < e <=> i < ExclCumsum(Counts)[e]
         /\ ExclCumsum(Counts)[e] <= NumSlots
<1> DEFINE D == {i \in 0..NumSlots - 1 : Local(order[i]) < e}
           T == {s \in Slots : Local(s) < e}
           f == [i \in D |-> order[i]]
<1>1. /\ NumSlots \in Nat /\ IsFiniteSet(Slots) /\ (\A s \in Slots : Local(s) \in Nat) /\ NExp \in Nat /\ e \in Nat
  BY CallFacts, MoeConstants
<1>2. /\ \A s \in Slots : \E i \in 0..NumSlots - 1 : order[i] = s
      /\ \A i, j \in 0..NumSlots - 1 : order[i] = order[j] => i = j
      /\ \A i, j \in 0..NumSlots - 1 : i <= j => Local(order[i]) <= Local(order[j])
      /\ \A i \in 0..NumSlots - 1 : order[i] \in Slots
  BY OrderFacts
<1>3. D \in SUBSET (0..NumSlots - 1)
  OBVIOUS
<1>4. \A i, j \in 0..NumSlots - 1 : i <= j /\ j \in D => i \in D
  <2> SUFFICES ASSUME NEW i \in 0..NumSlots - 1, NEW j \in 0..NumSlots - 1, i <= j, j \in D PROVE i \in D
    OBVIOUS
  <2>1. Local(order[i]) <= Local(order[j]) /\ Local(order[j]) < e
    BY <1>2
  <2>2. Local(order[i]) \in Nat /\ Local(order[j]) \in Nat
    BY <1>1, <1>2
  <2>3. Local(order[i]) < e
    BY <1>1, <2>1, <2>2
  <2> QED
    BY <2>3
<1>5. IsFiniteSet(T)
  <2>1. T \in SUBSET Slots
    OBVIOUS
  <2> QED
    BY <1>1, <2>1, FS_Subset
<1>6. f \in [D -> T]
  BY <1>2
<1>7. \A i, j \in D : f[i] = f[j] => i = j
  BY <1>2
<1>8. \A s \in T : \E i \in D : f[i] = s
  <2> TAKE s \in T
  <2>1. PICK i \in 0..NumSlots - 1 : order[i] = s
    BY <1>2
  <2>2. i \in D
    BY <2>1
  <2> QED
    BY <2>1, <2>2
<1>9. Cardinality(T) = ExclCumsum(Counts)[e]
  BY Prefix
<1> HIDE DEF D, T, f
<1>10. Cardinality(D) = Cardinality(T)
  BY <1>5, <1>6, <1>7, <1>8, OneToOne
<1>11. Cardinality(D) \in 0..NumSlots /\ \A i \in 0..NumSlots - 1 : i \in D <=> i < Cardinality(D)
  BY <1>1, <1>3, <1>4, FirstOnes
<1>12. \A i \in 0..NumSlots - 1 : i \in D <=> Local(order[i]) < e
  BY DEF D
<1> QED
  BY <1>1, <1>9, <1>10, <1>11, <1>12

\* The slots of an expert are its section of the order.
LEMMA SlotSection ==
  ASSUME CallInv, pc # "idle", NEW i \in 0..NumSlots - 1, NEW e \in Experts
  PROVE  Local(order[i]) = e <=> InSection(Counts, e, i)
<1>1. e \in 0..NExp /\ e + 1 \in 0..NExp /\ e \in Nat
  BY MoeConstants DEF Experts
<1>2. /\ Local(order[i]) < e <=> i < ExclCumsum(Counts)[e]
      /\ Local(order[i]) < e + 1 <=> i < ExclCumsum(Counts)[e + 1]
  BY <1>1, OrderSections
<1>3. ExclCumsum(Counts)[e + 1] = ExclCumsum(Counts)[e] + Counts[e] /\ ExclCumsum(Counts)[e] \in Nat
  BY <1>1, CountsFacts, SumFacts
<1>4. Local(order[i]) \in Nat /\ i \in Nat
  <2>1. order[i] \in Slots /\ NumSlots \in Nat
    BY OrderFacts, CallFacts
  <2>2. Local(order[i]) \in 0..NExp
    BY <2>1, CallFacts
  <2> QED
    BY <2>1, <2>2, MoeConstants
<1> QED
  BY <1>1, <1>2, <1>3, <1>4 DEF InSection

LEMMA CountsTotal ==
  ASSUME CallInv, pc # "idle"
  PROVE  Total(Counts) \in Nat /\ Total(Counts) <= NumSlots
<1>1. NExp \in 0..NExp
  BY MoeConstants
<1> QED
  BY <1>1, CountsFacts, SumTyped, OrderSections

\* A place in the section of an expert is a place in the order.
LEMMA SectionPlace ==
  ASSUME CallInv, pc # "idle", NEW x \in Nat, NEW e \in Experts, InSection(Counts, e, x)
  PROVE  /\ x \in 0..NumSlots - 1 /\ order[x] \in Slots /\ Local(order[x]) = e /\ order[x] \in LocalSlots
<1>1. x < Total(Counts)
  BY CountsFacts, SearchIs
<1>2. Total(Counts) \in Nat /\ Total(Counts) <= NumSlots /\ NumSlots \in Nat
  BY CountsTotal, CallFacts
<1>3. x \in 0..NumSlots - 1
  BY <1>1, <1>2
<1>4. order[x] \in Slots /\ Local(order[x]) = e
  BY <1>3, OrderFacts, SlotSection
<1>5. e # NExp
  BY MoeConstants DEF Experts
<1> QED
  BY <1>3, <1>4, <1>5 DEF LocalSlots

\* And every slot of an expert of this rank has one.
LEMMA PlaceOf ==
  ASSUME CallInv, pc # "idle", NEW s \in LocalSlots
  PROVE  /\ s \in Slots /\ Local(s) \in Experts
         /\ \E i \in 0..NumSlots - 1 : i \in Nat /\ order[i] = s /\ InSection(Counts, Local(s), i)
<1>1. s \in Slots /\ Local(s) # NExp
  BY DEF LocalSlots
<1>2. Local(s) \in 0..NExp /\ NExp \in Nat
  BY <1>1, CallFacts, MoeConstants
<1>3. Local(s) \in Experts
  BY <1>1, <1>2 DEF Experts
<1>4. PICK i \in 0..NumSlots - 1 : order[i] = s
  BY <1>1, OrderFacts
<1>5. InSection(Counts, Local(s), i)
  BY <1>3, <1>4, SlotSection
<1>6. i \in Nat
  BY CallFacts
<1> QED
  BY <1>1, <1>3, <1>4, <1>5, <1>6

-----------------------------------------------------------------------------
(* What is added, as a bag of slots *)

\* Additions that all differ make a bag of one copy each.
LEMMA OneEach ==
  ASSUME NEW F, \A x, y \in DOMAIN F : F[x] = F[y] => x = y
  PROVE  BagOf(F) = [v \in Range(F) |-> 1]
<1>1. Range(F) = {F[x] : x \in DOMAIN F}
  BY DEF Range
<1>2. ASSUME NEW v \in Range(F) PROVE Cardinality({r \in DOMAIN F : F[r] = v}) = 1
  <2>1. PICK x \in DOMAIN F : F[x] = v
    BY <1>1
  <2>2. {r \in DOMAIN F : F[r] = v} = {x}
    BY <2>1
  <2> QED
    BY <2>2, FS_Singleton
<1> QED
  BY <1>2 DEF BagOf

LEMMA SlotOfAdded ==
  ASSUME NEW s, NEW e
  PROVE  SlotBy(s, e).w = s /\ SlotBy(s, e).e = e
BY DEF SlotBy, Contribution

LEMMA SlotBagIs ==
  ASSUME NEW T
  PROVE  SlotBag(T) = [v \in {SlotBy(s, Local(s)) : s \in T} |-> 1]
<1> DEFINE F == [s \in T |-> SlotBy(s, Local(s))]
<1>1. DOMAIN F = T
  OBVIOUS
<1>2. \A s \in T : F[s] = SlotBy(s, Local(s))
  OBVIOUS
<1>3. SlotBag(T) = BagOf(F)
  BY DEF SlotBag
<1> HIDE DEF F
<1>4. ASSUME NEW s \in T, NEW u \in T, F[s] = F[u] PROVE s = u
  <2>1. SlotBy(s, Local(s)) = SlotBy(u, Local(u))
    BY <1>2, <1>4
  <2>2. SlotBy(s, Local(s)).w = s /\ SlotBy(u, Local(u)).w = u
    BY SlotOfAdded
  <2> QED
    BY <2>1, <2>2, Zenon
<1>5. BagOf(F) = [v \in Range(F) |-> 1] /\ Range(F) = {F[s] : s \in T}
  BY <1>1, <1>4, OneEach DEF Range
<1>6. {F[s] : s \in T} = {SlotBy(s, Local(s)) : s \in T}
  BY <1>2
<1> QED
  BY <1>3, <1>5, <1>6

\* A kernel that adds the row of every slot of a set once adds that set.
LEMMA Rebagged ==
  ASSUME NEW T, NEW D, NEW F, DOMAIN F = D, NEW h \in [D -> T],
         \A d \in D : F[d] = SlotBy(h[d], Local(h[d])),
         \A c, d \in D : h[c] = h[d] => c = d,
         \A s \in T : \E d \in D : h[d] = s
  PROVE  BagOf(F) = SlotBag(T)
<1>1. ASSUME NEW c \in D, NEW d \in D, F[c] = F[d] PROVE c = d
  <2>1. SlotBy(h[c], Local(h[c])) = SlotBy(h[d], Local(h[d]))
    BY <1>1
  <2>2. SlotBy(h[c], Local(h[c])).w = h[c] /\ SlotBy(h[d], Local(h[d])).w = h[d]
    BY SlotOfAdded
  <2>3. h[c] = h[d]
    BY <2>1, <2>2, Zenon
  <2> QED
    BY <2>3
<1>2. BagOf(F) = [v \in Range(F) |-> 1] /\ Range(F) = {F[d] : d \in D}
  <2>1. \A c, d \in DOMAIN F : F[c] = F[d] => c = d
    BY <1>1, Zenon
  <2>2. BagOf(F) = [v \in Range(F) |-> 1]
    BY <2>1, OneEach, Zenon
  <2> QED
    BY <2>2 DEF Range
<1>3. {F[d] : d \in D} = {SlotBy(s, Local(s)) : s \in T}
  <2>1. ASSUME NEW d \in D PROVE F[d] \in {SlotBy(s, Local(s)) : s \in T}
    <3>1. h[d] \in T /\ F[d] = SlotBy(h[d], Local(h[d]))
      OBVIOUS
    <3> QED
      BY <3>1
  <2>2. ASSUME NEW s \in T PROVE SlotBy(s, Local(s)) \in {F[d] : d \in D}
    <3>1. PICK d \in D : h[d] = s
      OBVIOUS
    <3>2. F[d] = SlotBy(s, Local(s))
      BY <3>1
    <3> QED
      BY <3>2
  <2> QED
    BY <2>1, <2>2
<1> QED
  BY <1>2, <1>3, SlotBagIs

LEMMA BagsAdd ==
  ASSUME NEW T, NEW U, T \cap U = {}
  PROVE  SlotBag(T) (+) SlotBag(U) = SlotBag(T \cup U)
<1> DEFINE V(S) == {SlotBy(s, Local(s)) : s \in S}
           a == [v \in V(T) |-> 1]
           b == [v \in V(U) |-> 1]
<1>1. V(T) \cup V(U) = V(T \cup U)
  OBVIOUS
<1>2. ASSUME NEW v, v \in V(T), v \in V(U) PROVE FALSE
  <2>1. PICK s \in T : v = SlotBy(s, Local(s))
    BY <1>2
  <2>2. PICK u \in U : v = SlotBy(u, Local(u))
    BY <1>2
  <2>3. SlotBy(s, Local(s)).w = s /\ SlotBy(u, Local(u)).w = u
    BY SlotOfAdded, Zenon
  <2>4. v.w = s
    BY <2>1, <2>3, Zenon
  <2>5. v.w = u
    BY <2>2, <2>3, Zenon
  <2> QED
    BY <2>4, <2>5, Zenon
<1>3. SlotBag(T) = a /\ SlotBag(U) = b /\ SlotBag(T \cup U) = [v \in V(T \cup U) |-> 1]
  BY SlotBagIs
<1> HIDE DEF V
<1>4. DOMAIN a = V(T) /\ DOMAIN b = V(U)
  OBVIOUS
<1>5. ASSUME NEW v \in V(T) \cup V(U)
      PROVE  (IF v \in DOMAIN a THEN a[v] ELSE 0) + (IF v \in DOMAIN b THEN b[v] ELSE 0) = 1
  <2>1. CASE v \in V(T)
    BY <1>2, <1>4, <2>1
  <2>2. CASE v \in V(U)
    BY <1>2, <1>4, <2>2
  <2> QED
    BY <2>1, <2>2
<1>6. a (+) b = [v \in V(T) \cup V(U) |->
                   (IF v \in DOMAIN a THEN a[v] ELSE 0) + (IF v \in DOMAIN b THEN b[v] ELSE 0)]
  BY <1>4 DEF (+)
<1> HIDE DEF a, b
<1>7. a (+) b = [v \in V(T) \cup V(U) |-> 1]
  BY <1>5, <1>6
<1> QED
  BY <1>1, <1>3, <1>7

LEMMA NoSlots == SlotBag({}) = EmptyBag
<1>1. {SlotBy(s, Local(s)) : s \in {}} = {}
  OBVIOUS
<1> QED
  BY <1>1, SlotBagIs DEF EmptyBag, SetToBag

-----------------------------------------------------------------------------
(* The slots a kernel adds *)

LEMMA RowsAre == 
  ASSUME CallInv, pc # "idle", NEW i \in Nat, i < NumSlots
  PROVE  i \in Rows
BY SlotsRoom, CallFacts DEF Rows

\* The fused kernel adds the slots its table puts in the sections of the
\* experts its buffers hold.
LEMMA FusedAdds ==
  ASSUME CallInv, pc # "idle", NEW T, NEW slotAt, NEW ec \in [Experts -> Nat], \A e \in Experts : ec[e] <= n,
         \A e \in Experts, j \in Nat : j < ec[e] /\ ec[e] <= Cap =>
           slotAt[ExclCumsum(ec)[e] + j] \in T /\ Local(slotAt[ExclCumsum(ec)[e] + j]) = e,
         \A e \in Experts, j, k \in Nat :
           j < ec[e] /\ k < ec[e] /\ ec[e] <= Cap /\ slotAt[ExclCumsum(ec)[e] + j] = slotAt[ExclCumsum(ec)[e] + k]
           => j = k,
         \A s \in T : \E e \in Experts, j \in Nat :
           j < ec[e] /\ ec[e] <= Cap /\ slotAt[ExclCumsum(ec)[e] + j] = s
  PROVE  FusedMoe(ec, slotAt) = SlotBag(T)
<1> DEFINE D == {x \in Experts \X Rows : x[2] < ec[x[1]] /\ ec[x[1]] <= Cap}
           F == [r \in D |-> SlotBy(slotAt[ExclCumsum(ec)[r[1]] + r[2]], r[1])]
           h == [r \in D |-> slotAt[ExclCumsum(ec)[r[1]] + r[2]]]
<1>1. n \in Nat /\ n <= NumSlots /\ NumSlots \in Nat
  BY CallFacts, SlotsRoom
<1>2. FusedMoe(ec, slotAt) = BagOf(F)
  BY DEF FusedMoe
<1>3. ASSUME NEW e \in Experts, NEW j \in Nat, j < ec[e], ec[e] <= Cap PROVE <<e, j>> \in D
  <2>1. ec[e] \in Nat /\ ec[e] <= n
    OBVIOUS
  <2>2. j < NumSlots
    BY <1>1, <1>3, <2>1
  <2>3. j \in Rows
    BY <2>2, RowsAre
  <2> QED
    BY <1>3, <2>3
<1>4. ASSUME NEW x \in D
      PROVE  /\ x[1] \in Experts /\ x[2] \in Nat /\ x[2] < ec[x[1]] /\ ec[x[1]] <= Cap /\ x = <<x[1], x[2]>>
             /\ h[x] = slotAt[ExclCumsum(ec)[x[1]] + x[2]] /\ F[x] = SlotBy(h[x], x[1])
  <2>1. x[2] \in Rows
    OBVIOUS
  <2>2. x[2] \in Nat
    BY <2>1 DEF Rows
  <2> QED
    BY <2>2
<1>5. DOMAIN F = D /\ DOMAIN h = D /\ h = [x \in D |-> h[x]]
  OBVIOUS
<1> HIDE DEF D, F, h
<1>6. ASSUME NEW x \in D PROVE h[x] \in T /\ Local(h[x]) = x[1]
  BY <1>4
<1>7. h \in [D -> T]
  BY <1>5, <1>6
<1>8. \A x \in D : F[x] = SlotBy(h[x], Local(h[x]))
  BY <1>4, <1>6
<1>9. ASSUME NEW x \in D, NEW y \in D, h[x] = h[y] PROVE x = y
  <2>1. x[1] = y[1]
    BY <1>6, <1>9
  <2>2. x[2] = y[2]
    BY <1>4, <1>9, <2>1
  <2> QED
    BY <1>4, <2>1, <2>2
<1>10. ASSUME NEW s \in T PROVE \E x \in D : h[x] = s
  <2>1. PICK e \in Experts, j \in Nat : j < ec[e] /\ ec[e] <= Cap /\ slotAt[ExclCumsum(ec)[e] + j] = s
    OBVIOUS
  <2>2. <<e, j>> \in D
    BY <1>3, <2>1
  <2>3. h[<<e, j>>] = s
    BY <1>4, <2>1, <2>2
  <2> QED
    BY <2>2, <2>3
<1>11. BagOf(F) = SlotBag(T)
  <2>1. \A x, y \in D : h[x] = h[y] => x = y
    BY <1>9
  <2>2. \A s \in T : \E x \in D : h[x] = s
    BY <1>10
  <2> QED
    BY <1>5, <1>7, <1>8, <2>1, <2>2, Rebagged
<1> QED
  BY <1>2, <1>11

\* One launch over the sorted slots adds those of the thin experts.
LEMMA ThinAdded ==
  ASSUME CallInv, pc # "idle"
  PROVE  FusedMoe(Counts, order) = SlotBag(ThinSlots)
<1>1. Counts \in [Experts -> Nat] /\ \A e \in Experts : Counts[e] <= n
  BY CountsFacts
<1>2. \A e \in Experts : ExclCumsum(Counts)[e] \in Nat
  <2>1. \A e \in Experts : e \in 0..NExp
    BY MoeConstants DEF Experts
  <2> QED
    BY <1>1, <2>1, SumTyped
<1>3. ASSUME NEW e \in Experts, NEW j \in Nat, j < Counts[e]
      PROVE  /\ ExclCumsum(Counts)[e] + j \in 0..NumSlots - 1
             /\ order[ExclCumsum(Counts)[e] + j] \in LocalSlots /\ Local(order[ExclCumsum(Counts)[e] + j]) = e
  <2>1. ExclCumsum(Counts)[e] + j \in Nat /\ InSection(Counts, e, ExclCumsum(Counts)[e] + j)
    BY <1>1, <1>2, <1>3 DEF InSection
  <2> QED
    BY <2>1, SectionPlace
<1>4. ASSUME NEW e \in Experts, NEW j \in Nat, j < Counts[e] /\ Counts[e] <= Cap
      PROVE  order[ExclCumsum(Counts)[e] + j] \in ThinSlots /\ Local(order[ExclCumsum(Counts)[e] + j]) = e
  BY <1>3, <1>4 DEF ThinSlots
<1>5. ASSUME NEW e \in Experts, NEW j \in Nat, NEW k \in Nat, j < Counts[e], k < Counts[e],
             order[ExclCumsum(Counts)[e] + j] = order[ExclCumsum(Counts)[e] + k]
      PROVE  j = k
  <2>1. ExclCumsum(Counts)[e] + j = ExclCumsum(Counts)[e] + k
    BY <1>3, <1>5, OrderFacts
  <2> QED
    BY <1>2, <2>1
<1>6. ASSUME NEW s \in ThinSlots
      PROVE  \E e \in Experts, j \in Nat : j < Counts[e] /\ Counts[e] <= Cap /\ order[ExclCumsum(Counts)[e] + j] = s
  <2>1. s \in LocalSlots /\ Counts[Local(s)] <= Cap
    BY DEF ThinSlots
  <2>2. PICK i \in 0..NumSlots - 1 : i \in Nat /\ order[i] = s /\ InSection(Counts, Local(s), i)
    BY <2>1, PlaceOf
  <2> DEFINE e == Local(s)
             j == i - ExclCumsum(Counts)[e]
  <2>3. e \in Experts
    BY <2>1, PlaceOf
  <2>4. ExclCumsum(Counts)[e] \in Nat /\ Counts[e] \in Nat
    BY <1>1, <1>2, <2>3
  <2>5. j \in Nat /\ j < Counts[e] /\ ExclCumsum(Counts)[e] + j = i
    <3> HIDE DEF e
    <3> QED
      BY <2>2, <2>4 DEF InSection, e
  <2> QED
    BY <2>1, <2>2, <2>3, <2>5
<1> QED
  BY <1>1, <1>4, <1>5, <1>6, FusedAdds

\* A slice of the sorted slots adds those of its expert.
LEMMA SliceAdded ==
  ASSUME CallInv, pc # "idle", host = Counts, NEW e \in Experts
  PROVE  FatSlice(e) = SlotBag({s \in LocalSlots : Local(s) = e})
<1> DEFINE D == {r \in Rows : ExclCumsum(host)[e] <= r /\ r < ExclCumsum(host)[e] + host[e]}
           F == [i \in D |-> SlotBy(order[i], e)]
           h == [i \in D |-> order[i]]
           T == {s \in LocalSlots : Local(s) = e}
<1>1. FatSlice(e) = BagOf(F)
  BY DEF FatSlice
<1>2. ASSUME NEW i \in D
      PROVE  i \in 0..NumSlots - 1 /\ order[i] \in T /\ F[i] = SlotBy(order[i], Local(order[i])) /\ h[i] = order[i]
  <2>1. i \in Nat
    BY DEF Rows
  <2>2. InSection(Counts, e, i)
    BY <1>2 DEF InSection
  <2>3. i \in 0..NumSlots - 1 /\ order[i] \in LocalSlots /\ Local(order[i]) = e
    BY <2>1, <2>2, SectionPlace
  <2> QED
    BY <2>3
<1>3. ASSUME NEW s \in T PROVE \E i \in D : h[i] = s
  <2>1. s \in LocalSlots /\ Local(s) = e
    OBVIOUS
  <2>2. PICK i \in 0..NumSlots - 1 : i \in Nat /\ order[i] = s /\ InSection(Counts, Local(s), i)
    BY <2>1, PlaceOf
  <2>3. i \in Rows
    <3>1. i < NumSlots
      BY CallFacts
    <3> QED
      BY <2>2, <3>1, RowsAre
  <2>4. i \in D
    BY <2>1, <2>2, <2>3 DEF InSection
  <2> QED
    BY <2>2, <2>4
<1>4. DOMAIN F = D /\ h = [i \in D |-> h[i]]
  OBVIOUS
<1> HIDE DEF D, F, h, T
<1>5. h \in [D -> T]
  BY <1>2, <1>4
<1>6. \A i, j \in D : h[i] = h[j] => i = j
  BY <1>2, OrderFacts
<1>7. \A i \in D : F[i] = SlotBy(h[i], Local(h[i]))
  BY <1>2
<1>8. \A s \in T : \E i \in D : h[i] = s
  BY <1>3
<1>9. BagOf(F) = SlotBag(T)
  BY <1>4, <1>5, <1>6, <1>7, <1>8, Rebagged
<1> QED
  BY <1>1, <1>9 DEF T

\* The loop looks an id up its own way and finds the same expert.
LEMMA SameExpert ==
  ASSUME NEW m \in Maps, NEW id \in Int
  PROVE  LoopExpert(id, m) = MapTopkToLocal(id, m)
<1>1. NExp \in Nat /\ \A e \in Experts : e \in Nat
  BY MoeConstants DEF Experts
<1>2. CASE ~ m.given
  BY <1>1, <1>2 DEF LoopExpert, MapTopkToLocal
<1>3. CASE m.given /\ id \in DOMAIN m.to
  <2>1. id \in Nat
    BY <1>3, MoeConstants
  <2> QED
    BY <1>3, <2>1 DEF LoopExpert, MapTopkToLocal
<1>4. CASE m.given /\ id \notin DOMAIN m.to
  <2>1. id \notin Experts
    BY <1>4, MoeConstants DEF Experts
  <2> QED
    BY <1>4, <2>1 DEF LoopExpert, MapTopkToLocal
<1> QED
  BY <1>2, <1>3, <1>4, MoeConstants

LEMMA LoopAdded ==
  ASSUME CallInv, pc # "idle", NEW only \in SUBSET Experts
  PROVE  PythonLoop(only) = SlotBag({s \in LocalSlots : Local(s) \in only})
<1> DEFINE T == {s \in LocalSlots : Local(s) \in only}
           D == {u \in Slots : LoopExpert(ids[u[1]][u[2]], emap) \in only}
           F == [s \in D |-> SlotBy(s, LoopExpert(ids[s[1]][s[2]], emap))]
           h == [s \in D |-> s]
<1>1. \A s \in Slots : LoopExpert(ids[s[1]][s[2]], emap) = Local(s)
  <2> TAKE s \in Slots
  <2>1. emap \in Maps /\ ids[s[1]] \in Routes /\ s[2] \in 0..TopK - 1
    BY CallFacts DEF CallInv
  <2>2. ids[s[1]][s[2]] \in Int
    BY <2>1, MoeConstants
  <2> QED
    BY <2>1, <2>2, SameExpert DEF Local
<1>2. NExp \notin only
  BY MoeConstants DEF Experts
<1>3. D = T
  BY <1>1, <1>2 DEF LocalSlots
<1>4. PythonLoop(only) = BagOf(F)
  BY DEF PythonLoop
<1>5. DOMAIN F = D /\ h \in [D -> D] /\ \A s \in D : h[s] = s
  OBVIOUS
<1>6. \A s \in D : F[s] = SlotBy(h[s], Local(h[s]))
  BY <1>1
<1> HIDE DEF D, T, F, h
<1>7. BagOf(F) = SlotBag(T)
  <2>1. \A s, u \in D : h[s] = h[u] => s = u
    BY <1>5
  <2>2. \A s \in T : \E u \in D : h[u] = s
    BY <1>3, <1>5
  <2>3. h \in [D -> T]
    BY <1>3, <1>5
  <2> QED
    BY <1>5, <1>6, <2>1, <2>2, <2>3, Rebagged
<1> QED
  BY <1>4, <1>7 DEF T

\* The slots of row tile t: those between t * Cap and (t + 1) * Cap in the section
\* of their expert.
TileSlots(t) ==
  {s \in LocalSlots : \E i \in 0..NumSlots - 1 :
     /\ order[i] = s /\ ExclCumsum(Counts)[Local(s)] + t * Cap <= i
     /\ i < ExclCumsum(Counts)[Local(s)] + t * Cap + Cap}

LEMMA TileFacts ==
  ASSUME NEW c \in [Experts -> Nat], NEW t \in Nat
  PROVE  /\ TileCounts(c, t) \in [Experts -> Nat]
         /\ \A e \in Experts : /\ TileCounts(c, t)[e] <= Cap /\ TileCounts(c, t)[e] <= c[e]
                               /\ \A j \in Nat : j < TileCounts(c, t)[e] <=> j < Cap /\ t * Cap + j < c[e]
<1>1. Cap \in Nat /\ Cap > 0 /\ t * Cap \in Nat
  BY MoeConstants
<1>2. ASSUME NEW e \in Experts
      PROVE  LET v == MinOf(Cap, MaxOf(0, c[e] - t * Cap))
             IN  /\ v \in Nat /\ v <= Cap /\ v <= c[e]
                 /\ \A j \in Nat : j < v <=> j < Cap /\ t * Cap + j < c[e]
  <2> DEFINE q == t * Cap
             a == c[e]
  <2>1. q \in Nat /\ a \in Nat
    BY <1>1
  <2> HIDE DEF q, a
  <2> DEFINE v == MinOf(Cap, MaxOf(0, a - q))
  <2>2. v \in Nat /\ v <= Cap /\ v <= a
    BY <1>1, <2>1 DEF MinOf, MaxOf
  <2>3. ASSUME NEW j \in Nat PROVE j < v <=> j < Cap /\ q + j < a
    BY <1>1, <2>1 DEF MinOf, MaxOf
  <2> QED
    BY <2>2, <2>3 DEF q, a
<1>3. \A e \in Experts : TileCounts(c, t)[e] = MinOf(Cap, MaxOf(0, c[e] - t * Cap))
  BY DEF TileCounts
<1>4. TileCounts(c, t) = [e \in Experts |-> TileCounts(c, t)[e]]
  BY DEF TileCounts
<1> QED
  BY <1>2, <1>3, <1>4

LEMMA TileAdded ==
  ASSUME CallInv, pc # "idle", host = Counts, NEW t \in Nat
  PROVE  RowTile(host, t) = SlotBag(TileSlots(t))
<1> DEFINE tc == TileCounts(host, t)
           src == [i \in 0..Total(tc) - 1 |->
                     LET e == SearchSorted(tc, i)
                     IN  ExclCumsum(host)[e] + t * Cap + (i - ExclCumsum(tc)[e])]
           slotAt == [i \in DOMAIN src |-> order[src[i]]]
           S(e) == ExclCumsum(Counts)[e]
           R(e) == ExclCumsum(tc)[e]
           q == t * Cap
<1>1. RowTile(host, t) = FusedMoe(tc, slotAt)
  BY DEF RowTile
<1>2. Counts \in [Experts -> Nat] /\ \A e \in Experts : Counts[e] <= n
  BY CountsFacts
<1>3. /\ tc \in [Experts -> Nat]
      /\ \A e \in Experts : /\ tc[e] <= Cap /\ tc[e] <= Counts[e]
                            /\ \A j \in Nat : j < tc[e] <=> j < Cap /\ q + j < Counts[e]
  BY <1>2, TileFacts
<1>4. \A e \in Experts : e \in 0..NExp
  BY MoeConstants DEF Experts
<1>5. \A e \in Experts : S(e) \in Nat /\ R(e) \in Nat
  BY <1>2, <1>3, <1>4, SumTyped
<1>6. q \in Nat /\ n \in Nat /\ Cap \in Nat
  BY CallFacts, MoeConstants
<1>7. \A i \in 0..Total(tc) - 1 :
        slotAt[i] = order[S(SearchSorted(tc, i)) + q + (i - R(SearchSorted(tc, i)))]
  OBVIOUS
<1>8. \A e \in Experts, x \in Nat : InSection(Counts, e, x) <=> S(e) <= x /\ x < S(e) + Counts[e]
  BY DEF InSection
<1>9. \A e \in Experts, x \in Nat : InSection(tc, e, x) <=> R(e) <= x /\ x < R(e) + tc[e]
  BY DEF InSection
<1> HIDE DEF tc, src, slotAt, S, R, q
<1>10. ASSUME NEW e \in Experts, NEW j \in Nat, j < tc[e]
       PROVE  /\ S(e) + (q + j) \in 0..NumSlots - 1 /\ slotAt[R(e) + j] = order[S(e) + (q + j)]
              /\ order[S(e) + (q + j)] \in LocalSlots /\ Local(order[S(e) + (q + j)]) = e
              /\ j < Cap
  <2>1. /\ S(e) \in Nat /\ R(e) \in Nat /\ tc[e] \in Nat /\ Counts[e] \in Nat /\ q + j < Counts[e] /\ j < Cap
        /\ q + j \in Nat
    BY <1>2, <1>3, <1>5, <1>6, <1>10
  <2>2. R(e) + j \in Nat /\ InSection(tc, e, R(e) + j)
    BY <1>9, <1>10, <2>1
  <2>3. SearchSorted(tc, R(e) + j) = e /\ R(e) + j < Total(tc) /\ Total(tc) \in Nat
    BY <1>3, <2>2, SearchIs, SumTyped
  <2>4. slotAt[R(e) + j] = order[S(e) + q + ((R(e) + j) - R(e))]
    <3>1. R(e) + j \in 0..Total(tc) - 1
      BY <2>2, <2>3
    <3> QED
      BY <1>7, <2>3, <3>1
  <2>5. S(e) + q + ((R(e) + j) - R(e)) = S(e) + (q + j)
    BY <1>6, <2>1
  <2>6. S(e) + (q + j) \in Nat /\ InSection(Counts, e, S(e) + (q + j))
    BY <1>8, <2>1
  <2>7. /\ S(e) + (q + j) \in 0..NumSlots - 1
        /\ order[S(e) + (q + j)] \in LocalSlots /\ Local(order[S(e) + (q + j)]) = e
    BY <2>6, SectionPlace
  <2> QED
    BY <2>1, <2>4, <2>5, <2>7
<1>11. \A s : s \in TileSlots(t) <=> s \in LocalSlots /\ \E i \in 0..NumSlots - 1 :
                order[i] = s /\ S(Local(s)) + q <= i /\ i < S(Local(s)) + q + Cap
  BY DEF TileSlots, S, q
<1>12. ASSUME NEW e \in Experts, NEW j \in Nat, j < tc[e] /\ tc[e] <= Cap
       PROVE  slotAt[R(e) + j] \in TileSlots(t) /\ Local(slotAt[R(e) + j]) = e
  <2> DEFINE s == order[S(e) + (q + j)]
             i == S(e) + (q + j)
  <2>1. /\ i \in 0..NumSlots - 1 /\ slotAt[R(e) + j] = s /\ s \in LocalSlots /\ Local(s) = e /\ j < Cap
        /\ order[i] = s /\ S(e) \in Nat
    BY <1>5, <1>10, <1>12
  <2>2. S(e) + q <= i /\ i < S(e) + q + Cap
    BY <1>6, <2>1
  <2> HIDE DEF s, i
  <2> QED
    BY <1>11, <2>1, <2>2
<1>13. ASSUME NEW e \in Experts, NEW j \in Nat, NEW k \in Nat, j < tc[e], k < tc[e],
              slotAt[R(e) + j] = slotAt[R(e) + k]
       PROVE  j = k
  <2>1. /\ S(e) + (q + j) \in 0..NumSlots - 1 /\ S(e) + (q + k) \in 0..NumSlots - 1
        /\ order[S(e) + (q + j)] = order[S(e) + (q + k)]
    BY <1>10, <1>13
  <2>2. S(e) + (q + j) = S(e) + (q + k)
    BY <2>1, OrderFacts
  <2> QED
    BY <1>5, <1>6, <2>2
<1>14. ASSUME NEW s \in TileSlots(t)
       PROVE  \E e \in Experts, j \in Nat : j < tc[e] /\ tc[e] <= Cap /\ slotAt[R(e) + j] = s
  <2>1. s \in LocalSlots
    BY <1>11
  <2>2. PICK i \in 0..NumSlots - 1 : order[i] = s /\ S(Local(s)) + q <= i /\ i < S(Local(s)) + q + Cap
    BY <1>11
  <2> DEFINE e == Local(s)
             j == i - (S(e) + q)
  <2>3. e \in Experts
    BY <2>1, PlaceOf
  <2>4. InSection(Counts, e, i) /\ i \in Nat
    <3>1. i \in Nat
      BY CallFacts
    <3> QED
      BY <2>2, <2>3, <3>1, SlotSection
  <2> HIDE DEF e
  <2>5. S(e) \in Nat /\ Counts[e] \in Nat /\ S(e) + q <= i /\ i < S(e) + q + Cap /\ i < S(e) + Counts[e]
    BY <1>2, <1>5, <1>8, <2>2, <2>3, <2>4 DEF e
  <2>6. j \in Nat /\ j < Cap /\ q + j < Counts[e] /\ S(e) + (q + j) = i
    BY <1>6, <2>4, <2>5
  <2>7. j < tc[e] /\ tc[e] <= Cap
    BY <1>3, <2>3, <2>6
  <2>8. slotAt[R(e) + j] = s
    BY <1>10, <2>2, <2>3, <2>6, <2>7
  <2> QED
    BY <2>3, <2>6, <2>7, <2>8
<1>15. \A e \in Experts : tc[e] <= n
  BY <1>2, <1>3, <1>6
<1>16. FusedMoe(tc, slotAt) = SlotBag(TileSlots(t))
  <2>1. /\ \A e \in Experts, j \in Nat : j < tc[e] /\ tc[e] <= Cap =>
             slotAt[ExclCumsum(tc)[e] + j] \in TileSlots(t) /\ Local(slotAt[ExclCumsum(tc)[e] + j]) = e
    BY <1>12 DEF R
  <2>2. \A e \in Experts, j, k \in Nat :
           j < tc[e] /\ k < tc[e] /\ tc[e] <= Cap /\ slotAt[ExclCumsum(tc)[e] + j] = slotAt[ExclCumsum(tc)[e] + k]
           => j = k
    BY <1>13 DEF R
  <2>3. \A s \in TileSlots(t) : \E e \in Experts, j \in Nat :
           j < tc[e] /\ tc[e] <= Cap /\ slotAt[ExclCumsum(tc)[e] + j] = s
    BY <1>14 DEF R
  <2> QED
    BY <1>3, <1>15, <2>1, <2>2, <2>3, FusedAdds
<1> QED
  BY <1>1, <1>16

-----------------------------------------------------------------------------
(* The tables of the grouped kernels *)

LEMMA CeilFacts ==
  ASSUME NEW a \in Nat, NEW d \in Nat, d > 0
  PROVE  /\ CeilDiv(a, d) \in Nat /\ a <= d * CeilDiv(a, d) /\ d * CeilDiv(a, d) <= a + d
         /\ \A l \in Nat : l < CeilDiv(a, d) <=> d * l < a
<1> DEFINE x == a + d - 1
           q == x \div d
           w == x % d
<1>1. x \in Nat
  OBVIOUS
<1>2. CeilDiv(a, d) = q
  BY DEF CeilDiv
<1>3. q \in Nat /\ w \in Nat /\ w < d /\ x = d * q + w
  <2> HIDE DEF x
  <2> QED
    BY <1>1, Divided
<1>4. d * q \in Nat
  BY <1>3, Product
<1> HIDE DEF q, w
<1>5. a <= d * q /\ d * q <= a + d
  BY <1>3, <1>4
<1>6. ASSUME NEW l \in Nat PROVE l < q <=> d * l < a
  <2>1. d * l \in Nat /\ (l < q => d * l + d <= d * q) /\ (q <= l => d * q <= d * l)
    BY <1>3, Product
  <2>2. l < q => d * l < a
    BY <1>3, <1>4, <2>1
  <2>3. ~ (l < q) => ~ (d * l < a)
    BY <1>3, <1>4, <1>5, <2>1
  <2> QED
    BY <2>2, <2>3
<1> QED
  BY <1>2, <1>3, <1>5, <1>6

\* A row of the fat buffer belongs to a fat expert, and stands in its part of
\* the buffer as its slot stands in the section of the expert.
LEMMA FatFacts ==
  ASSUME CallInv, pc # "idle"
  PROVE  /\ FatRows \in [Experts -> Nat] /\ NumRows \in Nat /\ NumRows <= NumSlots
         /\ \A e \in Experts : /\ FatRows[e] <= Counts[e]
                               /\ FatRows[e] # 0 => FatRows[e] = Counts[e] /\ Counts[e] > Cap
                               /\ Counts[e] > Cap => FatRows[e] = Counts[e]
<1>1. Counts \in [Experts -> Nat] /\ Cap \in Nat
  BY CountsFacts, MoeConstants
<1>2. \A e \in Experts : FatRows[e] = IF Counts[e] > Cap THEN Counts[e] ELSE 0
  BY DEF FatRows
<1>3. FatRows \in [Experts -> Nat]
  <2>1. FatRows = [e \in Experts |-> FatRows[e]]
    BY DEF FatRows
  <2>2. \A e \in Experts : FatRows[e] \in Nat
    BY <1>1, <1>2
  <2> QED
    BY <2>1, <2>2
<1>4. \A e \in Experts : FatRows[e] <= Counts[e]
  BY <1>1, <1>2
<1>5. NumRows \in Nat /\ NumRows <= Total(Counts)
  <2>1. NExp \in 0..NExp
    BY MoeConstants
  <2>2. ExclCumsum(FatRows)[NExp] <= ExclCumsum(Counts)[NExp]
    BY <1>1, <1>3, <1>4, <2>1, SumBelow
  <2> QED
    BY <1>1, <1>3, <2>2, SumTyped DEF NumRows
<1>6. NumRows <= NumSlots
  BY <1>5, CountsTotal, CallFacts
<1> QED
  BY <1>1, <1>2, <1>3, <1>4, <1>5, <1>6

LEMMA RowFacts ==
  ASSUME CallInv, pc # "idle", NEW r \in 0..NumRows - 1
  PROVE  /\ r \in Nat /\ r < NumRows /\ r \in Rows
         /\ RowExpert(r) \in Experts /\ InSection(FatRows, RowExpert(r), r)
         /\ RowSource(r) \in 0..NumSlots - 1 /\ RowSource(r) < NumSlots /\ RowSlot(r) = order[RowSource(r)]
         /\ RowSlot(r) \in LocalSlots /\ RowSlot(r) \notin ThinSlots /\ Local(RowSlot(r)) = RowExpert(r)
<1> DEFINE e == RowExpert(r)
           a == ExclCumsum(Counts)[e]
           b == ExclCumsum(FatRows)[e]
<1>1. /\ FatRows \in [Experts -> Nat] /\ NumRows \in Nat /\ NumRows <= NumSlots /\ NumSlots \in Nat
      /\ Counts \in [Experts -> Nat] /\ Cap \in Nat
  BY FatFacts, CallFacts, CountsFacts, MoeConstants
<1>2. r \in Nat /\ r < NumRows /\ r < NumSlots
  BY <1>1
<1>3. r \in Rows
  BY <1>2, RowsAre
<1>4. e \in Experts /\ InSection(FatRows, e, r)
  BY <1>1, <1>2, SearchFacts DEF NumRows, RowExpert
<1>5. a \in Nat /\ b \in Nat
  <2>1. e \in 0..NExp
    BY <1>4, MoeConstants DEF Experts
  <2> QED
    BY <1>1, <2>1, SumTyped
<1>6. RowSource(r) = a + (r - b)
  BY DEF RowSource
<1> HIDE DEF a, b, e
<1>7. b <= r /\ r < b + FatRows[e] /\ FatRows[e] \in Nat /\ Counts[e] \in Nat
  BY <1>1, <1>4 DEF InSection, b
<1>8. FatRows[e] = Counts[e] /\ Counts[e] > Cap
  <2>1. FatRows[e] # 0
    BY <1>2, <1>5, <1>7
  <2> QED
    BY <1>4, <2>1, FatFacts
<1>9. RowSource(r) \in Nat /\ a <= RowSource(r) /\ RowSource(r) < a + Counts[e]
  BY <1>2, <1>5, <1>6, <1>7, <1>8
<1>10. InSection(Counts, e, RowSource(r))
  BY <1>9 DEF InSection, a
<1>11. /\ RowSource(r) \in 0..NumSlots - 1
       /\ order[RowSource(r)] \in LocalSlots /\ Local(order[RowSource(r)]) = e
  BY <1>4, <1>9, <1>10, SectionPlace
<1>12. RowSource(r) < NumSlots
  BY <1>1, <1>11
<1>13. RowSlot(r) = order[RowSource(r)]
  <2>1. MinOf(RowSource(r), NumSlots - 1) = RowSource(r)
    BY <1>1, <1>11 DEF MinOf
  <2> QED
    BY <2>1 DEF RowSlot
<1>14. RowSlot(r) \notin ThinSlots
  BY <1>1, <1>7, <1>8, <1>11, <1>13 DEF ThinSlots
<1> QED
  BY <1>2, <1>3, <1>4, <1>11, <1>12, <1>13, <1>14 DEF e

LEMMA RowsApart ==
  ASSUME CallInv, pc # "idle", NEW r \in 0..NumRows - 1, NEW u \in 0..NumRows - 1, RowSlot(r) = RowSlot(u)
  PROVE  r = u
<1>1. RowSource(r) = RowSource(u) /\ RowExpert(r) = RowExpert(u) /\ r \in Nat /\ u \in Nat
  <2>1. order[RowSource(r)] = order[RowSource(u)] /\ RowSource(r) \in 0..NumSlots - 1 /\ RowSource(u) \in 0..NumSlots - 1
    BY RowFacts
  <2>2. RowSource(r) = RowSource(u)
    BY <2>1, OrderFacts
  <2>3. RowExpert(r) = RowExpert(u)
    BY RowFacts
  <2> QED
    BY <2>2, <2>3, RowFacts
<1> DEFINE e == RowExpert(r)
           a == ExclCumsum(Counts)[e]
           b == ExclCumsum(FatRows)[e]
<1>2. a \in Nat /\ b \in Nat
  <2>1. e \in Experts
    BY RowFacts
  <2>2. e \in 0..NExp
    BY <2>1, MoeConstants DEF Experts
  <2> QED
    BY <2>2, CountsFacts, FatFacts, SumTyped
<1>3. RowSource(r) = a + (r - b) /\ RowSource(u) = a + (u - b)
  BY <1>1 DEF RowSource
<1> HIDE DEF a, b, e
<1>4. a + (r - b) = a + (u - b)
  BY <1>1, <1>3
<1>5. r \in Int /\ u \in Int
  BY <1>1
<1> QED
  BY <1>2, <1>4, <1>5

\* Every slot of a fat expert has its row.
LEMMA RowOf ==
  ASSUME CallInv, pc # "idle", NEW s \in LocalSlots, s \notin ThinSlots
  PROVE  \E r \in 0..NumRows - 1 : RowSlot(r) = s
<1> DEFINE e == Local(s)
           a == ExclCumsum(Counts)[e]
           b == ExclCumsum(FatRows)[e]
<1>1. e \in Experts
  BY PlaceOf
<1>2. PICK i \in 0..NumSlots - 1 : i \in Nat /\ order[i] = s /\ InSection(Counts, e, i)
  BY PlaceOf
<1>3. /\ FatRows \in [Experts -> Nat] /\ NumRows \in Nat /\ NumRows <= NumSlots /\ NumSlots \in Nat
      /\ Counts \in [Experts -> Nat] /\ Cap \in Nat
  BY FatFacts, CallFacts, CountsFacts, MoeConstants
<1>4. a \in Nat /\ b \in Nat
  <2>1. e \in 0..NExp
    BY <1>1, MoeConstants DEF Experts
  <2> QED
    BY <1>3, <2>1, SumTyped
<1>5. Counts[e] > Cap /\ FatRows[e] = Counts[e] /\ Counts[e] \in Nat
  <2>1. ~ (Counts[e] <= Cap)
    BY DEF ThinSlots
  <2>2. Counts[e] \in Nat
    BY <1>1, <1>3
  <2> QED
    BY <1>1, <1>3, <2>1, <2>2, FatFacts
<1> DEFINE r == b + (i - a)
<1>6. a <= i /\ i < a + Counts[e]
  BY <1>2 DEF InSection
<1> HIDE DEF a, b
<1>7. r \in Nat /\ b <= r /\ r < b + FatRows[e] /\ a + (r - b) = i
  BY <1>2, <1>4, <1>5, <1>6
<1> HIDE DEF r
<1>8. InSection(FatRows, e, r)
  BY <1>7 DEF InSection, b
<1>9. SearchSorted(FatRows, r) = e /\ r < NumRows
  BY <1>1, <1>3, <1>7, <1>8, SearchIs DEF NumRows
<1>10. r \in 0..NumRows - 1 /\ RowExpert(r) = e
  BY <1>3, <1>7, <1>9 DEF RowExpert
<1>11. RowSource(r) = i
  BY <1>7, <1>10 DEF RowSource, a, b
<1>12. RowSlot(r) = s
  BY <1>2, <1>10, <1>11, RowFacts
<1> QED
  BY <1>10, <1>12

\* A multiple of d leaves one room of d for a number.
LEMMA OneRoom ==
  ASSUME NEW d \in Nat, NEW k \in Nat, NEW m \in Nat, NEW x \in Nat,
         d * k <= x, x < d * k + d, d * m <= x, x < d * m + d
  PROVE  k = m
<1>1. /\ d * k \in Nat /\ d * m \in Nat
      /\ k < m => d * k + d <= d * m
      /\ m < k => d * m + d <= d * k
  BY Product
<1>2. ~ (k < m) /\ ~ (m < k)
  BY <1>1
<1> QED
  BY <1>2

\* Which rows segment s holds: those of one expert, from its tile on.
TileOf(tile, s) == s - ExclCumsum(SegTiles(tile))[Segment(tile, s).e]

LEMMA SegTilesTyped ==
  ASSUME CallInv, pc # "idle", NEW tile \in Nat, tile > 0
  PROVE  /\ SegTiles(tile) \in [Experts -> Nat] /\ NumSegs(tile) \in Nat
         /\ \A e \in Experts : SegTiles(tile)[e] = CeilDiv(FatRows[e], tile)
<1>1. FatRows \in [Experts -> Nat]
  BY FatFacts
<1>2. \A e \in Experts : SegTiles(tile)[e] = CeilDiv(FatRows[e], tile)
  BY DEF SegTiles
<1>3. \A e \in Experts : SegTiles(tile)[e] \in Nat
  BY <1>1, <1>2, CeilFacts
<1>4. SegTiles(tile) = [e \in Experts |-> SegTiles(tile)[e]]
  BY DEF SegTiles
<1>5. SegTiles(tile) \in [Experts -> Nat]
  BY <1>3, <1>4
<1> QED
  BY <1>2, <1>5, SumTyped DEF NumSegs

LEMMA SegFacts ==
  ASSUME CallInv, pc # "idle", NEW tile \in Nat, tile > 0, NEW s \in 0..NumSegs(tile) - 1
  PROVE  /\ s \in Nat /\ s < NumSegs(tile)
         /\ Segment(tile, s).e \in Experts /\ TileOf(tile, s) \in Nat
         /\ Segment(tile, s).e = SearchSorted(SegTiles(tile), s)
         /\ InSection(SegTiles(tile), Segment(tile, s).e, s)
         /\ s = ExclCumsum(SegTiles(tile))[Segment(tile, s).e] + TileOf(tile, s)
         /\ \A r : r \in SegRows(Segment(tile, s)) <=>
              /\ r \in Nat /\ InSection(FatRows, Segment(tile, s).e, r)
              /\ tile * TileOf(tile, s) <= r - ExclCumsum(FatRows)[Segment(tile, s).e]
              /\ r - ExclCumsum(FatRows)[Segment(tile, s).e] < tile * TileOf(tile, s) + tile
<1> DEFINE Q == SegTiles(tile)
           e == SearchSorted(Q, s)
           k == s - ExclCumsum(Q)[e]
           b == ExclCumsum(FatRows)[e]
           w == FatRows[e]
           g == Segment(tile, s)
           p == tile * k
           v == MinOf(tile, MaxOf(0, w - p))
<1>1. Q \in [Experts -> Nat] /\ NumSegs(tile) \in Nat /\ NumSegs(tile) = Total(Q) /\ FatRows \in [Experts -> Nat]
  BY SegTilesTyped, FatFacts DEF NumSegs
<1>2. s \in Nat /\ s < NumSegs(tile)
  BY <1>1
<1>3. e \in Experts /\ InSection(Q, e, s)
  BY <1>1, <1>2, SearchFacts
<1>4. b \in Nat /\ w \in Nat /\ ExclCumsum(Q)[e] \in Nat /\ Q[e] \in Nat
  <2>1. e \in 0..NExp
    BY <1>3, MoeConstants DEF Experts
  <2> QED
    BY <1>1, <1>3, <2>1, SumTyped
<1>5. k \in Nat /\ k < Q[e] /\ s = ExclCumsum(Q)[e] + k
  <2>1. ExclCumsum(Q)[e] <= s /\ s < ExclCumsum(Q)[e] + Q[e]
    BY <1>3 DEF InSection
  <2> QED
    BY <1>2, <1>4, <2>1
<1>6. Q[e] = CeilDiv(w, tile)
  BY <1>3, SegTilesTyped
<1>7. p \in Nat /\ p < w /\ k * tile = p
  <2>1. p \in Nat
    BY <1>5, Product
  <2>2. p < w
    BY <1>4, <1>5, <1>6, CeilFacts
  <2> HIDE DEF k
  <2>3. k * tile = p
    BY <1>5
  <2> QED
    BY <2>1, <2>2, <2>3
<1>8. g = [e |-> e, row0 |-> b + k * tile, rows |-> MinOf(tile, MaxOf(0, w - k * tile))]
  BY DEF Segment
<1>9. g.e = e /\ g.row0 = b + p /\ g.rows = v
  BY <1>7, <1>8
<1>10. SegRows(g) = (b + p)..(b + p + v - 1)
  BY <1>9 DEF SegRows
<1>11. TileOf(tile, s) = k
  BY <1>9 DEF TileOf
<1> HIDE DEF Q, e, k, b, w, g, p, v
<1>12. v \in Nat /\ v <= tile /\ v <= w - p /\ (v = tile \/ v = w - p)
  <2>1. v = MinOf(tile, MaxOf(0, w - p))
    BY DEF v
  <2> QED
    BY <1>4, <1>7, <2>1 DEF MinOf, MaxOf
<1>13. \A r : r \in (b + p)..(b + p + v - 1) <=>
          r \in Nat /\ (b <= r /\ r < b + w) /\ p <= r - b /\ r - b < p + tile
  BY <1>4, <1>7, <1>12
<1>14. \A r : InSection(FatRows, e, r) <=> b <= r /\ r < b + w
  BY DEF InSection, b, w
<1>15. \A r : r \in SegRows(g) <=>
          r \in Nat /\ InSection(FatRows, e, r) /\ p <= r - b /\ r - b < p + tile
  BY <1>10, <1>13, <1>14
<1>16. \A r : r \in SegRows(g) <=>
          /\ r \in Nat /\ InSection(FatRows, g.e, r)
          /\ tile * TileOf(tile, s) <= r - ExclCumsum(FatRows)[g.e]
          /\ r - ExclCumsum(FatRows)[g.e] < tile * TileOf(tile, s) + tile
  BY <1>9, <1>11, <1>15 DEF p, b
<1>17. /\ g.e \in Experts /\ TileOf(tile, s) \in Nat /\ g.e = SearchSorted(Q, s)
       /\ InSection(Q, g.e, s) /\ s = ExclCumsum(Q)[g.e] + TileOf(tile, s)
  BY <1>3, <1>5, <1>9, <1>11 DEF e
<1> QED
  BY <1>2, <1>16, <1>17 DEF g, Q

\* A row of a segment is a row of the buffer, and its expert is the segment's.
LEMMA SegRow ==
  ASSUME CallInv, pc # "idle", NEW tile \in Nat, tile > 0, NEW g \in Segments(tile), NEW r \in SegRows(g)
  PROVE  r \in 0..NumRows - 1 /\ RowExpert(r) = g.e
<1>1. PICK s \in 0..NumSegs(tile) - 1 : g = Segment(tile, s)
  BY DEF Segments
<1>2. g.e \in Experts /\ r \in Nat /\ InSection(FatRows, g.e, r)
  BY <1>1, SegFacts
<1>3. FatRows \in [Experts -> Nat] /\ NumRows \in Nat
  BY FatFacts
<1>4. SearchSorted(FatRows, r) = g.e /\ r < Total(FatRows)
  BY <1>2, <1>3, SearchIs
<1> QED
  BY <1>2, <1>3, <1>4 DEF RowExpert, NumRows

\* Two segments share no row.
LEMMA SegApart ==
  ASSUME CallInv, pc # "idle", NEW tile \in Nat, tile > 0, NEW g \in Segments(tile), NEW h \in Segments(tile),
         NEW r \in SegRows(g), r \in SegRows(h)
  PROVE  g = h
<1>1. PICK s \in 0..NumSegs(tile) - 1 : g = Segment(tile, s)
  BY DEF Segments
<1>2. PICK u \in 0..NumSegs(tile) - 1 : h = Segment(tile, u)
  BY DEF Segments
<1> DEFINE b == ExclCumsum(FatRows)[g.e]
           k == TileOf(tile, s)
           m == TileOf(tile, u)
           x == r - b
<1>3. g.e = RowExpert(r) /\ h.e = RowExpert(r)
  BY SegRow
<1>4. /\ k \in Nat /\ s = ExclCumsum(SegTiles(tile))[g.e] + k /\ g.e \in Experts
      /\ r \in Nat /\ InSection(FatRows, g.e, r) /\ tile * k <= x /\ x < tile * k + tile
  BY <1>1, SegFacts
<1>5. /\ m \in Nat /\ u = ExclCumsum(SegTiles(tile))[g.e] + m
      /\ tile * m <= x /\ x < tile * m + tile
  <2>1. h.e = g.e
    BY <1>3
  <2> QED
    BY <1>2, <2>1, SegFacts
<1>6. x \in Nat
  <2>1. g.e \in 0..NExp
    BY <1>4, MoeConstants DEF Experts
  <2>2. b \in Nat
    BY <2>1, FatFacts, SumTyped
  <2>3. b <= r
    BY <1>4 DEF InSection
  <2> HIDE DEF b
  <2> QED
    BY <1>4, <2>2, <2>3
<1> HIDE DEF k, m, x
<1>7. k = m
  BY <1>4, <1>5, <1>6, OneRoom
<1>8. s = u
  BY <1>4, <1>5, <1>7
<1> QED
  BY <1>1, <1>2, <1>8

\* Every row has its segment.
LEMMA SegOf ==
  ASSUME CallInv, pc # "idle", NEW tile \in Nat, tile > 0, NEW r \in 0..NumRows - 1
  PROVE  \E g \in Segments(tile) : r \in SegRows(g)
<1> DEFINE Q == SegTiles(tile)
           e == RowExpert(r)
           b == ExclCumsum(FatRows)[e]
           c == ExclCumsum(Q)[e]
           w == FatRows[e]
           x == r - b
           k == x \div tile
           s == c + k
<1>1. r \in Nat /\ e \in Experts /\ InSection(FatRows, e, r)
  BY RowFacts
<1>2. Q \in [Experts -> Nat] /\ NumSegs(tile) \in Nat /\ FatRows \in [Experts -> Nat] /\ Q[e] = CeilDiv(w, tile)
  BY <1>1, SegTilesTyped, FatFacts
<1>3. b \in Nat /\ c \in Nat /\ w \in Nat
  <2>1. e \in 0..NExp
    BY <1>1, MoeConstants DEF Experts
  <2> QED
    BY <1>1, <1>2, <2>1, SumTyped
<1>4. b <= r /\ r < b + w
  BY <1>1 DEF InSection
<1> HIDE DEF b, c, w, e, Q
<1>5. x \in Nat /\ x < w
  BY <1>1, <1>3, <1>4
<1> HIDE DEF x
<1>6. k \in Nat /\ tile * k \in Nat /\ tile * k <= x /\ x < tile * k + tile
  <2>1. k \in Nat /\ x % tile \in Nat /\ x % tile < tile /\ x = tile * k + (x % tile)
    BY <1>5, Divided
  <2>2. tile * k \in Nat
    BY <2>1, Product
  <2> QED
    BY <1>5, <2>1, <2>2
<1> HIDE DEF k
<1>7. k < Q[e]
  <2>1. tile * k < w
    BY <1>3, <1>5, <1>6
  <2> QED
    BY <1>2, <1>3, <1>6, <2>1, CeilFacts
<1>8. s \in Nat /\ c <= s /\ s < c + Q[e]
  <2>1. Q[e] \in Nat
    BY <1>1, <1>2
  <2> QED
    BY <1>3, <1>6, <1>7, <2>1
<1>9. InSection(Q, e, s)
  BY <1>8 DEF InSection, c
<1>10. SearchSorted(Q, s) = e /\ s < NumSegs(tile)
  BY <1>1, <1>2, <1>8, <1>9, SearchIs DEF NumSegs, Q
<1>11. s \in 0..NumSegs(tile) - 1
  BY <1>2, <1>8, <1>10
<1>12. Segment(tile, s).e = e /\ s = c + TileOf(tile, s) /\ TileOf(tile, s) \in Nat
  <2>1. /\ Segment(tile, s).e = SearchSorted(SegTiles(tile), s) /\ TileOf(tile, s) \in Nat
        /\ s = ExclCumsum(SegTiles(tile))[Segment(tile, s).e] + TileOf(tile, s)
    BY <1>11, SegFacts
  <2>2. Segment(tile, s).e = e
    BY <1>10, <2>1 DEF Q
  <2> QED
    BY <2>1, <2>2 DEF c, Q
<1>13. TileOf(tile, s) = k
  <2>1. \A m \in Nat : c + k = c + m => m = k
    BY <1>3, <1>6
  <2> QED
    BY <1>12, <2>1
<1>14. r \in SegRows(Segment(tile, s))
  <2>1. tile * TileOf(tile, s) <= r - ExclCumsum(FatRows)[Segment(tile, s).e]
    BY <1>6, <1>12, <1>13 DEF x, b
  <2>2. r - ExclCumsum(FatRows)[Segment(tile, s).e] < tile * TileOf(tile, s) + tile
    BY <1>6, <1>12, <1>13 DEF x, b
  <2>3. InSection(FatRows, Segment(tile, s).e, r)
    BY <1>1, <1>12
  <2> QED
    BY <1>1, <1>11, <2>1, <2>2, <2>3, SegFacts
<1>15. Segment(tile, s) \in Segments(tile)
  BY <1>11 DEF Segments
<1> QED
  BY <1>14, <1>15

\* The segments fit the table that was allocated without a look at the counts:
\* a tile of an expert is full but for the last one.
LEMMA SegBound ==
  ASSUME CallInv, pc # "idle", NEW tile \in Nat, tile > 0
  PROVE  NumSegs(tile) <= MaxSegs(tile)
<1> DEFINE Q == SegTiles(tile)
           G(e) == ExclCumsum(Q)[e]
           B(e) == ExclCumsum(FatRows)[e]
           P == {e \in 0..NExp : tile * G(e) <= B(e) + tile * e}
<1>1. /\ Q \in [Experts -> Nat] /\ NumSegs(tile) \in Nat /\ NumSegs(tile) = G(NExp) /\ FatRows \in [Experts -> Nat]
      /\ NumRows = B(NExp) /\ NumRows \in Nat /\ NumRows <= NumSlots /\ NExp \in Nat /\ NumSlots \in Nat
  BY SegTilesTyped, FatFacts, CallFacts, MoeConstants DEF NumSegs, NumRows, Total
<1>2. \A e \in 0..NExp : G(e) \in Nat /\ B(e) \in Nat
  BY <1>1, SumTyped
<1>3. G(0) = 0 /\ B(0) = 0 /\ \A e \in Experts : G(e + 1) = G(e) + Q[e] /\ B(e + 1) = B(e) + FatRows[e]
  BY <1>1, SumFacts
<1>4. \A e \in Experts : Q[e] = CeilDiv(FatRows[e], tile)
  BY SegTilesTyped
<1> HIDE DEF Q, G, B
<1>5. 0 \in P
  BY <1>1, <1>3
<1>6. ASSUME NEW e \in 0..NExp - 1, e \in P PROVE e + 1 \in P
  <2>1. e \in Experts /\ e \in Nat /\ e + 1 \in 0..NExp /\ e \in 0..NExp
    BY <1>1 DEF Experts
  <2> DEFINE a == G(e)
             c == Q[e]
             b == B(e)
             w == FatRows[e]
  <2>2. a \in Nat /\ c \in Nat /\ b \in Nat /\ w \in Nat
    BY <1>1, <1>2, <2>1
  <2>3. tile * c <= w + tile
    BY <1>4, <2>1, <2>2, CeilFacts
  <2>4. tile * a <= b + tile * e
    BY <1>6
  <2>5. G(e + 1) = a + c /\ B(e + 1) = b + w
    BY <1>3, <2>1
  <2> HIDE DEF a, b, c, w
  <2>6. tile * (a + c) = tile * a + tile * c /\ tile * (e + 1) = tile * e + tile
    BY <2>1, <2>2
  <2>7. tile * a \in Nat /\ tile * c \in Nat /\ tile * e \in Nat
    BY <2>1, <2>2, Product
  <2>8. tile * (a + c) <= b + w + tile * (e + 1)
    BY <2>2, <2>3, <2>4, <2>6, <2>7
  <2> QED
    BY <2>1, <2>5, <2>8
<1>7. NExp \in P
  <2> HIDE DEF P
  <2>1. \A e \in 0..NExp : e \in P
    BY <1>1, <1>5, <1>6, Induction
  <2> QED
    BY <1>1, <2>1
<1>8. tile * NumSegs(tile) <= NumRows + tile * NExp
  BY <1>1, <1>7
<1> DEFINE q == CeilDiv(NumSlots, tile)
<1>9. q \in Nat /\ NumSlots <= tile * q
  BY <1>1, CeilFacts
<1> HIDE DEF q, P
<1>10. tile * NumSegs(tile) <= tile * (q + NExp)
  <2>1. tile * (q + NExp) = tile * q + tile * NExp
    BY <1>1, <1>9
  <2>2. tile * q \in Nat /\ tile * NExp \in Nat /\ tile * NumSegs(tile) \in Nat
    BY <1>1, <1>9, Product
  <2> QED
    BY <1>1, <1>8, <1>9, <2>1, <2>2
<1>11. NumSegs(tile) <= q + NExp
  <2>1. q + NExp \in Nat
    BY <1>1, <1>9
  <2> DEFINE z == q + NExp
  <2> HIDE DEF z
  <2>2. z \in Nat /\ tile * NumSegs(tile) <= tile * z
    BY <1>10, <2>1 DEF z
  <2>3. z < NumSegs(tile) => tile * z + tile <= tile * NumSegs(tile)
    BY <1>1, <2>2, Product
  <2>4. tile * z \in Nat /\ tile * NumSegs(tile) \in Nat
    BY <1>1, <2>2, Product
  <2>5. ~ (z < NumSegs(tile))
    BY <2>2, <2>3, <2>4
  <2> QED
    BY <1>1, <2>2, <2>5 DEF z
<1> QED
  BY <1>11 DEF MaxSegs, q

\* The tables of the grouped kernels are right whatever the routing.
LEMMA TablesRight == CallInv => SegmentsCover
<1> SUFFICES ASSUME CallInv, pc \in {"gather", "gateup", "down"}
             PROVE  /\ NumRows <= NumSlots
                    /\ \A r \in 0..NumRows - 1 :
                         RowSource(r) < NumSlots /\ Local(RowSlot(r)) = RowExpert(r)
                    /\ \A tile \in {TileGu, TileDn} :
                         /\ NumSegs(tile) <= MaxSegs(tile)
                         /\ UNION {SegRows(g) : g \in Segments(tile)} = 0..NumRows - 1
                         /\ \A g, h \in Segments(tile) : g # h => SegRows(g) \cap SegRows(h) = {}
                         /\ \A g \in Segments(tile) : \A r \in SegRows(g) : RowExpert(r) = g.e
  BY DEF SegmentsCover
<1>1. pc # "idle"
  OBVIOUS
<1>2. NumRows <= NumSlots
  BY <1>1, FatFacts
<1>3. \A r \in 0..NumRows - 1 : RowSource(r) < NumSlots /\ Local(RowSlot(r)) = RowExpert(r)
  BY <1>1, RowFacts
<1>4. ASSUME NEW tile \in {TileGu, TileDn}
      PROVE  /\ NumSegs(tile) <= MaxSegs(tile)
             /\ UNION {SegRows(g) : g \in Segments(tile)} = 0..NumRows - 1
             /\ \A g, h \in Segments(tile) : g # h => SegRows(g) \cap SegRows(h) = {}
             /\ \A g \in Segments(tile) : \A r \in SegRows(g) : RowExpert(r) = g.e
  <2>1. tile \in Nat /\ tile > 0
    BY MoeConstants
  <2>2. NumSegs(tile) <= MaxSegs(tile)
    BY <1>1, <2>1, SegBound
  <2>3. UNION {SegRows(g) : g \in Segments(tile)} = 0..NumRows - 1
    <3>1. ASSUME NEW g \in Segments(tile), NEW r \in SegRows(g) PROVE r \in 0..NumRows - 1
      BY <1>1, <2>1, SegRow
    <3>2. ASSUME NEW r \in 0..NumRows - 1 PROVE \E g \in Segments(tile) : r \in SegRows(g)
      BY <1>1, <2>1, SegOf
    <3> QED
      BY <3>1, <3>2
  <2>4. ASSUME NEW g \in Segments(tile), NEW h \in Segments(tile), g # h PROVE SegRows(g) \cap SegRows(h) = {}
    <3>1. ASSUME NEW r \in SegRows(g), r \in SegRows(h) PROVE FALSE
      BY <1>1, <2>1, <2>4, <3>1, SegApart
    <3> QED
      BY <3>1
  <2>5. ASSUME NEW g \in Segments(tile), NEW r \in SegRows(g) PROVE RowExpert(r) = g.e
    BY <1>1, <2>1, SegRow
  <2> QED
    BY <2>2, <2>3, <2>4, <2>5
<1> QED
  BY <1>2, <1>3, <1>4

\* The three launches of the grouped path: what the first two leave in the scratch
\* rows, and what the last one adds.
LEMMA GatheredRight ==
  ASSUME CallInv, pc # "idle", NEW h
  PROVE  RowRight(Gathered(h)) /\ (h \in Buffer => Gathered(h) \in Buffer)
<1> DEFINE R == [tok : -1..MaxTokens - 1, e : -1..NExp - 1]
<1>1. \A r \in Rows : Gathered(h)[r] = IF r < NumRows THEN [tok |-> RowSlot(r)[1], e |-> RowExpert(r)] ELSE h[r]
  BY DEF Gathered
<1>2. RowRight(Gathered(h))
  <2>1. \A r \in 0..NumRows - 1 : r \in Rows /\ r < NumRows
    BY RowFacts
  <2> QED
    BY <1>1, <2>1 DEF RowRight
<1>3. ASSUME h \in Buffer, NEW r \in Rows PROVE Gathered(h)[r] \in R
  <2>1. CASE r < NumRows
    <3>1. r \in 0..NumRows - 1
      BY <2>1, FatFacts DEF Rows
    <3>2. RowSlot(r) \in Slots /\ RowExpert(r) \in Experts
      BY <3>1, RowFacts DEF LocalSlots
    <3>3. RowSlot(r)[1] \in 0..n - 1 /\ n \in Nat /\ n <= MaxTokens /\ MaxTokens \in Nat /\ NExp \in Nat
      BY <3>2, CallFacts, MoeConstants DEF Slots
    <3>4. RowSlot(r)[1] \in -1..MaxTokens - 1 /\ RowExpert(r) \in -1..NExp - 1
      BY <3>2, <3>3 DEF Experts
    <3>5. [tok |-> RowSlot(r)[1], e |-> RowExpert(r)] \in R
      BY <3>4
    <3> QED
      BY <1>1, <2>1, <3>5
  <2>2. CASE ~ (r < NumRows)
    BY <1>1, <1>3, <2>2 DEF Buffer
  <2> QED
    BY <2>1, <2>2
<1>4. Gathered(h) = [r \in Rows |-> Gathered(h)[r]]
  BY DEF Gathered
<1>5. ASSUME h \in Buffer PROVE Gathered(h) \in [Rows -> R]
  BY <1>3, <1>4, <1>5
<1> QED
  BY <1>2, <1>5 DEF Buffer

LEMMA GateUpRight ==
  ASSUME CallInv, pc # "idle", RowRight(h13), cfg.shared \/ RowRight(h13u),
         NEW r \in 0..NumRows - 1
  PROVE  LET g == CHOOSE g \in Segments(TileGu) : r \in SegRows(g)
         IN  /\ \E x \in Segments(TileGu) : r \in SegRows(x)
             /\ GateUp(r, g) = [tok |-> RowSlot(r)[1], e |-> RowExpert(r)]
<1> DEFINE g == CHOOSE g \in Segments(TileGu) : r \in SegRows(g)
           v == [tok |-> RowSlot(r)[1], e |-> RowExpert(r)]
<1>1. TileGu \in Nat /\ TileGu > 0
  BY MoeConstants
<1>2. \E x \in Segments(TileGu) : r \in SegRows(x)
  BY <1>1, SegOf
<1>3. g \in Segments(TileGu) /\ r \in SegRows(g)
  BY <1>2
<1>4. RowExpert(r) = g.e
  BY <1>1, <1>3, SegRow
<1>5. h13[r] = v /\ (cfg.shared \/ h13u[r] = v)
  BY DEF RowRight
<1>6. v.e = RowExpert(r)
  OBVIOUS
<1> HIDE DEF g, v
<1>7. GateUp(r, g) = v
  BY <1>4, <1>5, <1>6 DEF GateUp
<1> QED
  BY <1>2, <1>7 DEF g, v

LEMMA DownAdded ==
  ASSUME CallInv, pc # "idle", RowRight(h2)
  PROVE  BagOf([x \in {y \in Segments(TileDn) \X Rows : y[2] \in SegRows(y[1])} |->
                  Contribution(RowSlot(x[2])[1], h2[x[2]].tok, RowSlot(x[2]), x[1].e)])
           = SlotBag(LocalSlots \ ThinSlots)
<1> DEFINE D == {y \in Segments(TileDn) \X Rows : y[2] \in SegRows(y[1])}
           F == [x \in D |-> Contribution(RowSlot(x[2])[1], h2[x[2]].tok, RowSlot(x[2]), x[1].e)]
           T == LocalSlots \ ThinSlots
           h == [x \in D |-> RowSlot(x[2])]
<1>1. TileDn \in Nat /\ TileDn > 0
  BY MoeConstants
<1>2. \A x \in D : x[1] \in Segments(TileDn) /\ x[2] \in SegRows(x[1]) /\ x = <<x[1], x[2]>>
  OBVIOUS
<1>3. \A x \in D : x[2] \in 0..NumRows - 1 /\ RowExpert(x[2]) = x[1].e
  BY <1>1, <1>2, SegRow
<1>4. DOMAIN F = D /\ \A x \in D : h[x] = RowSlot(x[2])
  OBVIOUS
<1>5. ASSUME NEW x \in D PROVE h[x] \in T /\ F[x] = SlotBy(h[x], Local(h[x]))
  <2>1. x[2] \in 0..NumRows - 1 /\ RowExpert(x[2]) = x[1].e
    BY <1>3
  <2>2. RowSlot(x[2]) \in LocalSlots /\ RowSlot(x[2]) \notin ThinSlots /\ Local(RowSlot(x[2])) = RowExpert(x[2])
    BY <2>1, RowFacts
  <2>3. h2[x[2]] = [tok |-> RowSlot(x[2])[1], e |-> RowExpert(x[2])]
    BY <2>1 DEF RowRight
  <2>4. h2[x[2]].tok = RowSlot(x[2])[1]
    BY <2>3
  <2>5. F[x] = Contribution(RowSlot(x[2])[1], RowSlot(x[2])[1], RowSlot(x[2]), Local(RowSlot(x[2])))
    BY <2>1, <2>2, <2>4
  <2> QED
    BY <1>4, <2>2, <2>5 DEF SlotBy
<1>6. h \in [D -> T]
  <2>1. h = [x \in D |-> h[x]]
    OBVIOUS
  <2> QED
    BY <1>5, <2>1
<1>7. ASSUME NEW x \in D, NEW y \in D, h[x] = h[y] PROVE x = y
  <2>1. x[2] = y[2]
    BY <1>3, <1>4, <1>7, RowsApart
  <2>2. x[1] = y[1]
    BY <1>1, <1>2, <2>1, SegApart
  <2> QED
    BY <1>2, <2>1, <2>2
<1>8. ASSUME NEW s \in T PROVE \E x \in D : h[x] = s
  <2>1. PICK r \in 0..NumRows - 1 : RowSlot(r) = s
    BY RowOf
  <2>2. PICK g \in Segments(TileDn) : r \in SegRows(g)
    BY <1>1, SegOf
  <2>3. r \in Rows
    BY RowFacts
  <2>4. <<g, r>> \in D /\ h[<<g, r>>] = RowSlot(r)
    BY <2>2, <2>3
  <2> QED
    BY <2>1, <2>4
<1> HIDE DEF D, F, T, h
<1>9. BagOf(F) = SlotBag(T)
  <2>1. \A d \in D : F[d] = SlotBy(h[d], Local(h[d]))
    BY <1>5
  <2>2. \A c, d \in D : h[c] = h[d] => c = d
    BY <1>7
  <2>3. \A s \in T : \E d \in D : h[d] = s
    BY <1>8
  <2> QED
    BY <1>4, <1>6, <2>1, <2>2, <2>3, Rebagged
<1> QED
  BY <1>9 DEF F, D, T

-----------------------------------------------------------------------------
(* The counts on the host *)

LEMMA MostFacts ==
  ASSUME CallInv, pc # "idle"
  PROVE  /\ MaxRows(Counts) \in Nat /\ MaxRows(Counts) <= n
         /\ \A e \in Experts : Counts[e] <= MaxRows(Counts)
<1> DEFINE T == {m \in Nat : \E e \in Experts : m = n - Counts[e]}
           V == {Counts[e] : e \in Experts}
<1>1. n \in Nat /\ \A e \in Experts : Counts[e] \in Nat /\ Counts[e] <= n
  BY CallFacts, CountsFacts
<1>2. T \in SUBSET Nat /\ T # {}
  <2>1. 0 \in Experts
    BY MoeConstants DEF Experts
  <2>2. n - Counts[0] \in T
    BY <1>1, <2>1
  <2> QED
    BY <2>2
<1>3. PICK k \in T : \A m \in T : k <= m
  BY <1>2, Least
<1>4. PICK d \in Experts : k = n - Counts[d]
  OBVIOUS
<1>5. \A e \in Experts : Counts[e] <= Counts[d]
  <2> TAKE e \in Experts
  <2>1. n - Counts[e] \in T
    BY <1>1
  <2>2. n - Counts[d] <= n - Counts[e]
    BY <1>3, <1>4, <2>1
  <2> QED
    BY <1>1, <2>2
<1>6. \E m \in V : \A e \in Experts : Counts[e] <= m
  BY <1>5
<1>7. MaxRows(Counts) = CHOOSE m \in V : \A e \in Experts : Counts[e] <= m
  BY DEF MaxRows
<1> HIDE DEF T
<1>8. MaxRows(Counts) \in V /\ \A e \in Experts : Counts[e] <= MaxRows(Counts)
  <2> HIDE DEF V
  <2> QED
    BY <1>6, <1>7
<1> QED
  BY <1>1, <1>8

\* Where no expert is fat, the fused kernel has done everything.
LEMMA AllThin ==
  ASSUME CallInv, pc # "idle", MaxRows(Counts) <= Cap
  PROVE  ThinSlots = LocalSlots
<1>1. \A s \in LocalSlots : Local(s) \in Experts
  BY PlaceOf
<1>2. \A e \in Experts : Counts[e] \in Nat /\ Counts[e] <= MaxRows(Counts) /\ MaxRows(Counts) \in Nat
  BY CountsFacts, MostFacts
<1>3. \A e \in Experts : Counts[e] <= Cap
  BY <1>2, MoeConstants
<1> QED
  BY <1>1, <1>3 DEF ThinSlots

\* What has been added before row tile t.
BeforeTile(t) ==
  {s \in LocalSlots : \E i \in 0..NumSlots - 1 :
     order[i] = s /\ i < ExclCumsum(Counts)[Local(s)] + t * Cap}

LEMMA TileByTile ==
  ASSUME CallInv, pc # "idle", NEW t \in Nat
  PROVE  /\ BeforeTile(0) = {}
         /\ BeforeTile(t + 1) = BeforeTile(t) \cup TileSlots(t)
         /\ BeforeTile(t) \cap TileSlots(t) = {}
         /\ MaxRows(Counts) <= t * Cap => BeforeTile(t) = LocalSlots
<1> DEFINE S(e) == ExclCumsum(Counts)[e]
           q == t * Cap
<1>1. Cap \in Nat /\ Cap > 0 /\ q \in Nat /\ 0 * Cap = 0 /\ (t + 1) * Cap = q + Cap
  BY MoeConstants
<1>2. \A e \in Experts : S(e) \in Nat /\ Counts[e] \in Nat /\ Counts[e] <= MaxRows(Counts)
  <2>1. \A e \in Experts : e \in 0..NExp
    BY MoeConstants DEF Experts
  <2> QED
    BY <2>1, CountsFacts, SumTyped, MostFacts
<1>3. ASSUME NEW s \in LocalSlots
      PROVE  \E i \in 0..NumSlots - 1 :
               /\ i \in Nat /\ order[i] = s
               /\ Local(s) \in Experts /\ S(Local(s)) <= i /\ i < S(Local(s)) + Counts[Local(s)]
               /\ \A j \in 0..NumSlots - 1 : order[j] = s => j = i
  <2>1. PICK i \in 0..NumSlots - 1 : i \in Nat /\ order[i] = s /\ InSection(Counts, Local(s), i)
    BY PlaceOf
  <2>2. Local(s) \in Experts
    BY PlaceOf
  <2>3. S(Local(s)) <= i /\ i < S(Local(s)) + Counts[Local(s)]
    BY <2>1 DEF InSection
  <2>4. \A j \in 0..NumSlots - 1 : order[j] = s => j = i
    BY <2>1, OrderFacts
  <2> QED
    BY <2>1, <2>2, <2>3, <2>4
<1>4. \A s : s \in BeforeTile(0) <=> s \in LocalSlots /\ \E i \in 0..NumSlots - 1 : order[i] = s /\ i < S(Local(s)) + 0
  BY <1>1 DEF BeforeTile
<1>5. \A s : s \in BeforeTile(t) <=> s \in LocalSlots /\ \E i \in 0..NumSlots - 1 : order[i] = s /\ i < S(Local(s)) + q
  BY DEF BeforeTile
<1>6. \A s : s \in BeforeTile(t + 1) <=>
        s \in LocalSlots /\ \E i \in 0..NumSlots - 1 : order[i] = s /\ i < S(Local(s)) + (q + Cap)
  BY <1>1 DEF BeforeTile
<1>7. \A s : s \in TileSlots(t) <=>
        s \in LocalSlots /\ \E i \in 0..NumSlots - 1 : order[i] = s /\ S(Local(s)) + q <= i /\ i < S(Local(s)) + q + Cap
  BY DEF TileSlots
<1>8. MaxRows(Counts) \in Nat
  BY MostFacts
<1> HIDE DEF S, q
<1>9. ASSUME NEW s \in LocalSlots
      PROVE  /\ s \notin BeforeTile(0)
             /\ s \in BeforeTile(t + 1) <=> s \in BeforeTile(t) \/ s \in TileSlots(t)
             /\ ~ (s \in BeforeTile(t) /\ s \in TileSlots(t))
             /\ MaxRows(Counts) <= q => s \in BeforeTile(t)
  <2>1. PICK i \in 0..NumSlots - 1 :
               /\ i \in Nat /\ order[i] = s
               /\ Local(s) \in Experts /\ S(Local(s)) <= i /\ i < S(Local(s)) + Counts[Local(s)]
               /\ \A j \in 0..NumSlots - 1 : order[j] = s => j = i
    BY <1>3
  <2> DEFINE a == S(Local(s))
             c == Counts[Local(s)]
  <2>2. a \in Nat /\ c \in Nat /\ c <= MaxRows(Counts) /\ a <= i /\ i < a + c
    BY <1>2, <2>1
  <2>3. /\ s \in BeforeTile(0) <=> i < a + 0
        /\ s \in BeforeTile(t) <=> i < a + q
        /\ s \in BeforeTile(t + 1) <=> i < a + (q + Cap)
        /\ s \in TileSlots(t) <=> a + q <= i /\ i < a + q + Cap
    BY <1>4, <1>5, <1>6, <1>7, <2>1
  <2> HIDE DEF a, c
  <2>4. /\ ~ (i < a + 0)
        /\ i < a + (q + Cap) <=> i < a + q \/ (a + q <= i /\ i < a + q + Cap)
        /\ ~ (i < a + q /\ a + q <= i)
        /\ MaxRows(Counts) <= q => i < a + q
    BY <1>1, <1>8, <2>1, <2>2
  <2> QED
    BY <2>3, <2>4
<1>10. MaxRows(Counts) <= t * Cap <=> MaxRows(Counts) <= q
  BY DEF q
<1> QED
  BY <1>4, <1>5, <1>6, <1>7, <1>9, <1>10

\* Expert by expert: the slots of the experts before e, and of the thin ones.
BeforeFat(e) == ThinSlots \cup {s \in LocalSlots : Local(s) < e}

LEMMA FatByFat ==
  ASSUME CallInv, pc # "idle", NEW e \in Experts
  PROVE  LET T == {s \in LocalSlots : Local(s) = e}
         IN  /\ Counts[e] > Cap => BeforeFat(e + 1) = BeforeFat(e) \cup T /\ BeforeFat(e) \cap T = {}
             /\ ~ (Counts[e] > Cap) => BeforeFat(e + 1) = BeforeFat(e)
             /\ BeforeFat(0) = ThinSlots /\ BeforeFat(NExp) = LocalSlots
<1> DEFINE T == {s \in LocalSlots : Local(s) = e}
<1>1. e \in Nat /\ Counts[e] \in Nat /\ Cap \in Nat /\ NExp \in Nat
  BY CountsFacts, MoeConstants DEF Experts
<1>2. \A s \in LocalSlots : Local(s) \in Nat /\ Local(s) < NExp
  BY PlaceOf, MoeConstants DEF Experts
<1>3. ThinSlots \subseteq LocalSlots
  BY DEF ThinSlots
<1>4. \A s \in LocalSlots : s \in ThinSlots <=> Counts[Local(s)] <= Cap
  BY DEF ThinSlots
<1>5. \A k : \A s : s \in BeforeFat(k) <=> s \in ThinSlots \/ (s \in LocalSlots /\ Local(s) < k)
  BY DEF BeforeFat
<1>6. \A s \in LocalSlots : Local(s) < e + 1 <=> Local(s) < e \/ Local(s) = e
  BY <1>1, <1>2
<1>7. ASSUME Counts[e] > Cap PROVE BeforeFat(e + 1) = BeforeFat(e) \cup T /\ BeforeFat(e) \cap T = {}
  <2>1. \A s \in T : s \notin ThinSlots
    BY <1>1, <1>4, <1>7
  <2>2. \A s \in T : s \in LocalSlots /\ Local(s) = e /\ ~ (Local(s) < e)
    BY <1>1
  <2> QED
    BY <1>3, <1>5, <1>6, <2>1, <2>2
<1>8. ASSUME ~ (Counts[e] > Cap) PROVE BeforeFat(e + 1) = BeforeFat(e)
  <2>1. \A s \in LocalSlots : Local(s) = e => s \in ThinSlots
    BY <1>1, <1>4, <1>8
  <2> QED
    BY <1>3, <1>5, <1>6, <2>1
<1>9. BeforeFat(0) = ThinSlots /\ BeforeFat(NExp) = LocalSlots
  <2>1. \A s \in LocalSlots : ~ (Local(s) < 0)
    BY <1>2
  <2> QED
    BY <1>2, <1>3, <1>5, <2>1
<1> QED
  BY <1>7, <1>8, <1>9

-----------------------------------------------------------------------------
(* The steps of a call *)

\* TypeOK but for the bag, whose members OutInv gives.
Typed ==
  /\ cfg \in Settings /\ tier \in {"legacy", "sorted", "batched", "kernel", "grouped"}
  /\ pc \in {"idle", "apply", "gather", "gateup", "down", "staged", "decide",
             "tiles", "fat", "legacy", "done"}
  /\ n \in 0..MaxTokens /\ at \in 0..MaxOf(NExp, CeilDiv(MaxTokens, Cap))
  /\ {ready, copied, launched} \subseteq BOOLEAN
  /\ host \in [Experts -> 0..MaxTokens]
  /\ {h13, h13u, h2} \subseteq Buffer
Inv == Typed /\ CallInv /\ OutInv /\ HostInv /\ ScratchInv

LEMMA PlacesAdded ==
  /\ pc = "apply" => AddedSlots = {}
  /\ pc = "decide" => AddedSlots = IF launched THEN ThinSlots ELSE {}
  /\ pc = "fat" => AddedSlots = BeforeFat(at)
  /\ pc = "tiles" => AddedSlots = BeforeTile(at)
  /\ pc = "done" => AddedSlots = LocalSlots
  /\ pc \in {"gather", "gateup", "down", "staged", "legacy"} => AddedSlots = ThinSlots
BY DEF AddedSlots, BeforeFat, BeforeTile

LEMMA AddedLocal == CallInv /\ pc # "idle" /\ pc \in {"apply", "gather", "gateup", "down", "staged", "decide",
             "tiles", "fat", "legacy", "done"} => AddedSlots \subseteq LocalSlots
<1>1. ThinSlots \subseteq LocalSlots
  BY DEF ThinSlots
<1>2. BeforeFat(at) \subseteq LocalSlots /\ BeforeTile(at) \subseteq LocalSlots
  BY <1>1 DEF BeforeFat, BeforeTile
<1> QED
  BY <1>1, <1>2, PlacesAdded

LEMMA InvIsDispatch == Inv => DispatchInv
<1> SUFFICES ASSUME Inv PROVE DispatchInv
  OBVIOUS
<1> DEFINE R == [dst : 0..MaxTokens - 1, src : -1..MaxTokens - 1,
                 w : (0..MaxTokens - 1) \X (0..TopK - 1), e : Experts]
<1>1. BagToSet(out) \subseteq R
  <2>1. CASE pc = "idle"
    <3>1. out = EmptyBag
      BY <2>1 DEF Inv, OutInv
    <3>2. DOMAIN out = {}
      BY <3>1 DEF EmptyBag, SetToBag
    <3> QED
      BY <3>2 DEF BagToSet
  <2>2. CASE pc # "idle"
    <3>1. out = SlotBag(AddedSlots) /\ AddedSlots \subseteq LocalSlots /\ CallInv
      BY <2>2, AddedLocal DEF Inv, OutInv, Typed
    <3>2. DOMAIN out = {SlotBy(s, Local(s)) : s \in AddedSlots}
      BY <3>1, SlotBagIs
    <3>3. ASSUME NEW s \in AddedSlots PROVE SlotBy(s, Local(s)) \in R
      <4>1. s \in Slots /\ Local(s) \in Experts
        BY <2>2, <3>1, PlaceOf
      <4>2. n \in Nat /\ n <= MaxTokens /\ MaxTokens \in Nat /\ TopK \in Nat
        BY <2>2, <3>1, CallFacts, MoeConstants
      <4>3. s[1] \in 0..n - 1 /\ s[2] \in 0..TopK - 1 /\ s = <<s[1], s[2]>>
        BY <4>1 DEF Slots
      <4>4. s[1] \in 0..MaxTokens - 1 /\ s[1] \in -1..MaxTokens - 1
        BY <4>2, <4>3
      <4>5. s \in (0..MaxTokens - 1) \X (0..TopK - 1)
        BY <4>3, <4>4
      <4> QED
        BY <4>1, <4>4, <4>5 DEF SlotBy, Contribution
    <3> HIDE DEF R
    <3> QED
      BY <3>2, <3>3 DEF BagToSet
  <2> QED
    BY <2>1, <2>2
<1> QED
  BY <1>1 DEF Inv, DispatchInv, Typed, TypeOK

LEMMA InvIsRight == Inv => DispatchRight
<1> SUFFICES ASSUME Inv PROVE DispatchRight
  OBVIOUS
<1>1. TypeOK
  BY InvIsDispatch DEF DispatchInv
<1>2. SegmentsCover
  BY TablesRight DEF Inv
<1>3. OutputExact
  <2> SUFFICES ASSUME pc = "done"
               PROVE  out = BagOf([s \in {u \in Slots : Local(u) # NExp} |-> SlotBy(s, Local(s))])
    BY DEF OutputExact
  <2>1. out = SlotBag(LocalSlots)
    BY PlacesAdded DEF Inv, OutInv
  <2> QED
    BY <2>1 DEF SlotBag, LocalSlots
<1> QED
  BY <1>1, <1>2, <1>3 DEF DispatchRight

\* What is said of a call stays the same while the call does.
LEMMA Same ==
  ASSUME UNCHANGED <<n, ids, emap, order>>
  PROVE  /\ Slots' = Slots /\ NumSlots' = NumSlots /\ \A s : Local(s)' = Local(s)
         /\ Counts' = Counts /\ LocalSlots' = LocalSlots /\ ThinSlots' = ThinSlots
<1>1. Slots' = Slots /\ NumSlots' = NumSlots
  BY DEF Slots, NumSlots
<1>2. \A s : Local(s)' = Local(s)
  BY DEF Local, MapTopkToLocal
<1>3. Counts' = Counts
  BY <1>1, <1>2 DEF Counts
<1>4. LocalSlots' = LocalSlots
  BY <1>1, <1>2 DEF LocalSlots
<1>5. ThinSlots' = ThinSlots
  BY <1>2, <1>3, <1>4 DEF ThinSlots
<1> QED
  BY <1>1, <1>2, <1>3, <1>4, <1>5

LEMMA SameTables ==
  ASSUME UNCHANGED <<n, ids, emap, order>>
  PROVE  /\ NumRows' = NumRows /\ \A r : RowExpert(r)' = RowExpert(r) /\ RowSlot(r)' = RowSlot(r)
<1>1. Counts' = Counts /\ NumSlots' = NumSlots
  BY Same
<1>2. FatRows' = FatRows
  BY <1>1 DEF FatRows
<1>3. NumRows' = NumRows
  BY <1>2 DEF NumRows
<1>4. \A r : RowExpert(r)' = RowExpert(r)
  BY <1>2 DEF RowExpert
<1>5. \A r : RowSource(r)' = RowSource(r)
  BY <1>1, <1>2, <1>4 DEF RowSource
<1>6. \A r : RowSlot(r)' = RowSlot(r)
  BY <1>1, <1>5 DEF RowSlot
<1> QED
  BY <1>3, <1>4, <1>6

LEMMA SameRows ==
  ASSUME UNCHANGED <<n, ids, emap, order>>
  PROVE  /\ RowRight(h13)' <=> RowRight(h13')
         /\ RowRight(h13u)' <=> RowRight(h13u')
         /\ RowRight(h2)' <=> RowRight(h2')
BY SameTables DEF RowRight

LEMMA SameCall ==
  ASSUME CallInv, pc # "idle", UNCHANGED <<n, ids, emap, order>>
  PROVE  CallInv'
<1>1. Slots' = Slots /\ NumSlots' = NumSlots /\ \A s : Local(s)' = Local(s)
  BY Same
<1> QED
  BY <1>1 DEF CallInv

LEMMA SameAdded ==
  ASSUME UNCHANGED <<n, ids, emap, order>>
  PROVE  /\ pc' = "apply" => AddedSlots' = {}
         /\ pc' = "decide" => AddedSlots' = IF launched' THEN ThinSlots ELSE {}
         /\ pc' = "fat" => AddedSlots' = BeforeFat(at')
         /\ pc' = "tiles" => AddedSlots' = BeforeTile(at')
         /\ pc' = "done" => AddedSlots' = LocalSlots
         /\ pc' \in {"gather", "gateup", "down", "staged", "legacy"} => AddedSlots' = ThinSlots
<1>1. /\ NumSlots' = NumSlots /\ \A s : Local(s)' = Local(s)
      /\ Counts' = Counts /\ LocalSlots' = LocalSlots /\ ThinSlots' = ThinSlots
  BY Same
<1>2. BeforeFat(at)' = BeforeFat(at')
  BY <1>1 DEF BeforeFat
<1>3. BeforeTile(at)' = BeforeTile(at')
  BY <1>1 DEF BeforeTile
<1>4. /\ pc' = "apply" => AddedSlots' = {}
      /\ pc' = "decide" => AddedSlots' = IF launched' THEN ThinSlots' ELSE {}
      /\ pc' = "fat" => AddedSlots' = BeforeFat(at)'
      /\ pc' = "tiles" => AddedSlots' = BeforeTile(at)'
      /\ pc' = "done" => AddedSlots' = LocalSlots'
      /\ pc' \in {"gather", "gateup", "down", "staged", "legacy"} => AddedSlots' = ThinSlots'
  BY DEF AddedSlots, BeforeFat, BeforeTile
<1> QED
  BY <1>1, <1>2, <1>3, <1>4

LEMMA Added ==
  ASSUME UNCHANGED <<n, ids, emap, order>>, pc' # "idle", NEW T, AddedSlots' = T, out' = SlotBag(T)
  PROVE  OutInv'
<1>1. \A s : Local(s)' = Local(s)
  BY Same
<1>2. [s \in T |-> SlotBy(s, Local(s)')] = [s \in T |-> SlotBy(s, Local(s))]
  BY <1>1
<1>3. SlotBag(AddedSlots)' = BagOf([s \in T |-> SlotBy(s, Local(s)')])
  BY DEF SlotBag
<1>4. SlotBag(AddedSlots)' = SlotBag(T)
  BY <1>2, <1>3 DEF SlotBag
<1> QED
  BY <1>4 DEF OutInv

\* What every step inside a call has in common.
Inside == {"apply", "gather", "gateup", "down", "staged", "decide", "tiles", "fat", "legacy", "done"}
AtMost == MaxOf(NExp, CeilDiv(MaxTokens, Cap))

LEMMA AtMostIs == AtMost \in Nat /\ NExp <= AtMost /\ CeilDiv(MaxTokens, Cap) <= AtMost /\ 0 \in 0..AtMost
<1>1. NExp \in Nat /\ CeilDiv(MaxTokens, Cap) \in Nat
  <2>1. NExp \in Nat /\ MaxTokens \in Nat /\ Cap \in Nat /\ Cap > 0
    BY MoeConstants
  <2> QED
    BY <2>1, CeilFacts
<1> DEFINE c == CeilDiv(MaxTokens, Cap)
<1> HIDE DEF c
<1>2. MaxOf(NExp, c) \in Nat /\ NExp <= MaxOf(NExp, c) /\ c <= MaxOf(NExp, c)
  BY <1>1 DEF MaxOf, c
<1> QED
  BY <1>2 DEF AtMost, c

LEMMA CountsOnHost == CallInv /\ pc # "idle" => Counts \in [Experts -> 0..MaxTokens]
<1> SUFFICES ASSUME CallInv, pc # "idle" PROVE Counts \in [Experts -> 0..MaxTokens]
  OBVIOUS
<1>1. \A e \in Experts : Counts[e] \in 0..MaxTokens
  <2>1. n \in Nat /\ n <= MaxTokens /\ MaxTokens \in Nat
    BY CallFacts
  <2>2. \A e \in Experts : Counts[e] \in Nat /\ Counts[e] <= n
    BY CountsFacts
  <2> QED
    BY <2>1, <2>2
<1>2. Counts = [e \in Experts |-> Counts[e]]
  BY DEF Counts
<1> QED
  BY <1>1, <1>2

LEMMA Moves ==
  ASSUME Inv, pc # "idle", UNCHANGED call, pc' \in Inside,
         ready' \in BOOLEAN, copied' \in BOOLEAN, launched' \in BOOLEAN, at' \in 0..AtMost,
         host' = host \/ host' = Counts, h13' \in Buffer, h13u' \in Buffer, h2' \in Buffer,
         out' = SlotBag(AddedSlots'), HostInv', ScratchInv'
  PROVE  Inv'
<1>1. UNCHANGED <<n, ids, emap, order>> /\ cfg' = cfg /\ tier' = tier
  BY DEF call
<1>2. CallInv'
  BY <1>1, SameCall DEF Inv
<1>3. OutInv'
  BY <1>1, Added DEF Inside
<1>4. Typed'
  <2>1. host' \in [Experts -> 0..MaxTokens]
    BY CountsOnHost DEF Inv, Typed
  <2> QED
    BY <1>1, <2>1 DEF Inv, Typed, Inside, AtMost
<1> QED
  BY <1>2, <1>3, <1>4 DEF Inv

\* The facts of a state inside a call that its steps start from.
LEMMA InCall ==
  ASSUME Inv, pc # "idle"
  PROVE  /\ CallInv /\ pc \in Inside /\ out = SlotBag(AddedSlots) /\ HostInv
         /\ ready \in BOOLEAN /\ copied \in BOOLEAN /\ launched \in BOOLEAN /\ at \in 0..AtMost
         /\ h13 \in Buffer /\ h13u \in Buffer /\ h2 \in Buffer
BY DEF Inv, Typed, OutInv, Inside, AtMost

LEMMA Stays ==
  ASSUME Inv, pc # "idle", UNCHANGED <<call, pc, launched, at>>
  PROVE  AddedSlots' = AddedSlots
<1>1. UNCHANGED <<n, ids, emap, order>> /\ pc' = pc /\ launched' = launched /\ at' = at
  BY DEF call
<1>2. pc \in Inside
  BY InCall
<1> QED
  BY <1>1, <1>2, PlacesAdded, SameAdded DEF Inside

\* A set of slots added to what has been added.
LEMMA Adding ==
  ASSUME NEW T, NEW U, T \cap U = {}, out = SlotBag(T), NEW b, b = SlotBag(U)
  PROVE  out (+) b = SlotBag(T \cup U)
BY BagsAdd

LEMMA NothingYet == SlotBag({}) = EmptyBag /\ \A T : {} \cap T = {} /\ {} \cup T = T
BY NoSlots

LEMMA StreamCountsKeeps == ASSUME Inv, StreamCounts PROVE Inv'
<1>1. /\ pc # "idle" /\ ready' = TRUE
      /\ UNCHANGED call /\ UNCHANGED scratch
      /\ pc' = pc /\ copied' = copied /\ host' = host /\ launched' = launched /\ at' = at /\ out' = out
  BY DEF StreamCounts
<1>2. UNCHANGED <<n, ids, emap, order>> /\ cfg' = cfg /\ h13' = h13 /\ h13u' = h13u /\ h2' = h2
  BY <1>1 DEF call, scratch
<1>3. out' = SlotBag(AddedSlots')
  BY <1>1, InCall, Stays
<1>4. HostInv'
  BY <1>1, <1>2, Same DEF HostInv, Inv
<1>5. ScratchInv'
  <2>1. RowRight(h13)' = RowRight(h13) /\ RowRight(h13u)' = RowRight(h13u) /\ RowRight(h2)' = RowRight(h2)
    BY <1>2, SameTables DEF RowRight
  <2> QED
    BY <1>1, <1>2, <2>1 DEF ScratchInv, Inv
<1> QED
  BY <1>1, <1>2, <1>3, <1>4, <1>5, InCall, Moves

LEMMA LoopAllKeeps == ASSUME Inv, LoopAll PROVE Inv'
<1>1. /\ pc = "apply" /\ pc' = "done" /\ out' = out (+) PythonLoop(Experts)
      /\ UNCHANGED call /\ UNCHANGED scratch
      /\ ready' = ready /\ copied' = copied /\ host' = host /\ launched' = launched /\ at' = at
  BY DEF LoopAll
<1>2. UNCHANGED <<n, ids, emap, order>> /\ cfg' = cfg /\ h13' = h13 /\ h13u' = h13u /\ h2' = h2
  BY <1>1 DEF call, scratch
<1>3. out' = SlotBag(AddedSlots')
  <2>1. CallInv /\ out = SlotBag({})
    BY <1>1, InCall, PlacesAdded
  <2>2. PythonLoop(Experts) = SlotBag({s \in LocalSlots : Local(s) \in Experts})
    BY <1>1, <2>1, LoopAdded
  <2>3. {s \in LocalSlots : Local(s) \in Experts} = LocalSlots
    BY <1>1, <2>1, PlaceOf
  <2>4. out' = SlotBag(LocalSlots)
    BY <1>1, <2>1, <2>2, <2>3, Adding, NothingYet
  <2> QED
    BY <1>1, <1>2, <2>4, SameAdded
<1>4. HostInv' /\ ScratchInv'
  BY <1>1 DEF HostInv, ScratchInv
<1> QED
  BY <1>1, <1>2, <1>3, <1>4, InCall, Moves DEF Inside

LEMMA FusedSmallKeeps == ASSUME Inv, FusedSmall PROVE Inv'
<1>1. /\ pc = "apply" /\ pc' = "done" /\ out' = out (+) FusedMoe(Counts, order) /\ n <= Cap
      /\ UNCHANGED call /\ UNCHANGED scratch
      /\ ready' = ready /\ copied' = copied /\ host' = host /\ launched' = launched /\ at' = at
  BY DEF FusedSmall
<1>2. UNCHANGED <<n, ids, emap, order>> /\ cfg' = cfg /\ h13' = h13 /\ h13u' = h13u /\ h2' = h2
  BY <1>1 DEF call, scratch
<1>3. out' = SlotBag(AddedSlots')
  <2>1. CallInv /\ out = SlotBag({})
    BY <1>1, InCall, PlacesAdded
  <2>2. FusedMoe(Counts, order) = SlotBag(ThinSlots)
    BY <1>1, <2>1, ThinAdded
  <2>3. ThinSlots = LocalSlots
    <3>1. MaxRows(Counts) \in Nat /\ MaxRows(Counts) <= n /\ n \in Nat /\ Cap \in Nat
      BY <1>1, <2>1, MostFacts, CallFacts, MoeConstants
    <3>2. MaxRows(Counts) <= Cap
      BY <1>1, <3>1
    <3> QED
      BY <1>1, <2>1, <3>2, AllThin
  <2>4. out' = SlotBag(LocalSlots)
    BY <1>1, <2>1, <2>2, <2>3, Adding, NothingYet
  <2> QED
    BY <1>1, <1>2, <2>4, SameAdded
<1>4. HostInv' /\ ScratchInv'
  BY <1>1 DEF HostInv, ScratchInv
<1> QED
  BY <1>1, <1>2, <1>3, <1>4, InCall, Moves DEF Inside

LEMMA GroupedThinKeeps == ASSUME Inv, GroupedThin PROVE Inv'
<1>1. /\ pc = "apply" /\ pc' = "gather" /\ out' = out (+) FusedMoe(Counts, order)
      /\ UNCHANGED call /\ UNCHANGED scratch
      /\ ready' = ready /\ copied' = copied /\ host' = host /\ launched' = TRUE /\ at' = at
  BY DEF GroupedThin, Large
<1>2. UNCHANGED <<n, ids, emap, order>> /\ cfg' = cfg /\ h13' = h13 /\ h13u' = h13u /\ h2' = h2
  BY <1>1 DEF call, scratch
<1>3. out' = SlotBag(AddedSlots')
  <2>1. CallInv /\ out = SlotBag({})
    BY <1>1, InCall, PlacesAdded
  <2>2. FusedMoe(Counts, order) = SlotBag(ThinSlots)
    BY <1>1, <2>1, ThinAdded
  <2>3. out' = SlotBag(ThinSlots)
    BY <1>1, <2>1, <2>2, Adding, NothingYet
  <2> QED
    BY <1>1, <1>2, <2>3, SameAdded
<1>4. HostInv' /\ ScratchInv'
  BY <1>1, InCall DEF HostInv, ScratchInv
<1> QED
  BY <1>1, <1>2, <1>3, <1>4, InCall, Moves DEF Inside

LEMMA GroupedGatherKeeps == ASSUME Inv, GroupedGather PROVE Inv'
<1>1. /\ pc = "gather" /\ pc' = "gateup"
      /\ h13' = Gathered(h13) /\ h13u' = IF cfg.shared THEN h13u ELSE Gathered(h13u)
      /\ UNCHANGED call
      /\ ready' = ready /\ copied' = copied /\ host' = host /\ launched' = launched /\ at' = at
      /\ h2' = h2 /\ out' = out
  BY DEF GroupedGather
<1>2. UNCHANGED <<n, ids, emap, order>> /\ cfg' = cfg
  BY <1>1 DEF call
<1>3. out' = SlotBag(AddedSlots')
  <2>1. out = SlotBag(ThinSlots)
    BY <1>1, InCall, PlacesAdded
  <2> QED
    BY <1>1, <1>2, <2>1, SameAdded
<1>4. HostInv'
  BY <1>1, InCall DEF HostInv
<1>5. CallInv /\ h13 \in Buffer /\ h13u \in Buffer /\ h2 \in Buffer
  BY <1>1, InCall
<1>6. RowRight(Gathered(h13)) /\ RowRight(Gathered(h13u)) /\ Gathered(h13) \in Buffer /\ Gathered(h13u) \in Buffer
  BY <1>1, <1>5, GatheredRight
<1>7. ScratchInv'
  <2>1. RowRight(h13)' /\ (cfg'.shared \/ RowRight(h13u)')
    BY <1>1, <1>2, <1>6, SameRows
  <2> QED
    BY <1>1, <2>1 DEF ScratchInv
<1>8. h13' \in Buffer /\ h13u' \in Buffer /\ h2' \in Buffer
  BY <1>1, <1>5, <1>6
<1> QED
  BY <1>1, <1>3, <1>4, <1>7, <1>8, InCall, Moves DEF Inside

LEMMA GroupedGateUpKeeps == ASSUME Inv, GroupedGateUp PROVE Inv'
<1> DEFINE G(r) == IF \E g \in Segments(TileGu) : r \in SegRows(g)
                   THEN GateUp(r, CHOOSE g \in Segments(TileGu) : r \in SegRows(g))
                   ELSE h2[r]
<1>1. /\ pc = "gateup" /\ pc' = "down" /\ h2' = [r \in Rows |-> G(r)]
      /\ UNCHANGED call
      /\ ready' = ready /\ copied' = copied /\ host' = host /\ launched' = launched /\ at' = at
      /\ h13' = h13 /\ h13u' = h13u /\ out' = out
  BY DEF GroupedGateUp
<1>2. UNCHANGED <<n, ids, emap, order>> /\ cfg' = cfg
  BY <1>1 DEF call
<1>3. out' = SlotBag(AddedSlots')
  <2>1. out = SlotBag(ThinSlots)
    BY <1>1, InCall, PlacesAdded
  <2> QED
    BY <1>1, <1>2, <2>1, SameAdded
<1>4. HostInv'
  BY <1>1, InCall DEF HostInv
<1>5. CallInv /\ h13 \in Buffer /\ h13u \in Buffer /\ h2 \in Buffer
  BY <1>1, InCall
<1>6. RowRight(h13) /\ (cfg.shared \/ RowRight(h13u))
  BY <1>1 DEF Inv, ScratchInv
<1>7. ScratchInv'
  <2>1. ASSUME NEW r \in 0..NumRows - 1 PROVE h2'[r] = [tok |-> RowSlot(r)[1], e |-> RowExpert(r)]
    <3>1. r \in Rows
      BY <1>1, <1>5, RowFacts
    <3>2. G(r) = [tok |-> RowSlot(r)[1], e |-> RowExpert(r)]
      BY <1>1, <1>5, <1>6, GateUpRight
    <3> HIDE DEF G
    <3> QED
      BY <1>1, <3>1, <3>2
  <2>2. RowRight(h2')
    BY <2>1 DEF RowRight
  <2>3. RowRight(h2)'
    BY <1>2, <2>2, SameRows
  <2> QED
    BY <1>1, <2>3 DEF ScratchInv
<1>8. h2' \in Buffer
  <2> DEFINE R == [tok : -1..MaxTokens - 1, e : -1..NExp - 1]
  <2>1. Stale \in R
    <3>1. -1 \in -1..MaxTokens - 1 /\ -1 \in -1..NExp - 1
      BY MoeConstants
    <3> QED
      BY <3>1 DEF Stale
  <2>2. \A r \in Rows : h13[r] \in R /\ h2[r] \in R
    BY <1>5 DEF Buffer
  <2>3. \A r, g : GateUp(r, g) \in {h13[r], Stale}
    BY DEF GateUp
  <2> HIDE DEF R
  <2>4. \A r \in Rows : G(r) \in R
    BY <2>1, <2>2, <2>3
  <2> HIDE DEF G
  <2>5. h2' \in [Rows -> R]
    BY <1>1, <2>4
  <2> QED
    BY <2>5 DEF Buffer, R
<1> QED
  BY <1>1, <1>3, <1>4, <1>5, <1>7, <1>8, InCall, Moves DEF Inside

LEMMA GroupedDownKeeps == ASSUME Inv, GroupedDown PROVE Inv'
<1> DEFINE b == BagOf([x \in {y \in Segments(TileDn) \X Rows : y[2] \in SegRows(y[1])} |->
                         Contribution(RowSlot(x[2])[1], h2[x[2]].tok, RowSlot(x[2]), x[1].e)])
<1>1. /\ pc = "down" /\ pc' = "done" /\ out' = out (+) b
      /\ UNCHANGED call /\ UNCHANGED scratch
      /\ ready' = ready /\ copied' = copied /\ host' = host /\ launched' = launched /\ at' = at
  BY DEF GroupedDown
<1>2. UNCHANGED <<n, ids, emap, order>> /\ cfg' = cfg /\ h13' = h13 /\ h13u' = h13u /\ h2' = h2
  BY <1>1 DEF call, scratch
<1>3. out' = SlotBag(AddedSlots')
  <2>1. CallInv /\ out = SlotBag(ThinSlots)
    BY <1>1, InCall, PlacesAdded
  <2>2. b = SlotBag(LocalSlots \ ThinSlots)
    <3>1. RowRight(h2)
      BY <1>1 DEF Inv, ScratchInv
    <3> QED
      BY <1>1, <2>1, <3>1, DownAdded
  <2>3. ThinSlots \cup (LocalSlots \ ThinSlots) = LocalSlots /\ ThinSlots \cap (LocalSlots \ ThinSlots) = {}
    BY DEF ThinSlots
  <2> HIDE DEF b
  <2>4. out' = SlotBag(LocalSlots)
    BY <1>1, <2>1, <2>2, <2>3, Adding
  <2> QED
    BY <1>1, <1>2, <2>4, SameAdded
<1>4. HostInv' /\ ScratchInv'
  BY <1>1 DEF HostInv, ScratchInv
<1> HIDE DEF b
<1> QED
  BY <1>1, <1>2, <1>3, <1>4, InCall, Moves DEF Inside

LEMMA StageCountsKeeps == ASSUME Inv, StageCounts PROVE Inv'
<1>1. /\ pc = "apply" /\ pc' = "staged" /\ out' = out (+) FusedMoe(Counts, order) /\ ~cfg.rowTile
      /\ UNCHANGED call /\ UNCHANGED scratch
      /\ ready' = ready /\ copied' = copied /\ host' = host /\ launched' = TRUE /\ at' = at
  BY DEF StageCounts, Large
<1>2. UNCHANGED <<n, ids, emap, order>> /\ cfg' = cfg /\ h13' = h13 /\ h13u' = h13u /\ h2' = h2
  BY <1>1 DEF call, scratch
<1>3. out' = SlotBag(AddedSlots')
  <2>1. CallInv /\ out = SlotBag({})
    BY <1>1, InCall, PlacesAdded
  <2>2. FusedMoe(Counts, order) = SlotBag(ThinSlots)
    BY <1>1, <2>1, ThinAdded
  <2>3. out' = SlotBag(ThinSlots)
    BY <1>1, <2>1, <2>2, Adding, NothingYet
  <2> QED
    BY <1>1, <1>2, <2>3, SameAdded
<1>4. HostInv' /\ ScratchInv'
  <2>1. copied = FALSE
    BY <1>1, InCall DEF HostInv
  <2> QED
    BY <1>1, <1>2, <2>1, InCall DEF HostInv, ScratchInv
<1> QED
  BY <1>1, <1>2, <1>3, <1>4, InCall, Moves DEF Inside

LEMMA CopyCountsKeeps == ASSUME Inv, CopyCounts PROVE Inv'
<1>1. /\ pc = "staged" /\ pc' = "staged" /\ ready /\ copied' = TRUE /\ host' = Counts
      /\ UNCHANGED call /\ UNCHANGED scratch
      /\ ready' = ready /\ launched' = launched /\ at' = at /\ out' = out
  BY DEF CopyCounts, WaitedStream
<1>2. UNCHANGED <<n, ids, emap, order>> /\ cfg' = cfg /\ h13' = h13 /\ h13u' = h13u /\ h2' = h2
  BY <1>1 DEF call, scratch
<1>3. out' = SlotBag(AddedSlots')
  <2>1. out = SlotBag(ThinSlots)
    BY <1>1, InCall, PlacesAdded
  <2> QED
    BY <1>1, <1>2, <2>1, SameAdded
<1>4. HostInv' /\ ScratchInv'
  <2>1. Counts' = Counts
    BY <1>2, Same
  <2> QED
    BY <1>1, <1>2, <2>1, InCall DEF HostInv, ScratchInv
<1> QED
  BY <1>1, <1>2, <1>3, <1>4, InCall, Moves DEF Inside

LEMMA SynchronizeKeeps == ASSUME Inv, Synchronize PROVE Inv'
<1>1. /\ pc = "staged" /\ pc' = "decide" /\ copied
      /\ UNCHANGED call /\ UNCHANGED scratch
      /\ ready' = ready /\ copied' = copied /\ host' = host /\ launched' = launched /\ at' = at /\ out' = out
  BY DEF Synchronize, Synchronized
<1>2. UNCHANGED <<n, ids, emap, order>> /\ cfg' = cfg /\ h13' = h13 /\ h13u' = h13u /\ h2' = h2
  BY <1>1 DEF call, scratch
<1>3. host = Counts /\ launched /\ ~cfg.rowTile /\ at = 0
  BY <1>1, InCall DEF HostInv
<1>4. out' = SlotBag(AddedSlots')
  <2>1. out = SlotBag(ThinSlots)
    BY <1>1, InCall, PlacesAdded
  <2> QED
    BY <1>1, <1>2, <1>3, <2>1, SameAdded
<1>5. HostInv' /\ ScratchInv'
  <2>1. Counts' = Counts
    BY <1>2, Same
  <2> QED
    BY <1>1, <1>2, <1>3, <2>1 DEF HostInv, ScratchInv
<1> QED
  BY <1>1, <1>2, <1>4, <1>5, InCall, Moves DEF Inside

LEMMA ReadCountsKeeps == ASSUME Inv, ReadCounts PROVE Inv'
<1>1. /\ pc = "apply" /\ pc' = "decide" /\ host' = Counts
      /\ UNCHANGED call /\ UNCHANGED scratch
      /\ ready' = ready /\ copied' = copied /\ launched' = launched /\ at' = at /\ out' = out
  BY DEF ReadCounts, Large
<1>2. UNCHANGED <<n, ids, emap, order>> /\ cfg' = cfg /\ h13' = h13 /\ h13u' = h13u /\ h2' = h2
  BY <1>1 DEF call, scratch
<1>3. ~launched /\ at = 0
  BY <1>1, InCall DEF HostInv
<1>4. out' = SlotBag(AddedSlots')
  <2>1. out = SlotBag({})
    BY <1>1, InCall, PlacesAdded
  <2> QED
    BY <1>1, <1>2, <1>3, <2>1, SameAdded
<1>5. HostInv' /\ ScratchInv'
  <2>1. Counts' = Counts
    BY <1>2, Same
  <2> QED
    BY <1>1, <1>2, <1>3, <2>1 DEF HostInv, ScratchInv
<1> QED
  BY <1>1, <1>2, <1>4, <1>5, InCall, Moves DEF Inside

\* The thin launch before the fat experts, or the one that was staged.
LEMMA ThinLaunched ==
  ASSUME Inv, pc = "decide"
  PROVE  ThinLaunch = SlotBag(ThinSlots) /\ host = Counts /\ at = 0
<1>1. CallInv /\ out = SlotBag(IF launched THEN ThinSlots ELSE {}) /\ host = Counts /\ at = 0
  BY InCall, PlacesAdded DEF HostInv
<1>2. CASE launched
  BY <1>1, <1>2 DEF ThinLaunch
<1>3. CASE ~ launched
  <2>1. out = SlotBag({}) /\ FusedMoe(Counts, order) = SlotBag(ThinSlots)
    BY <1>1, <1>3, ThinAdded
  <2>2. out (+) FusedMoe(Counts, order) = SlotBag(ThinSlots)
    BY <2>1, Adding, NothingYet
  <2> QED
    BY <1>1, <1>3, <2>2 DEF ThinLaunch
<1> QED
  BY <1>2, <1>3

LEMMA ThinOnlyKeeps == ASSUME Inv, ThinOnly PROVE Inv'
<1>1. /\ pc = "decide" /\ pc' = "done" /\ MaxRows(host) <= Cap /\ out' = ThinLaunch /\ launched' = TRUE
      /\ UNCHANGED call /\ UNCHANGED scratch
      /\ ready' = ready /\ copied' = copied /\ host' = host /\ at' = at
  BY DEF ThinOnly
<1>2. UNCHANGED <<n, ids, emap, order>> /\ cfg' = cfg /\ h13' = h13 /\ h13u' = h13u /\ h2' = h2
  BY <1>1 DEF call, scratch
<1>3. out' = SlotBag(AddedSlots')
  <2>1. out' = SlotBag(ThinSlots) /\ host = Counts
    BY <1>1, ThinLaunched
  <2>2. ThinSlots = LocalSlots
    BY <1>1, <2>1, InCall, AllThin
  <2> QED
    BY <1>1, <1>2, <2>1, <2>2, SameAdded
<1>4. HostInv' /\ ScratchInv'
  BY <1>1 DEF HostInv, ScratchInv
<1> QED
  BY <1>1, <1>2, <1>3, <1>4, InCall, Moves DEF Inside

LEMMA StartTilesKeeps == ASSUME Inv, StartTiles PROVE Inv'
<1>1. /\ pc = "decide" /\ pc' = "tiles" /\ MaxRows(host) > Cap /\ cfg.rowTile
      /\ UNCHANGED call /\ UNCHANGED scratch
      /\ ready' = ready /\ copied' = copied /\ host' = host /\ launched' = launched /\ at' = at /\ out' = out
  BY DEF StartTiles
<1>2. UNCHANGED <<n, ids, emap, order>> /\ cfg' = cfg /\ h13' = h13 /\ h13u' = h13u /\ h2' = h2
  BY <1>1 DEF call, scratch
<1>3. ~launched /\ at = 0 /\ host = Counts
  BY <1>1, InCall DEF HostInv
<1>4. out' = SlotBag(AddedSlots')
  <2>1. out = SlotBag({})
    BY <1>1, <1>3, InCall, PlacesAdded
  <2>2. BeforeTile(0) = {}
    BY <1>1, InCall, TileByTile
  <2> QED
    BY <1>1, <1>2, <1>3, <2>1, <2>2, SameAdded
<1>5. HostInv' /\ ScratchInv'
  <2>1. Counts' = Counts
    BY <1>2, Same
  <2>2. MaxRows(host) \in Nat /\ Cap \in Nat
    BY <1>1, <1>3, InCall, MostFacts, MoeConstants
  <2>3. at' * Cap < MaxRows(host)
    BY <1>1, <1>3, <2>2
  <2>4. MaxRows(host)' = MaxRows(host)
    BY <1>1 DEF MaxRows
  <2> QED
    BY <1>1, <1>2, <1>3, <2>1, <2>3, <2>4 DEF HostInv, ScratchInv
<1> QED
  BY <1>1, <1>2, <1>4, <1>5, InCall, Moves DEF Inside

LEMMA NextTileKeeps == ASSUME Inv, NextTile PROVE Inv'
<1>1. /\ pc = "tiles" /\ out' = out (+) RowTile(host, at) /\ at' = at + 1
      /\ pc' = IF at + 1 < CeilDiv(MaxRows(host), Cap) THEN "tiles" ELSE "done"
      /\ UNCHANGED call /\ UNCHANGED scratch
      /\ ready' = ready /\ copied' = copied /\ host' = host /\ launched' = launched
  BY DEF NextTile
<1>2. UNCHANGED <<n, ids, emap, order>> /\ cfg' = cfg /\ h13' = h13 /\ h13u' = h13u /\ h2' = h2
  BY <1>1 DEF call, scratch
<1> DEFINE m == MaxRows(Counts)
           c == CeilDiv(m, Cap)
<1>3. /\ CallInv /\ out = SlotBag(BeforeTile(at)) /\ host = Counts /\ at * Cap < m
      /\ at \in 0..AtMost
  BY <1>1, InCall, PlacesAdded DEF HostInv
<1>4. at \in Nat /\ m \in Nat /\ m <= n /\ n \in Nat /\ n <= MaxTokens /\ MaxTokens \in Nat /\ Cap \in Nat /\ Cap > 0
  BY <1>1, <1>3, AtMostIs, MostFacts, CallFacts, MoeConstants
<1> HIDE DEF m
<1>5. Cap * at = at * Cap /\ Cap * (at + 1) = (at + 1) * Cap /\ at + 1 \in Nat
  BY <1>4
<1>6. at + 1 < c <=> (at + 1) * Cap < m
  BY <1>4, <1>5, CeilFacts
<1>7. at + 1 \in 0..AtMost
  <2>1. Cap * at < MaxTokens
    BY <1>3, <1>4, <1>5
  <2>2. at < CeilDiv(MaxTokens, Cap)
    BY <1>4, <2>1, CeilFacts
  <2>3. CeilDiv(MaxTokens, Cap) \in Nat
    BY <1>4, CeilFacts
  <2> QED
    BY <1>4, <2>2, <2>3, AtMostIs
<1>8. out' = SlotBag(BeforeTile(at + 1))
  <2>1. RowTile(host, at) = SlotBag(TileSlots(at))
    BY <1>1, <1>3, <1>4, TileAdded
  <2>2. BeforeTile(at + 1) = BeforeTile(at) \cup TileSlots(at) /\ BeforeTile(at) \cap TileSlots(at) = {}
    BY <1>1, <1>3, <1>4, TileByTile
  <2> QED
    BY <1>1, <1>3, <2>1, <2>2, Adding
<1>9. pc' \in {"tiles", "done"} /\ (pc' = "tiles" => (at + 1) * Cap < m) /\ (pc' = "done" => m <= (at + 1) * Cap)
  <2>1. c = CeilDiv(MaxRows(host), Cap)
    BY <1>3 DEF m
  <2>2. (at + 1) * Cap \in Nat
    BY <1>4
  <2> QED
    BY <1>1, <1>4, <1>6, <2>1, <2>2
<1>10. out' = SlotBag(AddedSlots')
  <2>1. CASE pc' = "tiles"
    BY <1>1, <1>2, <1>8, <2>1, SameAdded
  <2>2. CASE pc' = "done"
    <3>1. BeforeTile(at + 1) = LocalSlots
      BY <1>1, <1>3, <1>5, <1>9, <2>2, TileByTile DEF m
    <3> QED
      BY <1>2, <1>8, <2>2, <3>1, SameAdded
  <2> QED
    BY <1>9, <2>1, <2>2
<1>11. HostInv' /\ ScratchInv'
  <2>1. Counts' = Counts
    BY <1>2, Same
  <2>2. MaxRows(host)' = m
    BY <1>1, <1>3 DEF MaxRows, m
  <2>3. pc' = "tiles" => at' * Cap < MaxRows(host)'
    BY <1>1, <1>9, <2>2
  <2>4. host' = Counts'
    BY <1>1, <1>3, <2>1
  <2> QED
    BY <1>9, <2>3, <2>4 DEF HostInv, ScratchInv
<1>12. pc' \in Inside
  BY <1>9 DEF Inside
<1> QED
  BY <1>1, <1>2, <1>7, <1>10, <1>11, <1>12, InCall, Moves

LEMMA StartFatKeeps == ASSUME Inv, StartFat PROVE Inv'
<1>1. /\ pc = "decide" /\ pc' \in {"fat", "legacy"} /\ out' = ThinLaunch /\ launched' = TRUE
      /\ UNCHANGED call /\ UNCHANGED scratch
      /\ ready' = ready /\ copied' = copied /\ host' = host /\ at' = at
  BY DEF StartFat
<1>2. UNCHANGED <<n, ids, emap, order>> /\ cfg' = cfg /\ h13' = h13 /\ h13u' = h13u /\ h2' = h2
  BY <1>1 DEF call, scratch
<1>3. out' = SlotBag(ThinSlots) /\ host = Counts /\ at = 0
  BY <1>1, ThinLaunched
<1>4. 0 \in Experts /\ NExp > 0
  BY MoeConstants DEF Experts
<1>5. out' = SlotBag(AddedSlots')
  <2>1. BeforeFat(0) = ThinSlots
    BY <1>1, <1>4, InCall, FatByFat
  <2> QED
    BY <1>1, <1>2, <1>3, <2>1, SameAdded
<1>6. HostInv' /\ ScratchInv'
  <2>1. Counts' = Counts
    BY <1>2, Same
  <2> QED
    BY <1>1, <1>3, <1>4, <2>1 DEF HostInv, ScratchInv
<1> QED
  BY <1>1, <1>2, <1>5, <1>6, InCall, Moves DEF Inside

LEMMA NextFatKeeps == ASSUME Inv, NextFat PROVE Inv'
<1>1. /\ pc = "fat" /\ at' = at + 1
      /\ out' = IF IsFat(at) THEN out (+) FatSlice(at) ELSE out
      /\ pc' = IF at + 1 < NExp THEN "fat" ELSE "done"
      /\ UNCHANGED call /\ UNCHANGED scratch
      /\ ready' = ready /\ copied' = copied /\ host' = host /\ launched' = launched
  BY DEF NextFat
<1>2. UNCHANGED <<n, ids, emap, order>> /\ cfg' = cfg /\ h13' = h13 /\ h13u' = h13u /\ h2' = h2
  BY <1>1 DEF call, scratch
<1>3. /\ CallInv /\ out = SlotBag(BeforeFat(at)) /\ host = Counts /\ at < NExp
      /\ at \in 0..AtMost
  BY <1>1, InCall, PlacesAdded DEF HostInv
<1>4. at \in Nat /\ NExp \in Nat /\ at \in Experts /\ at + 1 \in 0..AtMost
  <2>1. AtMost \in Nat /\ NExp <= AtMost /\ NExp \in Nat
    BY AtMostIs, MoeConstants
  <2> HIDE DEF AtMost
  <2> QED
    BY <1>3, <2>1 DEF Experts
<1> DEFINE T == {s \in LocalSlots : Local(s) = at}
<1>5. /\ Counts[at] > Cap => BeforeFat(at + 1) = BeforeFat(at) \cup T /\ BeforeFat(at) \cap T = {}
      /\ ~ (Counts[at] > Cap) => BeforeFat(at + 1) = BeforeFat(at)
      /\ BeforeFat(NExp) = LocalSlots
  BY <1>1, <1>3, <1>4, FatByFat
<1>6. FatSlice(at) = SlotBag(T)
  BY <1>1, <1>3, <1>4, SliceAdded
<1> HIDE DEF T
<1>7. out' = SlotBag(BeforeFat(at + 1))
  <2>1. CASE Counts[at] > Cap
    <3>1. out' = out (+) FatSlice(at)
      BY <1>1, <1>3, <2>1 DEF IsFat
    <3> QED
      BY <1>3, <1>5, <1>6, <2>1, <3>1, Adding
  <2>2. CASE ~ (Counts[at] > Cap)
    BY <1>1, <1>3, <1>5, <2>2 DEF IsFat
  <2> QED
    BY <2>1, <2>2
<1>8. out' = SlotBag(AddedSlots')
  <2>1. CASE pc' = "fat"
    BY <1>1, <1>2, <1>7, <2>1, SameAdded
  <2>2. CASE pc' = "done"
    <3>1. at + 1 = NExp
      BY <1>1, <1>3, <1>4, <2>2
    <3> QED
      BY <1>2, <1>5, <1>7, <2>2, <3>1, SameAdded
  <2> QED
    BY <1>1, <2>1, <2>2
<1>9. HostInv' /\ ScratchInv'
  <2>1. Counts' = Counts
    BY <1>2, Same
  <2>2. pc' \in {"fat", "done"} /\ (pc' = "fat" => at' < NExp)
    BY <1>1
  <2>3. host' = Counts'
    BY <1>1, <1>3, <2>1
  <2> QED
    BY <2>2, <2>3 DEF HostInv, ScratchInv
<1>10. pc' \in Inside
  BY <1>1 DEF Inside
<1> QED
  BY <1>1, <1>2, <1>4, <1>8, <1>9, <1>10, InCall, Moves

LEMMA LegacyFatKeeps == ASSUME Inv, LegacyFat PROVE Inv'
<1> DEFINE only == {e \in Experts : IsFat(e)}
<1>1. /\ pc = "legacy" /\ pc' = "done" /\ out' = out (+) PythonLoop(only)
      /\ UNCHANGED call /\ UNCHANGED scratch
      /\ ready' = ready /\ copied' = copied /\ host' = host /\ launched' = launched /\ at' = at
  BY DEF LegacyFat
<1>2. UNCHANGED <<n, ids, emap, order>> /\ cfg' = cfg /\ h13' = h13 /\ h13u' = h13u /\ h2' = h2
  BY <1>1 DEF call, scratch
<1>3. CallInv /\ out = SlotBag(ThinSlots) /\ host = Counts
  BY <1>1, InCall, PlacesAdded DEF HostInv
<1>4. out' = SlotBag(AddedSlots')
  <2> DEFINE U == {s \in LocalSlots : Local(s) \in only}
  <2>1. PythonLoop(only) = SlotBag(U)
    BY <1>1, <1>3, LoopAdded
  <2>2. ASSUME NEW s \in LocalSlots PROVE s \in U <=> s \notin ThinSlots
    <3>1. Local(s) \in Experts /\ Counts[Local(s)] \in Nat /\ Cap \in Nat
      BY <1>1, <1>3, PlaceOf, CountsFacts, MoeConstants
    <3> QED
      BY <1>3, <3>1 DEF IsFat, ThinSlots
  <2>3. ThinSlots \subseteq LocalSlots /\ U \subseteq LocalSlots
    BY DEF ThinSlots
  <2> HIDE DEF U, only
  <2>4. ThinSlots \cup U = LocalSlots /\ ThinSlots \cap U = {}
    BY <2>2, <2>3
  <2>5. out' = SlotBag(LocalSlots)
    BY <1>1, <1>3, <2>1, <2>4, Adding
  <2> QED
    BY <1>1, <1>2, <2>5, SameAdded
<1>5. HostInv' /\ ScratchInv'
  BY <1>1 DEF HostInv, ScratchInv
<1> HIDE DEF only
<1> QED
  BY <1>1, <1>2, <1>4, <1>5, InCall, Moves DEF Inside

LEMMA ClearTyped == Clear \in Buffer /\ NoCounts \in [Experts -> 0..MaxTokens]
<1>1. -1 \in -1..MaxTokens - 1 /\ -1 \in -1..NExp - 1 /\ 0 \in 0..MaxTokens
  BY MoeConstants
<1>2. Stale \in [tok : -1..MaxTokens - 1, e : -1..NExp - 1]
  BY <1>1 DEF Stale
<1> QED
  BY <1>1, <1>2 DEF Clear, Buffer, NoCounts

LEMMA ReturnKeeps == ASSUME Inv, Return PROVE Inv'
<1>1. /\ pc' = "idle" /\ n' = 0 /\ host' = NoCounts /\ copied' = FALSE /\ launched' = FALSE /\ ready' = FALSE
      /\ at' = 0 /\ h13' = Clear /\ h13u' = Clear /\ h2' = Clear /\ out' = EmptyBag
      /\ UNCHANGED <<cfg, tier, emap>>
  BY DEF Return
<1>2. 0 \in 0..MaxTokens /\ 0 \in 0..AtMost
  BY MoeConstants, AtMostIs
<1>3. Typed'
  BY <1>1, <1>2, ClearTyped DEF Inv, Typed, AtMost
<1>4. CallInv'
  BY <1>1, <1>2 DEF Inv, CallInv
<1>5. OutInv' /\ HostInv' /\ ScratchInv'
  BY <1>1 DEF OutInv, HostInv, ScratchInv
<1> QED
  BY <1>3, <1>4, <1>5 DEF Inv

LEMMA BeginKeeps ==
  ASSUME Inv, NEW tokens \in 1..MaxTokens, NEW tie \in Ties, NEW routed \in [0..tokens - 1 -> Routes],
         Begin(tokens, routed, tie)
  PROVE  Inv'
<1> DEFINE k == [s \in SlotsOf(tokens) |-> MapTopkToLocal(routed[s[1]][s[2]], emap)]
<1>1. /\ pc' = "apply" /\ n' = tokens /\ ids' = routed /\ order' = Argsort(k, tokens, tie)
      /\ ready' = FALSE /\ copied' = FALSE /\ launched' = FALSE /\ at' = 0 /\ out' = EmptyBag
      /\ UNCHANGED <<cfg, tier, emap, host, h13, h13u, h2>>
  BY DEF Begin, SlotsOf
<1>2. emap \in Maps /\ tokens \in 0..MaxTokens /\ tokens \in Nat
  <2>1. MaxTokens \in Nat
    BY MoeConstants
  <2> QED
    BY <2>1 DEF Inv, CallInv
<1>3. k \in [SlotsOf(tokens) -> 0..NExp]
  BY <1>2, MapTyped
<1>4. \A s : Local(s)' = MapTopkToLocal(routed[s[1]][s[2]], emap)
  BY <1>1 DEF Local, MapTopkToLocal
<1>5. \A s \in SlotsOf(tokens) : Local(s)' = k[s]
  BY <1>4
<1> HIDE DEF k
<1>6. Sorted(order', tokens, k)
  BY <1>1, <1>2, <1>3, ArgsortSorts
<1>7. Slots' = SlotsOf(tokens) /\ NumSlots' = tokens * TopK
  BY <1>1 DEF Slots, SlotsOf, NumSlots
<1>8. CallInv'
  <2>1. /\ order' \in [0..NumSlots' - 1 -> Slots']
        /\ \A s \in Slots' : \E i \in 0..NumSlots' - 1 : order'[i] = s
        /\ \A i, j \in 0..NumSlots' - 1 :
             /\ order'[i] = order'[j] => i = j
             /\ i <= j => k[order'[i]] <= k[order'[j]]
    BY <1>6, <1>7 DEF Sorted
  <2>2. \A i \in 0..NumSlots' - 1 : Local(order[i])' = k[order'[i]]
    <3>1. \A i \in 0..NumSlots' - 1 : order'[i] \in SlotsOf(tokens)
      BY <1>7, <2>1
    <3>2. \A i \in 0..NumSlots' - 1 : Local(order[i])' = MapTopkToLocal(routed[order'[i][1]][order'[i][2]], emap)
      BY <1>1 DEF Local, MapTopkToLocal
    <3> QED
      BY <3>1, <3>2 DEF k
  <2> QED
    BY <1>1, <1>2, <2>1, <2>2 DEF CallInv
<1>9. OutInv'
  <2>1. AddedSlots' = {}
    BY <1>1 DEF AddedSlots
  <2>2. SlotBag(AddedSlots)' = SlotBag({})
    <3>1. [s \in {} |-> SlotBy(s, Local(s)')] = [s \in {} |-> SlotBy(s, Local(s))]
      OBVIOUS
    <3> QED
      BY <2>1, <3>1 DEF SlotBag
  <2> QED
    BY <1>1, <2>2, NoSlots DEF OutInv
<1>10. Typed'
  BY <1>1, <1>2, AtMostIs DEF Inv, Typed, AtMost
<1>11. HostInv' /\ ScratchInv'
  BY <1>1 DEF HostInv, ScratchInv
<1> QED
  BY <1>8, <1>9, <1>10, <1>11 DEF Inv

LEMMA StartInv == Init => Inv
<1> SUFFICES ASSUME Init PROVE Inv
  OBVIOUS
<1>1. 0 \in 0..MaxTokens /\ 0 \in 0..AtMost
  BY MoeConstants, AtMostIs
<1>2. cfg \in Settings /\ tier = ResolveTier(cfg) /\ tier # "error"
  BY DEF Init
<1>3. tier \in {"legacy", "sorted", "batched", "kernel", "grouped"}
  BY <1>2, TierTyped
<1>4. Typed
  BY <1>1, <1>2, <1>3, ClearTyped DEF Init, Typed, AtMost
<1>5. CallInv
  BY <1>1 DEF Init, CallInv
<1>6. OutInv /\ HostInv /\ ScratchInv
  BY DEF Init, OutInv, HostInv, ScratchInv
<1> QED
  BY <1>4, <1>5, <1>6 DEF Inv

LEMMA StepInv == Inv /\ [Next]_vars => Inv'
<1> SUFFICES ASSUME Inv, [Next]_vars PROVE Inv'
  OBVIOUS
<1>1. CASE UNCHANGED vars
  <2>1. UNCHANGED <<n, ids, emap, order>> /\ pc' = pc /\ out' = out /\ at' = at /\ launched' = launched /\ host' = host
        /\ h13' = h13 /\ h13u' = h13u /\ h2' = h2 /\ cfg' = cfg /\ tier' = tier /\ copied' = copied /\ ready' = ready
    BY <1>1 DEF vars
  <2>2. Typed' /\ CallInv'
    <3>1. /\ Slots' = Slots /\ NumSlots' = NumSlots /\ \A s : Local(s)' = Local(s)
      BY <2>1, Same
    <3> QED
      BY <2>1, <3>1 DEF Inv, Typed, CallInv
  <2>3. OutInv'
    <3>1. CASE pc = "idle"
      BY <2>1, <3>1 DEF Inv, OutInv
    <3>2. CASE pc # "idle"
      <4>1. AddedSlots' = AddedSlots
        BY <2>1, <3>2, Stays DEF call
      <4>2. out' = SlotBag(AddedSlots)
        BY <2>1, <3>2, InCall
      <4> QED
        BY <2>1, <3>2, <4>1, <4>2, Added
    <3> QED
      BY <3>1, <3>2
  <2>4. HostInv' /\ ScratchInv'
    <3>1. RowRight(h13)' = RowRight(h13) /\ RowRight(h13u)' = RowRight(h13u) /\ RowRight(h2)' = RowRight(h2)
      BY <2>1, SameTables DEF RowRight
    <3>2. ScratchInv'
      BY <2>1, <3>1 DEF ScratchInv, Inv
    <3>3. HostInv'
      BY <2>1, Same DEF HostInv, Inv
    <3> QED
      BY <3>2, <3>3
  <2> QED
    BY <2>2, <2>3, <2>4 DEF Inv
<1>2. CASE \E tokens \in 1..MaxTokens, tie \in Ties :
             \E routed \in [0..tokens - 1 -> Routes] : Begin(tokens, routed, tie)
  BY <1>2, BeginKeeps
<1>3. CASE StreamCounts
  BY <1>3, StreamCountsKeeps
<1>4. CASE LoopAll
  BY <1>4, LoopAllKeeps
<1>5. CASE FusedSmall
  BY <1>5, FusedSmallKeeps
<1>6. CASE GroupedThin
  BY <1>6, GroupedThinKeeps
<1>7. CASE GroupedGather
  BY <1>7, GroupedGatherKeeps
<1>8. CASE GroupedGateUp
  BY <1>8, GroupedGateUpKeeps
<1>9. CASE GroupedDown
  BY <1>9, GroupedDownKeeps
<1>10. CASE StageCounts
  BY <1>10, StageCountsKeeps
<1>11. CASE CopyCounts
  BY <1>11, CopyCountsKeeps
<1>12. CASE Synchronize
  BY <1>12, SynchronizeKeeps
<1>13. CASE ReadCounts
  BY <1>13, ReadCountsKeeps
<1>14. CASE ThinOnly
  BY <1>14, ThinOnlyKeeps
<1>15. CASE StartTiles
  BY <1>15, StartTilesKeeps
<1>16. CASE NextTile
  BY <1>16, NextTileKeeps
<1>17. CASE StartFat
  BY <1>17, StartFatKeeps
<1>18. CASE NextFat
  BY <1>18, NextFatKeeps
<1>19. CASE LegacyFat
  BY <1>19, LegacyFatKeeps
<1>20. CASE Return
  BY <1>20, ReturnKeeps
<1> QED
  BY <1>1, <1>2, <1>3, <1>4, <1>5, <1>6, <1>7, <1>8, <1>9, <1>10, <1>11, <1>12, <1>13, <1>14, <1>15, <1>16,
     <1>17, <1>18, <1>19, <1>20 DEF Next

\* The inductive invariant: the order of the slots is a sort of them by expert,
\* what has been added is what the place in the call says, and the host decides on
\* the counts of this call (apply_exl3_experts, apply_exl3_fused_moe).
THEOREM DispatchInvariant == Spec => []DispatchInv
<1>1. Inv => DispatchInv
  BY InvIsDispatch
<1> QED
  BY <1>1, StartInv, StepInv, PTL DEF Spec

\* For every number of experts and tokens, every buffer and tile size, every
\* routing, every expert map and every order argsort may give to equal keys: a call
\* adds every slot of a local expert to its own token exactly once, whichever of
\* the seven paths it takes, and the tables the grouped kernels build on the device
\* cut the fat rows into pieces of one expert, within what was allocated
\* (apply_exl3_fused_moe, build_grouped_fat_tables).
THEOREM DispatchIsRight == Spec => []DispatchRight
<1>1. Inv => DispatchRight
  BY InvIsRight
<1> QED
  BY <1>1, StartInv, StepInv, PTL DEF Spec

-----------------------------------------------------------------------------
(* Sizes *)

LEMMA Interval == \A k \in Nat : IsFiniteSet(0..k - 1) /\ Cardinality(0..k - 1) = k
<1> SUFFICES ASSUME NEW k \in Nat PROVE IsFiniteSet(0..k - 1) /\ Cardinality(0..k - 1) = k
  OBVIOUS
<1>1. 0 \in Int /\ k - 1 \in Int /\ (IF 0 > k - 1 THEN 0 ELSE (k - 1) - 0 + 1) = k
  OBVIOUS
<1> QED
  BY <1>1, FS_Interval

\* The number of elements of what has no, one or three dimensions.
Solves(f, dims) == \A i \in 0..Len(dims) : f[i] = IF i = 0 THEN 1 ELSE f[i - 1] * dims[i]
LEMMA Solved ==
  ASSUME NEW dims, NEW g, DOMAIN g = 0..Len(dims), g = [i \in 0..Len(dims) |-> g[i]], Solves(g, dims)
  PROVE  \E f : Numel(dims) = f[Len(dims)] /\ Solves(f, dims)
<1> DEFINE Body(f, i) == IF i = 0 THEN 1 ELSE f[i - 1] * dims[i]
           prod == CHOOSE f : f = [i \in 0..Len(dims) |-> Body(f, i)]
<1>1. \A i \in 0..Len(dims) : g[i] = Body(g, i)
  BY DEF Solves
<1>2. Numel(dims) = prod[Len(dims)]
  BY DEF Numel
<1> HIDE DEF Body
<1>3. g = [i \in 0..Len(dims) |-> Body(g, i)]
  BY <1>1
<1>4. prod = [i \in 0..Len(dims) |-> Body(prod, i)]
  BY <1>3
<1> HIDE DEF prod
<1>5. \A i \in 0..Len(dims) : prod[i] = Body(prod, i)
  BY <1>4
<1> QED
  BY <1>2, <1>5 DEF Body, Solves

LEMMA Volume ==
  /\ Numel(<<>>) = 1
  /\ \A a \in Int : Numel(<<a>>) = a
  /\ \A a, b, c \in Int : Numel(<<a, b, c>>) = a * b * c
<1>2. Numel(<<>>) = 1
  <2> DEFINE g == [i \in 0..0 |-> 1]
  <2>1. DOMAIN g = 0..Len(<<>>) /\ g = [i \in 0..Len(<<>>) |-> g[i]] /\ Len(<<>>) = 0
    OBVIOUS
  <2>2. Solves(g, <<>>)
    BY DEF Solves
  <2> HIDE DEF g
  <2>3. \E f : Numel(<<>>) = f[Len(<<>>)] /\ Solves(f, <<>>)
    BY <2>1, <2>2, Solved
  <2> QED
    BY <2>1, <2>3 DEF Solves
<1>3. ASSUME NEW a \in Int PROVE Numel(<<a>>) = a
  <2> DEFINE d == <<a>>
             g == [i \in 0..1 |-> IF i = 0 THEN 1 ELSE a]
  <2>1. DOMAIN g = 0..1 /\ g = [i \in 0..1 |-> g[i]] /\ Len(d) = 1 /\ d[1] = a
    OBVIOUS
  <2>2. g[0] = 1 /\ g[1] = a /\ 1 * a = a /\ 0..1 = {0, 1} /\ 1 - 1 = 0
    OBVIOUS
  <2> HIDE DEF g, d
  <2>3. Solves(g, d)
    BY <2>1, <2>2 DEF Solves
  <2>4. PICK f : Numel(d) = f[1] /\ Solves(f, d)
    BY <2>1, <2>3, Solved
  <2>5. f[0] = 1 /\ f[1] = f[0] * a
    BY <2>1, <2>4 DEF Solves
  <2> QED
    BY <2>4, <2>5 DEF d
<1>4. ASSUME NEW a \in Int, NEW b \in Int, NEW c \in Int PROVE Numel(<<a, b, c>>) = a * b * c
  <2> DEFINE d == <<a, b, c>>
             g == [i \in 0..3 |-> CASE i = 0 -> 1 [] i = 1 -> a [] i = 2 -> a * b [] OTHER -> a * b * c]
  <2>1. DOMAIN g = 0..3 /\ g = [i \in 0..3 |-> g[i]] /\ Len(d) = 3
    OBVIOUS
  <2>2. d[1] = a /\ d[2] = b /\ d[3] = c
    OBVIOUS
  <2>3. g[0] = 1 /\ g[1] = a /\ g[2] = a * b /\ g[3] = a * b * c
    OBVIOUS
  <2>4. 1 * a = a /\ 0..3 = {0, 1, 2, 3} /\ 1 - 1 = 0 /\ 2 - 1 = 1 /\ 3 - 1 = 2
    OBVIOUS
  <2> HIDE DEF g, d
  <2>5. Solves(g, d)
    <3>1. ASSUME NEW i \in 0..3 PROVE g[i] = IF i = 0 THEN 1 ELSE g[i - 1] * d[i]
      <4>1. i = 0 \/ i = 1 \/ i = 2 \/ i = 3
        BY <2>4
      <4> QED
        BY <2>2, <2>3, <2>4, <4>1
    <3> QED
      BY <2>1, <3>1 DEF Solves
  <2>6. PICK f : Numel(d) = f[3] /\ Solves(f, d)
    BY <2>1, <2>5, Solved
  <2>7. f[0] = 1 /\ f[1] = f[0] * a /\ f[2] = f[1] * b /\ f[3] = f[2] * c
    <3>1. \A i \in {1, 2, 3} : f[i] = f[i - 1] * d[i]
      BY <2>1, <2>6 DEF Solves
    <3>2. f[0] = 1
      BY <2>1, <2>6 DEF Solves
    <3>3. f[1] = f[0] * a
      BY <2>2, <3>1
    <3>4. f[2] = f[1] * b
      BY <2>2, <3>1
    <3>5. f[3] = f[2] * c
      BY <2>2, <3>1
    <3> QED
      BY <3>2, <3>3, <3>4, <3>5
  <2>8. f[1] = a /\ f[2] = a * b /\ f[3] = a * b * c
    BY <2>7
  <2> QED
    BY <2>6, <2>8 DEF d
<1> QED
  BY <1>2, <1>3, <1>4

-----------------------------------------------------------------------------
(* The layer *)

LEMMA ShapeFacts ==
  ASSUME shape \in Shapes
  PROVE  /\ Tp \in Nat /\ Tp > 0 /\ shape.in \in Nat /\ shape.in > 0 /\ KFor(shape.prefix) \in Nat
         /\ Moe => /\ shape.experts \in Nat /\ shape.inter \in Nat /\ shape.inter > 0
                   /\ shape.ks \in Seq(Nat) /\ Len(shape.ks) \in {1, 3}
         /\ ~Moe => /\ shape.outs \in Seq(Nat) /\ Len(shape.outs) \in Nat /\ Len(shape.outs) > 0
                    /\ shape.groups \in Nat
         /\ ~Moe /\ shape.groups > 0 => /\ Len(shape.outs) = 1 /\ shape.parallel = "col"
                                        /\ LocalSlices \in Nat /\ LocalSlices > 0
                                        /\ shape.groups = Tp * LocalSlices
<1>1. /\ {shape.tp, shape.in} \subseteq Nat \ {0} /\ KFor(shape.prefix) \in Nat
      /\ Moe => /\ shape.experts \in Nat /\ shape.inter \in Nat \ {0}
                /\ shape.ks \in Seq(Nat) /\ Len(shape.ks) \in {1, 3}
      /\ ~Moe => /\ shape.outs \in Seq(Nat) /\ shape.outs # <<>> /\ shape.groups \in Nat
                 /\ shape.groups > 0 =>
                      Len(shape.outs) = 1 /\ shape.parallel = "col" /\ shape.groups % shape.tp = 0
  BY LoadConstants DEF Moe
<1>2. Tp \in Nat /\ Tp > 0 /\ shape.in \in Nat /\ shape.in > 0
  BY <1>1 DEF Tp
<1>3. ~Moe => Len(shape.outs) \in Nat /\ Len(shape.outs) > 0
  BY <1>1
<1>4. ASSUME ~Moe, shape.groups > 0
      PROVE  LocalSlices \in Nat /\ LocalSlices > 0 /\ shape.groups = Tp * LocalSlices
  <2>1. shape.groups \in Nat /\ shape.groups % Tp = 0
    BY <1>1, <1>4 DEF Tp
  <2>2. LocalSlices \in Nat /\ shape.groups = Tp * LocalSlices + (shape.groups % Tp)
    BY <1>2, <2>1, Divided DEF LocalSlices, Tp
  <2>3. shape.groups = Tp * LocalSlices
    BY <1>2, <2>1, <2>2
  <2>4. LocalSlices # 0
    BY <1>2, <1>4, <2>3
  <2> QED
    BY <2>2, <2>3, <2>4
<1> QED
  BY <1>1, <1>2, <1>3, <1>4

LEMMA UnitFacts ==
  ASSUME shape \in Shapes, NEW u \in Units
  PROVE  /\ Ins(u) \in Nat /\ Outs(u) \in Nat /\ u = <<u[1], u[2]>> /\ u # NoUnit
         /\ Moe => /\ u[1] \in 0..shape.experts - 1 /\ u[2] \in 0..2 /\ KOf(u) \in Nat
                   /\ Ins(u) > 0 /\ Outs(u) > 0
         /\ ~Moe => u[1] = 0
         /\ ~Moe /\ shape.groups > 0 => u[2] \in 0..shape.groups - 1
         /\ ~Moe /\ shape.groups = 0 /\ Len(shape.outs) > 1 => u[2] \in 0..Len(shape.outs) - 1
         /\ ~Moe /\ shape.groups = 0 /\ Len(shape.outs) = 1 => u = <<0, NoId>>
         /\ InParam(u) <=> Moe \/ (shape.groups = 0 /\ Len(shape.outs) = 1)
<1>1. CASE Moe
  <2>1. PICK e \in 0..shape.experts - 1, i \in 0..2 : u = <<e, i>>
    BY <1>1 DEF Units
  <2>2. u[1] = e /\ u[2] = i
    BY <2>1
  <2>3. Ins(u) \in Nat /\ Outs(u) \in Nat /\ Ins(u) > 0 /\ Outs(u) > 0
    BY <1>1, <2>2, ShapeFacts DEF Ins, Outs
  <2>4. KOf(u) \in Nat
    <3>1. shape.ks \in Seq(Nat) /\ Len(shape.ks) \in {1, 3} /\ u[2] # NoId
      BY <1>1, <2>2, ShapeFacts DEF NoId
    <3> QED
      BY <2>2, <3>1 DEF KOf
  <2>5. u # NoUnit
    BY <2>1 DEF NoUnit
  <2> QED
    BY <1>1, <2>1, <2>2, <2>3, <2>4, <2>5 DEF InParam
<1>2. CASE ~Moe /\ shape.groups > 0
  <2>1. PICK i \in 0..shape.groups - 1 : u = <<0, i>>
    BY <1>2 DEF Units
  <2>2. u[1] = 0 /\ u[2] = i
    BY <2>1
  <2>3. shape.outs \in Seq(Nat) /\ Len(shape.outs) = 1 /\ shape.groups \in Nat
    BY <1>2, ShapeFacts
  <2>4. shape.outs[1] \in Nat
    BY <2>3
  <2>5. shape.outs[1] \div shape.groups \in Nat
    BY <1>2, <2>3, <2>4, Divided
  <2>6. Ins(u) \in Nat /\ Outs(u) \in Nat
    BY <1>2, <2>5, ShapeFacts DEF Ins, Outs
  <2>7. u # NoUnit /\ u[2] # NoId
    BY <2>1 DEF NoUnit, NoId
  <2> QED
    BY <1>2, <2>1, <2>2, <2>6, <2>7 DEF InParam
<1>3. CASE ~Moe /\ ~(shape.groups > 0) /\ Len(shape.outs) > 1
  <2>0. shape.groups = 0 /\ shape.outs \in Seq(Nat)
    BY <1>3, ShapeFacts
  <2>1. PICK i \in 0..Len(shape.outs) - 1 : u = <<0, i>>
    BY <1>3 DEF Units
  <2>2. u[1] = 0 /\ u[2] = i
    BY <2>1
  <2>3. u # NoUnit /\ u[2] # NoId
    BY <2>1 DEF NoUnit, NoId
  <2>4. shape.outs[u[2] + 1] \in Nat
    BY <2>0, <2>2
  <2>5. Ins(u) \in Nat /\ Outs(u) \in Nat
    BY <1>3, <2>3, <2>4, ShapeFacts DEF Ins, Outs
  <2>6. InParam(u) <=> FALSE
    BY <1>3, <2>3 DEF InParam
  <2>7. Len(shape.outs) # 1 /\ u[2] \in 0..Len(shape.outs) - 1
    <3>1. ASSUME NEW l \in Nat, l > 1 PROVE l # 1
      BY <3>1
    <3>2. Len(shape.outs) \in Nat
      BY <2>0
    <3> QED
      BY <1>3, <2>2, <3>1, <3>2
  <2> QED
    BY <1>3, <2>0, <2>1, <2>2, <2>3, <2>5, <2>6, <2>7
<1>4. CASE ~Moe /\ ~(shape.groups > 0) /\ ~(Len(shape.outs) > 1)
  <2>0. shape.groups = 0 /\ shape.outs \in Seq(Nat) /\ Len(shape.outs) = 1
    <3>1. shape.groups \in Nat /\ shape.outs \in Seq(Nat) /\ Len(shape.outs) \in Nat /\ Len(shape.outs) > 0
      BY <1>4, ShapeFacts
    <3>2. ASSUME NEW g \in Nat, ~(g > 0) PROVE g = 0
      BY <3>2
    <3>3. ASSUME NEW l \in Nat, l > 0, ~(l > 1) PROVE l = 1
      BY <3>3
    <3> QED
      BY <1>4, <3>1, <3>2, <3>3
  <2>1. u = <<0, NoId>>
    BY <1>4 DEF Units
  <2>2. u[1] = 0 /\ u[2] = NoId /\ u # NoUnit
    BY <2>1 DEF NoUnit, NoId
  <2>3. shape.outs[1] \in Nat
    BY <2>0
  <2>5. Ins(u) \in Nat /\ Outs(u) \in Nat
    BY <1>4, <2>2, <2>3, ShapeFacts DEF Ins, Outs
  <2> QED
    BY <1>4, <2>0, <2>1, <2>2, <2>5 DEF InParam
<1> QED
  BY <1>1, <1>2, <1>3, <1>4

LEMMA HowFacts ==
  ASSUME shape \in Shapes
  PROVE  /\ \A u : How(u) \in {"row", "col", "none"}
         /\ Moe => \A u : How(u) = IF u[2] = 2 THEN "row" ELSE "col"
         /\ ~Moe /\ shape.groups > 0 => \A u : How(u) = "none"
         /\ ~Moe /\ shape.groups = 0 => \A u : How(u) = Sharding
<1>1. Sharding \in {"row", "col", "none"}
  BY DEF Sharding
<1>2. ASSUME ~Moe, shape.groups > 0 PROVE Sharding # "row"
  <2>1. shape.parallel = "col" /\ shape.in \in Nat
    BY <1>2, ShapeFacts
  <2>2. ~ (InPart < shape.in)
    BY <2>1 DEF InPart
  <2> QED
    BY <2>2 DEF Sharding
<1>3. ~Moe => shape.groups \in Nat
  BY ShapeFacts
<1> QED
  BY <1>1, <1>2, <1>3 DEF How

RowsOf(r, u) == IF How(u) = "row" THEN Chunk(r, Ins(u)) ELSE 0..Ins(u) - 1
ColsOf(r, u) == IF How(u) = "col" THEN Chunk(r, Outs(u)) ELSE 0..Outs(u) - 1

\* What a rank gets of each tensor.
LEMMA SliceIs ==
  ASSUME shape \in Shapes, NEW u \in Units, NEW r
  PROVE  /\ Slice(r, u, "trellis") = [unit |-> u, suffix |-> "trellis", k |-> KOf(u), rows |-> RowsOf(r, u),
                                      cols |-> ColsOf(r, u), scrambled |-> FALSE]
         /\ Slice(r, u, "suh") = [unit |-> u, suffix |-> "suh", k |-> 0, rows |-> RowsOf(r, u),
                                  cols |-> {}, scrambled |-> FALSE]
         /\ Slice(r, u, "svh") = [unit |-> u, suffix |-> "svh", k |-> 0, rows |-> {},
                                  cols |-> ColsOf(r, u), scrambled |-> FALSE]
         /\ Slice(r, u, "mul1") = [unit |-> u, suffix |-> "mul1", k |-> 0, rows |-> {},
                                   cols |-> {}, scrambled |-> FALSE]
<1>1. Cardinality(0..Ins(u) - 1) = Ins(u) /\ Cardinality(0..Outs(u) - 1) = Outs(u)
  BY UnitFacts, Interval
<1>2. How(u) \in {"row", "col", "none"}
  BY HowFacts
<1>3. ASSUME NEW s, NEW k, NEW rows, NEW cols, NEW no,
             Tensor(u, s) = [unit |-> u, suffix |-> s, k |-> k, rows |-> rows, cols |-> cols, scrambled |-> no],
             s \in {"trellis", "suh"} => rows = 0..Ins(u) - 1,
             s \in {"trellis", "svh"} => cols = 0..Outs(u) - 1
      PROVE  Slice(r, u, s) =
               [unit |-> u, suffix |-> s, k |-> k,
                rows |-> IF s \in {"trellis", "suh"} THEN RowsOf(r, u) ELSE rows,
                cols |-> IF s \in {"trellis", "svh"} THEN ColsOf(r, u) ELSE cols, scrambled |-> no]
  <2> DEFINE v == Tensor(u, s)
  <2>1. v.suffix = s /\ v.rows = rows /\ v.cols = cols
    BY <1>3
  <2>2. \A x : /\ [v EXCEPT !.rows = x] = [unit |-> u, suffix |-> s, k |-> k, rows |-> x, cols |-> cols,
                                           scrambled |-> no]
               /\ [v EXCEPT !.cols = x] = [unit |-> u, suffix |-> s, k |-> k, rows |-> rows, cols |-> x,
                                           scrambled |-> no]
    <3> DEFINE w == [unit |-> u, suffix |-> s, k |-> k, rows |-> rows, cols |-> cols, scrambled |-> no]
    <3>1. v = w
      BY <1>3
    <3>2. ASSUME NEW x
          PROVE  /\ [w EXCEPT !.rows = x] = [unit |-> u, suffix |-> s, k |-> k, rows |-> x, cols |-> cols,
                                             scrambled |-> no]
                 /\ [w EXCEPT !.cols = x] = [unit |-> u, suffix |-> s, k |-> k, rows |-> rows, cols |-> x,
                                             scrambled |-> no]
      OBVIOUS
    <3> HIDE DEF v, w
    <3> QED
      BY <3>1, <3>2
  <2>3. v = [unit |-> u, suffix |-> s, k |-> k, rows |-> rows, cols |-> cols, scrambled |-> no]
    BY <1>3
  <2>4. Slice(r, u, s) = Shard(r, How(u), v)
    BY DEF Slice
  <2> HIDE DEF v
  <2>5. CASE How(u) = "row"
    <3>1. Slice(r, u, s) = ShardRow(r, v)
      BY <2>4, <2>5 DEF Shard
    <3> QED
      BY <1>1, <1>3, <2>1, <2>2, <2>3, <2>5, <3>1 DEF ShardRow, RowsOf, ColsOf
  <2>6. CASE How(u) = "col"
    <3>1. Slice(r, u, s) = ShardCol(r, v)
      BY <2>4, <2>6 DEF Shard
    <3> QED
      BY <1>1, <1>3, <2>1, <2>2, <2>3, <2>6, <3>1 DEF ShardCol, RowsOf, ColsOf
  <2>7. CASE How(u) = "none"
    <3>1. Slice(r, u, s) = v
      BY <2>4, <2>7 DEF Shard
    <3> QED
      BY <1>3, <2>3, <2>7, <3>1 DEF RowsOf, ColsOf
  <2> QED
    BY <1>2, <2>5, <2>6, <2>7
<1>4. /\ Tensor(u, "trellis") = [unit |-> u, suffix |-> "trellis", k |-> KOf(u), rows |-> 0..Ins(u) - 1,
                                 cols |-> 0..Outs(u) - 1, scrambled |-> FALSE]
      /\ Tensor(u, "suh") = [unit |-> u, suffix |-> "suh", k |-> 0, rows |-> 0..Ins(u) - 1,
                             cols |-> {}, scrambled |-> FALSE]
      /\ Tensor(u, "svh") = [unit |-> u, suffix |-> "svh", k |-> 0, rows |-> {},
                             cols |-> 0..Outs(u) - 1, scrambled |-> FALSE]
      /\ Tensor(u, "mul1") = [unit |-> u, suffix |-> "mul1", k |-> 0, rows |-> {},
                              cols |-> {}, scrambled |-> FALSE]
  BY DEF Tensor
<1>5. Slice(r, u, "trellis") = [unit |-> u, suffix |-> "trellis", k |-> KOf(u), rows |-> RowsOf(r, u),
                                cols |-> ColsOf(r, u), scrambled |-> FALSE]
  BY <1>3, <1>4
<1>6. Slice(r, u, "suh") = [unit |-> u, suffix |-> "suh", k |-> 0, rows |-> RowsOf(r, u),
                            cols |-> {}, scrambled |-> FALSE]
  BY <1>3, <1>4
<1>7. Slice(r, u, "svh") = [unit |-> u, suffix |-> "svh", k |-> 0, rows |-> {},
                            cols |-> ColsOf(r, u), scrambled |-> FALSE]
  BY <1>3, <1>4
<1>8. Slice(r, u, "mul1") = [unit |-> u, suffix |-> "mul1", k |-> 0, rows |-> {},
                             cols |-> {}, scrambled |-> FALSE]
  BY <1>3, <1>4
<1> QED
  BY <1>5, <1>6, <1>7, <1>8

LEMMA SliceSuffix ==
  ASSUME shape \in Shapes, NEW u \in Units, NEW r, NEW s \in SuffixSet
  PROVE  Slice(r, u, s).suffix = s /\ Slice(r, u, s).unit = u
BY SliceIs DEF SuffixSet

-----------------------------------------------------------------------------
(* The parts of a dimension *)

\* The ranks' parts of an even dimension cover it and do not meet.
LEMMA ChunkFacts ==
  ASSUME shape \in Shapes, NEW size \in Nat, size % Tp = 0
  PROVE  /\ size \div Tp \in Nat /\ size = Tp * (size \div Tp)
         /\ \A r \in Nat : Cardinality(Chunk(r, size)) = size \div Tp
         /\ \A x \in 0..size - 1 : \E r \in 0..Tp - 1 : x \in Chunk(r, size)
         /\ \A r, t \in Nat : \A x : x \in Chunk(r, size) /\ x \in Chunk(t, size) => r = t
<1> DEFINE q == size \div Tp
<1>1. Tp \in Nat /\ Tp > 0
  BY ShapeFacts
<1>2. q \in Nat /\ size = Tp * q + (size % Tp)
  BY <1>1, Divided
<1>3. Tp * q \in Nat /\ size = Tp * q /\ Tp * q = q * Tp
  BY <1>1, <1>2, Product
<1>4. ASSUME NEW r \in Nat
      PROVE  /\ q * r \in Nat /\ Chunk(r, size) = (q * r)..(q * r + q - 1)
  <2>1. q * r \in Nat /\ q * (r + 1) = q * r + q /\ r * q = q * r /\ (r + 1) * q = q * (r + 1)
    BY <1>2, Product
  <2>2. Chunk(r, size) = (r * q)..((r + 1) * q - 1)
    BY DEF Chunk
  <2> HIDE DEF q
  <2>3. r * q = q * r /\ (r + 1) * q - 1 = q * r + q - 1
    BY <1>2, <2>1
  <2> QED
    BY <2>1, <2>2, <2>3
<1> HIDE DEF q
<1>5. ASSUME NEW r \in Nat PROVE Cardinality(Chunk(r, size)) = q
  <2> DEFINE a == q * r
  <2>1. a \in Int /\ a + q - 1 \in Int /\ (IF a > a + q - 1 THEN 0 ELSE (a + q - 1) - a + 1) = q
    <3>1. a \in Nat
      BY <1>4
    <3> HIDE DEF a
    <3> QED
      BY <1>2, <3>1
  <2>2. Chunk(r, size) = a..(a + q - 1)
    BY <1>4
  <2> HIDE DEF a
  <2> QED
    BY <2>1, <2>2, FS_Interval
<1>6. ASSUME NEW x \in 0..size - 1 PROVE \E r \in 0..Tp - 1 : x \in Chunk(r, size)
  <2>1. x \in Nat /\ x < q * Tp
    BY <1>2, <1>3
  <2>2. q # 0
    BY <1>1, <2>1
  <2>3. x \div q \in Nat /\ x % q \in Nat /\ x % q < q /\ x = q * (x \div q) + (x % q)
    BY <1>2, <2>1, <2>2, Divided
  <2>4. x \div q < Tp
    BY <1>1, <1>2, <2>1, <2>2, Below
  <2> DEFINE r == x \div q
             w == x % q
  <2>5. r \in Nat /\ r \in 0..Tp - 1 /\ w \in Nat /\ w < q /\ x = q * r + w
    BY <1>1, <2>3, <2>4
  <2> HIDE DEF r, w
  <2>6. q * r \in Nat /\ Chunk(r, size) = (q * r)..(q * r + q - 1)
    BY <1>4, <2>5
  <2>7. x \in Chunk(r, size)
    BY <1>2, <2>1, <2>5, <2>6
  <2> QED
    BY <2>5, <2>7
<1>7. ASSUME NEW r \in Nat, NEW t \in Nat, NEW x, x \in Chunk(r, size), x \in Chunk(t, size), r < t
      PROVE  FALSE
  <2>0. /\ q * r \in Nat /\ Chunk(r, size) = (q * r)..(q * r + q - 1)
        /\ q * t \in Nat /\ Chunk(t, size) = (q * t)..(q * t + q - 1)
    BY <1>4
  <2>1. x \in Int /\ x <= q * r + q - 1 /\ x >= q * t /\ q * r \in Nat /\ q * t \in Nat
    BY <1>2, <1>7, <2>0
  <2>2. q * r + q <= q * t
    BY <1>2, <1>7, Product
  <2> QED
    BY <1>2, <2>1, <2>2
<1>8. \A r, t \in Nat : \A x : x \in Chunk(r, size) /\ x \in Chunk(t, size) => r = t
  BY <1>7
<1> QED
  BY <1>2, <1>3, <1>5, <1>6, <1>8 DEF q

LEMMA EvenIs ==
  ASSUME shape \in Shapes, NEW u \in Units, NEW s \in SuffixSet, ~Uneven(How(u), Tensor(u, s))
  PROVE  /\ s \in {"trellis", "svh"} /\ How(u) = "col" => Outs(u) % Tp = 0
         /\ s \in {"trellis", "suh"} /\ How(u) = "row" => Ins(u) % Tp = 0
<1>1. Cardinality(0..Ins(u) - 1) = Ins(u) /\ Cardinality(0..Outs(u) - 1) = Outs(u)
  BY UnitFacts, Interval
<1>2. ASSUME s \in {"trellis", "svh"}, How(u) = "col" PROVE Outs(u) % Tp = 0
  <2>1. Tensor(u, s).suffix = s /\ Tensor(u, s).cols = 0..Outs(u) - 1
    BY <1>2 DEF Tensor
  <2> QED
    BY <1>1, <1>2, <2>1 DEF Uneven, Divides
<1>3. ASSUME s \in {"trellis", "suh"}, How(u) = "row" PROVE Ins(u) % Tp = 0
  <2>1. Tensor(u, s).suffix = s /\ Tensor(u, s).rows = 0..Ins(u) - 1
    BY <1>3 DEF Tensor
  <2> QED
    BY <1>1, <1>3, <2>1 DEF Uneven, Divides
<1> QED
  BY <1>2, <1>3

LEMMA Cancel == \A a, b, k, m \in Nat : a > 0 /\ b > 0 /\ a * b * k = a * b * m => k = m
<1> SUFFICES ASSUME NEW a \in Nat, NEW b \in Nat, NEW k \in Nat, NEW m \in Nat,
                    a > 0, b > 0, a * b * k = a * b * m
             PROVE  k = m
  OBVIOUS
<1> DEFINE c == a * b
<1>1. c \in Nat /\ c > 0
  <2>1. c \in Nat
    BY Product
  <2>2. a * 0 + a <= a * b /\ a * 0 = 0
    BY Product
  <2> QED
    BY <2>1, <2>2
<1>2. c * k = c * m
  OBVIOUS
<1> HIDE DEF c
<1>3. c * k \in Nat /\ c * m \in Nat /\ (k < m => c * k + c <= c * m) /\ (m < k => c * m + c <= c * k)
  BY <1>1, Product
<1> QED
  BY <1>1, <1>2, <1>3

\* The size of an expert's parameter.
Declared(u, s) ==
  LET local == shape.inter \div Tp
  IN CASE s = "trellis" ->
            (IF u[2] = 2 THEN <<local, shape.in, KFor(shape.prefix)>>
                         ELSE <<shape.in, local, KFor(shape.prefix)>>)
       [] s = "suh" -> <<IF u[2] = 2 THEN local ELSE shape.in>>
       [] s = "svh" -> <<IF u[2] = 2 THEN shape.in ELSE local>>
       [] OTHER -> <<1>>

\* A tensor of the size of its parameter has its shape too: the K is the promised one.
LEMMA SameSize ==
  ASSUME shape \in Shapes, Moe, NEW u \in Units, NEW s \in SuffixSet, NEW r \in Nat,
         ~Uneven(How(u), Tensor(u, s)), Numel(Dims(Slice(r, u, s))) = Numel(Declared(u, s))
  PROVE  Dims(Slice(r, u, s)) \in {Declared(u, s), <<>>}
<1> DEFINE local == shape.inter \div Tp
           v == Slice(r, u, s)
<1>1. /\ Tp \in Nat /\ Tp > 0 /\ shape.in \in Nat /\ shape.in > 0
      /\ shape.inter \in Nat /\ shape.inter > 0 /\ KFor(shape.prefix) \in Nat
  BY ShapeFacts
<1>2. u[2] \in 0..2 /\ KOf(u) \in Nat /\ Ins(u) \in Nat /\ Outs(u) \in Nat
  BY UnitFacts
<1>3. u[2] = 2 => How(u) = "row" /\ Ins(u) = shape.inter /\ Outs(u) = shape.in
  BY HowFacts DEF Ins, Outs
<1>4. u[2] # 2 => How(u) = "col" /\ Ins(u) = shape.in /\ Outs(u) = shape.inter
  BY HowFacts DEF Ins, Outs
<1>5. Cardinality(0..Ins(u) - 1) = Ins(u) /\ Cardinality(0..Outs(u) - 1) = Outs(u)
  BY <1>2, Interval
<1>6. /\ s \in {"trellis", "suh"} =>
           Cardinality(RowsOf(r, u)) = IF u[2] = 2 THEN local ELSE shape.in
      /\ s \in {"trellis", "svh"} =>
           Cardinality(ColsOf(r, u)) = IF u[2] = 2 THEN shape.in ELSE local
  <2>1. ASSUME s \in {"trellis", "suh"}, u[2] = 2 PROVE Cardinality(RowsOf(r, u)) = local
    <3>1. shape.inter % Tp = 0
      BY <1>3, <2>1, EvenIs
    <3>2. Cardinality(Chunk(r, shape.inter)) = local
      BY <1>1, <3>1, ChunkFacts
    <3> QED
      BY <1>3, <2>1, <3>2 DEF RowsOf
  <2>2. ASSUME s \in {"trellis", "svh"}, u[2] # 2 PROVE Cardinality(ColsOf(r, u)) = local
    <3>1. shape.inter % Tp = 0
      BY <1>4, <2>2, EvenIs
    <3>2. Cardinality(Chunk(r, shape.inter)) = local
      BY <1>1, <3>1, ChunkFacts
    <3> QED
      BY <1>4, <2>2, <3>2 DEF ColsOf
  <2>3. u[2] # 2 => Cardinality(RowsOf(r, u)) = shape.in
    BY <1>4, <1>5 DEF RowsOf
  <2>4. u[2] = 2 => Cardinality(ColsOf(r, u)) = shape.in
    BY <1>3, <1>5 DEF ColsOf
  <2> QED
    BY <2>1, <2>2, <2>3, <2>4
<1>7. CASE s = "trellis"
  <2> DEFINE a == Cardinality(RowsOf(r, u))
             b == Cardinality(ColsOf(r, u))
             K == KFor(shape.prefix)
  <2>1. shape.inter % Tp = 0
    BY <1>2, <1>3, <1>4, <1>7, EvenIs
  <2>2. local \in Nat /\ shape.inter = Tp * local
    BY <1>1, <2>1, ChunkFacts
  <2>3. local > 0
    <3>1. local = 0 => Tp * local = 0
      BY <1>1
    <3> HIDE DEF local
    <3> QED
      BY <1>1, <2>2, <3>1
  <2>4. a = (IF u[2] = 2 THEN local ELSE shape.in) /\ b = (IF u[2] = 2 THEN shape.in ELSE local)
    BY <1>6, <1>7
  <2>5. Dims(v) = <<a, b, KOf(u)>>
    <3>1. v.suffix = "trellis" /\ v.rows = RowsOf(r, u) /\ v.cols = ColsOf(r, u) /\ v.k = KOf(u)
      BY <1>7, SliceIs
    <3> QED
      BY <3>1 DEF Dims
  <2> HIDE DEF local
  <2>6. a \in Nat /\ b \in Nat /\ a > 0 /\ b > 0
    BY <1>1, <2>2, <2>3, <2>4
  <2>7. Declared(u, s) = <<a, b, K>>
    BY <1>7, <2>4 DEF Declared, local
  <2> HIDE DEF a, b, K, v
  <2>8. K \in Nat
    BY <1>1 DEF K
  <2>9. Numel(<<a, b, KOf(u)>>) = a * b * KOf(u) /\ Numel(<<a, b, K>>) = a * b * K
    BY <1>2, <2>6, <2>8, Volume
  <2>10. a * b * KOf(u) = a * b * K
    BY <2>5, <2>7, <2>9 DEF v
  <2>11. KOf(u) = K
    BY <1>2, <2>6, <2>8, <2>10, Cancel
  <2> QED
    BY <2>5, <2>7, <2>11 DEF v
<1>8. CASE s = "suh"
  <2>1. v.suffix = "suh" /\ v.rows = RowsOf(r, u) /\ v.cols = {}
    BY <1>8, SliceIs
  <2>2. Dims(v) = <<Cardinality(RowsOf(r, u))>>
    <3>1. v.rows \cup v.cols = RowsOf(r, u)
      BY <2>1
    <3> QED
      BY <2>1, <3>1 DEF Dims
  <2>3. Declared(u, s) = <<Cardinality(RowsOf(r, u))>>
    BY <1>6, <1>8 DEF Declared
  <2> QED
    BY <2>2, <2>3
<1>9. CASE s = "svh"
  <2>1. v.suffix = "svh" /\ v.rows = {} /\ v.cols = ColsOf(r, u)
    BY <1>9, SliceIs
  <2>2. Dims(v) = <<Cardinality(ColsOf(r, u))>>
    <3>1. v.rows \cup v.cols = ColsOf(r, u)
      BY <2>1
    <3> QED
      BY <2>1, <3>1 DEF Dims
  <2>3. Declared(u, s) = <<Cardinality(ColsOf(r, u))>>
    BY <1>6, <1>9 DEF Declared
  <2> QED
    BY <2>2, <2>3
<1>10. CASE s = "mul1"
  <2>1. v.suffix = "mul1"
    BY <1>10, SliceIs
  <2>2. Dims(v) = <<>>
    BY <2>1 DEF Dims
  <2> QED
    BY <2>2
<1> QED
  BY <1>7, <1>8, <1>9, <1>10 DEF SuffixSet

-----------------------------------------------------------------------------
(* What a step leaves alone *)

LEMMA SameLayer ==
  ASSUME UNCHANGED shape
  PROVE  /\ Units' = Units /\ (Moe' <=> Moe) /\ Tp' = Tp /\ HandleCount' = HandleCount
         /\ LocalSlices' = LocalSlices
         /\ \A u : (InParam(u)' <=> InParam(u)) /\ How(u)' = How(u)
         /\ \A u, s : Tensor(u, s)' = Tensor(u, s)
         /\ \A r : Own(r)' = Own(r) /\ Offset(r)' = Offset(r)
<1>1. (Moe' <=> Moe) /\ Tp' = Tp
  BY DEF Moe, Tp
<1>2. LocalSlices' = LocalSlices /\ Units' = Units
  BY <1>1 DEF LocalSlices, Units
<1>3. HandleCount' = HandleCount
  BY <1>1, <1>2 DEF HandleCount
<1>4. \A u : Ins(u)' = Ins(u) /\ Outs(u)' = Outs(u) /\ KOf(u)' = KOf(u)
  BY <1>1 DEF Ins, Outs, KOf
<1>5. \A u, s : Tensor(u, s)' = Tensor(u, s)
  BY <1>4 DEF Tensor
<1>6. InPart' = InPart /\ Parts' = Parts
  BY <1>1 DEF InPart, Parts
<1>7. Sharding' = Sharding
  BY <1>6 DEF Sharding
<1>8. \A u : (InParam(u)' <=> InParam(u)) /\ How(u)' = How(u)
  BY <1>1, <1>7 DEF InParam, How
<1>9. \A r : Offset(r)' = Offset(r)
  BY <1>1, <1>2 DEF Offset
<1>10. \A r : Own(r)' = Own(r)
  BY <1>1, <1>2, <1>9 DEF Own
<1> QED
  BY <1>1, <1>2, <1>3, <1>5, <1>8, <1>9, <1>10

LEMMA SameSlices ==
  ASSUME UNCHANGED shape
  PROVE  /\ \A r, u, s : Slice(r, u, s)' = Slice(r, u, s)
         /\ \A u, s : Uneven(How(u), Tensor(u, s))' <=> Uneven(How(u), Tensor(u, s))
         /\ \A r, i : UnitAt(r, i)' = UnitAt(r, i)
         /\ \A r, u : Right(r, u)' = Right(r, u)
<1>1. \A r, size : Chunk(r, size)' = Chunk(r, size)
  BY SameLayer DEF Chunk
<1>2. \A r, v : ShardRow(r, v)' = ShardRow(r, v) /\ ShardCol(r, v)' = ShardCol(r, v)
  BY <1>1 DEF ShardRow, ShardCol
<1>3. \A r, how, v : Shard(r, how, v)' = Shard(r, how, v)
  BY <1>2 DEF Shard
<1>4. \A r, u, s : Slice(r, u, s)' = Slice(r, u, s)
  BY <1>3, SameLayer DEF Slice
<1>5. \A u, s : Uneven(How(u), Tensor(u, s))' <=> Uneven(How(u), Tensor(u, s))
  BY SameLayer DEF Uneven, Divides
<1>6. \A r, i : UnitAt(r, i)' = UnitAt(r, i)
  BY SameLayer DEF UnitAt
<1>7. \A r, u : Right(r, u)' = Right(r, u)
  BY <1>4 DEF Right
<1> QED
  BY <1>4, <1>5, <1>6, <1>7

LEMMA SameRank ==
  ASSUME UNCHANGED <<shape, lost, rank>>
  PROVE  /\ Own(rank)' = Own(rank)
         /\ \A u : StashKey(u)' = StashKey(u)
         /\ \A u, s : Dest(u, s)' = Dest(u, s)
         /\ \A u, s, v : Sound(u, s, v)' <=> Sound(u, s, v)
<1>1. Own(rank)' = Own(rank) /\ Offset(rank)' = Offset(rank)
  BY SameLayer
<1>2. \A u : StashKey(u)' = StashKey(u)
  BY <1>1 DEF StashKey
<1>3. \A u, s : Dest(u, s)' = Dest(u, s)
  BY <1>2, SameLayer DEF Dest
<1>4. \A u, s : Slice(rank, u, s)' = Slice(rank, u, s)
  BY SameSlices
<1>5. \A u, s, v : Sound(u, s, v)' <=> Sound(u, s, v)
  BY <1>4, SameSlices DEF Sound
<1> QED
  BY <1>1, <1>2, <1>3, <1>5

\* What is held, written out for the state after a step.
LEMMA HeldNext ==
  ASSUME UNCHANGED <<shape, lost, rank>>
  PROVE  HeldInv' <=>
           /\ \A d \in DOMAIN param' : \E u \in Own(rank), s \in SuffixSet :
                InParam(u) /\ d = <<u, s>> /\ Sound(u, s, param'[d])
           /\ \A d \in DOMAIN stash' : \E u \in Own(rank), s \in SuffixSet :
                ~InParam(u) /\ d = <<StashKey(u), s>> /\ Sound(u, s, stash'[d])
           /\ pending' # <<>> => \E u \in Own(rank), s \in SuffixSet :
                pending' = <<Dest(u, s)>> /\ Sound(u, s, stage')
           /\ DOMAIN stash' = {} => stash' = <<>>
<1>1. /\ \A u : InParam(u)' <=> InParam(u)
      /\ Units' = Units
  BY SameLayer
<1> QED
  BY <1>1, SameRank DEF HeldInv

LEMMA HasNext ==
  ASSUME UNCHANGED <<shape, lost, rank>>
  PROVE  \A u, s : Has(u, s)' <=>
           \/ pending' = <<Dest(u, s)>>
           \/ IF InParam(u) THEN <<u, s>> \in DOMAIN param' ELSE <<StashKey(u), s>> \in DOMAIN stash'
<1>1. \A u : InParam(u)' <=> InParam(u)
  BY SameLayer
<1> QED
  BY <1>1, SameRank DEF Has

LEMMA CompleteNext ==
  ASSUME UNCHANGED <<shape, lost, rank>>
  PROVE  CompleteInv' <=>
           (phase' \in {"load", "ready"} =>
              \A u \in Own(rank) \ todo' : \A j \in 1..4 :
                (u = unit' => j < pos') /\ <<u, Suffixes[j]>> \notin lost => Has(u, Suffixes[j])')
BY SameRank DEF CompleteInv, Suffixes

LEMMA SameBuilt ==
  ASSUME BuiltInv, UNCHANGED <<shape, lost, rank, inners>>, phase' = "ready" => phase = "ready"
  PROVE  BuiltInv'
<1>1. Tp' = Tp /\ HandleCount' = HandleCount
  BY SameLayer
<1>2. \A r, i : Right(r, UnitAt(r, i))' = Right(r, UnitAt(r, i))
  BY SameSlices
<1>3. \A r : Own(r)' = Own(r)
  BY SameLayer
<1>4. \A u, s : Uneven(How(u), Tensor(u, s))' <=> Uneven(How(u), Tensor(u, s))
  BY SameSlices
<1> QED
  BY <1>1, <1>2, <1>3, <1>4 DEF BuiltInv

-----------------------------------------------------------------------------
(* Inductiveness *)

Placed ==
  /\ phase \in {"create", "load", "ready", "raised", "dense"} /\ rank \in 0..(Tp - 1)
  /\ todo \subseteq Units /\ unit \in Units \cup {NoUnit} /\ pos \in 1..4
  /\ warm \in BOOLEAN /\ captured \in {0} \cup CaptureRows
LInv == Placed /\ HeldInv /\ CompleteInv /\ StageInv /\ BuiltInv /\ TuneInv

LEMMA NotTuned ==
  ASSUME TuneInv, phase # "ready"
  PROVE  ~warm /\ captured = 0
BY DEF TuneInv

\* A step of the load, which builds no handles.
LEMMA LoadStep ==
  ASSUME LInv, UNCHANGED <<shape, lost, rank, inners, warm, tuned, untuned, captured>>,
         phase # "ready", phase' # "ready",
         Placed', HeldInv', CompleteInv', StageInv'
  PROVE  LInv'
<1>1. BuiltInv'
  BY SameBuilt DEF LInv
<1>2. TuneInv'
  BY NotTuned DEF LInv, TuneInv
<1> QED
  BY <1>1, <1>2 DEF LInv

LEMMA PlacedNext ==
  ASSUME Placed, UNCHANGED <<shape, rank, warm, captured>>,
         phase' \in {"create", "load", "ready", "raised", "dense"},
         todo' \subseteq Units, unit' \in Units \cup {NoUnit}, pos' \in 1..4
  PROVE  Placed'
BY SameLayer DEF Placed, NoUnit

LEMMA StageNext ==
  ASSUME StageInv, UNCHANGED <<shape, lost>>, unit' \notin todo', phase' \notin {"create", "ready"}
  PROVE  StageInv'
<1>1. Units' = Units /\ SuffixSet' = SuffixSet
  BY SameLayer DEF SuffixSet
<1> QED
  BY <1>1 DEF StageInv

LEMMA NoUnitIn == shape \in Shapes => NoUnit \notin Units
BY UnitFacts

LEMMA CreateKeeps == ASSUME LInv, Create PROVE LInv'
<1>1. UNCHANGED <<shape, lost, rank, unit, pos, stage, pending, param, stash, inners, warm, tuned, untuned, captured>>
  BY DEF Create
<1>2. phase = "create" /\ ((phase' = "load" /\ todo' = Units) \/ (phase' = "dense" /\ todo' = todo))
  <2>1. CASE Packed
    BY <2>1, Zenon DEF Create
  <2>2. CASE ~Packed
    BY <2>2, Zenon DEF Create
  <2> QED
    BY <2>1, <2>2
<1>3. shape \in Shapes /\ unit = NoUnit /\ todo = {} /\ pos = 1
  BY <1>2 DEF LInv, StageInv
<1>4. Placed'
  BY <1>1, <1>2, PlacedNext DEF LInv, Placed
<1>5. HeldInv'
  BY <1>1, HeldNext DEF LInv, HeldInv
<1>6. CompleteInv'
  <2>1. Own(rank) \ Units = {}
    BY DEF Own
  <2> QED
    BY <1>1, <1>2, <2>1, CompleteNext
<1>7. StageInv'
  BY <1>1, <1>2, <1>3, NoUnitIn, StageNext DEF LInv
<1> QED
  BY <1>1, <1>2, <1>4, <1>5, <1>6, <1>7, LoadStep

LEMMA NextUnitKeeps == ASSUME LInv, NextUnit PROVE LInv'
<1>1. UNCHANGED <<shape, lost, rank, phase, stage, pending, param, stash, inners, warm, tuned, untuned, captured>>
  BY DEF NextUnit
<1>2. PICK u \in todo : phase = "load" /\ unit = NoUnit /\ unit' = u /\ todo' = todo \ {u} /\ pos' = 1
  BY DEF NextUnit
<1>3. todo \subseteq Units /\ shape \in Shapes /\ NoUnit \notin Units
  BY NoUnitIn DEF LInv, Placed, StageInv
<1>4. Placed'
  BY <1>1, <1>2, <1>3, PlacedNext DEF LInv, Placed
<1>5. HeldInv'
  BY <1>1, HeldNext DEF LInv, HeldInv
<1>6. CompleteInv'
  <2>1. ASSUME NEW w \in Own(rank) \ todo', NEW j \in 1..4,
               w = unit' => j < pos', <<w, Suffixes[j]>> \notin lost
        PROVE  Has(w, Suffixes[j])'
    <3>1. w # u
      BY <1>2, <2>1
    <3>2. w \in Own(rank) \ todo /\ w # unit
      BY <1>2, <1>3, <2>1, <3>1 DEF Own
    <3>3. Has(w, Suffixes[j])
      BY <1>2, <2>1, <3>2 DEF LInv, CompleteInv
    <3> QED
      BY <1>1, <3>3, HasNext DEF Has
  <2> QED
    BY <1>1, <2>1, CompleteNext
<1>7. StageInv'
  BY <1>1, <1>2, StageNext DEF LInv
<1> QED
  BY <1>1, <1>2, <1>4, <1>5, <1>6, <1>7, LoadStep

\* The matrix's next tensor, once what was here is held, missing or foreign.
LEMMA Advanced ==
  ASSUME LInv, phase = "load", unit # NoUnit, Advance, NEW here, here = unit, NEW name, name = Suffixes[pos],
         UNCHANGED <<shape, lost, rank, phase, todo, param, stash, inners, warm, tuned, untuned, captured>>,
         \A u \in Own(rank) : \A s : Has(u, s) => Has(u, s)',
         here \in Own(rank) /\ <<here, name>> \notin lost => Has(here, name)',
         HeldInv'
  PROVE  LInv'
<1>1. unit \in Units /\ pos \in 1..4 /\ unit \notin todo /\ shape \in Shapes /\ NoUnit \notin Units
  BY NoUnitIn DEF LInv, Placed, StageInv
<1>2. (pos = 4 /\ unit' = NoUnit /\ pos' = 1) \/ (pos # 4 /\ unit' = unit /\ pos' = pos + 1)
  BY DEF Advance
<1>3. Placed'
  <2>1. pos' \in 1..4 /\ unit' \in Units \cup {NoUnit}
    BY <1>1, <1>2
  <2> QED
    BY <2>1, PlacedNext DEF LInv, Placed
<1>4. StageInv'
  <2>1. unit' \notin todo'
    BY <1>1, <1>2 DEF LInv, Placed
  <2> QED
    BY <2>1, StageNext DEF LInv
<1>5. CompleteInv'
  <2>1. ASSUME NEW w \in Own(rank) \ todo', NEW j \in 1..4,
               w = unit' => j < pos', <<w, Suffixes[j]>> \notin lost
        PROVE  Has(w, Suffixes[j])'
    <3>0. w \in Own(rank) /\ w \notin todo /\ w \in Units
      BY <2>1 DEF Own
    <3>1. CASE w = unit /\ j = pos
      BY <2>1, <3>0, <3>1
    <3>2. CASE w = unit /\ j # pos
      <4>1. j < pos
        BY <1>1, <1>2, <2>1, <3>2
      <4>2. Has(w, Suffixes[j])
        BY <2>1, <3>0, <4>1 DEF LInv, CompleteInv
      <4> QED
        BY <3>0, <4>2
    <3>3. CASE w # unit
      <4>1. Has(w, Suffixes[j])
        BY <2>1, <3>0, <3>3 DEF LInv, CompleteInv
      <4> QED
        BY <3>0, <4>1
    <3> QED
      BY <3>1, <3>2, <3>3
  <2> QED
    BY <2>1, CompleteNext
<1> QED
  BY <1>3, <1>4, <1>5, LoadStep

LEMMA SkipKeeps == ASSUME LInv, Skip PROVE LInv'
<1>1. /\ UNCHANGED <<shape, lost, rank, phase, todo, stage, pending, param, stash, inners, warm, tuned, untuned, captured>>
      /\ phase = "load" /\ unit # NoUnit /\ <<unit, Suffixes[pos]>> \in lost /\ Advance
  BY DEF Skip
<1>2. HeldInv'
  BY <1>1, HeldNext DEF LInv, HeldInv
<1>3. \A u \in Own(rank) : \A s : Has(u, s) => Has(u, s)'
  BY <1>1, HasNext DEF Has
<1>4. PICK here, name : here = unit /\ name = Suffixes[pos]
  OBVIOUS
<1> QED
  BY <1>1, <1>2, <1>3, <1>4, Advanced

\* A tensor that cannot be loaded ends the load.
LEMMA RaiseKeeps ==
  ASSUME LInv, phase = "load", Raise,
         UNCHANGED <<shape, lost, rank, todo, param, stash, inners, warm, tuned, untuned, captured>>
  PROVE  LInv'
<1>1. phase' = "raised" /\ UNCHANGED <<unit, pos, stage, pending>>
  BY DEF Raise
<1>2. Placed'
  BY <1>1, PlacedNext DEF LInv, Placed
<1>3. HeldInv'
  BY <1>1, HeldNext DEF LInv, HeldInv
<1>4. CompleteInv'
  BY <1>1, CompleteNext
<1>5. StageInv'
  BY <1>1, StageNext DEF LInv, StageInv
<1> QED
  BY <1>1, <1>2, <1>3, <1>4, <1>5, LoadStep

\* The slice of this tensor goes through the pinned buffer to its place.
LEMMA CopyKeeps ==
  ASSUME LInv, Readable, NEW v, NEW dest, Copy(v, dest),
         UNCHANGED <<shape, lost, rank, todo, param, stash, inners, warm, tuned, untuned, captured>>,
         unit \in Own(rank), dest = Dest(unit, Suffixes[pos]), Sound(unit, Suffixes[pos], v)
  PROVE  LInv'
<1>1. phase = "load" /\ unit # NoUnit /\ <<unit, Suffixes[pos]>> \notin lost /\ pending = <<>>
  BY DEF Readable, Synchronous
<1>2. stage' = v /\ pending' = <<dest>> /\ Advance /\ phase' = phase
  BY <1>1 DEF Copy
<1>3. Suffixes[pos] \in SuffixSet
  BY DEF LInv, Placed, Suffixes, SuffixSet
<1>4. HeldInv'
  <2>1. pending' = <<Dest(unit, Suffixes[pos])>> /\ Sound(unit, Suffixes[pos], stage')
    BY <1>2
  <2> QED
    BY <1>3, <2>1, HeldNext DEF LInv, HeldInv
<1>5. \A u \in Own(rank) : \A s : Has(u, s) => Has(u, s)'
  BY <1>1, HasNext DEF Has
<1>6. PICK here, name : here = unit /\ name = Suffixes[pos]
  OBVIOUS
<1>7. Has(here, name)'
  BY <1>2, <1>6, HasNext
<1> QED
  BY <1>1, <1>2, <1>4, <1>5, <1>6, <1>7, Advanced

LEMMA HereIs ==
  ASSUME LInv, Readable
  PROVE  /\ unit \in Units /\ Suffixes[pos] \in SuffixSet /\ shape \in Shapes /\ rank \in Nat
         /\ Here = Tensor(unit, Suffixes[pos])
         /\ Shard(rank, How(unit), Here) = Slice(rank, unit, Suffixes[pos])
         /\ Slice(rank, unit, Suffixes[pos]).suffix = Suffixes[pos]
         /\ phase = "load" /\ unit # NoUnit /\ <<unit, Suffixes[pos]>> \notin lost /\ pending = <<>>
<1>1. /\ unit \in Units /\ Suffixes[pos] \in SuffixSet /\ shape \in Shapes /\ rank \in Nat
      /\ phase = "load" /\ unit # NoUnit /\ <<unit, Suffixes[pos]>> \notin lost /\ pending = <<>>
  BY ShapeFacts DEF Readable, Synchronous, LInv, Placed, StageInv, Suffixes, SuffixSet
<1>2. Here = Tensor(unit, Suffixes[pos])
  BY DEF Here
<1>3. Shard(rank, How(unit), Here) = Slice(rank, unit, Suffixes[pos])
  BY <1>2 DEF Slice
<1>4. Slice(rank, unit, Suffixes[pos]).suffix = Suffixes[pos]
  <2>1. \A r : \A u \in Units, s \in SuffixSet : Slice(r, u, s).suffix = s
    BY <1>1, SliceSuffix
  <2> QED
    BY <1>1, <2>1
<1> QED
  BY <1>1, <1>2, <1>3, <1>4

LEMMA NotScrambled ==
  ASSUME shape \in Shapes, NEW u \in Units, NEW s \in SuffixSet, NEW r, NEW no, no = FALSE
  PROVE  [Slice(r, u, s) EXCEPT !.scrambled = no] = Slice(r, u, s)
<1>1. PICK k, rows, cols : Slice(r, u, s) = [unit |-> u, suffix |-> s, k |-> k, rows |-> rows, cols |-> cols,
                                             scrambled |-> no]
  BY SliceIs DEF SuffixSet
<1> DEFINE w == [unit |-> u, suffix |-> s, k |-> k, rows |-> rows, cols |-> cols, scrambled |-> no]
<1>2. [w EXCEPT !.scrambled = no] = w
  OBVIOUS
<1>3. Slice(r, u, s) = w
  BY <1>1
<1> HIDE DEF w
<1> QED
  BY <1>2, <1>3

LEMMA LoadExpertKeeps == ASSUME LInv, LoadExpert PROVE LInv'
<1>1. Readable /\ Moe /\ UNCHANGED <<shape, lost, rank, todo, param, stash, inners, warm, tuned, untuned, captured>>
  BY DEF LoadExpert
<1> DEFINE s == Suffixes[pos]
           v == Slice(rank, unit, s)
           bad == Uneven(How(unit), Here) \/ Numel(Dims(v)) # Numel(Declared(unit, s))
           no == Dims(v) \notin {Declared(unit, s), <<>>}
<1>2. /\ unit \in Units /\ s \in SuffixSet /\ shape \in Shapes /\ rank \in Nat
      /\ Here = Tensor(unit, s) /\ Shard(rank, How(unit), Here) = v /\ v.suffix = s
      /\ phase = "load" /\ <<unit, s>> \notin lost
  BY <1>1, HereIs
<1>3. IF bad THEN Raise ELSE Copy([v EXCEPT !.scrambled = no], <<"param", unit, s>>)
  <2> HIDE DEF s, v
  <2> QED
    BY <1>2 DEF LoadExpert, Declared
<1>4. CASE bad
  BY <1>1, <1>2, <1>3, <1>4, RaiseKeeps
<1>5. CASE ~bad
  <2>1. Copy([v EXCEPT !.scrambled = no], <<"param", unit, s>>)
    BY <1>3, <1>5
  <2>2. ~Uneven(How(unit), Tensor(unit, s)) /\ Numel(Dims(v)) = Numel(Declared(unit, s))
    BY <1>2, <1>5
  <2>3. Dims(v) \in {Declared(unit, s), <<>>}
    BY <1>1, <1>2, <2>2, SameSize
  <2>4. no = FALSE
    BY <2>3
  <2> HIDE DEF no, bad
  <2>5. [v EXCEPT !.scrambled = no] = v
    BY <1>2, <2>4, NotScrambled
  <2>6. Copy(v, <<"param", unit, s>>)
    BY <2>1, <2>5
  <2>7. unit \in Own(rank)
    BY <1>1, <1>2 DEF Own
  <2>8. <<"param", unit, s>> = Dest(unit, s)
    BY <1>1 DEF Dest, InParam
  <2>9. Sound(unit, s, v)
    BY <1>2, <2>2 DEF Sound
  <2> QED
    BY <1>1, <2>6, <2>7, <2>8, <2>9, CopyKeeps
<1> QED
  BY <1>4, <1>5

\* The slices a rank passes over are those of other ranks.
LEMMA OursIs ==
  ASSUME LInv, unit \in Units, ~Moe
  PROVE  /\ LocalId = unit[2] - Offset(rank)
         /\ ForeignSlice <=> unit \notin Own(rank)
<1>1. /\ shape \in Shapes /\ rank \in 0..(Tp - 1) /\ Tp \in Nat /\ Tp > 0 /\ shape.groups \in Nat
  BY ShapeFacts DEF LInv, Placed, StageInv
<1>2. CASE shape.groups > 0
  <2>1. /\ LocalSlices \in Nat /\ shape.groups = Tp * LocalSlices /\ unit[2] \in 0..shape.groups - 1
    BY <1>1, <1>2, ShapeFacts, UnitFacts
  <2>2. Offset(rank) = rank * LocalSlices
    BY <1>2 DEF Offset
  <2>3. unit \in Own(rank) <=> unit[2] - Offset(rank) \in 0..(LocalSlices - 1)
    BY <1>2 DEF Own
  <2>4. CASE Tp > 1
    BY <1>2, <2>2, <2>3, <2>4 DEF LocalId, ForeignSlice
  <2>5. CASE ~(Tp > 1)
    <3>1. Tp = 1 /\ rank = 0
      BY <1>1, <2>5
    <3>2. Offset(rank) = 0 /\ shape.groups = LocalSlices
      BY <2>1, <2>2, <3>1
    <3>3. unit \in Own(rank) /\ unit[2] - Offset(rank) = unit[2]
      BY <2>1, <2>3, <3>2
    <3> QED
      BY <2>5, <3>3 DEF LocalId, ForeignSlice
  <2> QED
    BY <2>4, <2>5
<1>3. CASE ~(shape.groups > 0)
  <2>1. shape.groups = 0
    BY <1>1, <1>3
  <2>2. unit[2] \in Int
    <3>1. Len(shape.outs) \in Nat /\ Len(shape.outs) > 0
      BY <1>1, ShapeFacts
    <3>2. ASSUME NEW l \in Nat, l > 0 PROVE l > 1 \/ l = 1
      BY <3>2
    <3>3. Len(shape.outs) > 1 \/ Len(shape.outs) = 1
      BY <3>1, <3>2
    <3>4. unit[2] \in 0..Len(shape.outs) - 1 \/ unit[2] = NoId
      BY <1>1, <2>1, <3>3, UnitFacts
    <3> QED
      BY <3>1, <3>4 DEF NoId
  <2>3. Offset(rank) = 0 /\ unit \in Own(rank)
    BY <1>3 DEF Offset, Own
  <2> QED
    BY <1>3, <2>2, <2>3 DEF LocalId, ForeignSlice
<1> QED
  BY <1>2, <1>3

LEMMA LoadLinearKeeps == ASSUME LInv, LoadLinear PROVE LInv'
<1>1. Readable /\ ~Moe /\ UNCHANGED <<shape, lost, rank, todo, param, stash, inners, warm, tuned, untuned, captured>>
  BY DEF LoadLinear
<1> DEFINE s == Suffixes[pos]
           v == Slice(rank, unit, s)
<1>2. /\ unit \in Units /\ s \in SuffixSet /\ shape \in Shapes /\ rank \in Nat
      /\ Here = Tensor(unit, s) /\ Shard(rank, How(unit), Here) = v /\ v.suffix = s
      /\ phase = "load" /\ unit # NoUnit /\ <<unit, s>> \notin lost
  BY <1>1, HereIs
<1> HIDE DEF v
<1>3. \/ ForeignSlice /\ Advance /\ UNCHANGED <<phase, stage, pending>>
      \/ Raise
      \/ /\ ~ForeignSlice /\ ~Uneven(How(unit), Here)
         /\ \/ unit[2] # NoId /\ Copy(v, <<"stash", <<0, LocalId>>, s>>)
            \/ unit[2] = NoId /\ Copy(v, <<"param", unit, s>>)
  <2> HIDE DEF s
  <2> DEFINE misfit == v.suffix \in {"suh", "svh"} /\ Dims(v) # <<IF v.suffix = "suh" THEN InPart ELSE SumOf(Parts)>>
  <2>1. IF ForeignSlice THEN Advance /\ UNCHANGED <<phase, stage, pending>>
        ELSE IF Uneven(How(unit), Here) THEN Raise
        ELSE IF unit[2] # NoId THEN Copy(v, <<"stash", <<0, LocalId>>, v.suffix>>)
        ELSE IF misfit THEN Raise
        ELSE Copy(v, <<"param", unit, v.suffix>>)
    BY <1>2 DEF LoadLinear
  <2> HIDE DEF misfit
  <2> QED
    BY <1>2, <2>1
<1>4. LocalId = unit[2] - Offset(rank) /\ (ForeignSlice <=> unit \notin Own(rank))
  BY <1>1, <1>2, OursIs
<1>5. CASE ForeignSlice /\ Advance /\ UNCHANGED <<phase, stage, pending>>
  <2>1. HeldInv'
    BY <1>1, <1>5, HeldNext DEF LInv, HeldInv
  <2>2. \A u \in Own(rank) : \A t : Has(u, t) => Has(u, t)'
    BY <1>1, <1>5, HasNext DEF Has
  <2>3. PICK here, name : here = unit /\ name = Suffixes[pos]
    OBVIOUS
  <2>4. here \notin Own(rank)
    BY <1>4, <1>5, <2>3
  <2> QED
    BY <1>1, <1>2, <1>5, <2>1, <2>2, <2>3, <2>4, Advanced
<1>6. CASE Raise
  BY <1>1, <1>2, <1>6, RaiseKeeps
<1>7. CASE /\ ~ForeignSlice /\ ~Uneven(How(unit), Here)
           /\ \/ unit[2] # NoId /\ Copy(v, <<"stash", <<0, LocalId>>, s>>)
              \/ unit[2] = NoId /\ Copy(v, <<"param", unit, s>>)
  <2>1. unit \in Own(rank)
    BY <1>2, <1>4, <1>7
  <2>2. Sound(unit, s, v)
    BY <1>2, <1>7 DEF Sound, v
  <2>3. Copy(v, Dest(unit, s))
    <3>1. CASE unit[2] # NoId
      <4>1. Dest(unit, s) = <<"stash", <<0, LocalId>>, s>>
        BY <1>1, <1>4, <3>1 DEF Dest, InParam, StashKey
      <4> QED
        BY <1>7, <3>1, <4>1
    <3>2. CASE unit[2] = NoId
      <4>1. Dest(unit, s) = <<"param", unit, s>>
        BY <3>2 DEF Dest, InParam
      <4> QED
        BY <1>7, <3>2, <4>1
    <3> QED
      BY <3>1, <3>2
  <2>4. PICK dest : dest = Dest(unit, s)
    OBVIOUS
  <2>5. Copy(v, dest)
    BY <2>3, <2>4
  <2> QED
    BY <1>1, <2>1, <2>2, <2>4, <2>5, CopyKeeps
<1> QED
  BY <1>3, <1>5, <1>6, <1>7

LEMMA DmaKeeps == ASSUME LInv, Dma PROVE LInv'
<1>1. /\ UNCHANGED <<shape, lost, rank, phase, todo, unit, pos, stage, inners, warm, tuned, untuned, captured>>
      /\ pending # <<>>
  BY DEF Dma
<1>2. PICK u \in Own(rank), s \in SuffixSet : pending = <<Dest(u, s)>> /\ Sound(u, s, stage)
  BY <1>1 DEF LInv, HeldInv
<1> DEFINE key == IF InParam(u) THEN <<u, s>> ELSE <<StashKey(u), s>>
           Put(f) == [d \in DOMAIN f \cup {key} |-> IF d = key THEN stage ELSE f[d]]
<1>3. Head(pending) = Dest(u, s) /\ Tail(pending) = <<>>
  BY <1>2
<1>4. phase \notin {"create", "ready"} /\ u \in Units
  BY <1>1 DEF LInv, StageInv, Own
<1>5. /\ pending' = <<>>
      /\ IF InParam(u) THEN param' = Put(param) /\ stash' = stash
                       ELSE stash' = Put(stash) /\ param' = param
  <2>1. pending' = <<>>
    BY <1>3 DEF Dma
  <2>2. CASE InParam(u)
    <3>1. Dest(u, s) = <<"param", u, s>> /\ key = <<u, s>>
      BY <2>2 DEF Dest
    <3>2. Dest(u, s)[1] = "param" /\ <<Dest(u, s)[2], Dest(u, s)[3]>> = key
      BY <3>1
    <3> HIDE DEF key
    <3>3. param' = Put(param) /\ stash' = stash
      BY <1>3, <3>2 DEF Dma
    <3> QED
      BY <2>1, <2>2, <3>3
  <2>3. CASE ~InParam(u)
    <3>1. Dest(u, s) = <<"stash", StashKey(u), s>> /\ key = <<StashKey(u), s>>
      BY <2>3 DEF Dest
    <3>2. Dest(u, s)[1] # "param" /\ <<Dest(u, s)[2], Dest(u, s)[3]>> = key
      BY <3>1
    <3> HIDE DEF key
    <3>3. stash' = Put(stash) /\ param' = param
      BY <1>3, <3>2 DEF Dma
    <3> QED
      BY <2>1, <2>3, <3>3
  <2> QED
    BY <2>2, <2>3
<1>6. HeldInv'
  <2>1. ASSUME NEW d \in DOMAIN param'
        PROVE  \E w \in Own(rank), t \in SuffixSet : InParam(w) /\ d = <<w, t>> /\ Sound(w, t, param'[d])
    <3>1. CASE InParam(u) /\ d = <<u, s>>
      <4>1. param'[d] = stage
        BY <1>5, <2>1, <3>1
      <4> QED
        BY <1>2, <3>1, <4>1
    <3>2. CASE ~(InParam(u) /\ d = <<u, s>>)
      <4>1. d \in DOMAIN param /\ param'[d] = param[d]
        BY <1>5, <2>1, <3>2
      <4> QED
        BY <4>1 DEF LInv, HeldInv
    <3> QED
      BY <3>1, <3>2
  <2>2. ASSUME NEW d \in DOMAIN stash'
        PROVE  \E w \in Own(rank), t \in SuffixSet :
                 ~InParam(w) /\ d = <<StashKey(w), t>> /\ Sound(w, t, stash'[d])
    <3>1. CASE ~InParam(u) /\ d = <<StashKey(u), s>>
      <4>1. stash'[d] = stage
        BY <1>5, <2>2, <3>1
      <4> QED
        BY <1>2, <3>1, <4>1
    <3>2. CASE ~(~InParam(u) /\ d = <<StashKey(u), s>>)
      <4>1. d \in DOMAIN stash /\ stash'[d] = stash[d]
        BY <1>5, <2>2, <3>2
      <4> QED
        BY <4>1 DEF LInv, HeldInv
    <3> QED
      BY <3>1, <3>2
  <2>3. DOMAIN stash' = {} => stash' = <<>>
    <3>1. CASE InParam(u)
      BY <1>5, <3>1 DEF LInv, HeldInv
    <3>2. CASE ~InParam(u)
      <4>1. key \in DOMAIN stash'
        BY <1>5, <3>2
      <4> QED
        BY <4>1
    <3> QED
      BY <3>1, <3>2
  <2> HIDE DEF key
  <2> QED
    BY <1>1, <1>5, <2>1, <2>2, <2>3, HeldNext
<1>7. ASSUME NEW w, NEW t, Has(w, t) PROVE Has(w, t)'
  <2>1. CASE pending = <<Dest(w, t)>>
    <3>1. Dest(w, t) = Dest(u, s)
      BY <1>2, <2>1
    <3>2. /\ InParam(w) <=> InParam(u)
          /\ InParam(w) => <<w, t>> = <<u, s>>
          /\ ~InParam(w) => <<StashKey(w), t>> = <<StashKey(u), s>>
      BY <3>1 DEF Dest
    <3>3. IF InParam(w) THEN <<w, t>> \in DOMAIN param' ELSE <<StashKey(w), t>> \in DOMAIN stash'
      BY <1>5, <3>2
    <3> QED
      BY <1>1, <3>3, HasNext
  <2>2. CASE pending # <<Dest(w, t)>>
    <3>1. IF InParam(w) THEN <<w, t>> \in DOMAIN param ELSE <<StashKey(w), t>> \in DOMAIN stash
      BY <1>7, <2>2 DEF Has
    <3>2. DOMAIN param \subseteq DOMAIN param' /\ DOMAIN stash \subseteq DOMAIN stash'
      BY <1>5
    <3>3. IF InParam(w) THEN <<w, t>> \in DOMAIN param' ELSE <<StashKey(w), t>> \in DOMAIN stash'
      BY <3>1, <3>2
    <3> QED
      BY <1>1, <3>3, HasNext
  <2> QED
    BY <2>1, <2>2
<1>8. CompleteInv'
  <2>1. ASSUME NEW w \in Own(rank) \ todo', NEW j \in 1..4,
               phase' \in {"load", "ready"}, w = unit' => j < pos', <<w, Suffixes[j]>> \notin lost
        PROVE  Has(w, Suffixes[j])'
    <3>1. Has(w, Suffixes[j])
      BY <1>1, <2>1 DEF LInv, CompleteInv
    <3> QED
      BY <1>7, <3>1
  <2> QED
    BY <1>1, <2>1, CompleteNext
<1>9. Placed' /\ StageInv'
  <2>1. Placed'
    BY <1>1, PlacedNext DEF LInv, Placed
  <2>2. StageInv'
    BY <1>1, <1>4, StageNext DEF LInv, StageInv
  <2> QED
    BY <2>1, <2>2
<1> QED
  BY <1>1, <1>4, <1>6, <1>8, <1>9, LoadStep

-----------------------------------------------------------------------------
(* The handles *)

LEMMA Greatest ==
  ASSUME NEW m \in Nat, NEW T \in SUBSET (0..m), T # {}
  PROVE  \E i \in T : \A j \in T : j <= i
<1> DEFINE S == {m - j : j \in T}
<1>1. S \in SUBSET Nat /\ S # {}
  <2>1. \A j \in T : m - j \in Nat
    OBVIOUS
  <2>2. PICK j \in T : TRUE
    OBVIOUS
  <2>3. m - j \in S
    BY <2>2
  <2> QED
    BY <2>1, <2>3
<1>2. PICK k \in S : \A l \in S : k <= l
  BY <1>1, Least, Zenon
<1>3. PICK i \in T : k = m - i
  BY <1>2
<1>4. ASSUME NEW j \in T PROVE j <= i
  <2>1. m - j \in S
    OBVIOUS
  <2>2. m - i <= m - j
    BY <1>2, <1>3, <2>1
  <2> QED
    BY <2>2
<1> QED
  BY <1>4

\* The units of a rank are those with a number among its own.
LEMMA OwnGroup ==
  ASSUME shape \in Shapes, ~Moe, shape.groups > 0, NEW r \in 0..Tp - 1
  PROVE  /\ Offset(r) = r * LocalSlices /\ Offset(r) \in Nat /\ HandleCount = LocalSlices
         /\ \A l \in 0..LocalSlices - 1 : <<0, l + Offset(r)>> \in Own(r)
         /\ \A u \in Own(r) : u[2] - Offset(r) \in 0..LocalSlices - 1
<1>1. /\ Tp \in Nat /\ LocalSlices \in Nat /\ LocalSlices > 0 /\ shape.groups = Tp * LocalSlices
      /\ shape.groups \in Nat
  BY ShapeFacts
<1>2. Offset(r) = r * LocalSlices /\ r * LocalSlices = LocalSlices * r /\ LocalSlices * r \in Nat
  BY <1>1, Product DEF Offset
<1>3. ASSUME NEW l \in 0..LocalSlices - 1 PROVE <<0, l + Offset(r)>> \in Own(r)
  <2>1. LocalSlices * r + l < LocalSlices * Tp
    BY <1>1, Below
  <2>2. l + Offset(r) \in 0..shape.groups - 1
    BY <1>1, <1>2, <2>1
  <2>3. <<0, l + Offset(r)>> \in Units
    BY <2>2 DEF Units
  <2>4. (l + Offset(r)) - Offset(r) = l
    BY <1>2
  <2> QED
    BY <2>3, <2>4 DEF Own
<1>4. HandleCount = LocalSlices
  BY DEF HandleCount
<1>5. \A u \in Own(r) : u[2] - Offset(r) \in 0..LocalSlices - 1
  BY DEF Own
<1> QED
  BY <1>2, <1>3, <1>4, <1>5

\* The same for a merged linear, and the number of its parts.
LEMMA OwnParts ==
  ASSUME shape \in Shapes, ~Moe, NEW r \in 0..Tp - 1, shape.groups > 0 \/ Len(shape.outs) # 1
  PROVE  /\ Offset(r) \in Nat /\ HandleCount \in Nat /\ HandleCount > 0
         /\ \A l \in 0..HandleCount - 1 : <<0, l + Offset(r)>> \in Own(r)
         /\ \A u \in Own(r) : /\ u[2] \in Int /\ u[2] - Offset(r) \in 0..HandleCount - 1
                              /\ u = <<0, (u[2] - Offset(r)) + Offset(r)>> /\ ~InParam(u)
         /\ Len(Parts) = Len(shape.outs) /\ (Len(Parts) > 1 <=> shape.groups = 0)
         /\ HandleCount = IF shape.groups > 0 THEN LocalSlices ELSE Len(Parts)
<1>1. /\ shape.groups \in Nat /\ shape.outs \in Seq(Nat) /\ Len(shape.outs) \in Nat /\ Len(shape.outs) > 0
      /\ shape.groups > 0 => Len(shape.outs) = 1 /\ LocalSlices \in Nat /\ LocalSlices > 0
  BY ShapeFacts
<1>2. Len(Parts) = Len(shape.outs)
  <2> DEFINE F(i) == IF shape.parallel = "col" THEN shape.outs[i] \div Tp ELSE shape.outs[i]
  <2>1. Parts = [i \in 1..Len(shape.outs) |-> F(i)]
    BY <1>1 DEF Parts
  <2> HIDE DEF F
  <2> QED
    BY <1>1, <2>1
<1>3. \A l \in Nat : l > 0 /\ l # 1 => l > 1
  OBVIOUS
<1>4. CASE shape.groups > 0
  <2>1. ASSUME NEW u \in Own(r)
        PROVE  u[2] \in Int /\ u = <<0, (u[2] - Offset(r)) + Offset(r)>> /\ ~InParam(u)
    <3>1. u \in Units
      BY DEF Own
    <3>2. u = <<0, u[2]>> /\ u[2] \in Int /\ ~InParam(u)
      BY <1>1, <1>4, <3>1, UnitFacts
    <3>3. (u[2] - Offset(r)) + Offset(r) = u[2]
      BY <1>4, <3>2, OwnGroup
    <3> QED
      BY <3>2, <3>3
  <2>2. ~(Len(Parts) > 1) /\ shape.groups # 0
    <3>1. \A l \in Nat : l = 1 => ~(l > 1)
      OBVIOUS
    <3>2. \A g \in Nat : g > 0 => g # 0
      OBVIOUS
    <3> QED
      BY <1>1, <1>2, <1>4, <3>1, <3>2
  <2> QED
    BY <1>1, <1>2, <1>4, <2>1, <2>2, OwnGroup
<1>5. CASE ~(shape.groups > 0)
  <2>1. shape.groups = 0 /\ Len(shape.outs) > 1
    <3>1. \A g \in Nat : ~(g > 0) => g = 0
      OBVIOUS
    <3>2. shape.groups = 0
      BY <1>1, <1>5, <3>1
    <3>3. Len(shape.outs) # 1
      BY <1>5
    <3> QED
      BY <1>1, <1>3, <3>2, <3>3
  <2>2. Offset(r) = 0 /\ HandleCount = Len(shape.outs) /\ Own(r) = Units
    BY <2>1 DEF Offset, HandleCount, Own
  <2>3. Units = {<<0, i>> : i \in 0..Len(shape.outs) - 1}
    BY <2>1 DEF Units
  <2>4. \A l \in 0..HandleCount - 1 : <<0, l + Offset(r)>> \in Own(r)
    BY <1>1, <2>2, <2>3
  <2>5. ASSUME NEW u \in Own(r)
        PROVE  /\ u[2] \in Int /\ u[2] - Offset(r) \in 0..HandleCount - 1
               /\ u = <<0, (u[2] - Offset(r)) + Offset(r)>> /\ ~InParam(u)
    <3>1. PICK i \in 0..Len(shape.outs) - 1 : u = <<0, i>>
      BY <2>2, <2>3
    <3>2. u[2] = i /\ i \in Nat
      BY <3>1
    <3>3. ~InParam(u)
      BY <3>2 DEF InParam, NoId
    <3> QED
      BY <1>1, <2>2, <3>1, <3>2, <3>3
  <2> QED
    BY <1>1, <1>2, <1>5, <2>1, <2>2, <2>4, <2>5
<1> QED
  BY <1>4, <1>5

\* A unit's tensor that is held is the right slice.
LEMMA Kept ==
  ASSUME LInv, NEW u \in Own(rank), NEW s \in SuffixSet
  PROVE  /\ InParam(u) /\ <<u, s>> \in DOMAIN param => Sound(u, s, param[<<u, s>>])
         /\ ~InParam(u) /\ <<StashKey(u), s>> \in DOMAIN stash => Sound(u, s, stash[<<StashKey(u), s>>])
<1>1. shape \in Shapes /\ rank \in 0..Tp - 1 /\ u \in Units
  BY DEF LInv, Placed, StageInv, Own
<1>2. ASSUME InParam(u), <<u, s>> \in DOMAIN param PROVE Sound(u, s, param[<<u, s>>])
  <2>1. PICK w \in Own(rank), t \in SuffixSet : <<u, s>> = <<w, t>> /\ Sound(w, t, param[<<u, s>>])
    BY <1>2 DEF LInv, HeldInv
  <2> QED
    BY <2>1
<1>3. ASSUME ~InParam(u), <<StashKey(u), s>> \in DOMAIN stash
      PROVE  Sound(u, s, stash[<<StashKey(u), s>>])
  <2> DEFINE d == <<StashKey(u), s>>
  <2>1. PICK w \in Own(rank), t \in SuffixSet : ~InParam(w) /\ d = <<StashKey(w), t>> /\ Sound(w, t, stash[d])
    BY <1>3 DEF LInv, HeldInv
  <2>2. StashKey(w) = StashKey(u) /\ t = s
    BY <2>1
  <2>3. w[2] - Offset(rank) = u[2] - Offset(rank)
    BY <2>2 DEF StashKey
  <2>4. ~Moe /\ (shape.groups > 0 \/ Len(shape.outs) # 1)
    <3>1. ~Moe => shape.groups \in Nat
      BY <1>1, ShapeFacts
    <3> QED
      BY <1>1, <1>3, <3>1, UnitFacts
  <2>5. /\ u = <<0, (u[2] - Offset(rank)) + Offset(rank)>>
        /\ w = <<0, (w[2] - Offset(rank)) + Offset(rank)>>
    BY <1>1, <2>4, OwnParts
  <2>6. w = u
    BY <2>3, <2>5
  <2> QED
    BY <2>1, <2>2, <2>6
<1> QED
  BY <1>2, <1>3

\* The keys of the stash are the numbers of its units.
LEMMA StashIs ==
  ASSUME LInv, ~Moe, shape.groups > 0 \/ Len(shape.outs) # 1
  PROVE  /\ \A d \in DOMAIN stash : d[1][2] \in 0..HandleCount - 1 /\ d[2] \in SuffixSet
         /\ \A l \in 0..HandleCount - 1 : StashKey(<<0, l + Offset(rank)>>) = <<0, l>>
         /\ \A u \in Own(rank) : /\ u[2] - Offset(rank) \in 0..HandleCount - 1
                                 /\ StashKey(u) = <<0, u[2] - Offset(rank)>>
                                 /\ u = <<0, (u[2] - Offset(rank)) + Offset(rank)>>
         /\ Ids(stash) \in SUBSET (0..HandleCount - 1)
         /\ \A d \in DOMAIN stash : d = <<<<0, d[1][2]>>, d[2]>>
<1>1. shape \in Shapes /\ rank \in 0..Tp - 1
  BY DEF LInv, Placed, StageInv
<1>2. /\ Offset(rank) \in Nat /\ HandleCount \in Nat
      /\ \A u \in Own(rank) : /\ u[2] - Offset(rank) \in 0..HandleCount - 1
                              /\ u = <<0, (u[2] - Offset(rank)) + Offset(rank)>>
  BY <1>1, OwnParts
<1>3. ASSUME NEW d \in DOMAIN stash
      PROVE  d[1][2] \in 0..HandleCount - 1 /\ d[2] \in SuffixSet /\ d = <<<<0, d[1][2]>>, d[2]>>
  <2>1. PICK u \in Own(rank), s \in SuffixSet : d = <<StashKey(u), s>>
    BY DEF LInv, HeldInv
  <2>2. d[1] = <<0, u[2] - Offset(rank)>> /\ d[2] = s
    BY <2>1 DEF StashKey
  <2> QED
    BY <1>2, <2>1, <2>2
<1>4. ASSUME NEW l \in 0..HandleCount - 1 PROVE StashKey(<<0, l + Offset(rank)>>) = <<0, l>>
  <2>1. (l + Offset(rank)) - Offset(rank) = l
    BY <1>2
  <2> QED
    BY <2>1 DEF StashKey
<1>5. Ids(stash) \in SUBSET (0..HandleCount - 1)
  BY <1>3 DEF Ids
<1>6. \A u \in Own(rank) : StashKey(u) = <<0, u[2] - Offset(rank)>>
  BY DEF StashKey
<1> QED
  BY <1>2, <1>3, <1>4, <1>5, <1>6

\* When all is read, what is this rank's and was there is held.
LEMMA AllHeld ==
  ASSUME LInv, phase \in {"load", "ready"}, todo = {}, unit = NoUnit, pending = <<>>,
         NEW u \in Own(rank), NEW s \in SuffixSet, <<u, s>> \notin lost
  PROVE  IF InParam(u) THEN <<u, s>> \in DOMAIN param ELSE <<StashKey(u), s>> \in DOMAIN stash
<1>1. PICK j \in 1..4 : Suffixes[j] = s
  <2>1. Suffixes[1] = "mul1" /\ Suffixes[2] = "suh" /\ Suffixes[3] = "svh" /\ Suffixes[4] = "trellis"
    BY DEF Suffixes
  <2>2. s \in {"mul1", "suh", "svh", "trellis"}
    BY DEF SuffixSet
  <2> QED
    BY <2>1, <2>2
<1>2. u # unit
  BY NoUnitIn DEF LInv, StageInv, Own
<1>3. Has(u, s)
  BY <1>1, <1>2 DEF LInv, CompleteInv
<1>4. pending # <<Dest(u, s)>>
  OBVIOUS
<1> QED
  BY <1>3, <1>4 DEF Has

\* The number of parts found: for a grouped linear it follows from the last that came.
LEMMA PartsAre ==
  ASSUME LInv, ~Moe, shape.groups > 0 \/ Len(shape.outs) # 1, stash # <<>>
  PROVE  /\ shape.groups = 0 => PartsLoaded = HandleCount
         /\ shape.groups > 0 => /\ PartsLoaded - 1 \in Ids(stash) /\ PartsLoaded \in 1..HandleCount
                                /\ \A l \in Ids(stash) : l < PartsLoaded
<1>1. shape \in Shapes /\ rank \in 0..Tp - 1
  BY DEF LInv, Placed, StageInv
<1>2. /\ HandleCount \in Nat /\ HandleCount > 0 /\ (Len(Parts) > 1 <=> shape.groups = 0)
      /\ HandleCount = IF shape.groups > 0 THEN LocalSlices ELSE Len(Parts)
  BY <1>1, OwnParts
<1>3. ASSUME shape.groups = 0 PROVE PartsLoaded = HandleCount
  <2>1. ~(shape.groups > 0)
    BY <1>3
  <2> QED
    BY <1>2, <1>3, <2>1 DEF PartsLoaded
<1>4. ASSUME shape.groups > 0
      PROVE  /\ PartsLoaded - 1 \in Ids(stash) /\ PartsLoaded \in 1..HandleCount
             /\ \A l \in Ids(stash) : l < PartsLoaded
  <2>1. Ids(stash) \in SUBSET (0..HandleCount - 1)
    BY <1>4, StashIs
  <2>2. DOMAIN stash # {}
    BY DEF LInv, HeldInv
  <2>3. Ids(stash) # {}
    BY <2>2 DEF Ids
  <2>4. \E i \in Ids(stash) : \A j \in Ids(stash) : j <= i
    <3>1. HandleCount - 1 \in Nat
      BY <1>2
    <3> QED
      BY <2>1, <2>3, <3>1, Greatest
  <2> DEFINE top == CHOOSE i \in Ids(stash) : \A j \in Ids(stash) : j <= i
  <2>5. top \in Ids(stash) /\ \A j \in Ids(stash) : j <= top
    BY <2>4
  <2>6. PartsLoaded = 1 + top
    <3>1. shape.groups # 0
      BY <1>1, <1>4, ShapeFacts
    <3>2. ~(Len(Parts) > 1)
      BY <1>2, <3>1
    <3> QED
      BY <3>2 DEF PartsLoaded
  <2> HIDE DEF top
  <2>7. top \in 0..HandleCount - 1
    BY <2>1, <2>5
  <2>8. PartsLoaded - 1 = top /\ PartsLoaded \in 1..HandleCount
    BY <1>2, <2>6, <2>7
  <2>9. \A l \in Ids(stash) : l \in Int /\ l < PartsLoaded
    BY <2>1, <2>5, <2>6, <2>7
  <2> QED
    BY <2>5, <2>8, <2>9
<1> QED
  BY <1>3, <1>4

\* The handles of a rank whose load was whole.
Built(r) ==
  IF Moe THEN [i \in 1..(3 * shape.experts) |-> Handle(param, <<(i - 1) \div 3, (i - 1) % 3>>)]
  ELSE IF stash # <<>> THEN [i \in 1..PartsLoaded |-> Handle(stash, <<0, i - 1>>)]
  ELSE <<Handle(param, <<0, NoId>>)>>

LEMMA HandleIs ==
  ASSUME NEW f, NEW u, NEW w, NEW r, \A s \in SuffixSet : <<u, s>> \in DOMAIN f /\ f[<<u, s>>] = Slice(r, w, s)
  PROVE  Handle(f, u) = Right(r, w)
BY DEF Handle, Held, Right, SuffixSet

LEMMA BuiltRight ==
  ASSUME LInv, phase = "load", todo = {}, unit = NoUnit, pending = <<>>, lost = {}
  PROVE  /\ Built(rank) = [i \in 1..HandleCount |-> Right(rank, UnitAt(rank, i))]
         /\ \A u \in Own(rank), s \in SuffixSet : ~Uneven(How(u), Tensor(u, s))
<1>1. shape \in Shapes /\ rank \in 0..Tp - 1
  BY DEF LInv, Placed, StageInv
<1>2. ASSUME NEW u \in Own(rank), NEW s \in SuffixSet
      PROVE  /\ InParam(u) => <<u, s>> \in DOMAIN param /\ param[<<u, s>>] = Slice(rank, u, s)
             /\ ~InParam(u) => /\ <<StashKey(u), s>> \in DOMAIN stash
                              /\ stash[<<StashKey(u), s>>] = Slice(rank, u, s)
             /\ ~Uneven(How(u), Tensor(u, s))
  <2>1. IF InParam(u) THEN <<u, s>> \in DOMAIN param ELSE <<StashKey(u), s>> \in DOMAIN stash
    BY AllHeld
  <2> QED
    BY <2>1, Kept DEF Sound
<1>3. \A u \in Own(rank), s \in SuffixSet : ~Uneven(How(u), Tensor(u, s))
  BY <1>2
<1>4. CASE Moe
  <2>1. shape.experts \in Nat /\ HandleCount = 3 * shape.experts
    BY <1>1, <1>4, ShapeFacts DEF HandleCount
  <2>2. ASSUME NEW i \in 1..3 * shape.experts
        PROVE  Handle(param, <<(i - 1) \div 3, (i - 1) % 3>>) = Right(rank, UnitAt(rank, i))
    <3>1. i - 1 \in Nat /\ i - 1 < 3 * shape.experts
      BY <2>1
    <3>2. (i - 1) \div 3 \in 0..shape.experts - 1 /\ (i - 1) % 3 \in 0..2
      <4>1. (i - 1) \div 3 \in Nat /\ (i - 1) % 3 \in Nat /\ (i - 1) % 3 < 3
        BY <3>1, Divided
      <4>2. (i - 1) \div 3 < shape.experts
        BY <2>1, <3>1, Below
      <4> QED
        BY <2>1, <4>1, <4>2
    <3> DEFINE u == <<(i - 1) \div 3, (i - 1) % 3>>
    <3>3. u \in Own(rank) /\ InParam(u)
      BY <1>4, <3>2 DEF Own, Units, InParam
    <3>4. UnitAt(rank, i) = u
      BY <1>4 DEF UnitAt
    <3> HIDE DEF u
    <3>5. \A s \in SuffixSet : <<u, s>> \in DOMAIN param /\ param[<<u, s>>] = Slice(rank, u, s)
      BY <1>2, <3>3
    <3>6. Handle(param, u) = Right(rank, u)
      BY <3>5, HandleIs
    <3> QED
      BY <3>4, <3>6 DEF u
  <2> QED
    BY <1>3, <1>4, <2>1, <2>2 DEF Built
<1>5. CASE ~Moe /\ (shape.groups > 0 \/ Len(shape.outs) # 1)
  <2>1. /\ HandleCount \in Nat /\ HandleCount > 0 /\ Offset(rank) \in Nat
        /\ \A l \in 0..HandleCount - 1 : <<0, l + Offset(rank)>> \in Own(rank)
        /\ \A u \in Own(rank) : ~InParam(u)
        /\ \A l \in 0..HandleCount - 1 : StashKey(<<0, l + Offset(rank)>>) = <<0, l>>
    BY <1>1, <1>5, OwnParts, StashIs
  <2>2. ASSUME NEW l \in 0..HandleCount - 1, NEW s \in SuffixSet
        PROVE  /\ <<<<0, l>>, s>> \in DOMAIN stash
               /\ stash[<<<<0, l>>, s>>] = Slice(rank, <<0, l + Offset(rank)>>, s)
    BY <1>2, <2>1
  <2>3. \A l \in 0..HandleCount - 1 : l \in Ids(stash)
    <3>1. \A l \in 0..HandleCount - 1 : <<<<0, l>>, "suh">> \in DOMAIN stash
      BY <2>2 DEF SuffixSet
    <3>2. \A l : <<<<0, l>>, "suh">>[1][2] = l
      OBVIOUS
    <3> QED
      BY <3>1, <3>2 DEF Ids
  <2>4. stash # <<>>
    <3>1. 0 \in 0..HandleCount - 1
      BY <2>1
    <3>2. DOMAIN stash # {}
      BY <2>3, <3>1 DEF Ids
    <3> QED
      BY <3>2
  <2>5. PartsLoaded = HandleCount
    <3>1. CASE shape.groups > 0
      <4>1. PartsLoaded \in 1..HandleCount /\ \A l \in Ids(stash) : l < PartsLoaded
        BY <1>5, <2>4, <3>1, PartsAre
      <4>2. HandleCount - 1 \in Ids(stash)
        BY <2>1, <2>3
      <4> QED
        BY <2>1, <4>1, <4>2
    <3>2. CASE ~(shape.groups > 0)
      <4>1. shape.groups = 0
        BY <1>1, <1>5, <3>2, ShapeFacts
      <4> QED
        BY <1>5, <2>4, <4>1, PartsAre
    <3> QED
      BY <3>1, <3>2
  <2>6. ASSUME NEW i \in 1..HandleCount
        PROVE  Handle(stash, <<0, i - 1>>) = Right(rank, UnitAt(rank, i))
    <3>1. i - 1 \in 0..HandleCount - 1
      BY <2>1
    <3>2. Handle(stash, <<0, i - 1>>) = Right(rank, <<0, (i - 1) + Offset(rank)>>)
      <4> DEFINE key == <<0, i - 1>>
                 w == <<0, (i - 1) + Offset(rank)>>
      <4>1. \A s \in SuffixSet : <<key, s>> \in DOMAIN stash /\ stash[<<key, s>>] = Slice(rank, w, s)
        BY <2>2, <3>1
      <4> HIDE DEF key, w
      <4>2. Handle(stash, key) = Right(rank, w)
        BY <4>1, HandleIs
      <4> QED
        BY <4>2 DEF key, w
    <3>3. UnitAt(rank, i) = <<0, (i - 1) + Offset(rank)>>
      <4>1. CASE shape.groups > 0
        <5>1. Offset(rank) = rank * LocalSlices
          BY <1>5, <4>1 DEF Offset
        <5>2. Offset(rank) + i - 1 = (i - 1) + Offset(rank)
          BY <2>1
        <5> QED
          BY <1>5, <4>1, <5>1, <5>2 DEF UnitAt
      <4>2. CASE ~(shape.groups > 0)
        <5>1. Offset(rank) = 0 /\ (i - 1) + 0 = i - 1
          BY <4>2 DEF Offset
        <5>2. Len(shape.outs) \in Nat /\ Len(shape.outs) > 0 /\ Len(shape.outs) # 1
          BY <1>1, <1>5, <4>2, ShapeFacts
        <5>3. \A l \in Nat : l > 0 /\ l # 1 => l > 1
          OBVIOUS
        <5>4. Len(shape.outs) > 1
          BY <5>2, <5>3
        <5> QED
          BY <1>5, <4>2, <5>1, <5>4 DEF UnitAt
      <4> QED
        BY <4>1, <4>2
    <3> QED
      BY <3>2, <3>3
  <2>7. Built(rank) = [i \in 1..HandleCount |-> Handle(stash, <<0, i - 1>>)]
    BY <1>5, <2>4, <2>5 DEF Built
  <2>8. Built(rank) = [i \in 1..HandleCount |-> Right(rank, UnitAt(rank, i))]
    BY <2>6, <2>7
  <2> QED
    BY <1>3, <2>8
<1>6. CASE ~Moe /\ ~(shape.groups > 0) /\ Len(shape.outs) = 1
  <2> DEFINE u == <<0, NoId>>
  <2>1. ~(Len(shape.outs) > 1)
    <3>1. \A l : l = 1 => ~(l > 1)
      OBVIOUS
    <3> QED
      BY <1>6, <3>1
  <2>2. Units = {u} /\ Own(rank) = {u} /\ UnitAt(rank, 1) = u /\ HandleCount = 1
    BY <1>6, <2>1 DEF Units, Own, UnitAt, HandleCount
  <2>3. InParam(u)
    BY DEF InParam
  <2>4. stash = <<>>
    <3>1. DOMAIN stash = {}
      BY <2>2, <2>3 DEF LInv, HeldInv
    <3> QED
      BY <3>1 DEF LInv, HeldInv
  <2> HIDE DEF u
  <2>5. Handle(param, u) = Right(rank, u)
    BY <1>2, <2>2, <2>3, HandleIs
  <2>6. Built(rank) = <<Right(rank, u)>>
    BY <1>6, <2>4, <2>5 DEF Built, u
  <2>7. <<Right(rank, u)>> = [i \in 1..HandleCount |-> Right(rank, UnitAt(rank, i))]
    <3>1. \A i \in 1..1 : i = 1
      OBVIOUS
    <3>2. \A x : <<x>> = [i \in 1..1 |-> x]
      OBVIOUS
    <3>3. [i \in 1..HandleCount |-> Right(rank, UnitAt(rank, i))] = [i \in 1..1 |-> Right(rank, u)]
      BY <2>2, <3>1
    <3> QED
      BY <3>2, <3>3
  <2> QED
    BY <1>3, <2>6, <2>7
<1> QED
  BY <1>4, <1>5, <1>6

LEMMA ProcessKeeps == ASSUME LInv, Process PROVE LInv'
<1>1. /\ UNCHANGED <<shape, lost, rank, todo, unit, pos, stage, pending, param, stash, warm, tuned, untuned, captured>>
      /\ phase = "load" /\ todo = {} /\ unit = NoUnit /\ pending = <<>>
      /\ IF Refused THEN phase' = "raised" /\ UNCHANGED inners
         ELSE phase' = "ready" /\ inners' = [inners EXCEPT ![rank] = Built(rank)]
  BY Zenon DEF Process, Synchronous, Built
<1>2. Placed'
  BY <1>1, PlacedNext DEF LInv, Placed
<1>3. HeldInv'
  BY <1>1, HeldNext DEF LInv, HeldInv
<1>4. CompleteInv'
  <2>1. ASSUME NEW w \in Own(rank) \ todo', NEW j \in 1..4,
               phase' \in {"load", "ready"}, w = unit' => j < pos', <<w, Suffixes[j]>> \notin lost
        PROVE  Has(w, Suffixes[j])'
    <3>1. Has(w, Suffixes[j])
      BY <1>1, <2>1 DEF LInv, CompleteInv
    <3> QED
      BY <1>1, <3>1, HasNext DEF Has
  <2> QED
    BY <1>1, <2>1, CompleteNext
<1>5. CASE Refused
  <2>1. phase' = "raised" /\ UNCHANGED inners
    BY <1>1, <1>5
  <2>2. StageInv'
    BY <1>1, <2>1, StageNext DEF LInv, StageInv
  <2> QED
    BY <1>1, <1>2, <1>3, <1>4, <2>1, <2>2, LoadStep
<1>6. CASE ~Refused
  <2>1. phase' = "ready" /\ inners' = [inners EXCEPT ![rank] = Built(rank)]
    BY <1>1, <1>6
  <2>2. Refused' <=> Refused
    <3>1. (Moe' <=> Moe) /\ Units' = Units /\ Tp' = Tp
      BY <1>1, SameLayer
    <3>2. Parts' = Parts
      BY <1>1, <3>1 DEF Parts
    <3>3. Ids(stash)' = Ids(stash)
      BY <1>1 DEF Ids
    <3>4. PartsLoaded' = PartsLoaded
      BY <3>2, <3>3 DEF PartsLoaded
    <3> QED
      BY <1>1, <3>1, <3>4 DEF Refused, Suffixes
  <2>3. StageInv'
    <3>1. (Units \X SuffixSet)' = Units \X SuffixSet
      BY <1>1, SameLayer DEF SuffixSet
    <3> QED
      BY <1>1, <1>6, <2>1, <2>2, <3>1 DEF LInv, StageInv
  <2>4. BuiltInv'
    <3>1. Tp' = Tp /\ HandleCount' = HandleCount /\ \A r : Own(r)' = Own(r)
      BY <1>1, SameLayer
    <3>2. /\ \A r, i : UnitAt(r, i)' = UnitAt(r, i)
          /\ \A r, u : Right(r, u)' = Right(r, u)
          /\ \A u, s : Uneven(How(u), Tensor(u, s))' <=> Uneven(How(u), Tensor(u, s))
      BY <1>1, SameSlices
    <3>3. ASSUME lost = {}, NEW r \in 0..rank
          PROVE  /\ inners'[r] = [i \in 1..HandleCount |-> Right(r, UnitAt(r, i))]
                 /\ \A u \in Own(r), s \in SuffixSet : ~Uneven(How(u), Tensor(u, s))
      <4>1. DOMAIN inners = 0..Tp - 1 /\ rank \in 0..Tp - 1
        BY DEF LInv, BuiltInv, Placed
      <4>2. CASE r = rank
        <5>1. inners'[rank] = Built(rank)
          BY <2>1, <4>1
        <5> QED
          BY <1>1, <3>3, <4>2, <5>1, BuiltRight
      <4>3. CASE r # rank
        <5>1. r < rank
          BY <4>1, <4>3
        <5>2. inners'[r] = inners[r]
          BY <2>1, <4>3
        <5> QED
          BY <3>3, <5>1, <5>2 DEF LInv, BuiltInv
      <4> QED
        BY <4>2, <4>3
    <3>4. DOMAIN inners' = 0..Tp - 1
      BY <2>1 DEF LInv, BuiltInv
    <3>5. HandleCount' = HandleCount /\ SuffixSet' = SuffixSet
      BY <3>1 DEF SuffixSet
    <3>6. \A r : [i \in 1..HandleCount |-> Right(r, UnitAt(r, i))]' = [i \in 1..HandleCount |-> Right(r, UnitAt(r, i))]
      BY <3>1, <3>2
    <3> QED
      BY <1>1, <3>1, <3>2, <3>3, <3>4, <3>5, <3>6 DEF BuiltInv
  <2>5. TuneInv'
    BY <1>1, NotTuned DEF LInv, TuneInv
  <2> QED
    BY <1>2, <1>3, <1>4, <2>3, <2>4, <2>5 DEF LInv
<1> QED
  BY <1>5, <1>6

-----------------------------------------------------------------------------
(* The other steps *)

LEMMA LoadInitInv == LoadInit => LInv
<1> SUFFICES ASSUME LoadInit PROVE LInv
  OBVIOUS
<1>1. shape \in Shapes /\ rank = 0 /\ phase = "create" /\ todo = {} /\ unit = NoUnit /\ pos = 1
  BY DEF LoadInit, Fresh
<1>2. stage = Uninit /\ pending = <<>> /\ param = <<>> /\ stash = <<>> /\ warm = FALSE /\ captured = 0
  BY DEF LoadInit, Fresh
<1>3. inners = [r \in 0..(Tp - 1) |-> <<>>]
  BY DEF LoadInit
<1>4. 0 \in 0..Tp - 1
  BY <1>1, ShapeFacts
<1>5. lost \subseteq Units \X SuffixSet /\ \A p, q \in lost : p[1] = q[1]
  <2>1. \A i \in 1..4 : Suffixes[i] \in SuffixSet
    BY DEF Suffixes, SuffixSet
  <2>2. \/ lost = {}
        \/ \E u \in Units, i \in 1..4 : lost = {<<u, Suffixes[i]>>}
        \/ \E u \in Units : lost = {<<u, Suffixes[i]>> : i \in 1..4}
    BY DEF LoadInit
  <2>3. CASE lost = {}
    BY <2>3
  <2>4. ASSUME NEW u \in Units, NEW i \in 1..4, lost = {<<u, Suffixes[i]>>}
        PROVE  lost \subseteq Units \X SuffixSet /\ \A p, q \in lost : p[1] = q[1]
    BY <2>1, <2>4
  <2>5. ASSUME NEW u \in Units, lost = {<<u, Suffixes[i]>> : i \in 1..4}
        PROVE  lost \subseteq Units \X SuffixSet /\ \A p, q \in lost : p[1] = q[1]
    BY <2>1, <2>5
  <2> QED
    BY <2>2, <2>3, <2>4, <2>5
<1>6. Placed
  <2>1. warm \in BOOLEAN
    BY Zenon, <1>2
  <2>2. captured \in {0} \cup CaptureRows
    BY <1>2
  <2>3. rank \in 0..(Tp - 1) /\ pos \in 1..4
    BY <1>1, <1>4
  <2> QED
    BY Zenon, <1>1, <2>1, <2>2, <2>3 DEF Placed, NoUnit
<1>7. HeldInv
  BY <1>2 DEF HeldInv
<1>8. CompleteInv
  BY <1>1 DEF CompleteInv
<1>9. StageInv
  BY <1>1, <1>2, <1>5 DEF StageInv
<1>10. BuiltInv
  BY <1>1, <1>3 DEF BuiltInv
<1>11. TuneInv
  BY <1>2 DEF TuneInv
<1> QED
  BY <1>6, <1>7, <1>8, <1>9, <1>10, <1>11 DEF LInv

LEMMA NextRankKeeps == ASSUME LInv, NextRank PROVE LInv'
<1>1. /\ phase = "ready" /\ rank + 1 < Tp /\ ~warm
      /\ rank' = rank + 1 /\ phase' = "create"
      /\ todo' = {} /\ unit' = NoUnit /\ pos' = 1
      /\ stage' = Uninit /\ pending' = <<>> /\ param' = <<>> /\ stash' = <<>>
      /\ UNCHANGED <<shape, lost, inners, warm, tuned, untuned, captured>>
  BY DEF NextRank
<1>2. /\ Tp' = Tp /\ Units' = Units /\ HandleCount' = HandleCount /\ \A r : Own(r)' = Own(r)
      /\ \A r, i : UnitAt(r, i)' = UnitAt(r, i)
      /\ \A r, u : Right(r, u)' = Right(r, u)
      /\ \A u, s : Uneven(How(u), Tensor(u, s))' <=> Uneven(How(u), Tensor(u, s))
      /\ SuffixSet' = SuffixSet
  BY <1>1, SameLayer, SameSlices DEF SuffixSet
<1>3. rank \in 0..Tp - 1 /\ Tp \in Nat
  BY ShapeFacts DEF LInv, Placed, StageInv
<1>4. Placed'
  <2>1. rank' \in 0..Tp - 1
    BY <1>1, <1>3
  <2> QED
    BY <1>1, <1>2, <2>1 DEF LInv, Placed, NoUnit
<1>5. HeldInv'
  BY <1>1 DEF HeldInv
<1>6. CompleteInv'
  BY <1>1 DEF CompleteInv
<1>7. StageInv'
  BY <1>1, <1>2 DEF LInv, StageInv, NoUnit
<1>8. BuiltInv'
  <2>1. \A r \in 0..rank' : r < rank' => r \in 0..rank
    BY <1>1, <1>3
  <2>2. \A r : [i \in 1..HandleCount |-> Right(r, UnitAt(r, i))]' = [i \in 1..HandleCount |-> Right(r, UnitAt(r, i))]
    BY <1>2
  <2> QED
    BY <1>1, <1>2, <2>1, <2>2 DEF LInv, BuiltInv
<1>9. TuneInv'
  BY <1>1 DEF LInv, TuneInv
<1> QED
  BY <1>4, <1>5, <1>6, <1>7, <1>8, <1>9 DEF LInv

\* What a step that loads nothing keeps.
LEMMA QuietKeeps ==
  ASSUME LInv, UNCHANGED <<shape, lost, rank, phase, todo, unit, pos, stage, pending, param, stash, inners>>,
         warm' \in BOOLEAN, captured' \in {0} \cup CaptureRows, TuneInv'
  PROVE  LInv'
<1>1. /\ Tp' = Tp /\ Units' = Units /\ (Moe' <=> Moe) /\ SuffixSet' = SuffixSet
  BY SameLayer DEF SuffixSet
<1>2. Placed'
  BY <1>1 DEF LInv, Placed, NoUnit
<1>3. HeldInv'
  BY HeldNext DEF LInv, HeldInv
<1>4. CompleteInv'
  BY HasNext, CompleteNext DEF LInv, CompleteInv, Has
<1>5. StageInv'
  <2>1. Parts' = Parts
    BY <1>1 DEF Parts
  <2>2. PartsLoaded' = PartsLoaded
    BY <2>1 DEF PartsLoaded, Ids
  <2>3. Refused' <=> Refused
    BY <1>1, <2>2 DEF Refused, Suffixes
  <2> QED
    BY <1>1, <2>3 DEF LInv, StageInv, NoUnit
<1>6. BuiltInv'
  BY SameBuilt DEF LInv
<1> QED
  BY <1>2, <1>3, <1>4, <1>5, <1>6 DEF LInv

LEMMA PretuneKeeps == ASSUME LInv, Pretune PROVE LInv'
<1>1. /\ phase = "ready" /\ rank = Tp - 1 /\ ~warm /\ warm' = TRUE
      /\ UNCHANGED <<shape, lost, rank, phase, todo, unit, pos, stage, pending, param, stash, inners, captured>>
  BY DEF Pretune
<1>2. PICK reached \in SUBSET Handles :
        /\ untuned' = Handles \ reached
        /\ tuned' = {<<ShapeKey(h), Bucket(m)>> : h \in reached, m \in TuneRows}
  BY DEF Pretune
<1>3. Handles' = Handles /\ Tp' = Tp
  BY <1>1, SameLayer DEF Handles
<1>4. Handles \ untuned' = reached /\ untuned' \subseteq Handles
  BY <1>2
<1>5. TuneInv'
  BY <1>1, <1>2, <1>3, <1>4 DEF TuneInv
<1> QED
  BY <1>1, <1>5, QuietKeeps DEF LInv, Placed

LEMMA CaptureKeeps == ASSUME LInv, Capture PROVE LInv'
<1>1. /\ warm /\ captured' \in CaptureRows
      /\ UNCHANGED <<shape, lost, rank, phase, todo, unit, pos, stage, pending, param, stash, inners,
                     warm, tuned, untuned>>
  BY DEF Capture
<1>2. Handles' = Handles /\ Tp' = Tp
  BY <1>1, SameLayer DEF Handles
<1>3. TuneInv'
  BY <1>1, <1>2 DEF LInv, TuneInv
<1> QED
  BY <1>1, <1>3, QuietKeeps DEF LInv, Placed

LEMMA LoadStepInv == LInv /\ [LoadNext]_loadVars => LInv'
<1> SUFFICES ASSUME LInv, [LoadNext]_loadVars PROVE LInv'
  OBVIOUS
<1>1. CASE UNCHANGED loadVars
  <2>1. UNCHANGED <<shape, lost, rank, phase, todo, unit, pos, stage, pending, param, stash, inners, warm, tuned, untuned, captured>>
    BY <1>1 DEF loadVars
  <2>2. Handles' = Handles /\ Tp' = Tp
    BY <2>1, SameLayer DEF Handles
  <2>3. TuneInv'
    BY <2>1, <2>2 DEF LInv, TuneInv
  <2> QED
    BY <2>1, <2>3, QuietKeeps DEF LInv, Placed
<1>2. CASE LoadNext
  BY <1>2, CreateKeeps, NextUnitKeeps, SkipKeeps, LoadExpertKeeps, LoadLinearKeeps, DmaKeeps, ProcessKeeps,
     NextRankKeeps, PretuneKeeps, CaptureKeeps DEF LoadNext
<1> QED
  BY <1>1, <1>2

-----------------------------------------------------------------------------
(* What the invariant says of the layer *)

\* The handles of a rank are those of its units.
LEMMA UnitsAre ==
  ASSUME shape \in Shapes, NEW r \in 0..Tp - 1
  PROVE  /\ HandleCount \in Nat
         /\ \A i \in 1..HandleCount : UnitAt(r, i) \in Own(r)
         /\ \A u \in Own(r) : \E i \in 1..HandleCount : UnitAt(r, i) = u
<1>1. CASE Moe
  <2>1. shape.experts \in Nat /\ HandleCount = 3 * shape.experts
    BY <1>1, ShapeFacts DEF HandleCount
  <2>2. Own(r) = {<<e, k>> : e \in 0..(shape.experts - 1), k \in 0..2}
    BY <1>1 DEF Own, Units
  <2>3. ASSUME NEW i \in 1..3 * shape.experts PROVE UnitAt(r, i) \in Own(r)
    <3>1. i - 1 \in Nat /\ i - 1 < 3 * shape.experts
      BY <2>1
    <3>2. (i - 1) \div 3 \in Nat /\ (i - 1) % 3 \in Nat /\ (i - 1) % 3 < 3
      BY <3>1, Divided
    <3>3. (i - 1) \div 3 < shape.experts
      BY <2>1, <3>1, Below
    <3>4. (i - 1) \div 3 \in 0..shape.experts - 1 /\ (i - 1) % 3 \in 0..2
      BY <2>1, <3>2, <3>3
    <3> QED
      BY <1>1, <2>2, <3>4 DEF UnitAt
  <2>4. ASSUME NEW u \in Own(r) PROVE \E i \in 1..3 * shape.experts : UnitAt(r, i) = u
    <3>1. PICK e \in 0..(shape.experts - 1), k \in 0..2 : u = <<e, k>>
      BY <2>2
    <3> DEFINE i == 3 * e + k + 1
    <3>2. i \in 1..3 * shape.experts /\ i - 1 = 3 * e + k
      BY <2>1
    <3>3. (3 * e + k) \div 3 = e /\ (3 * e + k) % 3 = k
      BY <2>1
    <3>4. UnitAt(r, i) = u
      BY <1>1, <3>1, <3>2, <3>3 DEF UnitAt
    <3> QED
      BY <3>2, <3>4
  <2> QED
    BY <2>1, <2>3, <2>4
<1>2. CASE ~Moe /\ (shape.groups > 0 \/ Len(shape.outs) # 1)
  <2>1. /\ HandleCount \in Nat /\ Offset(r) \in Nat
        /\ \A l \in 0..HandleCount - 1 : <<0, l + Offset(r)>> \in Own(r)
        /\ \A u \in Own(r) : /\ u[2] - Offset(r) \in 0..HandleCount - 1
                             /\ u = <<0, (u[2] - Offset(r)) + Offset(r)>>
    BY <1>2, OwnParts
  <2>2. \A i \in 1..HandleCount : UnitAt(r, i) = <<0, (i - 1) + Offset(r)>>
    <3>1. CASE shape.groups > 0
      <4>1. Offset(r) = r * LocalSlices
        BY <1>2, <3>1 DEF Offset
      <4>2. \A i \in Int : Offset(r) + i - 1 = (i - 1) + Offset(r)
        BY <2>1
      <4> QED
        BY <1>2, <2>1, <3>1, <4>1, <4>2 DEF UnitAt
    <3>2. CASE ~(shape.groups > 0)
      <4>1. Offset(r) = 0 /\ \A i \in Int : (i - 1) + 0 = i - 1
        BY <3>2 DEF Offset
      <4>2. Len(shape.outs) \in Nat /\ Len(shape.outs) > 0 /\ Len(shape.outs) # 1
        BY <1>2, <3>2, ShapeFacts
      <4>3. \A l \in Nat : l > 0 /\ l # 1 => l > 1
        OBVIOUS
      <4>4. Len(shape.outs) > 1
        BY <4>2, <4>3
      <4> QED
        BY <1>2, <2>1, <3>2, <4>1, <4>4 DEF UnitAt
    <3> QED
      BY <3>1, <3>2
  <2>3. \A i \in 1..HandleCount : i - 1 \in 0..HandleCount - 1
    BY <2>1
  <2>4. ASSUME NEW u \in Own(r) PROVE \E i \in 1..HandleCount : UnitAt(r, i) = u
    <3> DEFINE l == u[2] - Offset(r)
    <3>1. l \in 0..HandleCount - 1 /\ u = <<0, l + Offset(r)>>
      BY <2>1
    <3> HIDE DEF l
    <3>2. l + 1 \in 1..HandleCount /\ (l + 1) - 1 = l
      BY <2>1, <3>1
    <3> QED
      BY <2>2, <3>1, <3>2
  <2> QED
    BY <2>1, <2>2, <2>3, <2>4
<1>3. CASE ~Moe /\ ~(shape.groups > 0) /\ Len(shape.outs) = 1
  <2>1. ~(Len(shape.outs) > 1)
    <3>1. \A l : l = 1 => ~(l > 1)
      OBVIOUS
    <3> QED
      BY <1>3, <3>1
  <2>2. Units = {<<0, NoId>>} /\ Own(r) = {<<0, NoId>>} /\ HandleCount = 1
    BY <1>3, <2>1 DEF Units, Own, HandleCount
  <2>3. \A i : UnitAt(r, i) = <<0, NoId>>
    BY <1>3, <2>1 DEF UnitAt
  <2> QED
    BY <2>2, <2>3
<1> QED
  BY <1>1, <1>2, <1>3

\* A matrix's sharding deals its rows, its columns or the matrix itself out to the ranks.
LEMMA OneRank ==
  ASSUME shape \in Shapes, NEW u \in Units, NEW x \in 0..Ins(u) - 1, NEW y \in 0..Outs(u) - 1,
         \A r \in 0..Tp - 1 : u \in Own(r) => \A s \in SuffixSet : ~Uneven(How(u), Tensor(u, s)),
         Moe \/ shape.groups > 0 \/ Sharding # "none"
  PROVE  \E r \in 0..Tp - 1 : \A t \in 0..Tp - 1 :
           (u \in Own(t) /\ x \in RowsOf(t, u) /\ y \in ColsOf(t, u)) <=> t = r
<1>1. Tp \in Nat /\ Tp > 0 /\ Ins(u) \in Nat /\ Outs(u) \in Nat /\ (~Moe => shape.groups \in Nat)
  BY ShapeFacts, UnitFacts
<1>2. CASE ~Moe /\ shape.groups > 0
  <2>1. /\ How(u) = "none" /\ u[2] \in 0..shape.groups - 1
        /\ LocalSlices \in Nat /\ shape.groups % Tp = 0
    BY <1>1, <1>2, HowFacts, ShapeFacts, UnitFacts, LoadConstants DEF Moe, Tp
  <2>2. \A r : x \in RowsOf(r, u) /\ y \in ColsOf(r, u)
    BY <2>1 DEF RowsOf, ColsOf
  <2>3. ASSUME NEW r \in 0..Tp - 1 PROVE u \in Own(r) <=> u[2] \in Chunk(r, shape.groups)
    <3>1. Offset(r) = r * LocalSlices /\ Offset(r) \in Nat
      BY <1>2, OwnGroup
    <3>2. u \in Own(r) <=> u[2] - Offset(r) \in 0..LocalSlices - 1
      BY <1>2 DEF Own
    <3>3. (r + 1) * LocalSlices = r * LocalSlices + LocalSlices
      BY <2>1
    <3>4. u[2] \in Chunk(r, shape.groups) <=> u[2] \in Offset(r)..(Offset(r) + LocalSlices - 1)
      <4>1. Chunk(r, shape.groups) = (r * LocalSlices)..((r + 1) * LocalSlices - 1)
        BY DEF Chunk, LocalSlices
      <4>2. (r + 1) * LocalSlices = Offset(r) + LocalSlices
        BY <3>1, <3>3, Zenon
      <4>3. PICK a, b : a = r * LocalSlices /\ b = (r + 1) * LocalSlices
        OBVIOUS
      <4>4. Chunk(r, shape.groups) = a..(b - 1)
        BY <4>1, <4>3
      <4>5. a = Offset(r) /\ b = Offset(r) + LocalSlices
        BY <3>1, <4>2, <4>3
      <4>6. Offset(r) \in Nat /\ LocalSlices \in Nat
        BY <2>1, <3>1
      <4> QED
        BY <4>4, <4>5, <4>6
    <3>5. u[2] \in Int
      BY <2>1
    <3> QED
      BY <2>1, <3>1, <3>2, <3>4, <3>5
  <2>4. PICK r \in 0..Tp - 1 : u[2] \in Chunk(r, shape.groups)
    BY <1>1, <1>2, <2>1, ChunkFacts
  <2>5. \A t \in 0..Tp - 1 : u[2] \in Chunk(t, shape.groups) => t = r
    <3>1. \A t \in 0..Tp - 1 : t \in Nat
      OBVIOUS
    <3> QED
      BY <1>1, <1>2, <2>1, <2>4, <3>1, ChunkFacts
  <2> QED
    BY <2>2, <2>3, <2>4, <2>5
<1>3. CASE Moe \/ ~(shape.groups > 0)
  <2>1. \A r : u \in Own(r)
    BY <1>3 DEF Own
  <2>2. How(u) \in {"row", "col"}
    <3>1. CASE Moe
      BY <3>1, HowFacts
    <3>2. CASE ~Moe
      <4>1. shape.groups = 0
        BY <1>1, <1>3, <3>2
      <4> QED
        BY <1>3, <3>2, <4>1, HowFacts
    <3> QED
      BY <3>1, <3>2
  <2>3. ~Uneven(How(u), Tensor(u, "trellis"))
    <3>1. 0 \in 0..Tp - 1 /\ "trellis" \in SuffixSet
      BY <1>1 DEF SuffixSet
    <3> QED
      BY <2>1, <3>1
  <2>4. \A t \in 0..Tp - 1 : t \in Nat
    OBVIOUS
  <2>5. CASE How(u) = "row"
    <3>1. Ins(u) % Tp = 0
      BY <2>3, <2>5, EvenIs DEF SuffixSet
    <3>2. PICK r \in 0..Tp - 1 : x \in Chunk(r, Ins(u))
      BY <1>1, <3>1, ChunkFacts
    <3>3. \A t \in 0..Tp - 1 : x \in Chunk(t, Ins(u)) => t = r
      BY <1>1, <2>4, <3>1, <3>2, ChunkFacts
    <3>4. \A t : RowsOf(t, u) = Chunk(t, Ins(u)) /\ y \in ColsOf(t, u)
      BY <2>5 DEF RowsOf, ColsOf
    <3> QED
      BY <2>1, <3>2, <3>3, <3>4
  <2>6. CASE How(u) = "col"
    <3>1. Outs(u) % Tp = 0
      BY <2>3, <2>6, EvenIs DEF SuffixSet
    <3>2. PICK r \in 0..Tp - 1 : y \in Chunk(r, Outs(u))
      BY <1>1, <3>1, ChunkFacts
    <3>3. \A t \in 0..Tp - 1 : y \in Chunk(t, Outs(u)) => t = r
      BY <1>1, <2>4, <3>1, <3>2, ChunkFacts
    <3>4. \A t : ColsOf(t, u) = Chunk(t, Outs(u)) /\ x \in RowsOf(t, u)
      BY <2>6 DEF RowsOf, ColsOf
    <3> QED
      BY <2>1, <3>2, <3>3, <3>4
  <2> QED
    BY <2>2, <2>5, <2>6
<1> QED
  BY <1>2, <1>3

LEMMA LoadTypeRight == LInv => LoadTypeOK
<1> SUFFICES ASSUME LInv PROVE LoadTypeOK
  OBVIOUS
<1>1. shape \in Shapes /\ rank \in 0..Tp - 1
  BY DEF LInv, Placed, StageInv
<1>2. Len(pending) <= 1
  <2>1. pending = <<>> \/ \E p : pending = <<p>>
    BY DEF LInv, HeldInv
  <2>2. Len(<<>>) <= 1 /\ \A p : Len(<<p>>) <= 1
    OBVIOUS
  <2> QED
    BY <2>1, <2>2
<1>3. ASSUME NEW d \in DOMAIN param PROVE d[1] \in Units /\ param[d].suffix = d[2]
  <2>1. PICK u \in Own(rank), s \in SuffixSet : d = <<u, s>> /\ param[d] = Slice(rank, u, s)
    BY DEF LInv, HeldInv, Sound
  <2>2. u \in Units
    BY DEF Own
  <2> QED
    BY <1>1, <2>1, <2>2, SliceSuffix
<1>4. ASSUME NEW d \in DOMAIN stash
      PROVE  /\ d[1][2] \in 0..((IF shape.groups > 0 THEN LocalSlices ELSE Len(Parts)) - 1)
             /\ stash[d].suffix = d[2]
  <2>1. PICK u \in Own(rank), s \in SuffixSet :
          ~InParam(u) /\ d = <<StashKey(u), s>> /\ stash[d] = Slice(rank, u, s)
    BY DEF LInv, HeldInv, Sound
  <2>2. u \in Units
    BY DEF Own
  <2>3. ~Moe /\ (shape.groups > 0 \/ Len(shape.outs) # 1)
    <3>1. ~Moe => shape.groups \in Nat
      BY <1>1, ShapeFacts
    <3> QED
      BY <1>1, <2>1, <2>2, <3>1, UnitFacts
  <2>4. d[1][2] \in 0..HandleCount - 1
    BY <2>3, StashIs
  <2>5. HandleCount = IF shape.groups > 0 THEN LocalSlices ELSE Len(Parts)
    BY <1>1, <2>3, OwnParts
  <2>6. stash[d].suffix = s /\ d[2] = s
    BY <1>1, <2>1, <2>2, SliceSuffix
  <2> QED
    BY <2>4, <2>5, <2>6
<1> QED
  BY <1>2, <1>3, <1>4 DEF LInv, Placed, LoadTypeOK

LEMMA HandlesAreFit == LInv => HandlesFit
<1> SUFFICES ASSUME LInv, Loaded PROVE HandlesFit
  BY DEF HandlesFit
<1>1. shape \in Shapes /\ rank \in 0..Tp - 1 /\ rank \in 0..rank
  BY ShapeFacts DEF LInv, Placed, StageInv
<1>2. inners[rank] = [i \in 1..HandleCount |-> Right(rank, UnitAt(rank, i))]
  BY <1>1 DEF LInv, BuiltInv, Loaded
<1>3. ASSUME NEW i \in 1..HandleCount
      PROVE  LET h == inners[rank][i]
                 u == h.trellis.unit
             IN /\ h.suh.unit = u /\ h.svh.unit = u
                /\ h.trellis.rows = h.suh.rows /\ h.trellis.cols = h.svh.cols /\ h.trellis.k = KOf(u)
                /\ ~h.trellis.scrambled
                /\ u = UnitAt(rank, i)
  <2> DEFINE w == UnitAt(rank, i)
  <2>1. inners[rank][i] = Right(rank, w)
    BY <1>2
  <2>2. w \in Units
    BY <1>1, UnitsAre DEF Own
  <2> HIDE DEF w
  <2>3. /\ inners[rank][i].trellis = Slice(rank, w, "trellis")
        /\ inners[rank][i].suh = Slice(rank, w, "suh")
        /\ inners[rank][i].svh = Slice(rank, w, "svh")
    BY <2>1 DEF Right
  <2>4. PICK no : no = FALSE
    OBVIOUS
  <2>5. /\ Slice(rank, w, "trellis") = [unit |-> w, suffix |-> "trellis", k |-> KOf(w), rows |-> RowsOf(rank, w),
                                       cols |-> ColsOf(rank, w), scrambled |-> no]
        /\ Slice(rank, w, "suh") = [unit |-> w, suffix |-> "suh", k |-> 0, rows |-> RowsOf(rank, w),
                                   cols |-> {}, scrambled |-> no]
        /\ Slice(rank, w, "svh") = [unit |-> w, suffix |-> "svh", k |-> 0, rows |-> {},
                                   cols |-> ColsOf(rank, w), scrambled |-> no]
    BY <1>1, <2>2, <2>4, SliceIs
  <2>6. /\ inners[rank][i].trellis.unit = w /\ inners[rank][i].suh.unit = w /\ inners[rank][i].svh.unit = w
        /\ inners[rank][i].trellis.rows = inners[rank][i].suh.rows
        /\ inners[rank][i].trellis.cols = inners[rank][i].svh.cols
        /\ inners[rank][i].trellis.k = KOf(w)
    BY <2>3, <2>5
  <2>7. inners[rank][i].trellis.scrambled = no
    BY <2>3, <2>5
  <2> QED
    BY <2>4, <2>6, <2>7 DEF w
<1>4. DOMAIN inners[rank] = 1..HandleCount
  BY <1>2
<1> QED
  BY <1>3, <1>4 DEF HandlesFit, UnitAt

LEMMA TilesAreOnce == LInv => TilesOnce
<1> SUFFICES ASSUME LInv, Loaded, rank = Tp - 1,
                    NEW u \in Units, NEW x \in 0..(Ins(u) - 1), NEW y \in 0..(Outs(u) - 1)
             PROVE  LET having == {r \in 0..(Tp - 1) : \E h \in Whole(r) :
                                     h.trellis.unit = u /\ x \in h.trellis.rows /\ y \in h.trellis.cols}
                    IN IF Moe \/ shape.groups > 0 \/ Sharding # "none" THEN Cardinality(having) = 1
                       ELSE having = 0..(Tp - 1)
  BY DEF TilesOnce
<1> DEFINE Having(r) == \E h \in Whole(r) :
                          h.trellis.unit = u /\ x \in h.trellis.rows /\ y \in h.trellis.cols
           having == {r \in 0..(Tp - 1) : Having(r)}
<1>1. shape \in Shapes /\ Tp \in Nat /\ Tp > 0
  BY ShapeFacts DEF LInv, StageInv
<1>2. ASSUME NEW r \in 0..Tp - 1
      PROVE  /\ inners[r] = [i \in 1..HandleCount |-> Right(r, UnitAt(r, i))]
             /\ \A w \in Own(r), s \in SuffixSet : ~Uneven(How(w), Tensor(w, s))
  <2>1. r \in 0..rank /\ (r < rank \/ phase = "ready")
    BY DEF Loaded
  <2> QED
    BY <2>1 DEF LInv, BuiltInv, Loaded
<1>3. ASSUME NEW r \in 0..Tp - 1
      PROVE  Having(r) <=> u \in Own(r) /\ x \in RowsOf(r, u) /\ y \in ColsOf(r, u)
  <2>1. Whole(r) = {Right(r, UnitAt(r, i)) : i \in 1..HandleCount}
    <3>1. /\ DOMAIN inners[r] = 1..HandleCount
          /\ \A i \in 1..HandleCount : inners[r][i] = Right(r, UnitAt(r, i))
      BY <1>2
    <3> QED
      BY <3>1 DEF Whole
  <2>2. ASSUME NEW w \in Units
        PROVE  /\ Right(r, w).trellis.unit = w /\ Right(r, w).trellis.rows = RowsOf(r, w)
               /\ Right(r, w).trellis.cols = ColsOf(r, w)
    <3>1. PICK no : no = FALSE
      OBVIOUS
    <3>2. Slice(r, w, "trellis") = [unit |-> w, suffix |-> "trellis", k |-> KOf(w), rows |-> RowsOf(r, w),
                                    cols |-> ColsOf(r, w), scrambled |-> no]
      BY <1>1, <3>1, SliceIs
    <3>3. Right(r, w).trellis = Slice(r, w, "trellis")
      BY DEF Right
    <3> QED
      BY <3>2, <3>3
  <2>3. ASSUME Having(r) PROVE u \in Own(r) /\ x \in RowsOf(r, u) /\ y \in ColsOf(r, u)
    <3>1. PICK i \in 1..HandleCount : LET h == Right(r, UnitAt(r, i))
                                      IN h.trellis.unit = u /\ x \in h.trellis.rows /\ y \in h.trellis.cols
      BY <2>1, <2>3
    <3>2. UnitAt(r, i) \in Own(r) /\ UnitAt(r, i) \in Units
      BY <1>1, UnitsAre DEF Own
    <3> QED
      BY <2>2, <3>1, <3>2
  <2>4. ASSUME u \in Own(r), x \in RowsOf(r, u), y \in ColsOf(r, u) PROVE Having(r)
    <3>1. PICK i \in 1..HandleCount : UnitAt(r, i) = u
      BY <1>1, <2>4, UnitsAre
    <3>2. Right(r, u) \in Whole(r)
      BY <2>1, <3>1
    <3> QED
      BY <2>2, <2>4, <3>2
  <2> QED
    BY <2>3, <2>4
<1> HIDE DEF Having
<1>4. CASE Moe \/ shape.groups > 0 \/ Sharding # "none"
  <2>1. \A r \in 0..Tp - 1 : u \in Own(r) => \A s \in SuffixSet : ~Uneven(How(u), Tensor(u, s))
    BY <1>2
  <2>2. PICK r \in 0..Tp - 1 : \A t \in 0..Tp - 1 :
          (u \in Own(t) /\ x \in RowsOf(t, u) /\ y \in ColsOf(t, u)) <=> t = r
    BY <1>1, <1>4, <2>1, OneRank
  <2>3. having = {r}
    BY <1>3, <2>2
  <2> QED
    BY <1>4, <2>3, FS_Singleton DEF Having
<1>5. CASE ~(Moe \/ shape.groups > 0 \/ Sharding # "none")
  <2>1. shape.groups = 0
    BY <1>1, <1>5, ShapeFacts
  <2>2. How(u) = "none"
    BY <1>1, <1>5, <2>1, HowFacts
  <2>3. \A r : u \in Own(r) /\ x \in RowsOf(r, u) /\ y \in ColsOf(r, u)
    BY <1>5, <2>2 DEF Own, RowsOf, ColsOf
  <2>4. having = 0..(Tp - 1)
    BY <1>3, <2>3
  <2> QED
    BY <1>5, <2>4 DEF Having
<1> QED
  BY <1>4, <1>5

LEMMA MissingIsSeen == LInv => MissingRaised
<1> SUFFICES ASSUME LInv, phase = "ready" PROVE MissingRaised
  BY DEF MissingRaised
<1>1. /\ shape \in Shapes /\ rank \in 0..Tp - 1 /\ Tp \in Nat /\ Tp > 0
      /\ todo = {} /\ unit = NoUnit /\ pending = <<>> /\ ~Refused
      /\ \A p, q \in lost : p[1] = q[1]
  BY ShapeFacts DEF LInv, Placed, StageInv
<1>2. \A i \in 1..4 : Suffixes[i] \in SuffixSet
  BY DEF Suffixes, SuffixSet
<1>3. CASE Moe
  <2>1. ASSUME NEW u \in Units PROVE <<u, "mul1">> \notin lost
    <3>1. <<u, "mul1">> \in DOMAIN param
      BY <1>1, <1>3 DEF Refused
    <3>2. u \in Own(rank) /\ InParam(u) /\ "mul1" \in SuffixSet
      BY <1>3 DEF Own, InParam, SuffixSet
    <3> QED
      BY <3>1, <3>2, Kept DEF Sound
  <2> QED
    BY <1>3, <2>1 DEF MissingRaised
<1>4. ASSUME ~Moe, NEW u \in Units, NEW i \in 1..4, <<u, Suffixes[i]>> \in lost, u[2] # NoId
      PROVE  /\ shape.groups > 0
             /\ ForeignTo(u) \/ (LastOf(u) /\ \A j \in 1..4 : <<u, Suffixes[j]>> \in lost)
  <2> DEFINE l == u[2] - Offset(rank)
  <2>1. ~InParam(u) /\ (shape.groups > 0 \/ Len(shape.outs) # 1) /\ shape.groups \in Nat
    <3>1. ~InParam(u)
      BY <1>4 DEF InParam
    <3> QED
      BY <1>1, <1>4, <3>1, ShapeFacts, UnitFacts
  <2>2. /\ HandleCount \in Nat /\ HandleCount > 0 /\ Offset(rank) \in Nat
        /\ \A k \in 0..HandleCount - 1 : <<0, k + Offset(rank)>> \in Own(rank)
        /\ \A k \in 0..HandleCount - 1 : StashKey(<<0, k + Offset(rank)>>) = <<0, k>>
        /\ \A w \in Own(rank) : /\ ~InParam(w) /\ w[2] - Offset(rank) \in 0..HandleCount - 1
                                /\ w = <<0, (w[2] - Offset(rank)) + Offset(rank)>>
    BY <1>1, <1>4, <2>1, OwnParts, StashIs
  <2>3. StashKey(u) = <<0, l>>
    BY DEF StashKey
  \* The tensor itself is not held; a unit of the rank that has one tensor is counted.
  <2>4. ASSUME u \in Own(rank) PROVE <<<<0, l>>, Suffixes[i]>> \notin DOMAIN stash
    BY <1>2, <1>4, <2>1, <2>3, <2>4, Kept DEF Sound
  <2>5. ASSUME NEW k \in 0..HandleCount - 1, NEW s \in SuffixSet, <<<<0, k + Offset(rank)>>, s>> \notin lost
        PROVE  <<<<0, k>>, s>> \in DOMAIN stash /\ k \in Ids(stash) /\ stash # <<>>
    <3> DEFINE w == <<0, k + Offset(rank)>>
    <3>1. w \in Own(rank) /\ ~InParam(w) /\ StashKey(w) = <<0, k>> /\ <<w, s>> \notin lost
      BY <2>2, <2>5
    <3> HIDE DEF w
    <3>2. <<StashKey(w), s>> \in DOMAIN stash
      BY <1>1, <3>1, AllHeld
    <3>3. <<<<0, k>>, s>> \in DOMAIN stash
      BY <3>1, <3>2
    <3>4. <<<<0, k>>, s>>[1][2] = k
      OBVIOUS
    <3>5. k \in Ids(stash)
      BY <3>3, <3>4 DEF Ids
    <3>6. stash # <<>>
      BY <3>3
    <3> QED
      BY <3>3, <3>5, <3>6
  <2>6. ASSUME NEW k \in 0..HandleCount - 1, k # l, NEW s \in SuffixSet, u \in Own(rank)
        PROVE  <<<<0, k + Offset(rank)>>, s>> \notin lost
    <3>1. u = <<0, l + Offset(rank)>> /\ l \in 0..HandleCount - 1
      BY <2>2, <2>6
    <3>2. <<0, k + Offset(rank)>> # u
      <4> HIDE DEF l
      <4>1. k + Offset(rank) # l + Offset(rank)
        BY <2>2, <2>6, <3>1
      <4> QED
        BY <3>1, <4>1
    <3>3. <<<<0, k + Offset(rank)>>, s>>[1] = <<0, k + Offset(rank)>> /\ <<u, Suffixes[i]>>[1] = u
      OBVIOUS
    <3> QED
      BY <1>1, <1>4, <3>2, <3>3
  <2>7. stash # <<>> => \A k \in 0..(PartsLoaded - 1), j \in 1..4 : <<<<0, k>>, Suffixes[j]>> \in DOMAIN stash
    BY <1>1, <1>4 DEF Refused
  <2>8. ASSUME shape.groups = 0 PROVE FALSE
    <3>1. Len(shape.outs) \in Nat /\ Len(shape.outs) > 1 /\ HandleCount = Len(shape.outs) /\ u \in Own(rank)
      <4>1. ~(shape.groups > 0)
        BY <2>8
      <4>2. Len(shape.outs) \in Nat /\ Len(shape.outs) > 0 /\ Len(shape.outs) # 1
        BY <1>1, <1>4, <2>1, <4>1, ShapeFacts
      <4>3. \A m \in Nat : m > 0 /\ m # 1 => m > 1
        OBVIOUS
      <4> QED
        BY <1>4, <4>1, <4>2, <4>3 DEF HandleCount, Own
    <3>2. l \in 0..HandleCount - 1
      BY <2>2, <3>1
    <3>3. PICK k \in 0..HandleCount - 1 : k # l
      <4> HIDE DEF l
      <4>1. 0 \in 0..HandleCount - 1 /\ 1 \in 0..HandleCount - 1
        BY <3>1
      <4> QED
        BY <3>2, <4>1
    <3>4. stash # <<>>
      BY <1>2, <2>5, <2>6, <3>1, <3>3
    <3>5. PartsLoaded = HandleCount
      BY <1>4, <2>1, <2>8, <3>4, PartsAre
    <3> HIDE DEF l
    <3>6. <<<<0, l>>, Suffixes[i]>> \in DOMAIN stash
      BY <2>7, <3>2, <3>4, <3>5
    <3> QED
      BY <2>4, <3>1, <3>6 DEF l
  <2>9. ASSUME shape.groups > 0 PROVE ForeignTo(u) \/ (LastOf(u) /\ \A j \in 1..4 : <<u, Suffixes[j]>> \in lost)
    <3>1. /\ Offset(rank) = rank * LocalSlices /\ HandleCount = LocalSlices
          /\ LocalSlices \in Nat /\ LocalSlices > 0 /\ shape.groups = Tp * LocalSlices
          /\ u[2] \in 0..shape.groups - 1
      BY <1>1, <1>4, <2>1, <2>9, OwnGroup, ShapeFacts, UnitFacts
    <3>2. u \in Own(rank) <=> u[2] - rank * LocalSlices \in 0..LocalSlices - 1
      BY <1>4, <2>9, <3>1 DEF Own
    <3>3. ~(Tp > 1) => rank = 0 /\ Offset(rank) = 0 /\ shape.groups = LocalSlices
      <4>1. ASSUME ~(Tp > 1) PROVE Tp = 1 /\ rank = 0
        BY <1>1, <4>1
      <4>2. 0 * LocalSlices = 0 /\ 1 * LocalSlices = LocalSlices
        BY <3>1
      <4> QED
        BY <3>1, <4>1, <4>2
    <3>4. CASE u \notin Own(rank)
      <4>1. Tp > 1
        <5>1. \A m \in Int : m - 0 = m
          OBVIOUS
        <5> QED
          BY <3>1, <3>2, <3>3, <3>4, <5>1
      <4> QED
        BY <3>2, <3>4, <4>1 DEF ForeignTo
    <3>5. CASE u \in Own(rank)
      <4>1. l \in 0..HandleCount - 1 /\ u = <<0, l + Offset(rank)>>
        BY <2>2, <3>5
      <4>2. ASSUME l \in Ids(stash), stash # <<>> PROVE FALSE
        <5>1. PartsLoaded \in 1..HandleCount /\ l < PartsLoaded
          BY <1>4, <2>1, <2>9, <4>2, PartsAre
        <5> HIDE DEF l
        <5>2. l \in 0..PartsLoaded - 1
          BY <2>2, <4>1, <5>1
        <5>3. <<<<0, l>>, Suffixes[i]>> \in DOMAIN stash
          BY <2>7, <4>2, <5>2
        <5> QED
          BY <2>4, <3>5, <5>3 DEF l
      <4>3. \A j \in 1..4 : <<u, Suffixes[j]>> \in lost
        <5> HIDE DEF l
        <5> QED
          BY <1>2, <2>5, <4>1, <4>2
      <4>4. l = HandleCount - 1
        <5> SUFFICES ASSUME l # HandleCount - 1 PROVE FALSE
          OBVIOUS
        <5> HIDE DEF l
        <5>1. l + 1 \in 0..HandleCount - 1 /\ l + 1 # l
          BY <2>2, <4>1
        <5>2. PICK k : k = l + 1
          OBVIOUS
        <5>3. <<<<0, k + Offset(rank)>>, Suffixes[i]>> \notin lost
          BY <1>2, <2>6, <3>5, <5>1, <5>2 DEF l
        <5>4. k \in Ids(stash) /\ stash # <<>>
          BY <1>2, <2>5, <5>1, <5>2, <5>3
        <5>5. PartsLoaded \in 1..HandleCount /\ k < PartsLoaded
          BY <1>4, <2>1, <2>9, <5>4, PartsAre
        <5>6. l \in 0..PartsLoaded - 1
          BY <2>2, <4>1, <5>2, <5>5
        <5>7. <<<<0, l>>, Suffixes[i]>> \in DOMAIN stash
          BY <2>7, <5>4, <5>6
        <5> QED
          BY <2>4, <3>5, <5>7 DEF l
      <4>5. LastOf(u)
        <5>1. u[2] - Offset(rank) = LocalSlices - 1 /\ u[2] \in Int
          BY <3>1, <4>4
        <5>2. u[2] = Offset(rank) + LocalSlices - 1
          BY <2>2, <3>1, <5>1
        <5>3. (rank + 1) * LocalSlices = rank * LocalSlices + LocalSlices
          BY <1>1, <3>1
        <5>4. CASE Tp > 1
          <6>1. (rank + 1) * LocalSlices = Offset(rank) + LocalSlices
            BY <3>1, <5>3, Zenon
          <6>2. PICK b : b = (rank + 1) * LocalSlices
            OBVIOUS
          <6>3. u[2] = b - 1
            <7>1. Offset(rank) \in Nat /\ LocalSlices \in Nat
              BY <2>2, <3>1
            <7>2. b = Offset(rank) + LocalSlices
              BY <6>1, <6>2
            <7> QED
              BY <5>2, <7>1, <7>2
          <6>4. LastOf(u) <=> u[2] = b - 1
            BY <5>4, <6>2 DEF LastOf
          <6> QED
            BY <6>3, <6>4
        <5>5. CASE ~(Tp > 1)
          <6>1. u[2] = shape.groups - 1
            BY <3>1, <3>3, <5>2, <5>5
          <6> QED
            BY <5>5, <6>1 DEF LastOf
        <5> QED
          BY <5>4, <5>5
      <4> QED
        BY <4>3, <4>5
    <3> QED
      BY <3>4, <3>5
  <2>10. shape.groups > 0
    <3>1. \A g \in Nat : g # 0 => g > 0
      OBVIOUS
    <3> QED
      BY <2>1, <2>8, <3>1
  <2> QED
    BY <2>9, <2>10
<1> QED
  BY <1>3, <1>4 DEF MissingRaised

LEMMA BucketIn == \A m \in Nat : Bucket(m) \in {1, 2, 4, 8, 16}
<1> TAKE m \in Nat
<1> DEFINE S == {1, 2, 4, 8, 16}
           P(b) == b >= Lesser(m, 16) /\ \A c \in S : c >= Lesser(m, 16) => b <= c
<1>1. \E b \in S : P(b)
  <2>1. Lesser(m, 16) \in Nat /\ Lesser(m, 16) <= 16
    BY DEF Lesser
  <2> DEFINE top == Lesser(m, 16)
  <2>2. \A k \in Nat : k <= 16 => \/ k <= 1 \/ (k > 1 /\ k <= 2) \/ (k > 2 /\ k <= 4)
                                  \/ (k > 4 /\ k <= 8) \/ (k > 8 /\ k <= 16)
    OBVIOUS
  <2>3. \/ top <= 1 \/ (top > 1 /\ top <= 2) \/ (top > 2 /\ top <= 4)
        \/ (top > 4 /\ top <= 8) \/ (top > 8 /\ top <= 16)
    BY <2>1, <2>2
  <2>4. top \in Nat
    BY <2>1
  <2> HIDE DEF top
  <2>5. \E b \in S : b >= top /\ \A c \in S : c >= top => b <= c
    <3>1. CASE top <= 1
      BY <2>4, <3>1
    <3>2. CASE top > 1 /\ top <= 2
      BY <2>4, <3>2
    <3>3. CASE top > 2 /\ top <= 4
      BY <2>4, <3>3
    <3>4. CASE top > 4 /\ top <= 8
      BY <2>4, <3>4
    <3>5. CASE top > 8 /\ top <= 16
      BY <2>4, <3>5
    <3> QED
      BY <2>3, <3>1, <3>2, <3>3, <3>4, <3>5
  <2> QED
    BY <2>5 DEF top
<1>2. Bucket(m) = CHOOSE b \in S : P(b)
  BY DEF Bucket
<1> HIDE DEF P
<1> QED
  BY <1>1, <1>2

LEMMA TunedIs == LInv => CaptureTuned
<1> SUFFICES ASSUME LInv, captured \in 1..MaxTuned, NEW i \in DOMAIN inners[rank],
                    inners[rank][i] \notin untuned
             PROVE  <<ShapeKey(inners[rank][i]), Bucket(captured)>> \in tuned
  BY DEF CaptureTuned
<1>1. captured \in Nat /\ captured # 0
  BY CaptureConstants
<1>2. tuned = {<<ShapeKey(h), Bucket(m)>> : h \in Handles \ untuned, m \in TuneRows}
  BY <1>1 DEF LInv, TuneInv
<1>3. inners[rank][i] \in Handles \ untuned
  BY DEF Handles
<1>4. Bucket(captured) \in {1, 2, 4, 8, 16}
  BY <1>1, BucketIn
<1>5. PICK m \in TuneRows : Bucket(m) = Bucket(captured)
  BY <1>4, CaptureConstants
<1> QED
  BY <1>2, <1>3, <1>5

LEMMA LoadSays == LInv => LoadInv /\ LayerRight /\ MissingRaised /\ CaptureTuned
BY LoadTypeRight, HandlesAreFit, TilesAreOnce, MissingIsSeen, TunedIs DEF LInv, LoadInv, LayerRight

\* A rank that loads a layer holds slices of its own in their places, all that came of what
\* was read, and builds each handle of one matrix (_load_exl3, _load, h2d_copy,
\* process_weights_after_loading).
THEOREM LoadInvariant == LoadSpec => []LoadInv
<1>1. LoadInit => LInv
  BY LoadInitInv
<1>2. LInv /\ [LoadNext]_loadVars => LInv'
  BY LoadStepInv
<1>3. LInv => LoadInv
  BY LoadSays
<1> QED
  BY <1>1, <1>2, <1>3, PTL DEF LoadSpec

\* What came up is the checkpoint's layer, for every tensor-parallel size and every layer:
\* its handles in order, each of one matrix with its own scales, and each tile on one rank
\* (create_weights, _narrow_tp, _load_exl3, _load, process_weights_after_loading).
THEOREM LayersAreRight == LoadSpec => []LayerRight
<1>1. LoadInit => LInv
  BY LoadInitInv
<1>2. LInv /\ [LoadNext]_loadVars => LInv'
  BY LoadStepInv
<1>3. LInv => LayerRight
  BY LoadSays
<1> QED
  BY <1>1, <1>2, <1>3, PTL DEF LoadSpec

\* A checkpoint that lacks a tensor of a merged linear, or an expert's marker, does not come
\* up; one that lacks a slice of a grouped linear only when it is the rank's last
\* (_num_linear_parts_loaded, process_weights_after_loading).
THEOREM MissingIsRaised == LoadSpec => []MissingRaised
<1>1. LoadInit => LInv
  BY LoadInitInv
<1>2. LInv /\ [LoadNext]_loadVars => LInv'
  BY LoadStepInv
<1>3. LInv => MissingRaised
  BY LoadSays
<1> QED
  BY <1>1, <1>2, <1>3, PTL DEF LoadSpec

\* No captured forward meets a handle's shape in a row bucket that was not autotuned,
\* unless the pretune left that handle out: it was switched off, the handle's key raised, or
\* a launch failed before its turn and the failure was only logged (_pretune_exl3,
\* iter_exl3_handles, pretune_exl3_shapes).
THEOREM CapturesAreTuned == LoadSpec => []CaptureTuned
<1>1. LoadInit => LInv
  BY LoadInitInv
<1>2. LInv /\ [LoadNext]_loadVars => LInv'
  BY LoadStepInv
<1>3. LInv => CaptureTuned
  BY LoadSays
<1> QED
  BY <1>1, <1>2, <1>3, PTL DEF LoadSpec
=============================================================================
