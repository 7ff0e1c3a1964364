---------------------------- MODULE CoopMoeProofs ----------------------------
(* The arrival counters of the cooperative kernels and the result of a call,   *)
(* for every shape, routing, length of runs, number of threads and order of    *)
(* the blocks, over any number of calls.                                       *)
EXTENDS CoopMoe, FiniteSetTheorems, FunctionTheorems, TLAPS

-----------------------------------------------------------------------------
(* Arithmetic *)

LEMMA Divided ==
  ASSUME NEW d \in Nat, d > 0, NEW x \in Nat
  PROVE  /\ x \div d \in Nat /\ x % d \in Nat /\ x % d < d
         /\ x = d * (x \div d) + (x % d)
OBVIOUS

LEMMA Product ==
  ASSUME NEW d \in Nat, NEW m \in Nat, NEW n \in Nat
  PROVE  /\ d * m \in Nat /\ d * n \in Nat /\ d * (m + 1) = d * m + d
         /\ (m < n => d * m + d <= d * n) /\ (m <= n => d * m <= d * n)
<1>1. d * m \in Nat /\ d * n \in Nat /\ d * (m + 1) = d * m + d
  OBVIOUS
<1>2. ASSUME m < n PROVE d * m + d <= d * n
  <2>1. n - (m + 1) \in Nat /\ n = (m + 1) + (n - (m + 1))
    BY <1>2
  <2>2. d * (n - (m + 1)) \in Nat
    BY <2>1
  <2>3. d * n = d * (m + 1) + d * (n - (m + 1))
    BY <2>1
  <2> QED
    BY <1>1, <2>2, <2>3
<1>3. ASSUME m = n PROVE d * m <= d * n
  BY <1>1, <1>3
<1> QED
  BY <1>1, <1>2, <1>3

\* A quotient and a rest are those of one number only.
LEMMA Quotient ==
  ASSUME NEW d \in Nat, d > 0, NEW q \in Nat, NEW w \in Nat, w < d
  PROVE  /\ d * q + w \in Nat /\ (d * q + w) \div d = q /\ (d * q + w) % d = w
<1> DEFINE x == d * q + w
<1>1. x \in Nat /\ d * q \in Nat
  BY Product
<1>2. x \div d \in Nat /\ x % d \in Nat /\ x % d < d /\ x = d * (x \div d) + (x % d)
  BY <1>1, Divided
<1> DEFINE p == x \div d
           v == x % d
<1>3. x = d * q + w
  OBVIOUS
<1>4. p \in Nat /\ v \in Nat /\ v < d /\ x = d * p + v /\ d * p \in Nat
  BY <1>2, Product
<1> HIDE DEF x, p, v
<1>5. ~ (p < q)
  <2>1. p < q => d * p + d <= d * q
    BY <1>4, Product
  <2> QED
    BY <1>1, <1>3, <1>4, <2>1
<1>6. ~ (q < p)
  <2>1. q < p => d * q + d <= d * p
    BY <1>4, Product
  <2> QED
    BY <1>1, <1>3, <1>4, <2>1
<1>7. p = q
  BY <1>4, <1>5, <1>6
<1>8. v = w
  BY <1>1, <1>3, <1>4, <1>7
<1> QED
  BY <1>1, <1>7, <1>8 DEF x, p, v

\* A number below a product has a quotient below its factor.
LEMMA Below ==
  ASSUME NEW d \in Nat, d > 0, NEW n \in Nat, NEW x \in Nat
  PROVE  /\ x < d * n => x \div d < n
         /\ \A q \in Nat, w \in Nat : q < n /\ w < d => d * q + w < d * n
<1>1. x \div d \in Nat /\ x % d \in Nat /\ x % d < d /\ x = d * (x \div d) + (x % d)
  BY Divided
<1>2. ASSUME x < d * n PROVE x \div d < n
  <2>1. n <= x \div d => d * n <= d * (x \div d)
    BY <1>1, Product
  <2>2. d * n \in Nat /\ d * (x \div d) \in Nat
    BY <1>1, Product
  <2> QED
    BY <1>1, <1>2, <2>1, <2>2
<1>3. ASSUME NEW q \in Nat, NEW w \in Nat, q < n, w < d PROVE d * q + w < d * n
  <2>1. d * q + d <= d * n /\ d * q \in Nat /\ d * n \in Nat
    BY <1>3, Product
  <2> QED
    BY <1>3, <2>1
<1> QED
  BY <1>2, <1>3

-----------------------------------------------------------------------------
(* Shapes, blocks and their places *)

LEMMA Sizes ==
  ASSUME shape \in Shapes
  PROVE  /\ TopK \in Nat /\ TopK > 0 /\ MaxRows \in Nat /\ MaxRows > 0
         /\ ExpertCount \in Nat /\ ChunksI \in Nat /\ ChunksI > 0 /\ ChunksH \in Nat /\ ChunksH > 0
         /\ GpcA \in Nat /\ GpcA > 0 /\ GpcB \in Nat /\ GpcB > 0
         /\ RunRows \in Nat /\ RunRows > 0 /\ THREADS \in Nat /\ THREADS > 0
         /\ NgA \in Nat /\ NgA > 0 /\ NgB \in Nat /\ NgB > 0
         /\ NgA = GpcA * ChunksI /\ NgB = GpcB * ChunksH
<1>1. shape \in [topk : Nat \ {0}, rows : Nat \ {0}, experts : Nat \ {0}, chunksI : Nat \ {0},
                 chunksH : Nat \ {0}, gpcA : Nat \ {0}, gpcB : Nat \ {0}]
  BY CoopAssumption
<1>2. /\ TopK \in Nat /\ TopK > 0 /\ MaxRows \in Nat /\ MaxRows > 0
      /\ ExpertCount \in Nat /\ ChunksI \in Nat /\ ChunksI > 0 /\ ChunksH \in Nat /\ ChunksH > 0
      /\ GpcA \in Nat /\ GpcA > 0 /\ GpcB \in Nat /\ GpcB > 0
      /\ RunRows \in Nat /\ RunRows > 0 /\ THREADS \in Nat /\ THREADS > 0
  BY <1>1, CoopAssumption DEF TopK, MaxRows, ExpertCount, ChunksI, ChunksH, GpcA, GpcB
<1>3. \A x, y \in Nat : x > 0 /\ y > 0 => x * y \in Nat /\ x * y > 0 /\ x * y = y * x
  <2> TAKE x \in Nat, y \in Nat
  <2>1. y * 1 <= y * x \/ x = 0
    BY Product
  <2>2. x * y = y * x /\ x * y \in Nat /\ y * 1 = y
    OBVIOUS
  <2> QED
    BY <2>1, <2>2
<1>4. NgA = ChunksI * GpcA /\ NgB = ChunksH * GpcB
  BY DEF NgA, NgB
<1> QED
  BY <1>2, <1>3, <1>4

\* The grids, and the runs, of so many rows.
LEMMA Grids ==
  ASSUME shape \in Shapes, NEW rows \in Nat, rows > 0, rows <= MaxRows
  PROVE  /\ rows * TopK \in Nat /\ rows * TopK > 0 /\ rows * TopK <= MaxRows * TopK /\ MaxRows * TopK \in Nat
         /\ GridA(rows) \in Nat /\ GridA(rows) = 2 * (NgA * (rows * TopK)) /\ GridA(rows) > 0
         /\ GridB(rows) \in Nat /\ GridB(rows) = NgB * (rows * TopK) /\ GridB(rows) > 0
         /\ 0..(GridA(rows) - 1) \subseteq Blocks /\ 0..(GridB(rows) - 1) \subseteq Blocks
         /\ Blocks \subseteq Nat
<1> DEFINE n == rows * TopK
           m == MaxRows * TopK
<1>1. /\ TopK \in Nat /\ TopK > 0 /\ MaxRows \in Nat /\ MaxRows > 0
      /\ NgA \in Nat /\ NgA > 0 /\ NgB \in Nat /\ NgB > 0
  BY Sizes
<1>2. n = TopK * rows /\ m = TopK * MaxRows /\ n \in Nat /\ m \in Nat
  BY <1>1
<1>3. n <= m /\ TopK * 1 <= TopK * rows
  BY <1>1, <1>2, Product
<1>4. n > 0 /\ m > 0
  BY <1>1, <1>2, <1>3
<1>5. /\ GridA(rows) = rows * TopK * 2 * NgA /\ GridB(rows) = rows * TopK * NgB
      /\ GridA(MaxRows) = MaxRows * TopK * 2 * NgA /\ GridB(MaxRows) = MaxRows * TopK * NgB
  BY DEF GridA, GridB
<1> HIDE DEF n, m
<1>6. /\ n * 2 * NgA = 2 * (NgA * n) /\ m * 2 * NgA = 2 * (NgA * m)
      /\ n * NgB = NgB * n /\ m * NgB = NgB * m
  BY <1>1, <1>2
<1>7. /\ NgA * n \in Nat /\ NgA * m \in Nat /\ NgA * n <= NgA * m /\ NgA * 1 <= NgA * n
      /\ NgB * n \in Nat /\ NgB * m \in Nat /\ NgB * n <= NgB * m /\ NgB * 1 <= NgB * n
  BY <1>1, <1>2, <1>3, <1>4, Product
<1>8. /\ GridA(rows) = 2 * (NgA * n) /\ GridA(MaxRows) = 2 * (NgA * m)
      /\ GridB(rows) = NgB * n /\ GridB(MaxRows) = NgB * m
  BY <1>5, <1>6 DEF n, m
<1>9. /\ GridA(rows) \in Nat /\ GridA(MaxRows) \in Nat /\ GridA(rows) <= GridA(MaxRows) /\ GridA(rows) > 0
      /\ GridB(rows) \in Nat /\ GridB(MaxRows) \in Nat /\ GridB(rows) <= GridB(MaxRows) /\ GridB(rows) > 0
  BY <1>1, <1>7, <1>8
<1>10. /\ 0..(GridA(rows) - 1) \subseteq Blocks /\ 0..(GridB(rows) - 1) \subseteq Blocks
       /\ Blocks \subseteq Nat
  BY <1>9 DEF Blocks
<1> QED
  BY <1>2, <1>3, <1>4, <1>8, <1>9, <1>10 DEF n, m

\* The blocks of a chunk.
LEMMA Groups ==
  ASSUME NEW gpc \in Nat, gpc > 0, NEW n \in Nat
  PROVE  /\ \A g \in 0..(gpc * n - 1) : g \div gpc \in 0..(n - 1) /\ g \in GroupsOf(g \div gpc, gpc)
         /\ \A c \in 0..(n - 1) : /\ GroupsOf(c, gpc) \subseteq 0..(gpc * n - 1)
                                  /\ \A g \in GroupsOf(c, gpc) : g \div gpc = c
                                  /\ IsFiniteSet(GroupsOf(c, gpc)) /\ Cardinality(GroupsOf(c, gpc)) = gpc
<1>1. ASSUME NEW c \in Nat
      PROVE  /\ GroupsOf(c, gpc) = (gpc * c)..(gpc * c + gpc - 1) /\ gpc * c \in Nat
  <2>1. c * gpc = gpc * c /\ (c + 1) * gpc = gpc * c + gpc /\ gpc * c \in Nat
    OBVIOUS
  <2>2. (c + 1) * gpc - 1 = gpc * c + gpc - 1
    BY <2>1
  <2> QED
    BY <2>1, <2>2 DEF GroupsOf
<1>2. ASSUME NEW g \in 0..(gpc * n - 1) PROVE g \div gpc \in 0..(n - 1) /\ g \in GroupsOf(g \div gpc, gpc)
  <2>1. gpc * n \in Nat
    BY Product
  <2>2. g \in Nat /\ g < gpc * n
    BY <2>1
  <2>3. g \div gpc \in Nat /\ g \div gpc < n
    BY <2>2, Divided, Below
  <2> DEFINE q == g \div gpc
  <2>4. g % gpc \in Nat /\ g % gpc < gpc /\ g = gpc * q + (g % gpc)
    BY <2>2, Divided
  <2>5. gpc * q \in Nat /\ q \in Nat
    BY <2>3, Product
  <2> DEFINE m == gpc * q
             w == g % gpc
  <2>6. m \in Nat /\ w \in Nat /\ w < gpc /\ g = m + w
    BY <2>4, <2>5
  <2>7. GroupsOf(q, gpc) = m..(m + gpc - 1)
    BY <1>1, <2>5
  <2> HIDE DEF m, w
  <2>8. g \in m..(m + gpc - 1)
    BY <2>2, <2>6
  <2>9. g \in GroupsOf(q, gpc)
    BY <2>7, <2>8, Zenon
  <2>10. q \in 0..(n - 1)
    BY <2>3
  <2> QED
    BY <2>9, <2>10
<1>3. ASSUME NEW c \in 0..(n - 1)
      PROVE  /\ GroupsOf(c, gpc) \subseteq 0..(gpc * n - 1)
             /\ \A g \in GroupsOf(c, gpc) : g \div gpc = c
             /\ IsFiniteSet(GroupsOf(c, gpc)) /\ Cardinality(GroupsOf(c, gpc)) = gpc
  <2>1. c \in Nat /\ c < n
    OBVIOUS
  <2> DEFINE m == gpc * c
             t == gpc * n
  <2>2. m \in Nat /\ t \in Nat /\ m + gpc <= t
    BY <2>1, Product
  <2>3. GroupsOf(c, gpc) = m..(m + gpc - 1)
    BY <1>1, <2>1
  <2>4. ASSUME NEW g \in m..(m + gpc - 1) PROVE g \div gpc = c
    <3>1. g - m \in Nat /\ g - m < gpc /\ g = m + (g - m)
      BY <2>2
    <3> QED
      BY <2>1, <3>1, Quotient
  <2> HIDE DEF m, t
  <2>5. m..(m + gpc - 1) \subseteq 0..(t - 1)
    BY <2>2
  <2>6. IsFiniteSet(m..(m + gpc - 1)) /\ Cardinality(m..(m + gpc - 1)) = gpc
    <3>1. m \in Int /\ m + gpc - 1 \in Int /\ ~ (m > m + gpc - 1) /\ (m + gpc - 1) - m + 1 = gpc
      BY <2>2
    <3> QED
      BY <3>1, FS_Interval
  <2> QED
    BY <2>3, <2>4, <2>5, <2>6 DEF t
<1> QED
  BY <1>2, <1>3

\* A block of kernel A is a run, a projection and a group, and the other way round.
LEMMA PlaceA ==
  ASSUME shape \in Shapes, bsz \in 1..MaxRows
  PROVE  /\ \A b \in 0..(GridA(bsz) - 1) :
              /\ b \in Blocks /\ RunOfA(b) \in RunSet /\ GroupA(b) \in 0..(NgA - 1) /\ ProjOf(b) \in Projs
              /\ ChunkA(b) \in 0..(ChunksI - 1) /\ GroupA(b) \in GroupsOf(ChunkA(b), GpcA)
         /\ \A k \in RunSet, p \in Projs, g \in 0..(NgA - 1) :
              \E b \in 0..(GridA(bsz) - 1) : RunOfA(b) = k /\ ProjOf(b) = p /\ GroupA(b) = g
         /\ \A b, d \in 0..(GridA(bsz) - 1) :
              RunOfA(b) = RunOfA(d) /\ ProjOf(b) = ProjOf(d) /\ GroupA(b) = GroupA(d) => b = d
<1> DEFINE n == bsz * TopK
           N == NgA * n
<1>1. NgA \in Nat /\ NgA > 0 /\ GpcA \in Nat /\ GpcA > 0 /\ ChunksI \in Nat /\ NgA = GpcA * ChunksI
  BY Sizes
<1>2. bsz \in Nat /\ bsz > 0 /\ bsz <= MaxRows
  BY Sizes
<1>3. n \in Nat /\ GridA(bsz) = 2 * (NgA * n) /\ 0..(GridA(bsz) - 1) \subseteq Blocks
  BY <1>2, Grids
<1>4. N \in Nat
  BY <1>1, <1>3, Product
<1>5. RunSet = 0..(n - 1)
  BY DEF RunSet
<1>6. GridA(bsz) = 2 * N
  BY <1>3
<1> HIDE DEF n
<1>7. ASSUME NEW b \in 0..(GridA(bsz) - 1)
      PROVE  /\ b \in Blocks /\ RunOfA(b) \in RunSet /\ GroupA(b) \in 0..(NgA - 1) /\ ProjOf(b) \in Projs
             /\ ChunkA(b) \in 0..(ChunksI - 1) /\ GroupA(b) \in GroupsOf(ChunkA(b), GpcA)
             /\ b = 2 * (NgA * RunOfA(b) + GroupA(b)) + (b % 2) /\ b % 2 \in {0, 1}
  <2> DEFINE h == b \div 2
  <2>1. b \in Nat /\ b < 2 * N
    BY <1>4, <1>6
  <2>2. h \in Nat /\ h < N /\ b = 2 * h + (b % 2) /\ b % 2 \in {0, 1}
    <3>1. h \in Nat /\ b % 2 \in Nat /\ b % 2 < 2 /\ b = 2 * h + (b % 2)
      <4> HIDE DEF N
      <4> QED
        BY <2>1, Divided
    <3>2. h < N
      BY <1>4, <2>1, Below
    <3> QED
      BY <3>1, <3>2
  <2>3. /\ h \div NgA \in Nat /\ h % NgA \in Nat /\ h % NgA < NgA
        /\ h = NgA * (h \div NgA) + (h % NgA) /\ h \div NgA < n
    BY <1>1, <1>3, <2>2, Divided, Below
  <2>4. RunOfA(b) = h \div NgA /\ GroupA(b) = h % NgA
    BY DEF RunOfA, GroupA
  <2>5. RunOfA(b) \in RunSet /\ GroupA(b) \in 0..(NgA - 1)
    BY <1>1, <1>3, <1>5, <2>3, <2>4
  <2>6. ChunkA(b) \in 0..(ChunksI - 1) /\ GroupA(b) \in GroupsOf(ChunkA(b), GpcA)
    BY <1>1, <2>5, Groups DEF ChunkA
  <2>7. ProjOf(b) \in Projs
    BY DEF ProjOf, Projs
  <2> QED
    BY <1>3, <2>2, <2>3, <2>4, <2>5, <2>6, <2>7
<1>8. ASSUME NEW k \in RunSet, NEW p \in Projs, NEW g \in 0..(NgA - 1)
      PROVE  \E b \in 0..(GridA(bsz) - 1) : RunOfA(b) = k /\ ProjOf(b) = p /\ GroupA(b) = g
  <2> DEFINE e == IF p = "gate" THEN 0 ELSE 1
             h == NgA * k + g
             b == 2 * h + e
  <2>1. k \in Nat /\ k < n /\ g \in Nat /\ g < NgA /\ e \in Nat /\ e < 2
    BY <1>1, <1>3, <1>5
  <2>2. h \in Nat /\ h < N /\ h \div NgA = k /\ h % NgA = g
    BY <1>1, <1>3, <2>1, Quotient, Below
  <2> HIDE DEF h
  <2>3. b \in Nat /\ b \div 2 = h /\ b % 2 = e
    BY <2>1, <2>2, Quotient
  <2>4. b < 2 * N
    BY <1>4, <2>1, <2>2
  <2>5. ProjOf(b) = p
    BY <2>3 DEF ProjOf, Projs
  <2> HIDE DEF b
  <2>6. RunOfA(b) = k /\ GroupA(b) = g
    BY <2>2, <2>3 DEF RunOfA, GroupA
  <2>7. b \in 0..(GridA(bsz) - 1)
    BY <1>4, <1>6, <2>3, <2>4
  <2> QED
    BY <2>5, <2>6, <2>7
<1>9. ASSUME NEW b \in 0..(GridA(bsz) - 1), NEW d \in 0..(GridA(bsz) - 1),
             RunOfA(b) = RunOfA(d), ProjOf(b) = ProjOf(d), GroupA(b) = GroupA(d)
      PROVE  b = d
  <2>1. /\ b = 2 * (NgA * RunOfA(b) + GroupA(b)) + (b % 2) /\ b % 2 \in {0, 1}
        /\ d = 2 * (NgA * RunOfA(d) + GroupA(d)) + (d % 2) /\ d % 2 \in {0, 1}
    BY <1>7
  <2>2. b % 2 = d % 2
    BY <1>9, <2>1 DEF ProjOf
  <2> DEFINE x == NgA * RunOfA(b) + GroupA(b)
             y == NgA * RunOfA(d) + GroupA(d)
  <2>3. x = y
    BY <1>9, Zenon
  <2>4. b = 2 * x + (b % 2) /\ d = 2 * y + (d % 2)
    BY <2>1
  <2> DEFINE u == b % 2
             v == d % 2
  <2>5. b = 2 * x + u /\ d = 2 * y + v /\ u = v
    BY <2>2, <2>4
  <2> HIDE DEF x, y, u, v
  <2> QED
    BY <2>3, <2>5, Zenon
<1> QED
  BY <1>7, <1>8, <1>9

\* A block of kernel B is a run and a group.
LEMMA PlaceB ==
  ASSUME shape \in Shapes, bsz \in 1..MaxRows
  PROVE  /\ \A b \in 0..(GridB(bsz) - 1) :
              /\ b \in Blocks /\ RunOfB(b) \in RunSet /\ GroupB(b) \in 0..(NgB - 1)
              /\ ChunkB(b) \in 0..(ChunksH - 1) /\ GroupB(b) \in GroupsOf(ChunkB(b), GpcB)
         /\ \A k \in RunSet, g \in 0..(NgB - 1) :
              \E b \in 0..(GridB(bsz) - 1) : RunOfB(b) = k /\ GroupB(b) = g
         /\ \A b, d \in 0..(GridB(bsz) - 1) :
              RunOfB(b) = RunOfB(d) /\ GroupB(b) = GroupB(d) => b = d
<1> DEFINE n == bsz * TopK
           N == NgB * n
<1>1. NgB \in Nat /\ NgB > 0 /\ GpcB \in Nat /\ GpcB > 0 /\ ChunksH \in Nat /\ NgB = GpcB * ChunksH
  BY Sizes
<1>2. bsz \in Nat /\ bsz > 0 /\ bsz <= MaxRows
  BY Sizes
<1>3. n \in Nat /\ GridB(bsz) = N /\ 0..(GridB(bsz) - 1) \subseteq Blocks
  BY <1>2, Grids
<1>4. N \in Nat
  BY <1>1, <1>3, Product
<1>5. RunSet = 0..(n - 1)
  BY DEF RunSet
<1> HIDE DEF n
<1>7. ASSUME NEW b \in 0..(GridB(bsz) - 1)
      PROVE  /\ b \in Blocks /\ RunOfB(b) \in RunSet /\ GroupB(b) \in 0..(NgB - 1)
             /\ ChunkB(b) \in 0..(ChunksH - 1) /\ GroupB(b) \in GroupsOf(ChunkB(b), GpcB)
             /\ b = NgB * RunOfB(b) + GroupB(b)
  <2>1. b \in Nat /\ b < N
    BY <1>3, <1>4
  <2>2. /\ b \div NgB \in Nat /\ b % NgB \in Nat /\ b % NgB < NgB
        /\ b = NgB * (b \div NgB) + (b % NgB) /\ b \div NgB < n
    BY <1>1, <1>3, <2>1, Divided, Below
  <2>3. RunOfB(b) = b \div NgB /\ GroupB(b) = b % NgB
    BY DEF RunOfB, GroupB
  <2>4. RunOfB(b) \in RunSet /\ GroupB(b) \in 0..(NgB - 1)
    BY <1>1, <1>3, <1>5, <2>2, <2>3
  <2>5. ChunkB(b) \in 0..(ChunksH - 1) /\ GroupB(b) \in GroupsOf(ChunkB(b), GpcB)
    BY <1>1, <2>4, Groups DEF ChunkB
  <2> QED
    BY <1>3, <2>2, <2>3, <2>4, <2>5
<1>8. ASSUME NEW k \in RunSet, NEW g \in 0..(NgB - 1)
      PROVE  \E b \in 0..(GridB(bsz) - 1) : RunOfB(b) = k /\ GroupB(b) = g
  <2> DEFINE b == NgB * k + g
  <2>1. k \in Nat /\ k < n /\ g \in Nat /\ g < NgB
    BY <1>1, <1>3, <1>5
  <2>2. b \in Nat /\ b < N /\ b \div NgB = k /\ b % NgB = g
    BY <1>1, <1>3, <2>1, Quotient, Below
  <2> HIDE DEF b
  <2>3. RunOfB(b) = k /\ GroupB(b) = g
    BY <2>2 DEF RunOfB, GroupB
  <2>4. b \in 0..(GridB(bsz) - 1)
    BY <1>3, <1>4, <2>2
  <2> QED
    BY <2>3, <2>4
<1>9. ASSUME NEW b \in 0..(GridB(bsz) - 1), NEW d \in 0..(GridB(bsz) - 1),
             RunOfB(b) = RunOfB(d), GroupB(b) = GroupB(d)
      PROVE  b = d
  BY <1>7, <1>9
<1> QED
  BY <1>7, <1>8, <1>9

-----------------------------------------------------------------------------
(* Counting *)

\* A map between two sets that misses none and meets none twice says they are of one size.
LEMMA OneToOne ==
  ASSUME NEW S, NEW T, IsFiniteSet(T), NEW f \in [S -> T],
         \A x, y \in S : f[x] = f[y] => x = y,
         \A t \in T : \E x \in S : f[x] = t
  PROVE  IsFiniteSet(S) /\ Cardinality(S) = Cardinality(T)
<1>1. f \in Injection(S, T) /\ f \in Surjection(S, T)
  BY DEF Injection, IsInjective, Surjection
<1> QED
  BY <1>1, FS_Injection

Before(S, L, x) == {u \in S : <<u, x>> \in L}
Orders(S, L) ==
  /\ \A x \in S : <<x, x>> \notin L
  /\ \A x, y \in S : x = y \/ <<x, y>> \in L \/ <<y, x>> \in L
  /\ \A x, y, z \in S : <<x, y>> \in L /\ <<y, z>> \in L => <<x, z>> \in L
Places(S, L) ==
  /\ \A x \in S : Cardinality(Before(S, L, x)) \in 0..(Cardinality(S) - 1)
  /\ \A x, y \in S : <<x, y>> \in L => Cardinality(Before(S, L, x)) < Cardinality(Before(S, L, y))
  /\ \A x, y \in S : Cardinality(Before(S, L, x)) = Cardinality(Before(S, L, y)) => x = y
  /\ \A i \in 0..(Cardinality(S) - 1) : \E x \in S : Cardinality(Before(S, L, x)) = i

\* The number of elements before it is the place of each element of a finite ordered set.
LEMMA Ranked ==
  ASSUME NEW S, IsFiniteSet(S), NEW L, Orders(S, L)
  PROVE  Places(S, L)
<1> DEFINE B(x) == {u \in S : <<u, x>> \in L}
           n == Cardinality(S)
<1> USE DEF Orders
<1>1. n \in Nat
  BY FS_CardinalityType
<1>2. ASSUME NEW x \in S PROVE IsFiniteSet(B(x)) /\ Cardinality(B(x)) \in 0..(n - 1)
  <2>1. B(x) \in SUBSET S /\ B(x) # S
    OBVIOUS
  <2>2. IsFiniteSet(B(x)) /\ Cardinality(B(x)) <= n /\ Cardinality(B(x)) # n
    BY <2>1, FS_Subset
  <2>3. Cardinality(B(x)) \in Nat
    BY <2>2, FS_CardinalityType
  <2> HIDE DEF B, n
  <2> QED
    BY <1>1, <2>2, <2>3
<1>3. ASSUME NEW x \in S, NEW y \in S, <<x, y>> \in L PROVE Cardinality(B(x)) < Cardinality(B(y))
  <2>1. B(x) \in SUBSET B(y)
    BY <1>3
  <2>2. x \in B(y) /\ x \notin B(x)
    BY <1>3
  <2>3. IsFiniteSet(B(y))
    BY <1>2
  <2>4. Cardinality(B(x)) <= Cardinality(B(y)) /\ Cardinality(B(x)) # Cardinality(B(y))
    <3> HIDE DEF B
    <3> QED
      BY <2>1, <2>2, <2>3, FS_Subset
  <2>5. Cardinality(B(x)) \in 0..(n - 1) /\ Cardinality(B(y)) \in 0..(n - 1)
    BY <1>2
  <2> HIDE DEF B, n
  <2> QED
    BY <1>1, <2>4, <2>5
<1>4. ASSUME NEW x \in S, NEW y \in S, Cardinality(B(x)) = Cardinality(B(y)) PROVE x = y
  <2>1. Cardinality(B(x)) \in 0..(n - 1)
    BY <1>2
  <2>2. <<x, y>> \notin L /\ <<y, x>> \notin L
    <3>1. Cardinality(B(x)) \in Nat /\ Cardinality(B(y)) \in Nat
      BY <1>1, <1>4, <2>1
    <3> HIDE DEF B
    <3> QED
      BY <1>3, <1>4, <3>1
  <2> QED
    BY <2>2
<1>5. ASSUME NEW i \in 0..(n - 1) PROVE \E x \in S : Cardinality(B(x)) = i
  <2> DEFINE f == [x \in S |-> Cardinality(B(x))]
             T == 0..(n - 1)
  <2>1. f \in Injection(S, T)
    <3>1. f \in [S -> T]
      BY <1>2
    <3>2. \A x, y \in S : f[x] = f[y] => x = y
      <4> HIDE DEF B
      <4> QED
        BY <1>4
    <3> QED
      BY <3>1, <3>2 DEF Injection, IsInjective
  <2>2. IsFiniteSet(T) /\ Cardinality(T) = n
    <3>1. 0 \in Int /\ n - 1 \in Int /\ (IF 0 > n - 1 THEN 0 ELSE (n - 1) - 0 + 1) = n
      BY <1>1
    <3> QED
      BY <3>1, FS_Interval
  <2>3. f \in Surjection(S, T)
    BY <2>1, <2>2, FS_Injection
  <2>4. PICK x \in S : f[x] = i
    BY <2>3 DEF Surjection
  <2> QED
    BY <2>4
<1>6. \A x : B(x) = Before(S, L, x)
  BY DEF Before
<1> HIDE DEF B
<1> QED
  BY <1>1, <1>2, <1>3, <1>4, <1>5, <1>6 DEF Places

-----------------------------------------------------------------------------
(* The run table *)

LEMMA Actives ==
  ASSUME shape \in Shapes, bsz \in 1..MaxRows, route \in [Slots -> 0..ExpertCount]
  PROVE  /\ bsz * TopK \in Nat /\ RunSet = 0..(bsz * TopK - 1) /\ RunSet \subseteq Slots
         /\ ActiveSlots \subseteq RunSet /\ ActiveSlots \subseteq Slots
         /\ IsFiniteSet(RunSet) /\ Cardinality(RunSet) = bsz * TopK
         /\ IsFiniteSet(ActiveSlots) /\ Cardinality(ActiveSlots) \in 0..(bsz * TopK)
         /\ \A s \in Slots : s \in Nat /\ route[s] \in Nat
         /\ \A s \in Slots : s \in ActiveSlots <=> s \in RunSet /\ route[s] < ExpertCount
<1> DEFINE n == bsz * TopK
           m == MaxRows * TopK
<1>1. n \in Nat /\ m \in Nat /\ n <= m
  BY Sizes, Grids
<1>2. RunSet = 0..(n - 1) /\ Slots = 0..(m - 1)
  BY DEF RunSet, Slots
<1>3. ActiveSlots = {s \in Slots : s < n /\ route[s] < ExpertCount}
  BY DEF ActiveSlots, Active
<1> HIDE DEF n, m
<1>4. RunSet \subseteq Slots /\ ActiveSlots \subseteq RunSet /\ ActiveSlots \subseteq Slots
  BY <1>1, <1>2, <1>3
<1>5. IsFiniteSet(RunSet) /\ Cardinality(RunSet) = n
  <2>1. 0 \in Int /\ n - 1 \in Int /\ (IF 0 > n - 1 THEN 0 ELSE (n - 1) - 0 + 1) = n
    BY <1>1
  <2> QED
    BY <1>2, <2>1, FS_Interval
<1>6. IsFiniteSet(ActiveSlots) /\ Cardinality(ActiveSlots) <= n
  BY <1>4, <1>5, FS_Subset
<1>7. Cardinality(ActiveSlots) \in Nat
  BY <1>6, FS_CardinalityType
<1>8. \A s \in Slots : s \in Nat /\ route[s] \in Nat
  BY <1>1, <1>2, Sizes
<1>9. \A s \in Slots : s \in ActiveSlots <=> s \in RunSet /\ route[s] < ExpertCount
  BY <1>1, <1>2, <1>3
<1>10. Cardinality(ActiveSlots) \in 0..n
  BY <1>1, <1>6, <1>7
<1> QED
  BY <1>1, <1>2, <1>4, <1>5, <1>6, <1>8, <1>9, <1>10 DEF n

\* The order of the rotation kernel: every active slot once, those of an expert together,
\* from First of it on.
Order == [i \in 0..(Cardinality(ActiveSlots) - 1) |-> CHOOSE s \in ActiveSlots : Rank(s) = i]

LEMMA Ordered ==
  ASSUME shape \in Shapes, bsz \in 1..MaxRows, route \in [Slots -> 0..ExpertCount]
  PROVE  /\ Order \in [0..(Cardinality(ActiveSlots) - 1) -> ActiveSlots]
         /\ \A i, j \in DOMAIN Order : Order[i] = Order[j] => i = j
         /\ \A s \in ActiveSlots : \E i \in DOMAIN Order : Order[i] = s
         /\ \A i \in DOMAIN Order : First(route[Order[i]]) \in 0..i
         /\ \A i, j \in DOMAIN Order :
              /\ j <= i => route[Order[j]] <= route[Order[i]]
              /\ First(route[Order[i]]) <= j /\ j <= i => route[Order[j]] = route[Order[i]]
<1> DEFINE S == ActiveSlots
           n == Cardinality(S)
           L == {a \in S \X S : route[a[1]] < route[a[2]] \/ (route[a[1]] = route[a[2]] /\ a[1] < a[2])}
<1>1. IsFiniteSet(S) /\ n \in Nat /\ \A s \in S : s \in Nat /\ route[s] \in Nat
  BY Actives
<1>2. \A x, y \in S : <<x, y>> \in L <=> route[x] < route[y] \/ (route[x] = route[y] /\ x < y)
  OBVIOUS
<1>3. ASSUME NEW x \in S PROVE Rank(x) = Cardinality(Before(S, L, x))
  <2>1. Before(S, L, x) = {u \in S : route[u] < route[x] \/ (route[u] = route[x] /\ u < x)}
    BY <1>2 DEF Before
  <2> QED
    BY <2>1 DEF Rank
<1> HIDE DEF L
<1>4. /\ \A x \in S : <<x, x>> \notin L
      /\ \A x, y \in S : x = y \/ <<x, y>> \in L \/ <<y, x>> \in L
      /\ \A x, y, z \in S : <<x, y>> \in L /\ <<y, z>> \in L => <<x, z>> \in L
  <2> HIDE DEF S
  <2> QED
    BY <1>1, <1>2
<1>5. /\ \A x \in S : Rank(x) \in 0..(n - 1)
      /\ \A x, y \in S : <<x, y>> \in L => Rank(x) < Rank(y)
      /\ \A x, y \in S : Rank(x) = Rank(y) => x = y
      /\ \A i \in 0..(n - 1) : \E x \in S : Rank(x) = i
  <2>1. /\ \A x \in S : Cardinality(Before(S, L, x)) \in 0..(Cardinality(S) - 1)
        /\ \A x, y \in S : <<x, y>> \in L =>
             Cardinality(Before(S, L, x)) < Cardinality(Before(S, L, y))
        /\ \A x, y \in S : Cardinality(Before(S, L, x)) = Cardinality(Before(S, L, y))
             => x = y
        /\ \A i \in 0..(Cardinality(S) - 1) : \E x \in S : Cardinality(Before(S, L, x)) = i
    <3>1. Orders(S, L)
      BY <1>4 DEF Orders
    <3> HIDE DEF S
    <3>2. Places(S, L)
      BY <1>1, <3>1, Ranked
    <3> QED
      BY <3>2 DEF Places
  <2> HIDE DEF S
  <2> QED
    BY <1>3, <2>1
<1>6. \A i \in 0..(n - 1) : Order[i] \in S /\ Rank(Order[i]) = i
  <2> TAKE i \in 0..(n - 1)
  <2>1. \E x \in S : Rank(x) = i
    BY <1>5
  <2>2. Order[i] = CHOOSE s \in S : Rank(s) = i
    BY DEF Order
  <2> HIDE DEF S
  <2> QED
    BY <2>1, <2>2
<1>7. DOMAIN Order = 0..(n - 1) /\ Order \in [0..(n - 1) -> S]
  <2>1. Order = [i \in 0..(n - 1) |-> Order[i]]
    BY DEF Order
  <2> QED
    BY <1>6, <2>1
<1>8. \A s \in S : Rank(s) \in DOMAIN Order /\ Order[Rank(s)] = s
  <2> HIDE DEF S
  <2> QED
    BY <1>5, <1>6, <1>7
<1>9. ASSUME NEW i \in DOMAIN Order, NEW j \in DOMAIN Order, j <= i
      PROVE  route[Order[j]] <= route[Order[i]]
  <2>1. i \in Nat /\ j \in Nat /\ Order[i] \in S /\ Order[j] \in S /\ Rank(Order[i]) = i /\ Rank(Order[j]) = j
    BY <1>1, <1>6, <1>7
  <2>2. <<Order[i], Order[j]>> \notin L
    <3> HIDE DEF S
    <3> QED
      BY <1>5, <1>9, <2>1
  <2> HIDE DEF S
  <2> QED
    BY <1>1, <1>2, <2>1, <2>2
<1>10. ASSUME NEW i \in DOMAIN Order
       PROVE  /\ First(route[Order[i]]) \in 0..i
              /\ \A j \in DOMAIN Order : First(route[Order[i]]) <= j /\ j <= i => route[Order[j]] = route[Order[i]]
  <2> DEFINE e == route[Order[i]]
             F == {u \in S : route[u] < e}
             B(x) == Before(S, L, x)
  <2> USE DEF Before
  <2>1. i \in Nat /\ Order[i] \in S /\ Rank(Order[i]) = i /\ e \in Nat
    BY <1>1, <1>6, <1>7
  <2>2. IsFiniteSet(F) /\ First(e) = Cardinality(F) /\ First(e) \in Nat
    <3>1. F \in SUBSET S /\ First(e) = Cardinality(F)
      BY DEF First
    <3>2. IsFiniteSet(F)
      BY <1>1, <3>1, FS_Subset
    <3>3. Cardinality(F) \in Nat
      BY <3>2, FS_CardinalityType
    <3> QED
      BY <3>1, <3>2, <3>3
  <2>3. First(e) <= i
    <3>1. F \in SUBSET B(Order[i])
      <4> HIDE DEF S
      <4> QED
        BY <1>2, <2>1
    <3>2. IsFiniteSet(B(Order[i])) /\ Cardinality(B(Order[i])) = i
      <4>1. B(Order[i]) \in SUBSET S
        OBVIOUS
      <4>2. Cardinality(B(Order[i])) = i
        BY <1>3, <2>1
      <4> HIDE DEF B
      <4> QED
        BY <1>1, <4>1, <4>2, FS_Subset
    <3> HIDE DEF B, F, e
    <3> QED
      BY <2>2, <3>1, <3>2, FS_Subset
  <2>4. ASSUME NEW j \in DOMAIN Order, First(e) <= j, j <= i PROVE route[Order[j]] = e
    <3>1. j \in Nat /\ Order[j] \in S /\ Rank(Order[j]) = j /\ route[Order[j]] <= e /\ route[Order[j]] \in Nat
      BY <1>1, <1>6, <1>7, <1>9, <2>4
    <3> DEFINE x == Order[j]
    <3>2. SUFFICES ASSUME route[x] < e PROVE FALSE
      BY <2>1, <3>1
    <3>3. B(x) \cup {x} \in SUBSET F /\ x \notin B(x)
      <4>1. \A u \in B(x) : u \in S /\ (route[u] < route[x] \/ route[u] = route[x])
        BY <1>2, <3>1
      <4>2. \A u \in B(x) : route[u] < e
        <5> HIDE DEF B, S
        <5> QED
          BY <1>1, <2>1, <3>1, <3>2, <4>1
      <4>3. x \notin B(x)
        BY <1>4, <3>1
      <4> QED
        BY <3>1, <3>2, <4>1, <4>2, <4>3
    <3>4. IsFiniteSet(B(x)) /\ Cardinality(B(x)) = j
      <4>1. B(x) \in SUBSET S
        OBVIOUS
      <4>2. Cardinality(B(x)) = j
        BY <1>3, <3>1
      <4> HIDE DEF B
      <4> QED
        BY <1>1, <4>1, <4>2, FS_Subset
    <3>5. Cardinality(B(x) \cup {x}) = j + 1
      <4> HIDE DEF B
      <4> QED
        BY <3>3, <3>4, FS_AddElement
    <3>6. j + 1 <= First(e)
      <4> HIDE DEF B, F, e, x
      <4> QED
        BY <2>2, <3>3, <3>5, FS_Subset
    <3> HIDE DEF e
    <3> QED
      BY <2>2, <2>4, <3>1, <3>6
  <2>5. First(e) \in 0..i
    <3> HIDE DEF e
    <3> QED
      BY <2>1, <2>2, <2>3
  <2> QED
    BY <2>4, <2>5
<1>11. \A i, j \in DOMAIN Order : Order[i] = Order[j] => i = j
  BY <1>6, <1>7
<1> QED
  BY <1>7, <1>8, <1>9, <1>10, <1>11

\* The places where a run starts: one at First of every expert, and every RunRows from there.
StartSet == {i \in 0..(Cardinality(ActiveSlots) - 1) : StartsRun(Order, i)}
Starts == [k \in 0..Cardinality(StartSet) |->
             IF k < Cardinality(StartSet)
             THEN CHOOSE i \in StartSet : Cardinality({j \in StartSet : j < i}) = k
             ELSE Cardinality(ActiveSlots)]

LEMMA Built ==
  build_runs = [n |-> Cardinality(StartSet), start |-> Starts, order |-> Order]
BY DEF build_runs, StartSet, Starts, Order

\* The runs part the order: each place of it lies in one of them, and no start within one.
LEMMA Started ==
  ASSUME shape \in Shapes, bsz \in 1..MaxRows, route \in [Slots -> 0..ExpertCount]
  PROVE  /\ Cardinality(StartSet) \in 0..Cardinality(ActiveSlots)
         /\ DOMAIN Starts = 0..Cardinality(StartSet)
         /\ \A k \in 0..(Cardinality(StartSet) - 1) :
              /\ Starts[k] \in StartSet /\ Starts[k + 1] \in 0..Cardinality(ActiveSlots)
              /\ Starts[k] < Starts[k + 1]
              /\ \A i \in StartSet : i <= Starts[k] \/ Starts[k + 1] <= i
         /\ \A k, l \in 0..(Cardinality(StartSet) - 1) : k < l => Starts[k + 1] <= Starts[l]
         /\ \A i \in DOMAIN Order : \E k \in 0..(Cardinality(StartSet) - 1) :
              Starts[k] <= i /\ i < Starts[k + 1]
<1> DEFINE S == StartSet
           n == Cardinality(ActiveSlots)
           m == Cardinality(S)
           L == {a \in S \X S : a[1] < a[2]}
           R(i) == Cardinality(Before(S, L, i))
<1>1. n \in Nat /\ DOMAIN Order = 0..(n - 1)
  BY Actives DEF Order
<1>2. S \in SUBSET (0..(n - 1)) /\ IsFiniteSet(0..(n - 1)) /\ Cardinality(0..(n - 1)) = n
  <2>1. 0 \in Int /\ n - 1 \in Int /\ (IF 0 > n - 1 THEN 0 ELSE (n - 1) - 0 + 1) = n
    BY <1>1
  <2>2. S \in SUBSET (0..(n - 1))
    BY <1>1 DEF StartSet
  <2> QED
    BY <2>1, <2>2, FS_Interval
<1>3. IsFiniteSet(S) /\ m \in 0..n
  <2> HIDE DEF S
  <2>1. IsFiniteSet(S) /\ Cardinality(S) <= n
    BY <1>2, FS_Subset
  <2>2. m \in Nat
    BY <2>1, FS_CardinalityType
  <2> QED
    BY <1>1, <2>1, <2>2
<1>4. \A i \in S : i \in Nat /\ i < n
  BY <1>1, <1>2
<1>5. \A i, j \in S : <<i, j>> \in L <=> i < j
  OBVIOUS
<1>6. ASSUME NEW i \in S
      PROVE  /\ Before(S, L, i) = {j \in S : j < i} /\ IsFiniteSet(Before(S, L, i))
             /\ R(i) \in Nat /\ Before(S, L, i) \subseteq S
  <2>1. Before(S, L, i) = {j \in S : j < i}
    BY <1>5 DEF Before
  <2>2. Before(S, L, i) \in SUBSET S
    BY <2>1
  <2> HIDE DEF S, L
  <2>3. IsFiniteSet(Before(S, L, i))
    BY <1>3, <2>2, FS_Subset
  <2> QED
    BY <2>1, <2>2, <2>3, FS_CardinalityType
<1> HIDE DEF L
<1>7. Places(S, L)
  <2>1. Orders(S, L)
    <3> HIDE DEF S
    <3> QED
      BY <1>4, <1>5 DEF Orders
  <2> HIDE DEF S
  <2> QED
    BY <1>3, <2>1, Ranked
<1>8. /\ \A i \in S : R(i) \in 0..(m - 1)
      /\ \A i, j \in S : i < j => R(i) < R(j)
      /\ \A i, j \in S : R(i) = R(j) => i = j
      /\ \A k \in 0..(m - 1) : \E i \in S : R(i) = k
  <2> HIDE DEF S
  <2> QED
    BY <1>5, <1>7 DEF Places
<1>9. ASSUME NEW k \in 0..(m - 1) PROVE Starts[k] \in S /\ R(Starts[k]) = k
  <2>1. \E i \in S : Cardinality({j \in S : j < i}) = k
    <3> HIDE DEF S
    <3> QED
      BY <1>6, <1>8
  <2>2. Starts[k] = CHOOSE i \in S : Cardinality({j \in S : j < i}) = k
    <3>1. k \in 0..m /\ k < m
      BY <1>1, <1>3
    <3> QED
      BY <3>1 DEF Starts
  <2>3. Starts[k] \in S /\ Cardinality({j \in S : j < Starts[k]}) = k
    <3> HIDE DEF S
    <3> QED
      BY <2>1, <2>2
  <2> HIDE DEF S
  <2> QED
    BY <1>6, <2>3
<1>10. Starts[m] = n /\ DOMAIN Starts = 0..m
  BY <1>3 DEF Starts
<1> HIDE DEF S, m, n
<1>11. ASSUME NEW k \in 0..(m - 1), NEW i \in S
       PROVE  i <= Starts[k] \/ Starts[k + 1] <= i
  <2>1. /\ Starts[k] \in S /\ R(Starts[k]) = k /\ Starts[k] \in Nat /\ i \in Nat /\ k \in Nat /\ m \in Nat
        /\ R(i) \in Nat /\ R(i) < m
    BY <1>1, <1>3, <1>4, <1>6, <1>8, <1>9
  <2>2. SUFFICES ASSUME Starts[k] < i PROVE Starts[k + 1] <= i
    BY <2>1
  <2>3. k < R(i)
    BY <1>8, <2>1, <2>2
  <2>4. k + 1 \in 0..(m - 1)
    BY <2>1, <2>3
  <2>5. Starts[k + 1] \in S /\ R(Starts[k + 1]) = k + 1 /\ Starts[k + 1] \in Nat
    BY <1>4, <1>9, <2>4
  <2>6. ~ (i < Starts[k + 1])
    BY <1>8, <2>1, <2>3, <2>5
  <2> QED
    BY <2>1, <2>5, <2>6
<1>12. ASSUME NEW k \in 0..(m - 1)
       PROVE  /\ Starts[k + 1] \in 0..n /\ Starts[k] < Starts[k + 1]
              /\ \A l \in 0..(m - 1) : k < l => Starts[k + 1] <= Starts[l]
  <2>1. Starts[k] \in S /\ R(Starts[k]) = k /\ Starts[k] \in Nat /\ Starts[k] < n /\ k \in Nat /\ m \in Nat /\ k < m
    BY <1>3, <1>4, <1>9
  <2>2. CASE k + 1 = m
    <3>1. Starts[k + 1] = n
      BY <1>10, <2>2
    <3> QED
      BY <1>1, <2>1, <2>2, <3>1
  <2>3. CASE k + 1 # m
    <3>1. k + 1 \in 0..(m - 1)
      BY <2>1, <2>3
    <3>2. Starts[k + 1] \in S /\ R(Starts[k + 1]) = k + 1 /\ Starts[k + 1] \in Nat /\ Starts[k + 1] < n
      BY <1>4, <1>9, <3>1
    <3>3. ~ (Starts[k + 1] < Starts[k]) /\ Starts[k + 1] # Starts[k]
      BY <1>8, <2>1, <3>2
    <3>4. ASSUME NEW l \in 0..(m - 1), k < l PROVE Starts[k + 1] <= Starts[l]
      <4>1. Starts[l] \in S /\ R(Starts[l]) = l /\ Starts[l] \in Nat /\ l \in Nat
        BY <1>4, <1>9
      <4>2. ~ (Starts[l] < Starts[k + 1])
        BY <1>8, <2>1, <3>2, <3>4, <4>1
      <4> QED
        BY <3>2, <4>1, <4>2
    <3> QED
      BY <1>1, <2>1, <3>2, <3>3, <3>4
  <2> QED
    BY <2>2, <2>3
<1>13. ASSUME NEW i \in DOMAIN Order
       PROVE  \E k \in 0..(m - 1) : Starts[k] <= i /\ i < Starts[k + 1]
  <2> DEFINE Q == {j \in S : j <= i}
  <2>1. i \in Nat /\ i < n
    BY <1>1
  <2>2. 0 \in S
    <3>1. 0 \in DOMAIN Order
      BY <1>1, <2>1
    <3> QED
      BY <1>1, <3>1 DEF S, StartSet, StartsRun, n
  <2>3. IsFiniteSet(Q) /\ Cardinality(Q) \in 1..m
    <3>1. Q \in SUBSET S
      OBVIOUS
    <3>2. IsFiniteSet(Q) /\ Cardinality(Q) <= m
      BY <1>3, <3>1, FS_Subset DEF m
    <3>3. Cardinality(Q) \in Nat
      BY <3>2, FS_CardinalityType
    <3>4. Cardinality(Q) # 0
      <4>1. 0 \in Q
        BY <2>1, <2>2
      <4> HIDE DEF Q
      <4> QED
        BY <3>2, <4>1, FS_EmptySet
    <3> QED
      BY <1>3, <3>2, <3>3, <3>4
  <2> DEFINE k == Cardinality(Q) - 1
  <2>4. k \in 0..(m - 1) /\ Cardinality(Q) = k + 1 /\ k \in Nat /\ m \in Nat
    <3> HIDE DEF Q
    <3> QED
      BY <1>1, <1>3, <2>3
  <2> HIDE DEF k
  <2>5. Starts[k] \in S /\ R(Starts[k]) = k /\ Starts[k] \in Nat
    BY <1>4, <1>9, <2>4
  <2>6. Starts[k] <= i
    <3> SUFFICES ASSUME i < Starts[k] PROVE FALSE
      BY <2>1, <2>5
    <3>1. Q \in SUBSET Before(S, L, Starts[k])
      BY <1>4, <1>6, <2>1, <2>5
    <3>2. IsFiniteSet(Before(S, L, Starts[k]))
      BY <1>6, <2>5
    <3>3. Cardinality(Q) <= R(Starts[k])
      <4> HIDE DEF Q
      <4> QED
        BY <3>1, <3>2, FS_Subset
    <3> HIDE DEF Q, R
    <3> QED
      BY <2>4, <2>5, <3>3
  <2>7. i < Starts[k + 1]
    <3>1. CASE k + 1 = m
      BY <1>10, <2>1, <3>1
    <3>2. CASE k + 1 # m
      <4>1. k + 1 \in 0..(m - 1)
        BY <2>4, <3>2
      <4> DEFINE z == Starts[k + 1]
      <4>2. z \in S /\ R(z) = k + 1 /\ z \in Nat
        BY <1>4, <1>9, <4>1
      <4> HIDE DEF z
      <4> SUFFICES ASSUME z <= i PROVE FALSE
        BY <2>1, <4>2 DEF z
      <4>3. Before(S, L, z) \cup {z} \in SUBSET Q /\ z \notin Before(S, L, z)
        <5>1. Before(S, L, z) = {j \in S : j < z}
          BY <1>6, <4>2
        <5>2. \A j \in S : j < z => j <= i
          BY <1>4, <2>1, <4>2
        <5>3. z \in Q /\ ~ (z < z)
          BY <4>2
        <5> QED
          BY <5>1, <5>2, <5>3
      <4>4. IsFiniteSet(Before(S, L, z))
        BY <1>6, <4>2
      <4>5. Cardinality(Before(S, L, z) \cup {z}) = (k + 1) + 1
        BY <4>2, <4>3, <4>4, FS_AddElement
      <4>6. Cardinality(Before(S, L, z) \cup {z}) <= Cardinality(Q)
        <5> HIDE DEF Q
        <5> QED
          BY <2>3, <4>3, FS_Subset
      <4> HIDE DEF Q
      <4> QED
        BY <2>4, <4>5, <4>6
    <3> QED
      BY <3>1, <3>2
  <2> QED
    BY <2>4, <2>6, <2>7
<1> QED
  BY <1>3, <1>9, <1>10, <1>11, <1>12, <1>13 DEF S, m, n

\* A run is of one expert and of at most RunRows slots.
LEMMA OneExpert ==
  ASSUME shape \in Shapes, bsz \in 1..MaxRows, route \in [Slots -> 0..ExpertCount],
         NEW k \in 0..(Cardinality(StartSet) - 1)
  PROVE  /\ \A i \in Starts[k]..(Starts[k + 1] - 1) : i \in DOMAIN Order /\ route[Order[i]] = route[Order[Starts[k]]]
         /\ Starts[k + 1] - Starts[k] \in 1..RunRows
<1> DEFINE n == Cardinality(ActiveSlots)
           m == Cardinality(StartSet)
           F(i) == First(route[Order[i]])
           e(i) == route[Order[i]]
<1>1. n \in Nat /\ m \in Nat /\ DOMAIN Order = 0..(n - 1) /\ RunRows \in Nat /\ RunRows > 0
  <2>1. n \in Nat
    BY Actives
  <2>2. m \in 0..n
    BY Started
  <2>3. DOMAIN Order = 0..(n - 1)
    BY DEF Order
  <2> HIDE DEF n, m
  <2> QED
    BY <2>1, <2>2, <2>3, CoopAssumption
<1>2. /\ Starts[k] \in StartSet /\ Starts[k + 1] \in 0..n /\ Starts[k] < Starts[k + 1]
      /\ \A i \in StartSet : i <= Starts[k] \/ Starts[k + 1] <= i
  BY Started
<1>3. /\ \A i \in DOMAIN Order : F(i) \in 0..i /\ e(i) \in Nat
      /\ \A i, j \in DOMAIN Order :
           /\ j <= i => e(j) <= e(i)
           /\ F(i) <= j /\ j <= i => e(j) = e(i)
  BY Ordered, Actives
<1>4. StartSet \subseteq DOMAIN Order
  BY <1>1 DEF StartSet
<1>5. ASSUME NEW i \in DOMAIN Order PROVE i \in StartSet <=> i = 0 \/ e(i - 1) # e(i) \/ (i - F(i)) % RunRows = 0
  BY <1>1 DEF StartSet, StartsRun
<1>6. \A i, j \in DOMAIN Order : e(j) = e(i) => F(j) = F(i)
  OBVIOUS
<1> HIDE DEF n, m, F, e
<1> DEFINE a == Starts[k]
           z == Starts[k + 1]
<1>7. a \in Nat /\ z \in Nat /\ a < z /\ z <= n /\ a \in DOMAIN Order /\ a \in StartSet
      /\ \A i \in StartSet : i <= a \/ z <= i
  BY <1>1, <1>2, <1>4
<1> HIDE DEF a, z
<1>8. ASSUME NEW i \in a..(z - 1) PROVE i \in DOMAIN Order /\ e(i) = e(a) /\ F(i) <= a
  <2>1. i \in Nat /\ a <= i /\ i < z /\ i \in DOMAIN Order
    BY <1>1, <1>7
  <2>2. F(i) \in Nat /\ F(i) <= i /\ F(i) \in DOMAIN Order
    BY <1>1, <1>3, <2>1
  <2>3. e(F(i)) = e(i)
    BY <1>3, <2>1, <2>2
  <2>4. F(F(i)) = F(i)
    BY <1>6, <2>1, <2>2, <2>3
  <2>5. (F(i) - F(F(i))) % RunRows = 0
    <3>1. F(i) - F(F(i)) = 0
      BY <2>2, <2>4
    <3>2. 0 % RunRows = 0
      BY <1>1, Divided
    <3> QED
      BY <3>1, <3>2
  <2>6. F(i) \in StartSet
    BY <1>5, <2>2, <2>5
  <2>7. F(i) <= a
    BY <1>7, <2>1, <2>2, <2>6
  <2> QED
    BY <1>3, <1>7, <2>1, <2>2, <2>7
<1>9. (a - F(a)) % RunRows = 0
  <2>1. F(a) \in Nat /\ F(a) <= a
    BY <1>3, <1>7
  <2>2. 0 % RunRows = 0
    BY <1>1, Divided
  <2>3. CASE a = 0
    BY <2>1, <2>2, <2>3
  <2>4. CASE a # 0 /\ e(a - 1) # e(a)
    <3>1. a - 1 \in DOMAIN Order /\ a - 1 <= a
      BY <1>1, <1>7, <2>4
    <3>2. ~ (F(a) <= a - 1)
      BY <1>3, <1>7, <2>4, <3>1
    <3>3. a - F(a) = 0
      BY <1>7, <2>1, <3>2
    <3> QED
      BY <2>2, <3>3
  <2> QED
    BY <1>5, <1>7, <2>3, <2>4
<1>10. z - a <= RunRows
  <2> SUFFICES ASSUME ~ (z - a <= RunRows) PROVE FALSE
    OBVIOUS
  <2> DEFINE i == a + RunRows
  <2>1. i \in Nat /\ i \in a..(z - 1) /\ a < i /\ i < z
    BY <1>1, <1>7
  <2>2. i \in DOMAIN Order /\ e(i) = e(a) /\ F(i) = F(a)
    BY <1>6, <1>7, <1>8, <2>1
  <2>3. F(a) \in Nat /\ F(a) <= a
    BY <1>3, <1>7
  <2> DEFINE o == a - F(a)
             q == o \div RunRows
  <2>4. o \in Nat /\ i - F(i) = o + RunRows
    BY <1>1, <1>7, <2>2, <2>3
  <2>5. o % RunRows = 0
    BY <1>9
  <2> HIDE DEF o, i
  <2>9. q \in Nat /\ o = RunRows * q + (o % RunRows)
    BY <1>1, <2>4, Divided
  <2>10. RunRows * q \in Nat
    BY <1>1, <2>9, Product
  <2> DEFINE w == RunRows * q
  <2>11. o = w + 0 /\ w \in Nat
    BY <2>5, <2>9, <2>10
  <2> HIDE DEF w
  <2>12. RunRows * (q + 1) = w + RunRows /\ RunRows * (q + 1) \in Nat /\ q + 1 \in Nat
    BY <1>1, <2>9, Product DEF w
  <2>6. i - F(i) = RunRows * (q + 1) + 0 /\ q + 1 \in Nat
    BY <1>1, <2>4, <2>11, <2>12
  <2>7. (i - F(i)) % RunRows = 0
    <3>1. (RunRows * (q + 1) + 0) % RunRows = 0
      BY <1>1, <2>6, Quotient
    <3> QED
      BY <2>6, <3>1
  <2>8. i \in StartSet
    BY <1>5, <2>2, <2>7
  <2> QED
    BY <1>7, <2>1, <2>8
<1>11. z - a \in 1..RunRows
  BY <1>1, <1>7, <1>10
<1> QED
  BY <1>8, <1>11 DEF a, z, e

\* The rotation kernel leaves such a run table.
LEMMA RunTable ==
  ASSUME shape \in Shapes, bsz \in 1..MaxRows, bsz > 1, route \in [Slots -> 0..ExpertCount],
         runs = build_runs
  PROVE  RunsFit
<1> DEFINE n == Cardinality(ActiveSlots)
           m == Cardinality(StartSet)
           Len(k) == Starts[k + 1] - Starts[k]
<1>1. /\ n \in Nat /\ m \in Nat /\ DOMAIN Order = 0..(n - 1) /\ RunRows \in Nat /\ RunRows > 0
      /\ m <= n /\ n <= bsz * TopK /\ bsz * TopK \in Nat /\ RunSet = 0..(bsz * TopK - 1)
  BY Actives, Started, Sizes, SMTT(20) DEF Order
<1>2. runs.n = m /\ runs.start = Starts /\ runs.order = Order
  BY Built
<1>3. ASSUME NEW k \in 0..(m - 1)
      PROVE  /\ k \in RunSet /\ Starts[k] \in Nat /\ Starts[k + 1] \in Nat /\ Len(k) \in 1..RunRows
             /\ \A i \in Starts[k]..(Starts[k + 1] - 1) :
                  i \in DOMAIN Order /\ route[Order[i]] = route[Order[Starts[k]]]
             /\ read_run(k) = [j \in 0..(Len(k) - 1) |-> Order[Starts[k] + j]]
             /\ RunLength(k) = Len(k)
  <2>1. k \in Nat /\ k < m /\ k \in RunSet
    BY <1>1
  <2>2. Starts[k] \in Nat /\ Starts[k + 1] \in Nat
    BY <1>1, Started DEF StartSet
  <2>3. /\ Len(k) \in 1..RunRows
        /\ \A i \in Starts[k]..(Starts[k + 1] - 1) :
             i \in DOMAIN Order /\ route[Order[i]] = route[Order[Starts[k]]]
    BY OneExpert
  <2>4. read_run(k) = [j \in 0..(Len(k) - 1) |-> Order[Starts[k] + j]]
    <3>1. bsz # 1 /\ k < runs.n
      BY <1>2, <2>1
    <3> QED
      BY <1>2, <3>1 DEF read_run
  <2>5. RunLength(k) = Len(k)
    <3>1. DOMAIN read_run(k) = 0..(Len(k) - 1)
      BY <2>4
    <3> HIDE DEF Len
    <3>2. 0 \in Int /\ Len(k) - 1 \in Int /\ (IF 0 > Len(k) - 1 THEN 0 ELSE (Len(k) - 1) - 0 + 1) = Len(k)
      BY <1>1, <2>3
    <3> QED
      BY <3>1, <3>2, FS_Interval DEF RunLength
  <2> QED
    BY <2>1, <2>2, <2>3, <2>4, <2>5
<1>4. ASSUME NEW k \in RunSet, k \notin 0..(m - 1) PROVE read_run(k) = <<>> /\ RunLength(k) = 0 /\ DOMAIN read_run(k) = {}
  <2>1. read_run(k) = <<>>
    <3>1. ~ (k < runs.n) /\ bsz # 1
      BY <1>1, <1>2, <1>4
    <3> QED
      BY <3>1 DEF read_run
  <2>2. DOMAIN read_run(k) = {}
    BY <2>1
  <2> QED
    BY <2>1, <2>2, FS_EmptySet DEF RunLength
<1> HIDE DEF Len, n, m
<1>5. ASSUME NEW k \in 0..(m - 1), NEW j \in DOMAIN read_run(k)
      PROVE  /\ j \in Nat /\ j < Len(k) /\ Starts[k] + j \in DOMAIN Order /\ Starts[k] + j \in Nat
             /\ Starts[k] <= Starts[k] + j /\ Starts[k] + j < Starts[k + 1]
             /\ read_run(k)[j] = Order[Starts[k] + j]
             /\ route[read_run(k)[j]] = route[Order[Starts[k]]] /\ read_run(k)[j] \in ActiveSlots
  <2>1. j \in 0..(Len(k) - 1) /\ read_run(k)[j] = Order[Starts[k] + j]
    BY <1>3
  <2>2. Len(k) \in Nat /\ j \in Nat /\ j < Len(k) /\ Starts[k] \in Nat /\ Starts[k + 1] \in Nat
    BY <1>1, <1>3, <2>1
  <2>3. Starts[k] + j \in Starts[k]..(Starts[k + 1] - 1)
    BY <2>2 DEF Len
  <2>4. Starts[k] + j \in DOMAIN Order /\ route[Order[Starts[k] + j]] = route[Order[Starts[k]]]
    BY <1>3, <2>3
  <2>5. Order[Starts[k] + j] \in ActiveSlots
    BY <2>4, Ordered
  <2> QED
    BY <2>1, <2>2, <2>3, <2>4, <2>5
<1>6. ASSUME NEW k \in RunSet
      PROVE  /\ RunLength(k) \in 0..RunRows
             /\ read_run(k) \in [0..(RunLength(k) - 1) -> ActiveSlots]
             /\ \A j \in DOMAIN read_run(k) : route[read_run(k)[j]] = route[read_run(k)[0]]
  <2>1. CASE k \notin 0..(m - 1)
    <3>1. read_run(k) = <<>> /\ RunLength(k) = 0 /\ DOMAIN read_run(k) = {}
      BY <1>4, <2>1
    <3>2. <<>> \in [{} -> ActiveSlots] /\ 0..(0 - 1) = {}
      OBVIOUS
    <3> QED
      BY <1>1, <3>1, <3>2
  <2>2. CASE k \in 0..(m - 1)
    <3>1. RunLength(k) = Len(k) /\ Len(k) \in 1..RunRows /\ DOMAIN read_run(k) = 0..(Len(k) - 1)
          /\ read_run(k) = [j \in 0..(Len(k) - 1) |-> Order[Starts[k] + j]]
      BY <1>3, <2>2
    <3>2. 0 \in DOMAIN read_run(k) /\ RunLength(k) \in 0..RunRows
      BY <1>1, <3>1
    <3>3. read_run(k) \in [0..(Len(k) - 1) -> ActiveSlots]
      BY <1>5, <2>2, <3>1
    <3>4. \A j \in DOMAIN read_run(k) : route[read_run(k)[j]] = route[read_run(k)[0]]
      BY <1>5, <2>2, <3>2
    <3> QED
      BY <3>1, <3>2, <3>3, <3>4
  <2> QED
    BY <2>1, <2>2
<1>7. ASSUME NEW s \in ActiveSlots
      PROVE  \E k \in RunSet : \E j \in DOMAIN read_run(k) : read_run(k)[j] = s
  <2>1. PICK i \in DOMAIN Order : Order[i] = s
    BY Ordered
  <2>2. PICK k \in 0..(m - 1) : Starts[k] <= i /\ i < Starts[k + 1]
    BY Started DEF m
  <2>3. k \in RunSet /\ Starts[k] \in Nat /\ Starts[k + 1] \in Nat /\ i \in Nat
        /\ read_run(k) = [j \in 0..(Len(k) - 1) |-> Order[Starts[k] + j]]
    BY <1>1, <1>3
  <2> DEFINE j == i - Starts[k]
  <2>4. j \in 0..(Len(k) - 1) /\ Starts[k] + j = i
    BY <2>2, <2>3 DEF Len
  <2>5. j \in DOMAIN read_run(k) /\ read_run(k)[j] = s
    BY <2>1, <2>3, <2>4
  <2> QED
    BY <2>3, <2>5
<1>8. ASSUME NEW k \in RunSet, NEW l \in RunSet, NEW i \in DOMAIN read_run(k), NEW j \in DOMAIN read_run(l),
             read_run(k)[i] = read_run(l)[j]
      PROVE  k = l /\ i = j
  <2>1. k \in 0..(m - 1) /\ l \in 0..(m - 1) /\ k \in Nat /\ l \in Nat
    BY <1>1, <1>4
  <2>2. Starts[k] + i = Starts[l] + j
    BY <1>5, <1>8, <2>1, Ordered
  <2>3. ~ (k < l) /\ ~ (l < k)
    <3>1. /\ k < l => Starts[k + 1] <= Starts[l]
          /\ l < k => Starts[l + 1] <= Starts[k]
      BY <2>1, Started DEF m
    <3>2. /\ Starts[k] + i \in Nat /\ Starts[k] <= Starts[k] + i /\ Starts[k] + i < Starts[k + 1]
          /\ Starts[l] <= Starts[l] + j /\ Starts[l] + j < Starts[l + 1]
          /\ Starts[k] \in Nat /\ Starts[l] \in Nat /\ Starts[k + 1] \in Nat /\ Starts[l + 1] \in Nat
      BY <1>3, <1>5, <2>1
    <3> QED
      BY <2>2, <3>1, <3>2
  <2>4. k = l
    BY <2>1, <2>3
  <2>5. i = j
    <3>1. i \in Nat /\ j \in Nat /\ Starts[k] \in Nat
      BY <1>3, <1>5, <2>1
    <3> QED
      BY <2>2, <2>4, <3>1
  <2> QED
    BY <2>4, <2>5
<1> QED
  BY <1>6, <1>7, <1>8 DEF RunsFit

\* At one row the runs are the active slots themselves.
LEMMA OneRow ==
  ASSUME shape \in Shapes, bsz = 1, bsz \in 1..MaxRows, route \in [Slots -> 0..ExpertCount]
  PROVE  RunsFit
<1>1. /\ TopK \in Nat /\ RunSet = 0..(TopK - 1) /\ RunSet \subseteq Slots /\ ActiveSlots \subseteq RunSet
      /\ RunRows \in Nat /\ RunRows > 0
  <2>1. bsz * TopK = TopK /\ TopK \in Nat
    BY Sizes
  <2> QED
    BY <2>1, Actives, Sizes
<1>2. ASSUME NEW k \in RunSet
      PROVE  /\ k \in ActiveSlots => read_run(k) = [j \in 0..0 |-> k] /\ RunLength(k) = 1
             /\ k \notin ActiveSlots => read_run(k) = <<>> /\ RunLength(k) = 0 /\ DOMAIN read_run(k) = {}
  <2>1. k \in Slots /\ k < TopK /\ (k \in ActiveSlots <=> Active(k))
    BY <1>1 DEF ActiveSlots
  <2>2. read_run(k) = IF k \in ActiveSlots THEN [j \in 0..0 |-> k] ELSE <<>>
    BY <2>1 DEF read_run
  <2>3. Cardinality({}) = 0 /\ Cardinality(0..0) = 1
    <3>1. 0 \in Int /\ (IF 0 > 0 THEN 0 ELSE 0 - 0 + 1) = 1
      OBVIOUS
    <3> QED
      BY <3>1, FS_Interval, FS_EmptySet
  <2>4. k \in ActiveSlots => DOMAIN read_run(k) = 0..0
    BY <2>2
  <2>5. k \notin ActiveSlots => DOMAIN read_run(k) = {}
    BY <2>2
  <2> QED
    BY <2>2, <2>3, <2>4, <2>5 DEF RunLength
<1>3. ASSUME NEW k \in RunSet
      PROVE  /\ RunLength(k) \in 0..RunRows
             /\ read_run(k) \in [0..(RunLength(k) - 1) -> ActiveSlots]
             /\ \A j \in DOMAIN read_run(k) : j = 0 /\ read_run(k)[j] = k /\ k \in ActiveSlots
  <2>1. CASE k \in ActiveSlots
    <3>1. RunLength(k) = 1 /\ 1 - 1 = 0 /\ read_run(k) = [j \in 0..0 |-> k]
      BY <1>2, <2>1
    <3> QED
      BY <1>1, <2>1, <3>1
  <2>2. CASE k \notin ActiveSlots
    <3>1. read_run(k) = <<>> /\ RunLength(k) = 0 /\ DOMAIN read_run(k) = {}
      BY <1>2, <2>2
    <3>2. <<>> \in [{} -> ActiveSlots] /\ 0..(0 - 1) = {}
      OBVIOUS
    <3> QED
      BY <1>1, <3>1, <3>2
  <2> QED
    BY <2>1, <2>2
<1>4. ASSUME NEW s \in ActiveSlots
      PROVE  \E k \in RunSet : \E j \in DOMAIN read_run(k) : read_run(k)[j] = s
  <2>1. s \in RunSet /\ read_run(s) = [j \in 0..0 |-> s]
    BY <1>1, <1>2
  <2>2. 0 \in DOMAIN read_run(s) /\ read_run(s)[0] = s
    BY <2>1
  <2> QED
    BY <2>1, <2>2
<1> QED
  BY <1>3, <1>4 DEF RunsFit

LEMMA RunOf ==
  ASSUME shape \in Shapes, RunsFit, NEW k \in RunSet
  PROVE  /\ RunLength(k) \in Nat /\ RunLength(k) <= RunRows /\ DOMAIN read_run(k) = 0..(RunLength(k) - 1)
         /\ \A j \in Nat : j < RunLength(k) <=> j \in DOMAIN read_run(k)
         /\ \A j \in DOMAIN read_run(k) : j \in Nat /\ j < RunRows /\ read_run(k)[j] \in ActiveSlots
         /\ \A j \in DOMAIN read_run(k) : route[read_run(k)[j]] = route[read_run(k)[0]]
<1>1. RunLength(k) \in 0..RunRows /\ read_run(k) \in [0..(RunLength(k) - 1) -> ActiveSlots] /\ RunRows \in Nat
  BY CoopAssumption DEF RunsFit
<1>2. \A j \in DOMAIN read_run(k) : route[read_run(k)[j]] = route[read_run(k)[0]]
  BY DEF RunsFit
<1> QED
  BY <1>1, <1>2

-----------------------------------------------------------------------------
(* The arrivals a counter waits for *)

AllA(s, c) ==
  {a \in (0..(GridA(bsz) - 1)) \X (0..(RunRows - 1)) :
     ChunkA(a[1]) = c /\ a[2] < RunLength(RunOfA(a[1])) /\ read_run(RunOfA(a[1]))[a[2]] = s}
AllB(row, c) ==
  {a \in (0..(GridB(bsz) - 1)) \X (0..(RunRows - 1)) :
     ChunkB(a[1]) = c /\ a[2] < RunLength(RunOfB(a[1])) /\ RowOf(read_run(RunOfB(a[1]))[a[2]]) = row}

\* The blocks that multiply a slot for a chunk are those of its run, two projections by
\* the blocks of the chunk.
LEMMA CountA ==
  ASSUME shape \in Shapes, bsz \in 1..MaxRows, RunsFit,
         NEW s \in ActiveSlots, NEW c \in 0..(ChunksI - 1)
  PROVE  /\ IsFiniteSet(AllA(s, c)) /\ Cardinality(AllA(s, c)) = ExpectedA
         /\ \A p \in Projs, g \in GroupsOf(c, GpcA) : \E a \in AllA(s, c) : ProjOf(a[1]) = p /\ GroupA(a[1]) = g
<1> DEFINE S == AllA(s, c)
           T == Projs \X GroupsOf(c, GpcA)
           f == [a \in S |-> <<ProjOf(a[1]), GroupA(a[1])>>]
<1>1. /\ GpcA \in Nat /\ GpcA > 0 /\ ChunksI \in Nat /\ NgA = GpcA * ChunksI
  BY Sizes
<1>2. IsFiniteSet(T) /\ Cardinality(T) = ExpectedA
  <2>1. IsFiniteSet(GroupsOf(c, GpcA)) /\ Cardinality(GroupsOf(c, GpcA)) = GpcA
    BY <1>1, Groups
  <2>2. IsFiniteSet(Projs) /\ Cardinality(Projs) = 2
    <3> DEFINE one == {"gate"}
               p == "up"
    <3>1. IsFiniteSet(one) /\ Cardinality(one) = 1
      BY FS_Singleton
    <3>2. Projs = one \cup {p} /\ p \notin one
      BY DEF Projs
    <3> HIDE DEF one, p
    <3> QED
      BY <3>1, <3>2, FS_AddElement
  <2>3. IsFiniteSet(T) /\ Cardinality(T) = 2 * GpcA
    BY <2>1, <2>2, FS_Product
  <2> QED
    BY <1>1, <2>3 DEF ExpectedA
<1>3. ASSUME NEW a \in S
      PROVE  /\ a = <<a[1], a[2]>> /\ a[1] \in 0..(GridA(bsz) - 1) /\ RunOfA(a[1]) \in RunSet /\ ChunkA(a[1]) = c
             /\ a[2] \in DOMAIN read_run(RunOfA(a[1])) /\ read_run(RunOfA(a[1]))[a[2]] = s
             /\ ProjOf(a[1]) \in Projs /\ GroupA(a[1]) \in GroupsOf(c, GpcA)
  <2>1. a \in (0..(GridA(bsz) - 1)) \X (0..(RunRows - 1)) /\ ChunkA(a[1]) = c
        /\ a[2] < RunLength(RunOfA(a[1])) /\ read_run(RunOfA(a[1]))[a[2]] = s
    BY DEF AllA
  <2>2. a[1] \in 0..(GridA(bsz) - 1) /\ a[2] \in Nat /\ a = <<a[1], a[2]>>
    BY <2>1, CoopAssumption
  <2>3. RunOfA(a[1]) \in RunSet /\ ProjOf(a[1]) \in Projs /\ GroupA(a[1]) \in GroupsOf(c, GpcA)
    BY <2>1, <2>2, PlaceA
  <2>4. a[2] \in DOMAIN read_run(RunOfA(a[1]))
    BY <2>1, <2>2, <2>3, RunOf
  <2> QED
    BY <2>1, <2>2, <2>3, <2>4
<1>4. f \in [S -> T]
  BY <1>3
<1>5. ASSUME NEW x \in S, NEW y \in S, f[x] = f[y] PROVE x = y
  <2>1. ProjOf(x[1]) = ProjOf(y[1]) /\ GroupA(x[1]) = GroupA(y[1])
    BY <1>5
  <2>2. RunOfA(x[1]) = RunOfA(y[1]) /\ x[2] = y[2]
    <3>1. /\ RunOfA(x[1]) \in RunSet /\ RunOfA(y[1]) \in RunSet
          /\ x[2] \in DOMAIN read_run(RunOfA(x[1])) /\ y[2] \in DOMAIN read_run(RunOfA(y[1]))
          /\ read_run(RunOfA(x[1]))[x[2]] = read_run(RunOfA(y[1]))[y[2]]
      BY <1>3
    <3> QED
      BY <3>1 DEF RunsFit
  <2>3. x[1] = y[1]
    <3>1. x[1] \in 0..(GridA(bsz) - 1) /\ y[1] \in 0..(GridA(bsz) - 1)
      BY <1>3
    <3> QED
      BY <2>1, <2>2, <3>1, PlaceA
  <2> QED
    BY <1>3, <2>2, <2>3
<1>6. ASSUME NEW p \in Projs, NEW g \in GroupsOf(c, GpcA)
      PROVE  \E a \in S : ProjOf(a[1]) = p /\ GroupA(a[1]) = g
  <2>1. PICK k \in RunSet : \E j \in DOMAIN read_run(k) : read_run(k)[j] = s
    BY DEF RunsFit
  <2>2. PICK j \in DOMAIN read_run(k) : read_run(k)[j] = s
    BY <2>1
  <2>3. g \in 0..(NgA - 1) /\ g \div GpcA = c
    BY <1>1, Groups
  <2>4. PICK b \in 0..(GridA(bsz) - 1) : RunOfA(b) = k /\ ProjOf(b) = p /\ GroupA(b) = g
    BY <2>3, PlaceA
  <2>5. j \in Nat /\ j < RunRows /\ j < RunLength(k)
    BY RunOf
  <2>6. <<b, j>> \in S
    <3>1. ChunkA(b) = c
      BY <2>3, <2>4 DEF ChunkA
    <3>2. j \in 0..(RunRows - 1)
      BY <2>5, CoopAssumption
    <3> QED
      BY <2>2, <2>4, <2>5, <3>1, <3>2 DEF AllA
  <2>7. <<b, j>>[1] = b
    OBVIOUS
  <2> QED
    BY <2>4, <2>6, <2>7
<1>7. \A t \in T : \E x \in S : f[x] = t
  <2> TAKE t \in T
  <2>1. PICK p \in Projs, g \in GroupsOf(c, GpcA) : t = <<p, g>>
    OBVIOUS
  <2>2. PICK a \in S : ProjOf(a[1]) = p /\ GroupA(a[1]) = g
    BY <1>6
  <2>3. f[a] = t
    BY <2>1, <2>2
  <2> QED
    BY <2>3
<1>8. IsFiniteSet(S) /\ Cardinality(S) = Cardinality(T)
  <2> HIDE DEF S, T, f
  <2> QED
    BY <1>2, <1>4, <1>5, <1>7, OneToOne
<1> QED
  BY <1>2, <1>6, <1>8

\* Those that multiply a row for a chunk are the blocks of the chunk, for each of its slots.
LEMMA CountB ==
  ASSUME shape \in Shapes, bsz \in 1..MaxRows, route \in [Slots -> 0..ExpertCount], RunsFit,
         NEW row \in 0..(bsz - 1), NEW c \in 0..(ChunksH - 1)
  PROVE  /\ IsFiniteSet(AllB(row, c)) /\ Cardinality(AllB(row, c)) = ExpectedB(row)
         /\ \A s \in SlotsOf(row), g \in GroupsOf(c, GpcB) :
              \E a \in AllB(row, c) : read_run(RunOfB(a[1]))[a[2]] = s /\ GroupB(a[1]) = g
<1> DEFINE S == AllB(row, c)
           T == SlotsOf(row) \X GroupsOf(c, GpcB)
           f == [a \in S |-> <<read_run(RunOfB(a[1]))[a[2]], GroupB(a[1])>>]
<1>1. /\ GpcB \in Nat /\ GpcB > 0 /\ ChunksH \in Nat /\ NgB = GpcB * ChunksH
  BY Sizes
<1>2. IsFiniteSet(T) /\ Cardinality(T) = ExpectedB(row)
  <2>1. IsFiniteSet(GroupsOf(c, GpcB)) /\ Cardinality(GroupsOf(c, GpcB)) = GpcB
    BY <1>1, Groups
  <2>2. IsFiniteSet(SlotsOf(row))
    <3>1. SlotsOf(row) \in SUBSET ActiveSlots /\ IsFiniteSet(ActiveSlots)
      BY Actives DEF SlotsOf
    <3> QED
      BY <3>1, FS_Subset
  <2>3. IsFiniteSet(T) /\ Cardinality(T) = Cardinality(SlotsOf(row)) * GpcB
    BY <2>1, <2>2, FS_Product
  <2> QED
    BY <2>3 DEF ExpectedB
<1>3. ASSUME NEW a \in S
      PROVE  /\ a = <<a[1], a[2]>> /\ a[1] \in 0..(GridB(bsz) - 1) /\ RunOfB(a[1]) \in RunSet /\ ChunkB(a[1]) = c
             /\ a[2] \in DOMAIN read_run(RunOfB(a[1])) /\ read_run(RunOfB(a[1]))[a[2]] \in SlotsOf(row)
             /\ GroupB(a[1]) \in GroupsOf(c, GpcB)
  <2>1. a \in (0..(GridB(bsz) - 1)) \X (0..(RunRows - 1)) /\ ChunkB(a[1]) = c
        /\ a[2] < RunLength(RunOfB(a[1])) /\ RowOf(read_run(RunOfB(a[1]))[a[2]]) = row
    BY DEF AllB
  <2>2. a[1] \in 0..(GridB(bsz) - 1) /\ a[2] \in Nat /\ a = <<a[1], a[2]>>
    BY <2>1, CoopAssumption
  <2>3. RunOfB(a[1]) \in RunSet /\ GroupB(a[1]) \in GroupsOf(c, GpcB)
    BY <2>1, <2>2, PlaceB
  <2>4. a[2] \in DOMAIN read_run(RunOfB(a[1])) /\ read_run(RunOfB(a[1]))[a[2]] \in ActiveSlots
    BY <2>1, <2>2, <2>3, RunOf
  <2>5. read_run(RunOfB(a[1]))[a[2]] \in SlotsOf(row)
    BY <2>1, <2>4 DEF SlotsOf
  <2> QED
    BY <2>1, <2>2, <2>3, <2>4, <2>5
<1>4. f \in [S -> T]
  BY <1>3
<1>5. ASSUME NEW x \in S, NEW y \in S, f[x] = f[y] PROVE x = y
  <2>1. read_run(RunOfB(x[1]))[x[2]] = read_run(RunOfB(y[1]))[y[2]] /\ GroupB(x[1]) = GroupB(y[1])
    BY <1>5
  <2>2. RunOfB(x[1]) = RunOfB(y[1]) /\ x[2] = y[2]
    <3>1. /\ RunOfB(x[1]) \in RunSet /\ RunOfB(y[1]) \in RunSet
          /\ x[2] \in DOMAIN read_run(RunOfB(x[1])) /\ y[2] \in DOMAIN read_run(RunOfB(y[1]))
      BY <1>3
    <3> QED
      BY <2>1, <3>1 DEF RunsFit
  <2>3. x[1] = y[1]
    <3>1. x[1] \in 0..(GridB(bsz) - 1) /\ y[1] \in 0..(GridB(bsz) - 1)
      BY <1>3
    <3> QED
      BY <2>1, <2>2, <3>1, PlaceB
  <2> QED
    BY <1>3, <2>2, <2>3
<1>6. ASSUME NEW s \in SlotsOf(row), NEW g \in GroupsOf(c, GpcB)
      PROVE  \E a \in S : read_run(RunOfB(a[1]))[a[2]] = s /\ GroupB(a[1]) = g
  <2>0. s \in ActiveSlots /\ RowOf(s) = row
    BY DEF SlotsOf
  <2>1. PICK k \in RunSet : \E j \in DOMAIN read_run(k) : read_run(k)[j] = s
    BY <2>0 DEF RunsFit
  <2>2. PICK j \in DOMAIN read_run(k) : read_run(k)[j] = s
    BY <2>1
  <2>3. g \in 0..(NgB - 1) /\ g \div GpcB = c
    BY <1>1, Groups
  <2>4. PICK b \in 0..(GridB(bsz) - 1) : RunOfB(b) = k /\ GroupB(b) = g
    BY <2>3, PlaceB
  <2>5. j \in Nat /\ j < RunRows /\ j < RunLength(k)
    BY RunOf
  <2>6. <<b, j>> \in S
    <3>1. ChunkB(b) = c
      BY <2>3, <2>4 DEF ChunkB
    <3>2. j \in 0..(RunRows - 1)
      BY <2>5, CoopAssumption
    <3> QED
      BY <2>0, <2>2, <2>4, <2>5, <3>1, <3>2 DEF AllB
  <2>7. <<b, j>>[1] = b /\ <<b, j>>[2] = j
    OBVIOUS
  <2> QED
    BY <2>2, <2>4, <2>6, <2>7
<1>7. \A t \in T : \E x \in S : f[x] = t
  <2> TAKE t \in T
  <2>1. PICK s \in SlotsOf(row), g \in GroupsOf(c, GpcB) : t = <<s, g>>
    OBVIOUS
  <2>2. PICK a \in S : read_run(RunOfB(a[1]))[a[2]] = s /\ GroupB(a[1]) = g
    BY <1>6
  <2>3. f[a] = t
    BY <2>1, <2>2
  <2> QED
    BY <2>3
<1>8. IsFiniteSet(S) /\ Cardinality(S) = Cardinality(T)
  <2> HIDE DEF S, T, f
  <2> QED
    BY <1>2, <1>4, <1>5, <1>7, OneToOne
<1> QED
  BY <1>2, <1>6, <1>8

-----------------------------------------------------------------------------
(* What the invariant says of a kernel that runs *)

LEMMA Indices ==
  ASSUME shape \in Shapes
  PROVE  /\ \A s \in Slots, c \in 0..(ChunksI - 1) : IndexA(s, c) \in CtrA
         /\ \A s, u \in Slots, c, d \in 0..(ChunksI - 1) : IndexA(s, c) = IndexA(u, d) => s = u /\ c = d
         /\ \A row \in 0..(MaxRows - 1), c \in 0..(ChunksH - 1) : IndexB(row, c) \in CtrB
         /\ \A row, u \in 0..(MaxRows - 1), c, d \in 0..(ChunksH - 1) : IndexB(row, c) = IndexB(u, d) => row = u /\ c = d
<1> DEFINE m == MaxRows * TopK
<1>1. /\ MaxRows \in Nat /\ MaxRows > 0 /\ ChunksI \in Nat /\ ChunksI > 0 /\ ChunksH \in Nat /\ ChunksH > 0 /\ m \in Nat
  BY Sizes, Grids
<1>2. Slots = 0..(m - 1) /\ CtrA = 0..(MaxRows * TopK * ChunksI - 1) /\ CtrB = 0..(MaxRows * ChunksH - 1)
  BY DEF Slots, CtrA, CtrB
<1> DEFINE x == ChunksI * m
           y == ChunksH * MaxRows
<1>3. MaxRows * TopK * ChunksI = x /\ MaxRows * ChunksH = y /\ x \in Nat /\ y \in Nat
  <2>1. MaxRows * TopK * ChunksI = m * ChunksI
    OBVIOUS
  <2> HIDE DEF m
  <2> QED
    BY <1>1, <2>1
<1>5. /\ \A s \in Nat, c \in 0..(ChunksI - 1) : IndexA(s, c) = ChunksI * s + c
      /\ \A s \in Nat, c \in 0..(ChunksH - 1) : IndexB(s, c) = ChunksH * s + c
  BY <1>1 DEF IndexA, IndexB
<1> HIDE DEF m
<1>6. ASSUME NEW s \in Slots, NEW c \in 0..(ChunksI - 1)
      PROVE  IndexA(s, c) \in Nat /\ IndexA(s, c) < x /\ IndexA(s, c) \div ChunksI = s /\ IndexA(s, c) % ChunksI = c
  <2>1. s \in Nat /\ s < m /\ c \in Nat /\ c < ChunksI /\ IndexA(s, c) = ChunksI * s + c
    BY <1>1, <1>2, <1>5
  <2> QED
    BY <1>1, <2>1, Quotient, Below
<1>7. ASSUME NEW s \in 0..(MaxRows - 1), NEW c \in 0..(ChunksH - 1)
      PROVE  IndexB(s, c) \in Nat /\ IndexB(s, c) < y /\ IndexB(s, c) \div ChunksH = s /\ IndexB(s, c) % ChunksH = c
  <2>1. s \in Nat /\ s < MaxRows /\ c \in Nat /\ c < ChunksH /\ IndexB(s, c) = ChunksH * s + c
    BY <1>1, <1>5
  <2> QED
    BY <1>1, <2>1, Quotient, Below
<1>8. CtrA = 0..(x - 1) /\ CtrB = 0..(y - 1)
  BY <1>2, <1>3
<1> HIDE DEF x, y
<1>9. \A s \in Slots, c \in 0..(ChunksI - 1) : IndexA(s, c) \in CtrA
  BY <1>3, <1>6, <1>8
<1>10. \A row \in 0..(MaxRows - 1), c \in 0..(ChunksH - 1) : IndexB(row, c) \in CtrB
  BY <1>3, <1>7, <1>8
<1>11. \A s, u \in Slots, c, d \in 0..(ChunksI - 1) : IndexA(s, c) = IndexA(u, d) => s = u /\ c = d
  BY <1>6
<1>12. \A row, u \in 0..(MaxRows - 1), c, d \in 0..(ChunksH - 1) : IndexB(row, c) = IndexB(u, d) => row = u /\ c = d
  BY <1>7
<1> QED
  BY <1>9, <1>10, <1>11, <1>12

\* The rows of the active slots are rows of the call.
LEMMA Rows ==
  ASSUME shape \in Shapes, bsz \in 1..MaxRows, route \in [Slots -> 0..ExpertCount]
  PROVE  /\ \A s \in ActiveSlots : RowOf(s) \in 0..(bsz - 1) /\ s \in SlotsOf(RowOf(s))
         /\ \A row \in 0..(bsz - 1) :
              /\ IsFiniteSet(SlotsOf(row)) /\ Cardinality(SlotsOf(row)) \in 0..TopK
              /\ ExpectedB(row) \in 0..(TopK * GpcB)
              /\ row \in EmptyRows <=> ExpectedB(row) = 0
              /\ row \in EmptyRows <=> SlotsOf(row) = {}
         /\ 0..(bsz - 1) \subseteq 0..(MaxRows - 1) /\ bsz \in Nat /\ bsz > 0
<1>1. TopK \in Nat /\ TopK > 0 /\ GpcB \in Nat /\ GpcB > 0 /\ MaxRows \in Nat /\ bsz \in Nat /\ bsz > 0 /\ bsz <= MaxRows
  BY Sizes
<1> DEFINE n == bsz * TopK
<1>2. ActiveSlots \subseteq 0..(n - 1) /\ n \in Nat /\ n = TopK * bsz /\ IsFiniteSet(ActiveSlots)
  BY <1>1, Actives
<1> HIDE DEF n
<1>3. ASSUME NEW s \in ActiveSlots
      PROVE  RowOf(s) \in 0..(bsz - 1) /\ s \in Nat /\ s = TopK * RowOf(s) + (s % TopK) /\ s % TopK \in 0..(TopK - 1)
  <2>1. s \in Nat /\ s < TopK * bsz
    BY <1>2
  <2>2. s \div TopK \in Nat /\ s % TopK \in Nat /\ s % TopK < TopK /\ s = TopK * (s \div TopK) + (s % TopK)
    BY <1>1, <2>1, Divided
  <2>3. s \div TopK < bsz
    BY <1>1, <2>1, Below
  <2> QED
    BY <1>1, <2>1, <2>2, <2>3 DEF RowOf
<1>4. ASSUME NEW row \in 0..(bsz - 1)
      PROVE  IsFiniteSet(SlotsOf(row)) /\ Cardinality(SlotsOf(row)) \in 0..TopK
  <2> DEFINE S == SlotsOf(row)
             T == 0..(TopK - 1)
             f == [s \in S |-> s % TopK]
  <2>1. \A s \in S : s \in ActiveSlots /\ RowOf(s) = row
    BY DEF SlotsOf
  <2>2. f \in [S -> T]
    BY <1>3, <2>1
  <2>3. ASSUME NEW x \in S, NEW y \in S, f[x] = f[y] PROVE x = y
    <3>1. x % TopK = y % TopK
      BY <2>3
    <3> DEFINE u == x % TopK
               v == y % TopK
               w == TopK * row
    <3>2. x = w + u /\ y = w + v /\ u = v
      BY <1>3, <2>1, <3>1
    <3> HIDE DEF u, v, w
    <3> QED
      BY <3>2, Zenon
  <2>4. f \in Injection(S, T)
    BY <2>2, <2>3 DEF Injection, IsInjective
  <2>5. IsFiniteSet(T) /\ Cardinality(T) = TopK
    <3>1. 0 \in Int /\ TopK - 1 \in Int /\ (IF 0 > TopK - 1 THEN 0 ELSE (TopK - 1) - 0 + 1) = TopK
      BY <1>1
    <3> QED
      BY <3>1, FS_Interval
  <2>6. IsFiniteSet(S) /\ Cardinality(S) <= TopK
    BY <2>4, <2>5, FS_Injection
  <2>7. Cardinality(S) \in Nat
    BY <2>6, FS_CardinalityType
  <2> HIDE DEF S
  <2>8. Cardinality(S) \in 0..TopK
    BY <1>1, <2>6, <2>7
  <2> QED
    BY <2>6, <2>8 DEF S
<1>5. ASSUME NEW row \in 0..(bsz - 1)
      PROVE  /\ ExpectedB(row) \in 0..(TopK * GpcB)
             /\ row \in EmptyRows <=> ExpectedB(row) = 0
             /\ row \in EmptyRows <=> SlotsOf(row) = {}
  <2> DEFINE k == Cardinality(SlotsOf(row))
  <2>1. k \in Nat /\ k <= TopK /\ (k = 0 <=> SlotsOf(row) = {})
    BY <1>1, <1>4, FS_EmptySet
  <2>2. row \in EmptyRows <=> SlotsOf(row) = {}
    BY DEF EmptyRows
  <2>3. ExpectedB(row) = k * GpcB
    BY DEF ExpectedB
  <2> HIDE DEF k
  <2>4. k * GpcB = GpcB * k /\ TopK * GpcB = GpcB * TopK
    BY <1>1, <2>1
  <2>5. GpcB * k \in Nat /\ GpcB * TopK \in Nat /\ GpcB * k <= GpcB * TopK
    BY <1>1, <2>1, Product
  <2>6. k > 0 => GpcB * k >= GpcB * 1
    BY <1>1, <2>1, Product
  <2>7. k = 0 => GpcB * k = 0
    BY <1>1
  <2> DEFINE x == GpcB * k
             y == GpcB * TopK
  <2>8. ExpectedB(row) = x /\ TopK * GpcB = y /\ x \in Nat /\ y \in Nat /\ x <= y /\ (x = 0 <=> k = 0)
    <3>1. GpcB * 1 = GpcB
      BY <1>1
    <3> HIDE DEF x, y
    <3>2. x \in Nat /\ y \in Nat /\ x <= y /\ (k > 0 => x >= GpcB) /\ (k = 0 => x = 0)
      BY <2>5, <2>6, <2>7, <3>1 DEF x, y
    <3>3. x = 0 <=> k = 0
      BY <1>1, <2>1, <3>2
    <3>4. ExpectedB(row) = x /\ TopK * GpcB = y
      BY <2>3, <2>4 DEF x, y
    <3> QED
      BY <3>2, <3>3, <3>4
  <2> HIDE DEF x, y
  <2> QED
    BY <2>1, <2>2, <2>8
<1>6. \A s \in ActiveSlots : s \in SlotsOf(RowOf(s))
  BY DEF SlotsOf
<1> QED
  BY <1>1, <1>3, <1>4, <1>5, <1>6

\* The blocks of kernel A and the arrivals they have made.
LEMMA RunningA ==
  ASSUME IInv, stage = "a"
  PROVE  /\ \A b \in 0..(GridA(bsz) - 1) :
              /\ b \in Blocks /\ RunOfA(b) \in RunSet /\ ChunkA(b) \in 0..(ChunksI - 1)
              /\ r[b] \in Nat /\ Arrived(b) \in Nat /\ Arrived(b) <= RunLength(RunOfA(b))
              /\ RunLength(RunOfA(b)) \in Nat /\ RunLength(RunOfA(b)) <= RunRows
         /\ \A b \in Blocks : at[b] # "done" => b \in 0..(GridA(bsz) - 1)
         /\ \A b \in Blocks : at[b] \in {"arrive", "epilogue"} =>
              /\ r[b] \in DOMAIN read_run(RunOfA(b)) /\ r[b] < RunLength(RunOfA(b)) /\ r[b] < RunRows
              /\ SlotA(b) \in ActiveSlots
         /\ \A s, c : ArrivalsA(s, c) \subseteq AllA(s, c)
         /\ \A s, c : ArrivalsA(s, c) = {a \in AllA(s, c) : a[2] < Arrived(a[1])}
         /\ \A s \in ActiveSlots, c \in 0..(ChunksI - 1) :
              /\ IsFiniteSet(ArrivalsA(s, c)) /\ Cardinality(ArrivalsA(s, c)) <= ExpectedA
              /\ Cardinality(ArrivalsA(s, c)) = ExpectedA => ArrivalsA(s, c) = AllA(s, c)
<1>1. /\ shape \in Shapes /\ bsz \in 1..MaxRows /\ RunsFit /\ r \in [Blocks -> 0..RunRows]
      /\ at \in [Blocks -> {"gemv", "arrive", "epilogue", "done"}]
  BY DEF IInv, TypeOK, StageInv
<1>2. \A b \in Blocks : IF b < GridA(bsz) THEN Placed(b, RunLength(RunOfA(b))) ELSE at[b] = "done"
  BY DEF IInv, PlaceInv
<1>3. GridA(bsz) \in Nat /\ Blocks \subseteq Nat /\ RunRows \in Nat /\ RunRows > 0
  BY <1>1, Grids, Sizes
<1>4. ASSUME NEW b \in 0..(GridA(bsz) - 1)
      PROVE  /\ b \in Blocks /\ RunOfA(b) \in RunSet /\ ChunkA(b) \in 0..(ChunksI - 1)
             /\ r[b] \in Nat /\ Arrived(b) \in Nat /\ Arrived(b) <= RunLength(RunOfA(b))
             /\ RunLength(RunOfA(b)) \in Nat /\ RunLength(RunOfA(b)) <= RunRows
             /\ at[b] \in {"arrive", "epilogue"} => r[b] < RunLength(RunOfA(b))
  <2>1. b \in Blocks /\ RunOfA(b) \in RunSet /\ ChunkA(b) \in 0..(ChunksI - 1)
    BY <1>1, PlaceA
  <2>2. RunLength(RunOfA(b)) \in Nat /\ RunLength(RunOfA(b)) <= RunRows
    BY <1>1, <2>1, RunOf
  <2>3. Placed(b, RunLength(RunOfA(b))) /\ r[b] \in Nat
    BY <1>1, <1>2, <1>3, <2>1
  <2> QED
    BY <1>1, <2>1, <2>2, <2>3 DEF Placed, Arrived
<1>5. \A b \in Blocks : at[b] # "done" => b \in 0..(GridA(bsz) - 1)
  BY <1>2, <1>3
<1>6. ASSUME NEW b \in Blocks, at[b] \in {"arrive", "epilogue"}
      PROVE  /\ r[b] \in DOMAIN read_run(RunOfA(b)) /\ r[b] < RunLength(RunOfA(b)) /\ r[b] < RunRows
             /\ SlotA(b) \in ActiveSlots
  <2>1. r[b] < RunLength(RunOfA(b)) /\ r[b] \in Nat /\ RunOfA(b) \in RunSet /\ RunLength(RunOfA(b)) <= RunRows
        /\ RunLength(RunOfA(b)) \in Nat
    BY <1>4, <1>5, <1>6
  <2>2. r[b] \in DOMAIN read_run(RunOfA(b))
    BY <1>1, <2>1, RunOf
  <2>3. SlotA(b) \in ActiveSlots
    BY <1>1, <2>1, <2>2, RunOf DEF SlotA
  <2> QED
    BY <1>3, <2>1, <2>2, <2>3
<1>7. ASSUME NEW s, NEW c
      PROVE  /\ ArrivalsA(s, c) \subseteq AllA(s, c)
             /\ ArrivalsA(s, c) = {a \in AllA(s, c) : a[2] < Arrived(a[1])}
  <2>1. \A a \in (0..(GridA(bsz) - 1)) \X (0..(RunRows - 1)) :
          a[2] < Arrived(a[1]) => a[2] < RunLength(RunOfA(a[1]))
    <3> TAKE a \in (0..(GridA(bsz) - 1)) \X (0..(RunRows - 1))
    <3>1. a[1] \in 0..(GridA(bsz) - 1) /\ a[2] \in Nat
      BY <1>3
    <3> QED
      BY <1>4, <3>1
  <2> QED
    BY <2>1 DEF ArrivalsA, AllA
<1>8. ASSUME NEW s \in ActiveSlots, NEW c \in 0..(ChunksI - 1)
      PROVE  /\ IsFiniteSet(ArrivalsA(s, c)) /\ Cardinality(ArrivalsA(s, c)) <= ExpectedA
             /\ Cardinality(ArrivalsA(s, c)) = ExpectedA => ArrivalsA(s, c) = AllA(s, c)
  <2>1. IsFiniteSet(AllA(s, c)) /\ Cardinality(AllA(s, c)) = ExpectedA
    BY <1>1, CountA
  <2>2. ArrivalsA(s, c) \in SUBSET AllA(s, c)
    BY <1>7
  <2> QED
    BY <2>1, <2>2, FS_Subset
<1> QED
  BY <1>4, <1>5, <1>6, <1>7, <1>8

\* The blocks of kernel B and the arrivals they have made.
LEMMA RunningB ==
  ASSUME IInv, stage = "b"
  PROVE  /\ \A b \in 0..(GridB(bsz) - 1) :
              /\ b \in Blocks /\ RunOfB(b) \in RunSet /\ ChunkB(b) \in 0..(ChunksH - 1)
              /\ r[b] \in Nat /\ Arrived(b) \in Nat /\ Arrived(b) <= RunLength(RunOfB(b))
              /\ RunLength(RunOfB(b)) \in Nat /\ RunLength(RunOfB(b)) <= RunRows
         /\ \A b \in Blocks : at[b] # "done" => b \in 0..(GridB(bsz) - 1)
         /\ \A b \in Blocks : at[b] \in {"arrive", "epilogue"} =>
              /\ r[b] \in DOMAIN read_run(RunOfB(b)) /\ r[b] < RunLength(RunOfB(b)) /\ r[b] < RunRows
              /\ SlotB(b) \in ActiveSlots /\ RowOf(SlotB(b)) \in (0..(bsz - 1)) \ EmptyRows
         /\ \A row, c : ArrivalsB(row, c) \subseteq AllB(row, c)
         /\ \A row, c : ArrivalsB(row, c) = {a \in AllB(row, c) : a[2] < Arrived(a[1])}
         /\ \A row \in 0..(bsz - 1), c \in 0..(ChunksH - 1) :
              /\ IsFiniteSet(ArrivalsB(row, c)) /\ Cardinality(ArrivalsB(row, c)) <= ExpectedB(row)
              /\ Cardinality(ArrivalsB(row, c)) = ExpectedB(row) => ArrivalsB(row, c) = AllB(row, c)
<1>1. /\ shape \in Shapes /\ bsz \in 1..MaxRows /\ RunsFit /\ r \in [Blocks -> 0..RunRows]
      /\ at \in [Blocks -> {"gemv", "arrive", "epilogue", "done"}] /\ route \in [Slots -> 0..ExpertCount]
  BY DEF IInv, TypeOK, StageInv
<1>2. \A b \in Blocks : IF b < GridB(bsz) THEN Placed(b, RunLength(RunOfB(b))) ELSE at[b] = "done"
  BY DEF IInv, PlaceInv
<1>3. GridB(bsz) \in Nat /\ Blocks \subseteq Nat /\ RunRows \in Nat /\ RunRows > 0
  BY <1>1, Grids, Sizes
<1>4. ASSUME NEW b \in 0..(GridB(bsz) - 1)
      PROVE  /\ b \in Blocks /\ RunOfB(b) \in RunSet /\ ChunkB(b) \in 0..(ChunksH - 1)
             /\ r[b] \in Nat /\ Arrived(b) \in Nat /\ Arrived(b) <= RunLength(RunOfB(b))
             /\ RunLength(RunOfB(b)) \in Nat /\ RunLength(RunOfB(b)) <= RunRows
             /\ at[b] \in {"arrive", "epilogue"} => r[b] < RunLength(RunOfB(b))
  <2>1. b \in Blocks /\ RunOfB(b) \in RunSet /\ ChunkB(b) \in 0..(ChunksH - 1)
    BY <1>1, PlaceB
  <2>2. RunLength(RunOfB(b)) \in Nat /\ RunLength(RunOfB(b)) <= RunRows
    BY <1>1, <2>1, RunOf
  <2>3. Placed(b, RunLength(RunOfB(b))) /\ r[b] \in Nat
    BY <1>1, <1>2, <1>3, <2>1
  <2> QED
    BY <1>1, <2>1, <2>2, <2>3 DEF Placed, Arrived
<1>5. \A b \in Blocks : at[b] # "done" => b \in 0..(GridB(bsz) - 1)
  BY <1>2, <1>3
<1>6. ASSUME NEW b \in Blocks, at[b] \in {"arrive", "epilogue"}
      PROVE  /\ r[b] \in DOMAIN read_run(RunOfB(b)) /\ r[b] < RunLength(RunOfB(b)) /\ r[b] < RunRows
             /\ SlotB(b) \in ActiveSlots /\ RowOf(SlotB(b)) \in (0..(bsz - 1)) \ EmptyRows
  <2>1. r[b] < RunLength(RunOfB(b)) /\ r[b] \in Nat /\ RunOfB(b) \in RunSet /\ RunLength(RunOfB(b)) <= RunRows
        /\ RunLength(RunOfB(b)) \in Nat
    BY <1>4, <1>5, <1>6
  <2>2. r[b] \in DOMAIN read_run(RunOfB(b))
    BY <1>1, <2>1, RunOf
  <2>3. SlotB(b) \in ActiveSlots
    BY <1>1, <2>1, <2>2, RunOf DEF SlotB
  <2>4. RowOf(SlotB(b)) \in 0..(bsz - 1) /\ SlotB(b) \in SlotsOf(RowOf(SlotB(b)))
    BY <1>1, <2>3, Rows
  <2>5. RowOf(SlotB(b)) \notin EmptyRows
    BY <1>1, <2>4, Rows
  <2> QED
    BY <1>3, <2>1, <2>2, <2>3, <2>4, <2>5
<1>7. ASSUME NEW row, NEW c
      PROVE  /\ ArrivalsB(row, c) \subseteq AllB(row, c)
             /\ ArrivalsB(row, c) = {a \in AllB(row, c) : a[2] < Arrived(a[1])}
  <2>1. \A a \in (0..(GridB(bsz) - 1)) \X (0..(RunRows - 1)) :
          a[2] < Arrived(a[1]) => a[2] < RunLength(RunOfB(a[1]))
    <3> TAKE a \in (0..(GridB(bsz) - 1)) \X (0..(RunRows - 1))
    <3>1. a[1] \in 0..(GridB(bsz) - 1) /\ a[2] \in Nat
      BY <1>3
    <3> QED
      BY <1>4, <3>1
  <2> QED
    BY <2>1 DEF ArrivalsB, AllB
<1>8. ASSUME NEW row \in 0..(bsz - 1), NEW c \in 0..(ChunksH - 1)
      PROVE  /\ IsFiniteSet(ArrivalsB(row, c)) /\ Cardinality(ArrivalsB(row, c)) <= ExpectedB(row)
             /\ Cardinality(ArrivalsB(row, c)) = ExpectedB(row) => ArrivalsB(row, c) = AllB(row, c)
  <2>1. IsFiniteSet(AllB(row, c)) /\ Cardinality(AllB(row, c)) = ExpectedB(row)
    BY <1>1, CountB
  <2>2. ArrivalsB(row, c) \in SUBSET AllB(row, c)
    BY <1>7
  <2> QED
    BY <2>1, <2>2, FS_Subset
<1> QED
  BY <1>4, <1>5, <1>6, <1>7, <1>8

\* Behind a full counter all partial results are stored.
LEMMA FullA ==
  ASSUME IInv, stage = "a", NEW s \in ActiveSlots, NEW c \in 0..(ChunksI - 1), ctr_a[IndexA(s, c)] = ExpectedA
  PROVE  \A p \in Projs, g \in GroupsOf(c, GpcA) : <<p, s, g>> \in gu
<1>1. shape \in Shapes /\ bsz \in 1..MaxRows /\ RunsFit /\ ActiveSlots \subseteq Slots
  BY Actives DEF IInv, TypeOK, StageInv
<1>2. ArrivalsA(s, c) = AllA(s, c)
  <2>1. ctr_a[IndexA(s, c)] = Cardinality(ArrivalsA(s, c))
    BY <1>1 DEF IInv, CountersExact
  <2> QED
    BY <2>1, RunningA
<1> TAKE p \in Projs, g \in GroupsOf(c, GpcA)
<1>3. PICK a \in AllA(s, c) : ProjOf(a[1]) = p /\ GroupA(a[1]) = g
  BY <1>1, CountA
<1>4. a[1] \in 0..(GridA(bsz) - 1) /\ a[2] \in 0..(RunRows - 1) /\ a[2] < RunLength(RunOfA(a[1]))
      /\ read_run(RunOfA(a[1]))[a[2]] = s
  BY DEF AllA
<1>5. a[2] < Arrived(a[1]) /\ a[2] \in Nat /\ RunOfA(a[1]) \in RunSet
  BY <1>2, <1>3, <1>4, RunningA, CoopAssumption
<1>6. at[a[1]] # "gemv"
  BY <1>5 DEF Arrived
<1>7. a[2] \in DOMAIN read_run(RunOfA(a[1]))
  BY <1>1, <1>4, <1>5, RunOf
<1>8. <<ProjOf(a[1]), read_run(RunOfA(a[1]))[a[2]], GroupA(a[1])>> \in gu
  BY <1>4, <1>6, <1>7 DEF IInv, StartedInv
<1> QED
  BY <1>3, <1>4, <1>8

LEMMA FullB ==
  ASSUME IInv, stage = "b", NEW row \in 0..(bsz - 1), NEW c \in 0..(ChunksH - 1),
         ctr_b[IndexB(row, c)] = ExpectedB(row)
  PROVE  \A s \in SlotsOf(row), g \in GroupsOf(c, GpcB) : <<s, g>> \in d_out
<1>1. shape \in Shapes /\ bsz \in 1..MaxRows /\ RunsFit /\ route \in [Slots -> 0..ExpertCount]
  BY DEF IInv, TypeOK, StageInv
<1>2. ArrivalsB(row, c) = AllB(row, c)
  <2>1. ctr_b[IndexB(row, c)] = Cardinality(ArrivalsB(row, c))
    BY <1>1 DEF IInv, CountersExact
  <2> QED
    BY <2>1, RunningB
<1> TAKE s \in SlotsOf(row), g \in GroupsOf(c, GpcB)
<1>3. PICK a \in AllB(row, c) : read_run(RunOfB(a[1]))[a[2]] = s /\ GroupB(a[1]) = g
  BY <1>1, CountB
<1>4. a[1] \in 0..(GridB(bsz) - 1) /\ a[2] \in 0..(RunRows - 1) /\ a[2] < RunLength(RunOfB(a[1]))
  BY DEF AllB
<1>5. a[2] < Arrived(a[1]) /\ a[2] \in Nat /\ RunOfB(a[1]) \in RunSet
  BY <1>2, <1>3, <1>4, RunningB, CoopAssumption
<1>6. at[a[1]] # "gemv"
  BY <1>5 DEF Arrived
<1>7. a[2] \in DOMAIN read_run(RunOfB(a[1]))
  BY <1>1, <1>4, <1>5, RunOf
<1>8. <<read_run(RunOfB(a[1]))[a[2]], GroupB(a[1])>> \in d_out
  BY <1>4, <1>6, <1>7 DEF IInv, StartedInv
<1> QED
  BY <1>3, <1>8

\* What does not change with the progress of a kernel.
LEMMA Frame ==
  ASSUME UNCHANGED <<shape, bsz, route, runs>>
  PROVE  /\ TopK' = TopK /\ MaxRows' = MaxRows /\ ExpertCount' = ExpertCount /\ ChunksI' = ChunksI
         /\ ChunksH' = ChunksH /\ GpcA' = GpcA /\ GpcB' = GpcB /\ NgA' = NgA /\ NgB' = NgB
         /\ Slots' = Slots /\ CtrA' = CtrA /\ CtrB' = CtrB /\ Blocks' = Blocks /\ ExpectedA' = ExpectedA
         /\ GridA(bsz)' = GridA(bsz) /\ GridB(bsz)' = GridB(bsz)
         /\ ActiveSlots' = ActiveSlots /\ RunSet' = RunSet /\ EmptyRows' = EmptyRows /\ RunsFit' = RunsFit
         /\ \A k : read_run(k)' = read_run(k) /\ RunLength(k)' = RunLength(k)
         /\ \A b : /\ RunOfA(b)' = RunOfA(b) /\ GroupA(b)' = GroupA(b) /\ ChunkA(b)' = ChunkA(b)
                   /\ RunOfB(b)' = RunOfB(b) /\ GroupB(b)' = GroupB(b) /\ ChunkB(b)' = ChunkB(b)
         /\ \A s : RowOf(s)' = RowOf(s) /\ SlotsOf(s)' = SlotsOf(s) /\ ExpectedB(s)' = ExpectedB(s)
         /\ \A s, c : IndexA(s, c)' = IndexA(s, c) /\ IndexB(s, c)' = IndexB(s, c)
                      /\ AllA(s, c)' = AllA(s, c) /\ AllB(s, c)' = AllB(s, c)
<1>1. /\ TopK' = TopK /\ MaxRows' = MaxRows /\ ExpertCount' = ExpertCount /\ ChunksI' = ChunksI
      /\ ChunksH' = ChunksH /\ GpcA' = GpcA /\ GpcB' = GpcB
  BY DEF TopK, MaxRows, ExpertCount, ChunksI, ChunksH, GpcA, GpcB
<1>2. NgA' = NgA /\ NgB' = NgB /\ ExpectedA' = ExpectedA /\ Slots' = Slots /\ CtrA' = CtrA /\ CtrB' = CtrB
      /\ RunSet' = RunSet
  BY <1>1, Zenon DEF NgA, NgB, ExpectedA, Slots, CtrA, CtrB, RunSet
<1>3. \A n : GridA(n)' = GridA(n) /\ GridB(n)' = GridB(n)
  BY <1>1, <1>2, Zenon DEF GridA, GridB
<1>4. GridA(bsz)' = GridA(bsz) /\ GridB(bsz)' = GridB(bsz) /\ GridA(MaxRows)' = GridA(MaxRows)
      /\ GridB(MaxRows)' = GridB(MaxRows)
  BY <1>1, <1>3, Zenon DEF GridA, GridB
<1>5. Blocks' = Blocks
  BY <1>4, Zenon DEF Blocks
<1>6. ActiveSlots' = ActiveSlots
  BY <1>1, <1>2 DEF ActiveSlots, Active
<1>7. \A s : RowOf(s)' = RowOf(s) /\ SlotsOf(s)' = SlotsOf(s) /\ ExpectedB(s)' = ExpectedB(s)
  <2>1. \A s : RowOf(s)' = RowOf(s)
    BY <1>1 DEF RowOf
  <2>2. \A s : SlotsOf(s)' = SlotsOf(s)
    BY <1>6, <2>1 DEF SlotsOf
  <2> QED
    BY <1>1, <2>1, <2>2, Zenon DEF ExpectedB
<1>8. EmptyRows' = EmptyRows
  BY <1>7 DEF EmptyRows
<1>9. \A k : read_run(k)' = read_run(k)
  BY <1>1 DEF read_run, Active
<1>10. \A k : RunLength(k)' = RunLength(k)
  BY <1>9, Zenon DEF RunLength
<1>11. \A b : /\ RunOfA(b)' = RunOfA(b) /\ GroupA(b)' = GroupA(b) /\ ChunkA(b)' = ChunkA(b)
              /\ RunOfB(b)' = RunOfB(b) /\ GroupB(b)' = GroupB(b) /\ ChunkB(b)' = ChunkB(b)
  BY <1>1, <1>2, Zenon DEF RunOfA, GroupA, ChunkA, RunOfB, GroupB, ChunkB
<1>12. \A s, c : IndexA(s, c)' = IndexA(s, c) /\ IndexB(s, c)' = IndexB(s, c)
  BY <1>1, Zenon DEF IndexA, IndexB
<1>13. \A s, c : AllA(s, c)' = AllA(s, c) /\ AllB(s, c)' = AllB(s, c)
  BY <1>4, <1>7, <1>9, <1>10, <1>11 DEF AllA, AllB
<1>14. RunsFit' = RunsFit
  BY <1>2, <1>6, <1>9, <1>10 DEF RunsFit
<1> QED
  BY <1>1, <1>2, <1>4, <1>5, <1>6, <1>7, <1>8, <1>9, <1>10, <1>11, <1>12, <1>13, <1>14

\* The block of kernel A that writes a chunk of the row of one call without a local expert.
LEMMA EmptyBlock ==
  ASSUME shape \in Shapes, bsz \in 1..MaxRows, NEW c \in Nat
  PROVE  /\ 2 * (c % NgA) + 1 \in 0..(GridA(bsz) - 1) /\ 2 * (c % NgA) + 1 \in Blocks
         /\ RunOfA(2 * (c % NgA) + 1) = 0 /\ GroupA(2 * (c % NgA) + 1) = c % NgA
         /\ ProjOf(2 * (c % NgA) + 1) = "up"
<1> DEFINE n == bsz * TopK
           g == c % NgA
           b == 2 * g + 1
<1>1. NgA \in Nat /\ NgA > 0 /\ bsz \in Nat /\ bsz > 0 /\ bsz <= MaxRows
  BY Sizes
<1>2. g \in Nat /\ g < NgA
  BY <1>1, Divided
<1>3. n \in Nat /\ n > 0 /\ GridA(bsz) \in Nat /\ GridA(bsz) = 2 * (NgA * n) /\ 0..(GridA(bsz) - 1) \subseteq Blocks
  BY <1>1, Grids
<1> HIDE DEF n, g
<1>4. NgA * 1 <= NgA * n /\ NgA * 1 = NgA /\ NgA * n \in Nat
  BY <1>1, <1>3, Product
<1>5. g < NgA * n
  BY <1>1, <1>2, <1>4
<1> DEFINE N == NgA * n
<1>6. N \in Nat /\ g < N /\ GridA(bsz) = 2 * N
  BY <1>3, <1>4, <1>5
<1> HIDE DEF N
<1>7. b \in Nat /\ b < GridA(bsz)
  BY <1>2, <1>6
<1>8. b \in 0..(GridA(bsz) - 1)
  BY <1>3, <1>7
<1>9. b \div 2 = g /\ b % 2 = 1
  BY <1>2, Quotient
<1>10. g \div NgA = 0 /\ g % NgA = g
  <2>1. NgA * 0 + g = g
    BY <1>1, <1>2
  <2>2. (NgA * 0 + g) \div NgA = 0 /\ (NgA * 0 + g) % NgA = g
    BY <1>1, <1>2, Quotient
  <2> QED
    BY <2>1, <2>2
<1> HIDE DEF b
<1>11. RunOfA(b) = 0 /\ GroupA(b) = g /\ ProjOf(b) = "up"
  BY <1>9, <1>10 DEF RunOfA, GroupA, ProjOf
<1>12. b \in Blocks
  BY <1>3, <1>8
<1> QED
  BY <1>8, <1>11, <1>12 DEF b, g

\* A counter of the other kernel is in the share of one block of the grid.
LEMMA ShareOf ==
  ASSUME shape \in Shapes, bsz \in 1..MaxRows
  PROVE  /\ \A j \in CtrB : (j \div THREADS) % GridA(bsz) \in 0..(GridA(bsz) - 1)
         /\ \A j \in CtrA : (j \div THREADS) % GridB(bsz) \in 0..(GridB(bsz) - 1)
         /\ \A b, j : j \in Share(b, GridA(bsz), MaxRows * ChunksH) <=> j \in CtrB /\ (j \div THREADS) % GridA(bsz) = b
         /\ \A b, j : j \in Share(b, GridB(bsz), MaxRows * TopK * ChunksI) <=>
                        j \in CtrA /\ (j \div THREADS) % GridB(bsz) = b
<1>1. /\ GridA(bsz) \in Nat /\ GridA(bsz) > 0 /\ GridB(bsz) \in Nat /\ GridB(bsz) > 0
      /\ THREADS \in Nat /\ THREADS > 0
  <2>1. bsz \in Nat /\ bsz > 0 /\ bsz <= MaxRows
    BY Sizes
  <2> QED
    BY <2>1, Grids, Sizes
<1>2. CtrA \subseteq Nat /\ CtrB \subseteq Nat
  BY DEF CtrA, CtrB
<1>3. ASSUME NEW j \in Nat, NEW d \in Nat, d > 0 PROVE (j \div THREADS) % d \in 0..(d - 1)
  <2>1. j \div THREADS \in Nat
    BY <1>1, Divided
  <2>2. (j \div THREADS) % d \in Nat /\ (j \div THREADS) % d < d
    BY <1>3, <2>1, Divided
  <2> QED
    BY <1>3, <2>2
<1>4. /\ \A b, j : j \in Share(b, GridA(bsz), MaxRows * ChunksH) <=> j \in CtrB /\ (j \div THREADS) % GridA(bsz) = b
      /\ \A b, j : j \in Share(b, GridB(bsz), MaxRows * TopK * ChunksI) <=>
                     j \in CtrA /\ (j \div THREADS) % GridB(bsz) = b
  BY Zenon DEF Share, CtrA, CtrB
<1> QED
  BY <1>1, <1>2, <1>3, <1>4

-----------------------------------------------------------------------------
(* A step of a block *)

\* An arrival adds the block and the row of its run to those of one chunk of one slot.
LEMMA ArrivalsStepA ==
  ASSUME IInv, stage = "a", UNCHANGED <<shape, bsz, route, runs>>
  PROVE  /\ (\A d \in Blocks : Arrived(d)' = Arrived(d)) => \A s, c : ArrivalsA(s, c)' = ArrivalsA(s, c)
         /\ \A b \in Blocks :
              at[b] = "arrive" /\ Arrived(b)' = r[b] + 1 /\ (\A d \in Blocks \ {b} : Arrived(d)' = Arrived(d)) =>
                /\ \A s, c : ~ (s = SlotA(b) /\ c = ChunkA(b)) => ArrivalsA(s, c)' = ArrivalsA(s, c)
                /\ \A s, c : s = SlotA(b) /\ c = ChunkA(b) =>
                     /\ ArrivalsA(s, c)' = ArrivalsA(s, c) \cup {<<b, r[b]>>}
                     /\ <<b, r[b]>> \notin ArrivalsA(s, c) /\ <<b, r[b]>> \in AllA(s, c)
<1> DEFINE P == (0..(GridA(bsz) - 1)) \X (0..(RunRows - 1))
           on(a, s, c) == ChunkA(a[1]) = c /\ read_run(RunOfA(a[1]))[a[2]] = s
<1>1. \A s, c : ArrivalsA(s, c) = {a \in P : on(a, s, c) /\ a[2] < Arrived(a[1])}
  BY DEF ArrivalsA
<1>2. \A s, c : ArrivalsA(s, c)' = {a \in P : on(a, s, c) /\ a[2] < Arrived(a[1])'}
  BY Frame DEF ArrivalsA
<1>3. \A d \in 0..(GridA(bsz) - 1) : d \in Blocks
  BY RunningA
<1>4. \A a \in P : a[1] \in Blocks /\ a[1] \in 0..(GridA(bsz) - 1) /\ a[2] \in Nat /\ a = <<a[1], a[2]>>
  BY <1>3, CoopAssumption
<1>5. ASSUME \A d \in Blocks : Arrived(d)' = Arrived(d), NEW s, NEW c PROVE ArrivalsA(s, c)' = ArrivalsA(s, c)
  <2>1. \A a \in P : Arrived(a[1])' = Arrived(a[1])
    BY <1>4, <1>5
  <2> HIDE DEF P, on
  <2> QED
    BY <1>1, <1>2, <2>1
<1>6. ASSUME NEW b \in Blocks, at[b] = "arrive", Arrived(b)' = r[b] + 1,
             \A d \in Blocks \ {b} : Arrived(d)' = Arrived(d)
      PROVE  /\ \A s, c : ~ (s = SlotA(b) /\ c = ChunkA(b)) => ArrivalsA(s, c)' = ArrivalsA(s, c)
             /\ \A s, c : s = SlotA(b) /\ c = ChunkA(b) =>
                  /\ ArrivalsA(s, c)' = ArrivalsA(s, c) \cup {<<b, r[b]>>}
                  /\ <<b, r[b]>> \notin ArrivalsA(s, c) /\ <<b, r[b]>> \in AllA(s, c)
  <2> DEFINE x == <<b, r[b]>>
  <2>1. b \in 0..(GridA(bsz) - 1) /\ r[b] \in Nat /\ r[b] < RunRows /\ r[b] < RunLength(RunOfA(b))
    BY <1>6, RunningA
  <2>2. Arrived(b) = r[b] /\ x[1] = b /\ x[2] = r[b]
    BY <1>6 DEF Arrived
  <2>3. x \in P
    BY <2>1, CoopAssumption
  <2>4. \A s, c : on(x, s, c) <=> s = SlotA(b) /\ c = ChunkA(b)
    BY <2>2 DEF SlotA
  <2>5. ~ (x[2] < Arrived(x[1])) /\ x[2] < Arrived(x[1])'
    BY <1>6, <2>1, <2>2
  <2>6. \A a \in P : a # x => (a[2] < Arrived(a[1])' <=> a[2] < Arrived(a[1]))
    <3> TAKE a \in P
    <3> HAVE a # x
    <3>1. a[1] \in Blocks /\ a[2] \in Nat /\ a = <<a[1], a[2]>>
      BY <1>4
    <3>2. CASE a[1] = b
      <4>1. a[2] # r[b]
        BY <3>1, <3>2
      <4> QED
        BY <1>6, <2>1, <2>2, <3>1, <3>2, <4>1
    <3>3. CASE a[1] # b
      BY <1>6, <3>1, <3>3
    <3> QED
      BY <3>2, <3>3
  <2>7. x \in AllA(SlotA(b), ChunkA(b))
    BY <2>1, <2>2, <2>3 DEF AllA, SlotA
  <2> HIDE DEF P, on, x
  <2>8. ASSUME NEW s, NEW c, ~ (s = SlotA(b) /\ c = ChunkA(b)) PROVE ArrivalsA(s, c)' = ArrivalsA(s, c)
    <3>1. ~ on(x, s, c)
      BY <2>4, <2>8
    <3>2. \A a \in P : on(a, s, c) => (a[2] < Arrived(a[1])' <=> a[2] < Arrived(a[1]))
      BY <2>6, <3>1
    <3> QED
      BY <1>1, <1>2, <3>2
  <2>9. ASSUME NEW s, NEW c, s = SlotA(b), c = ChunkA(b)
        PROVE  ArrivalsA(s, c)' = ArrivalsA(s, c) \cup {x} /\ x \notin ArrivalsA(s, c)
    <3>1. on(x, s, c)
      BY <2>4, <2>9
    <3>2. ArrivalsA(s, c) = {a \in P : on(a, s, c) /\ a[2] < Arrived(a[1])}
      BY <1>1
    <3>3. ArrivalsA(s, c)' = {a \in P : on(a, s, c) /\ a[2] < Arrived(a[1])'}
      BY <1>2
    <3> DEFINE old(a) == a[2] < Arrived(a[1])
               new(a) == a[2] < Arrived(a[1])'
               X == ArrivalsA(s, c)
               Y == ArrivalsA(s, c)'
    <3>4. X = {a \in P : on(a, s, c) /\ old(a)} /\ Y = {a \in P : on(a, s, c) /\ new(a)}
      BY <3>2, <3>3
    <3>5. ~ old(x) /\ new(x) /\ \A a \in P : a # x => (new(a) <=> old(a))
      BY <2>5, <2>6
    <3> HIDE DEF old, new, X, Y
    <3>6. \A a : a \in Y <=> a \in X \/ a = x
      BY <2>3, <3>1, <3>4, <3>5
    <3>7. x \notin X
      BY <3>4, <3>5
    <3>8. Y = X \cup {x}
      BY <3>6
    <3> QED
      BY <3>7, <3>8 DEF X, Y
  <2> QED
    BY <2>7, <2>8, <2>9 DEF x
<1> QED
  BY <1>5, <1>6

\* The arrival of a block of kernel A.
LEMMA ArriveAKeeps ==
  ASSUME IInv, NEW b \in Blocks, ArriveA(b)
  PROVE  IInv'
<1>0. PICK s, c, i : s = SlotA(b) /\ c = ChunkA(b) /\ i = IndexA(s, c)
  OBVIOUS
<1> DEFINE last == ctr_a[i] = ExpectedA - 1
<1>1. /\ stage = "a" /\ at[b] = "arrive" /\ ctr_a' = [ctr_a EXCEPT ![i] = ctr_a[i] + 1]
      /\ IF last THEN at' = [at EXCEPT ![b] = "epilogue"] /\ UNCHANGED r ELSE NextRow(b, RunOfA(b))
      /\ UNCHANGED <<shape, stage, bsz, route, ctr_b, runs, had, gu, act_out, d_out, out>>
  BY <1>0 DEF ArriveA, stream, buffers
<1>2. TypeOK /\ StageInv /\ PlaceInv /\ StartedInv /\ LastInv /\ EmptyInv /\ CountersExact
  BY DEF IInv
<1>3. /\ shape \in Shapes /\ bsz \in 1..MaxRows /\ route \in [Slots -> 0..ExpertCount] /\ RunsFit
      /\ at \in [Blocks -> {"gemv", "arrive", "epilogue", "done"}] /\ r \in [Blocks -> 0..RunRows]
      /\ ctr_a \in [CtrA -> 0..(GpcA * 2)]
  BY <1>1, <1>2 DEF TypeOK, StageInv
<1>4. /\ b \in 0..(GridA(bsz) - 1) /\ RunOfA(b) \in RunSet /\ c \in 0..(ChunksI - 1)
      /\ r[b] \in Nat /\ r[b] < RunLength(RunOfA(b)) /\ r[b] < RunRows
      /\ RunLength(RunOfA(b)) \in Nat /\ RunLength(RunOfA(b)) <= RunRows
      /\ s \in ActiveSlots /\ s \in Slots /\ i \in CtrA
      /\ RunRows \in Nat /\ GpcA \in Nat /\ ExpectedA \in Nat /\ ExpectedA = GpcA * 2 /\ ExpectedA > 0
  <2>1. RunRows \in Nat /\ GpcA \in Nat /\ ExpectedA \in Nat /\ ExpectedA = GpcA * 2 /\ ExpectedA > 0
    BY <1>3, Sizes DEF ExpectedA
  <2>2. /\ b \in 0..(GridA(bsz) - 1) /\ s \in ActiveSlots /\ r[b] < RunLength(RunOfA(b)) /\ r[b] < RunRows
    BY <1>0, <1>1, RunningA
  <2>3. /\ RunOfA(b) \in RunSet /\ c \in 0..(ChunksI - 1) /\ r[b] \in Nat
        /\ RunLength(RunOfA(b)) \in Nat /\ RunLength(RunOfA(b)) <= RunRows
    BY <1>0, <1>1, <2>2, RunningA
  <2>4. s \in Slots
    BY <1>3, <2>2, Actives
  <2>5. i \in CtrA
    BY <1>0, <1>3, <2>3, <2>4, Indices
  <2> QED
    BY <2>1, <2>2, <2>3, <2>4, <2>5
<1> HIDE DEF last
\* Where the block goes.
<1>5. /\ at' \in [Blocks -> {"gemv", "arrive", "epilogue", "done"}] /\ r' \in [Blocks -> 0..RunRows]
      /\ \A d \in Blocks \ {b} : at'[d] = at[d] /\ r'[d] = r[d]
      /\ at'[b] = "epilogue" <=> last
      /\ last => r'[b] = r[b]
      /\ ~ last => r'[b] = r[b] + 1 /\ at'[b] = (IF r[b] + 1 < RunLength(RunOfA(b)) THEN "arrive" ELSE "done")
  <2>1. CASE last
    BY <1>1, <1>3, <1>4, <2>1
  <2>2. CASE ~ last
    <3>1. r[b] + 1 \in 0..RunRows
      BY <1>4
    <3> QED
      BY <1>1, <1>3, <2>2, <3>1 DEF NextRow
  <2> QED
    BY <2>1, <2>2
<1>6. Arrived(b)' = r[b] + 1 /\ \A d \in Blocks \ {b} : Arrived(d)' = Arrived(d)
  BY <1>4, <1>5 DEF Arrived
<1>7. Placed(b, RunLength(RunOfA(b)))'
  <2>1. RunLength(RunOfA(b))' = RunLength(RunOfA(b))
    BY <1>1, Frame
  <2> QED
    BY <1>4, <1>5, <2>1 DEF Placed
\* The counter of the chunk and what it counts.
<1>8. /\ \A u, e : ~ (u = s /\ e = c) => ArrivalsA(u, e)' = ArrivalsA(u, e)
      /\ ArrivalsA(s, c)' = ArrivalsA(s, c) \cup {<<b, r[b]>>}
      /\ <<b, r[b]>> \notin ArrivalsA(s, c) /\ <<b, r[b]>> \in AllA(s, c)
  BY <1>0, <1>1, <1>6, ArrivalsStepA
<1>9. /\ ctr_a[i] = Cardinality(ArrivalsA(s, c)) /\ ctr_a[i] \in Nat
      /\ Cardinality(ArrivalsA(s, c)') = ctr_a[i] + 1 /\ ctr_a[i] < ExpectedA
  <2>1. ctr_a[i] = Cardinality(ArrivalsA(s, c))
    BY <1>0, <1>1, <1>2, <1>4 DEF CountersExact
  <2>2. /\ IsFiniteSet(ArrivalsA(s, c)) /\ Cardinality(ArrivalsA(s, c)) <= ExpectedA
        /\ Cardinality(ArrivalsA(s, c)) # ExpectedA
    BY <1>1, <1>4, <1>8, RunningA
  <2>3. Cardinality(ArrivalsA(s, c)) \in Nat
    BY <2>2, FS_CardinalityType
  <2>4. Cardinality(ArrivalsA(s, c)') = Cardinality(ArrivalsA(s, c)) + 1
    BY <1>8, <2>2, FS_AddElement
  <2> QED
    BY <1>4, <2>1, <2>2, <2>3, <2>4
<1>10. /\ ctr_a' \in [CtrA -> 0..(GpcA * 2)] /\ ctr_a'[i] = ctr_a[i] + 1
       /\ \A u \in Slots, e \in 0..(ChunksI - 1) : ~ (u = s /\ e = c) => ctr_a'[IndexA(u, e)] = ctr_a[IndexA(u, e)]
  <2>1. ctr_a[i] + 1 \in 0..(GpcA * 2)
    BY <1>4, <1>9
  <2>2. \A u \in Slots, e \in 0..(ChunksI - 1) : ~ (u = s /\ e = c) => IndexA(u, e) # i /\ IndexA(u, e) \in CtrA
    BY <1>0, <1>3, <1>4, Indices
  <2> QED
    BY <1>1, <1>3, <1>4, <2>1, <2>2
<1>11. TypeOK'
  BY <1>1, <1>2, <1>5, <1>10, Frame DEF TypeOK
<1>12. StageInv'
  BY <1>1, <1>2, Frame DEF StageInv, OutputRight
<1>13. PlaceInv'
  <2>1. \A d \in Blocks \ {b} : IF d < GridA(bsz) THEN Placed(d, RunLength(RunOfA(d)))' ELSE at'[d] = "done"
    <3> TAKE d \in Blocks \ {b}
    <3>1. RunLength(RunOfA(d))' = RunLength(RunOfA(d))
      BY <1>1, Frame
    <3>2. IF d < GridA(bsz) THEN Placed(d, RunLength(RunOfA(d))) ELSE at[d] = "done"
      BY <1>1, <1>2 DEF PlaceInv
    <3> QED
      BY <1>5, <3>1, <3>2 DEF Placed
  <2>2. b < GridA(bsz)
    BY <1>3, <1>4, Grids
  <2> QED
    BY <1>1, <1>7, <2>1, <2>2, Frame DEF PlaceInv
<1>14. StartedInv'
  <2>1. \A d \in 0..(GridA(bsz) - 1) : d \in Blocks /\ (at'[d] # "gemv" => at[d] # "gemv")
    BY <1>1, <1>5, RunningA
  <2>2. \A j \in CtrB : (j \div THREADS) % GridA(bsz) \in 0..(GridA(bsz) - 1)
    BY <1>3, ShareOf
  <2> QED
    BY <1>1, <1>2, <2>1, <2>2, Frame DEF StartedInv, ProjOf
<1>15. EmptyInv'
  <2>1. \A d \in Blocks : at[d] = "gemv" => at'[d] = "gemv"
    BY <1>1, <1>5
  <2>2. \A e \in 0..(ChunksH - 1) : 2 * (e % NgA) + 1 \in Blocks
    BY <1>3, EmptyBlock
  <2> DEFINE x(e) == 2 * (e % NgA) + 1
  <2>3. \A e : x(e)' = x(e)
    BY <1>1, Frame
  <2>4. /\ out \subseteq EmptyRows \X (0..(ChunksH - 1))
        /\ \A row \in EmptyRows, e \in 0..(ChunksH - 1) : <<row, e>> \in out \/ (bsz = 1 /\ at[x(e)] = "gemv")
    BY <1>1, <1>2 DEF EmptyInv
  <2>5. EmptyInv' <=> /\ out \subseteq EmptyRows \X (0..(ChunksH - 1))
                      /\ \A row \in EmptyRows, e \in 0..(ChunksH - 1) :
                           <<row, e>> \in out \/ (bsz = 1 /\ at'[x(e)] = "gemv")
    BY <1>1, <2>3, Frame DEF EmptyInv
  <2> HIDE DEF x
  <2> QED
    BY <2>1, <2>2, <2>4, <2>5 DEF x
<1>16. CountersExact'
  <2>1. \A u \in Slots, e \in 0..(ChunksI - 1) : ctr_a'[IndexA(u, e)] = Cardinality(ArrivalsA(u, e)')
    <3> TAKE u \in Slots, e \in 0..(ChunksI - 1)
    <3>1. CASE u = s /\ e = c
      BY <1>0, <1>9, <1>10, <3>1
    <3>2. CASE ~ (u = s /\ e = c)
      BY <1>1, <1>2, <1>8, <1>10, <3>2 DEF CountersExact
    <3> QED
      BY <3>1, <3>2
  <2> QED
    BY <1>1, <2>1, Frame DEF CountersExact
<1>17. LastInv'
  <2> DEFINE held(u, e) == \E d \in Blocks : at[d] = "epilogue" /\ SlotA(d) = u /\ ChunkA(d) = e
             heldNext(u, e) == \E d \in Blocks : at'[d] = "epilogue" /\ SlotA(d)' = u /\ ChunkA(d) = e
  <2>1. /\ \A u \in ActiveSlots, e \in 0..(ChunksI - 1) :
             ctr_a[IndexA(u, e)] = ExpectedA <=> <<u, e>> \in act_out \/ held(u, e)
        /\ \A d \in Blocks : at[d] = "epilogue" =>
             /\ <<SlotA(d), ChunkA(d)>> \notin act_out
             /\ \A f \in Blocks \ {d} : at[f] = "epilogue" => <<SlotA(f), ChunkA(f)>> # <<SlotA(d), ChunkA(d)>>
    BY <1>1, <1>2 DEF LastInv
  <2>2. <<s, c>> \notin act_out /\ ~ held(s, c)
    BY <1>0, <1>4, <1>9, <2>1
  <2>3. \A d \in Blocks : d # b => SlotA(d)' = SlotA(d)
    BY <1>1, <1>5, Frame DEF SlotA
  <2>4. last => SlotA(b)' = s
    BY <1>0, <1>1, <1>5, Frame DEF SlotA
  <2>5. \A u, e : heldNext(u, e) <=> held(u, e) \/ (last /\ u = s /\ e = c)
    BY <1>0, <1>1, <1>5, <2>3, <2>4
  <2>6. \A u \in ActiveSlots, e \in 0..(ChunksI - 1) :
          ctr_a'[IndexA(u, e)] = ExpectedA <=> <<u, e>> \in act_out \/ heldNext(u, e)
    <3> TAKE u \in ActiveSlots, e \in 0..(ChunksI - 1)
    <3>1. u \in Slots
      BY <1>3, Actives
    <3>2. CASE u = s /\ e = c
      <4>1. ctr_a'[i] = ExpectedA <=> last
        BY <1>4, <1>9, <1>10 DEF last
      <4> HIDE DEF held, heldNext
      <4> QED
        BY <1>0, <2>2, <2>5, <3>2, <4>1
    <3>3. CASE ~ (u = s /\ e = c)
      <4> HIDE DEF held, heldNext
      <4> QED
        BY <1>10, <2>1, <2>5, <3>1, <3>3
    <3> QED
      BY <3>2, <3>3
  <2>7. \A d \in Blocks : at'[d] = "epilogue" =>
          /\ <<SlotA(d)', ChunkA(d)>> \notin act_out
          /\ \A f \in Blocks \ {d} : at'[f] = "epilogue" => <<SlotA(f)', ChunkA(f)>> # <<SlotA(d)', ChunkA(d)>>
    BY <1>0, <1>1, <1>5, <2>1, <2>2, <2>3, <2>4
  <2> QED
    BY <1>1, <2>6, <2>7, Frame DEF LastInv
<1> QED
  BY <1>11, <1>12, <1>13, <1>14, <1>15, <1>16, <1>17 DEF IInv

\* The last arrival of a chunk of a slot: what it reads is there.
LEMMA EpilogueAKeeps ==
  ASSUME IInv, NEW b \in Blocks, EpilogueA(b)
  PROVE  IInv'
<1>0. PICK s, c, i : s = SlotA(b) /\ c = ChunkA(b) /\ i = IndexA(s, c)
  OBVIOUS
<1>1. /\ stage = "a" /\ at[b] = "epilogue" /\ NextRow(b, RunOfA(b))
      /\ act_out' = IF \A p \in Projs, g \in GroupsOf(c, GpcA) : <<p, s, g>> \in gu
                    THEN act_out \cup {<<s, c>>} ELSE act_out \ {<<s, c>>}
      /\ UNCHANGED <<shape, stage, bsz, route, ctr_a, ctr_b, runs, had, gu, d_out, out>>
  BY <1>0 DEF EpilogueA, stream
<1>2. TypeOK /\ StageInv /\ PlaceInv /\ StartedInv /\ LastInv /\ EmptyInv /\ CountersExact
  BY DEF IInv
<1>3. /\ shape \in Shapes /\ bsz \in 1..MaxRows /\ route \in [Slots -> 0..ExpertCount] /\ RunsFit
      /\ at \in [Blocks -> {"gemv", "arrive", "epilogue", "done"}] /\ r \in [Blocks -> 0..RunRows]
      /\ ActiveSlots \subseteq Slots
  <2>1. shape \in Shapes /\ bsz \in 1..MaxRows /\ route \in [Slots -> 0..ExpertCount]
    BY <1>2 DEF TypeOK
  <2> QED
    BY <1>1, <1>2, <2>1, Actives DEF TypeOK, StageInv
<1>4. /\ b \in 0..(GridA(bsz) - 1) /\ RunOfA(b) \in RunSet /\ c \in 0..(ChunksI - 1)
      /\ r[b] \in Nat /\ r[b] < RunLength(RunOfA(b)) /\ r[b] < RunRows
      /\ RunLength(RunOfA(b)) \in Nat /\ RunLength(RunOfA(b)) <= RunRows
      /\ s \in ActiveSlots /\ RunRows \in Nat
  <2>1. RunRows \in Nat
    BY <1>3, Sizes
  <2>2. /\ b \in 0..(GridA(bsz) - 1) /\ s \in ActiveSlots /\ r[b] < RunLength(RunOfA(b)) /\ r[b] < RunRows
    BY <1>0, <1>1, RunningA
  <2>3. /\ RunOfA(b) \in RunSet /\ c \in 0..(ChunksI - 1) /\ r[b] \in Nat
        /\ RunLength(RunOfA(b)) \in Nat /\ RunLength(RunOfA(b)) <= RunRows
    BY <1>0, <1>1, <2>2, RunningA
  <2> QED
    BY <2>1, <2>2, <2>3
<1> DEFINE held(u, e) == \E d \in Blocks : at[d] = "epilogue" /\ SlotA(d) = u /\ ChunkA(d) = e
           heldNext(u, e) == \E d \in Blocks : at'[d] = "epilogue" /\ SlotA(d)' = u /\ ChunkA(d) = e
<1>5. /\ \A u \in ActiveSlots, e \in 0..(ChunksI - 1) :
           ctr_a[IndexA(u, e)] = ExpectedA <=> <<u, e>> \in act_out \/ held(u, e)
      /\ \A d \in Blocks : at[d] = "epilogue" =>
           /\ <<SlotA(d), ChunkA(d)>> \notin act_out
           /\ \A f \in Blocks \ {d} : at[f] = "epilogue" => <<SlotA(f), ChunkA(f)>> # <<SlotA(d), ChunkA(d)>>
  BY <1>1, <1>2 DEF LastInv
<1>6. act_out' = act_out \cup {<<s, c>>}
  <2>1. ctr_a[IndexA(s, c)] = ExpectedA
    BY <1>0, <1>1, <1>4, <1>5
  <2>2. \A p \in Projs, g \in GroupsOf(c, GpcA) : <<p, s, g>> \in gu
    BY <1>1, <1>4, <2>1, FullA
  <2> QED
    BY <1>1, <2>2
<1>7. /\ at' \in [Blocks -> {"gemv", "arrive", "epilogue", "done"}] /\ r' \in [Blocks -> 0..RunRows]
      /\ \A d \in Blocks \ {b} : at'[d] = at[d] /\ r'[d] = r[d]
      /\ r'[b] = r[b] + 1 /\ at'[b] = (IF r[b] + 1 < RunLength(RunOfA(b)) THEN "arrive" ELSE "done")
  <2>1. r[b] + 1 \in 0..RunRows
    BY <1>4
  <2> QED
    BY <1>1, <1>3, <2>1 DEF NextRow
<1>8. \A d \in Blocks : Arrived(d)' = Arrived(d)
  BY <1>1, <1>4, <1>7 DEF Arrived
<1>9. Placed(b, RunLength(RunOfA(b)))'
  <2>1. RunLength(RunOfA(b))' = RunLength(RunOfA(b))
    BY <1>1, Frame
  <2> QED
    BY <1>4, <1>7, <2>1 DEF Placed
<1>10. TypeOK'
  <2>1. act_out' \subseteq Slots \X (0..(ChunksI - 1))
    BY <1>2, <1>3, <1>4, <1>6 DEF TypeOK
  <2> QED
    BY <1>1, <1>2, <1>7, <2>1, Frame DEF TypeOK
<1>11. StageInv'
  BY <1>1, <1>2, Frame DEF StageInv, OutputRight
<1>12. PlaceInv'
  <2>1. \A d \in Blocks \ {b} : IF d < GridA(bsz) THEN Placed(d, RunLength(RunOfA(d)))' ELSE at'[d] = "done"
    <3> TAKE d \in Blocks \ {b}
    <3>1. RunLength(RunOfA(d))' = RunLength(RunOfA(d))
      BY <1>1, Frame
    <3>2. IF d < GridA(bsz) THEN Placed(d, RunLength(RunOfA(d))) ELSE at[d] = "done"
      BY <1>1, <1>2 DEF PlaceInv
    <3> QED
      BY <1>7, <3>1, <3>2 DEF Placed
  <2>2. b < GridA(bsz)
    BY <1>3, <1>4, Grids
  <2> QED
    BY <1>1, <1>9, <2>1, <2>2, Frame DEF PlaceInv
<1>13. StartedInv'
  <2>1. \A d \in 0..(GridA(bsz) - 1) : d \in Blocks /\ (at'[d] # "gemv" => at[d] # "gemv")
    BY <1>1, <1>7, RunningA
  <2>2. \A j \in CtrB : (j \div THREADS) % GridA(bsz) \in 0..(GridA(bsz) - 1)
    BY <1>3, ShareOf
  <2> QED
    BY <1>1, <1>2, <2>1, <2>2, Frame DEF StartedInv, ProjOf
<1>14. EmptyInv'
  <2>1. \A d \in Blocks : at[d] = "gemv" => at'[d] = "gemv"
    BY <1>1, <1>7
  <2>2. \A e \in 0..(ChunksH - 1) : 2 * (e % NgA) + 1 \in Blocks
    BY <1>3, EmptyBlock
  <2> DEFINE x(e) == 2 * (e % NgA) + 1
  <2>3. \A e : x(e)' = x(e)
    BY <1>1, Frame
  <2>4. /\ out \subseteq EmptyRows \X (0..(ChunksH - 1))
        /\ \A row \in EmptyRows, e \in 0..(ChunksH - 1) : <<row, e>> \in out \/ (bsz = 1 /\ at[x(e)] = "gemv")
    BY <1>1, <1>2 DEF EmptyInv
  <2>5. EmptyInv' <=> /\ out \subseteq EmptyRows \X (0..(ChunksH - 1))
                      /\ \A row \in EmptyRows, e \in 0..(ChunksH - 1) :
                           <<row, e>> \in out \/ (bsz = 1 /\ at'[x(e)] = "gemv")
    BY <1>1, <2>3, Frame DEF EmptyInv
  <2> HIDE DEF x
  <2> QED
    BY <2>1, <2>2, <2>4, <2>5 DEF x
<1>15. CountersExact'
  <2>1. \A u, e : ArrivalsA(u, e)' = ArrivalsA(u, e)
    BY <1>1, <1>8, ArrivalsStepA
  <2> QED
    BY <1>1, <1>2, <2>1, Frame DEF CountersExact
<1>16. LastInv'
  <2>1. \A d \in Blocks : d # b => SlotA(d)' = SlotA(d)
    BY <1>1, <1>7, Frame DEF SlotA
  <2>2. \A u, e : heldNext(u, e) <=> held(u, e) /\ ~ (u = s /\ e = c)
    <3> DEFINE other(u, e) == \E d \in Blocks \ {b} : at[d] = "epilogue" /\ SlotA(d) = u /\ ChunkA(d) = e
    <3>1. \A u, e : heldNext(u, e) <=> other(u, e)
      BY <1>7, <2>1
    <3>2. \A u, e : held(u, e) <=> other(u, e) \/ (u = s /\ e = c)
      BY <1>0, <1>1
    <3>3. ~ other(s, c)
      BY <1>0, <1>1, <1>5
    <3> HIDE DEF held, heldNext, other
    <3> QED
      BY <3>1, <3>2, <3>3
  <2>3. held(s, c)
    BY <1>0, <1>1
  <2>4. \A u \in ActiveSlots, e \in 0..(ChunksI - 1) :
          ctr_a[IndexA(u, e)] = ExpectedA <=> <<u, e>> \in act_out' \/ heldNext(u, e)
    <3> HIDE DEF held, heldNext
    <3> QED
      BY <1>5, <1>6, <2>2, <2>3
  <2>5. \A d \in Blocks : at'[d] = "epilogue" =>
          /\ <<SlotA(d)', ChunkA(d)>> \notin act_out'
          /\ \A f \in Blocks \ {d} : at'[f] = "epilogue" => <<SlotA(f)', ChunkA(f)>> # <<SlotA(d)', ChunkA(d)>>
    BY <1>0, <1>1, <1>5, <1>6, <1>7, <2>1
  <2> QED
    BY <1>1, <2>4, <2>5, Frame DEF LastInv
<1> QED
  BY <1>10, <1>11, <1>12, <1>13, <1>14, <1>15, <1>16 DEF IInv

\* A multiplication of right inputs gives right partial sums for every slot of the run.
LEMMA MultipliedAll ==
  ASSUME shape \in Shapes, bsz \in 1..MaxRows, route \in [Slots -> 0..ExpertCount], RunsFit,
         NEW k \in RunSet, NEW inputs, \A s \in ActiveSlots : inputs[s]
  PROVE  /\ \A s : s \in Multiplied(read_run(k), inputs) <=> \E j \in DOMAIN read_run(k) : read_run(k)[j] = s
         /\ Multiplied(read_run(k), inputs) \subseteq ActiveSlots
         /\ \A j \in DOMAIN read_run(k) : read_run(k)[j] \in Multiplied(read_run(k), inputs)
<1>1. /\ \A j \in DOMAIN read_run(k) : read_run(k)[j] \in ActiveSlots
      /\ \A j \in DOMAIN read_run(k) : route[read_run(k)[j]] = route[read_run(k)[0]]
  BY RunOf
<1> QED
  BY <1>1 DEF Multiplied

\* The multiplication of a block of kernel A.
LEMMA GemvAKeeps ==
  ASSUME IInv, NEW b \in Blocks, GemvA(b)
  PROVE  IInv'
<1> DEFINE k == RunOfA(b)
           run == read_run(k)
           M == Multiplied(run, Rotated(ProjOf(b)))
           writes == /\ bsz = 1 /\ RunLength(k) = 0 /\ ProjOf(b) = "up" /\ k = 0 /\ SlotsOf(0) = {}
           W == {<<0, c>> : c \in {x \in 0..(ChunksH - 1) : x % NgA = GroupA(b)}}
<1>1. /\ stage = "a" /\ at[b] = "gemv"
      /\ ctr_b' = [j \in CtrB |-> IF j \in Share(b, GridA(bsz), MaxRows * ChunksH) THEN 0 ELSE ctr_b[j]]
      /\ at' = [at EXCEPT ![b] = IF RunLength(k) = 0 THEN "done" ELSE "arrive"]
      /\ gu' = gu \cup ({ProjOf(b)} \X M \X {GroupA(b)})
      /\ out' = IF writes THEN out \cup W ELSE out
      /\ UNCHANGED <<shape, stage, bsz, route, ctr_a, runs, had, act_out, d_out, r>>
  BY DEF GemvA, stream
<1>2. TypeOK /\ StageInv /\ PlaceInv /\ StartedInv /\ LastInv /\ EmptyInv /\ CountersExact
  BY DEF IInv
<1>3. /\ shape \in Shapes /\ bsz \in 1..MaxRows /\ route \in [Slots -> 0..ExpertCount] /\ RunsFit
      /\ at \in [Blocks -> {"gemv", "arrive", "epilogue", "done"}] /\ r \in [Blocks -> 0..RunRows]
      /\ ActiveSlots \subseteq Slots /\ (bsz = 1 \/ had = Projs \X ActiveSlots)
  <2>1. shape \in Shapes /\ bsz \in 1..MaxRows /\ route \in [Slots -> 0..ExpertCount]
    BY <1>2 DEF TypeOK
  <2> QED
    BY <1>1, <1>2, <2>1, Actives DEF TypeOK, StageInv
<1>4. /\ b \in 0..(GridA(bsz) - 1) /\ k \in RunSet /\ ProjOf(b) \in Projs /\ GroupA(b) \in 0..(NgA - 1)
      /\ RunLength(k) \in Nat /\ RunLength(k) <= RunRows /\ r[b] = 0
  <2>1. b \in 0..(GridA(bsz) - 1)
    BY <1>1, RunningA
  <2>2. Placed(b, RunLength(k))
    <3>1. b < GridA(bsz)
      BY <1>3, <2>1, Grids
    <3> QED
      BY <1>1, <1>2, <3>1 DEF PlaceInv
  <2> QED
    BY <1>1, <1>3, <2>1, <2>2, PlaceA, RunningA DEF Placed
<1>5. /\ M \subseteq ActiveSlots
      /\ \A j \in DOMAIN run : run[j] \in M
  <2>1. \A s \in ActiveSlots : Rotated(ProjOf(b))[s]
    BY <1>3, <1>4 DEF Rotated
  <2> QED
    BY <1>3, <1>4, <2>1, MultipliedAll
<1>6. writes => bsz = 1 /\ 0 \in EmptyRows /\ W \subseteq EmptyRows \X (0..(ChunksH - 1))
  BY DEF EmptyRows
<1>7. /\ \A s \in M : <<ProjOf(b), s, GroupA(b)>> \in gu' /\ gu \subseteq gu'
      /\ out \subseteq out'
  BY <1>1
<1>8. gu' \subseteq Projs \X Slots \X (0..(NgA - 1))
  BY <1>1, <1>2, <1>3, <1>4, <1>5 DEF TypeOK
<1>9. bsz = 1 /\ k = 0 /\ ProjOf(b) = "up" /\ 0 \in EmptyRows =>
        \A e \in 0..(ChunksH - 1) : e % NgA = GroupA(b) => <<0, e>> \in out'
  <2> HAVE bsz = 1 /\ k = 0 /\ ProjOf(b) = "up" /\ 0 \in EmptyRows
  <2>1. SlotsOf(0) = {}
    BY DEF EmptyRows
  <2>2. ActiveSlots = {}
    <3>1. \A s \in ActiveSlots : RowOf(s) \in 0..(1 - 1) /\ s \in SlotsOf(RowOf(s))
      BY <1>3, Rows
    <3> QED
      BY <2>1, <3>1
  <2>3. RunLength(k) = 0
    BY <1>3, <1>4, <2>2, RunOf
  <2> QED
    BY <1>1, <2>1, <2>3
<1>10. out' \subseteq EmptyRows \X (0..(ChunksH - 1))
  BY <1>1, <1>2, <1>6 DEF EmptyInv
<1> HIDE DEF k, run, M, writes, W
<1>11. /\ at' \in [Blocks -> {"gemv", "arrive", "epilogue", "done"}]
       /\ \A d \in Blocks \ {b} : at'[d] = at[d]
       /\ at'[b] = (IF RunLength(k) = 0 THEN "done" ELSE "arrive")
  BY <1>1, <1>3
<1>12. \A d \in Blocks : Arrived(d)' = Arrived(d)
  <2>1. Arrived(b)' = 0 /\ Arrived(b) = 0
    BY <1>1, <1>4, <1>11 DEF Arrived
  <2> QED
    BY <1>1, <1>11, <2>1 DEF Arrived
<1>13. TypeOK'
  <2>1. ctr_b' \in [CtrB -> 0..(TopK * GpcB)]
    <3>1. ctr_b \in [CtrB -> 0..(TopK * GpcB)] /\ 0 \in 0..(TopK * GpcB)
      <4>1. 0 \in 0..(TopK * GpcB)
        <5>1. TopK \in Nat /\ GpcB \in Nat
          BY <1>3, Sizes
        <5>2. TopK * GpcB \in Nat
          BY <5>1, Product
        <5> QED
          BY <5>2
      <4> QED
        BY <1>2, <4>1 DEF TypeOK
    <3> QED
      BY <1>1, <3>1
  <2>2. out' \subseteq (0..(MaxRows - 1)) \X (0..(ChunksH - 1))
    <3>1. EmptyRows \subseteq 0..(MaxRows - 1)
      BY <1>3, Rows DEF EmptyRows
    <3> QED
      BY <1>10, <3>1
  <2> QED
    BY <1>1, <1>2, <1>8, <1>11, <2>1, <2>2, Frame DEF TypeOK, Projs
<1>14. StageInv'
  BY <1>1, <1>2, Frame DEF StageInv, OutputRight, Projs
<1>15. PlaceInv'
  <2>1. \A d \in Blocks \ {b} : IF d < GridA(bsz) THEN Placed(d, RunLength(RunOfA(d)))' ELSE at'[d] = "done"
    <3> TAKE d \in Blocks \ {b}
    <3>1. RunLength(RunOfA(d))' = RunLength(RunOfA(d))
      BY <1>1, Frame
    <3>2. IF d < GridA(bsz) THEN Placed(d, RunLength(RunOfA(d))) ELSE at[d] = "done"
      BY <1>1, <1>2 DEF PlaceInv
    <3> QED
      BY <1>1, <1>11, <3>1, <3>2 DEF Placed
  <2>2. b < GridA(bsz)
    BY <1>3, <1>4, Grids
  <2>3. Placed(b, RunLength(RunOfA(b)))'
    <3>1. RunLength(RunOfA(b))' = RunLength(k)
      BY <1>1, Frame DEF k
    <3> QED
      BY <1>1, <1>4, <1>11, <3>1 DEF Placed
  <2> QED
    BY <1>1, <2>1, <2>2, <2>3, Frame DEF PlaceInv
<1>16. StartedInv'
  <2>1. \A d \in 0..(GridA(bsz) - 1) : d \in Blocks /\ (d # b => at'[d] = at[d])
    BY <1>1, <1>11, RunningA
  <2>2. \A d \in 0..(GridA(bsz) - 1) : at'[d] # "gemv" =>
          \A j \in DOMAIN read_run(RunOfA(d)) : <<ProjOf(d), read_run(RunOfA(d))[j], GroupA(d)>> \in gu'
    <3> TAKE d \in 0..(GridA(bsz) - 1)
    <3>1. CASE d = b
      BY <1>5, <1>7, <3>1 DEF k, run
    <3>2. CASE d # b
      BY <1>1, <1>2, <1>7, <2>1, <3>2 DEF StartedInv
    <3> QED
      BY <3>1, <3>2
  <2>3. \A j \in CtrB : at'[(j \div THREADS) % GridA(bsz)] # "gemv" => ctr_b'[j] = 0
    <3> TAKE j \in CtrB
    <3> DEFINE d == (j \div THREADS) % GridA(bsz)
    <3>1. d \in 0..(GridA(bsz) - 1) /\ (j \in Share(b, GridA(bsz), MaxRows * ChunksH) <=> d = b)
      BY <1>3, ShareOf
    <3>2. at[d] # "gemv" => ctr_b[j] = 0
      BY <1>1, <1>2 DEF StartedInv
    <3>3. ctr_b'[j] = IF d = b THEN 0 ELSE ctr_b[j]
      BY <1>1, <3>1
    <3> HIDE DEF d
    <3> QED
      BY <2>1, <3>1, <3>2, <3>3 DEF d
  <2> QED
    BY <1>1, <2>2, <2>3, Frame DEF StartedInv, ProjOf
<1>17. EmptyInv'
  <2> DEFINE x(e) == 2 * (e % NgA) + 1
  <2>1. \A e : x(e)' = x(e)
    BY <1>1, Frame
  <2>2. \A row \in EmptyRows, e \in 0..(ChunksH - 1) : <<row, e>> \in out \/ (bsz = 1 /\ at[x(e)] = "gemv")
    BY <1>1, <1>2 DEF EmptyInv
  <2>3. EmptyInv' <=> /\ out' \subseteq EmptyRows \X (0..(ChunksH - 1))
                      /\ \A row \in EmptyRows, e \in 0..(ChunksH - 1) :
                           <<row, e>> \in out' \/ (bsz = 1 /\ at'[x(e)] = "gemv")
    BY <1>1, <2>1, Frame DEF EmptyInv
  <2>4. ASSUME NEW row \in EmptyRows, NEW e \in 0..(ChunksH - 1)
        PROVE  <<row, e>> \in out' \/ (bsz = 1 /\ at'[x(e)] = "gemv")
    <3>1. CASE <<row, e>> \in out
      BY <1>7, <3>1
    <3>2. CASE <<row, e>> \notin out
      <4>1. bsz = 1 /\ at[x(e)] = "gemv" /\ row = 0
        BY <2>2, <3>2 DEF EmptyRows
      <4>2. x(e) \in Blocks /\ RunOfA(x(e)) = 0 /\ GroupA(x(e)) = e % NgA /\ ProjOf(x(e)) = "up"
        BY <1>3, EmptyBlock
      <4> HIDE DEF x
      <4>3. CASE x(e) = b
        <5>1. <<0, e>> \in out'
          BY <1>9, <4>1, <4>2, <4>3 DEF k
        <5> QED
          BY <4>1, <5>1
      <4>4. CASE x(e) # b
        BY <1>11, <4>1, <4>2, <4>4
      <4> QED
        BY <4>3, <4>4
    <3> QED
      BY <3>1, <3>2
  <2> HIDE DEF x
  <2> QED
    BY <1>10, <2>3, <2>4
<1>18. CountersExact'
  <2>1. \A u, e : ArrivalsA(u, e)' = ArrivalsA(u, e)
    BY <1>1, <1>12, ArrivalsStepA
  <2> QED
    BY <1>1, <1>2, <2>1, Frame DEF CountersExact
<1>19. LastInv'
  <2>1. \A d \in Blocks : SlotA(d)' = SlotA(d) /\ (at'[d] = "epilogue" <=> at[d] = "epilogue")
    BY <1>1, <1>11, Frame DEF SlotA
  <2>2. /\ \A u \in ActiveSlots, e \in 0..(ChunksI - 1) :
             ctr_a[IndexA(u, e)] = ExpectedA <=>
               <<u, e>> \in act_out \/ \E d \in Blocks : at[d] = "epilogue" /\ SlotA(d) = u /\ ChunkA(d) = e
        /\ \A d \in Blocks : at[d] = "epilogue" =>
             /\ <<SlotA(d), ChunkA(d)>> \notin act_out
             /\ \A f \in Blocks \ {d} : at[f] = "epilogue" => <<SlotA(f), ChunkA(f)>> # <<SlotA(d), ChunkA(d)>>
    BY <1>1, <1>2 DEF LastInv
  <2> QED
    BY <1>1, <2>1, <2>2, Frame DEF LastInv
<1> QED
  BY <1>13, <1>14, <1>15, <1>16, <1>17, <1>18, <1>19 DEF IInv

-----------------------------------------------------------------------------
(* The start and the end of a kernel *)

\* A kernel A that starts with its counters at zero and its inputs rotated.
LEMMA StartOfA ==
  ASSUME TypeOK, stage = "a", RunsFit, bsz = 1 \/ had = Projs \X ActiveSlots,
         at = Ready(GridA(bsz)), r = [b \in Blocks |-> 0], act_out = {},
         \A i \in CtrA : ctr_a[i] = 0,
         out = IF bsz = 1 THEN {} ELSE EmptyRows \X (0..(ChunksH - 1))
  PROVE  IInv
<1>1. shape \in Shapes /\ bsz \in 1..MaxRows /\ route \in [Slots -> 0..ExpertCount]
  BY DEF TypeOK
<1>2. GridA(bsz) \in Nat /\ Blocks \subseteq Nat /\ 0..(GridA(bsz) - 1) \subseteq Blocks /\ ExpectedA \in Nat /\ ExpectedA > 0
  <2>1. bsz \in Nat /\ bsz > 0 /\ bsz <= MaxRows
    BY <1>1, Sizes
  <2> QED
    BY <1>1, <2>1, Grids, Sizes DEF ExpectedA
<1>3. \A b \in Blocks : /\ at[b] = (IF b < GridA(bsz) THEN "gemv" ELSE "done") /\ r[b] = 0
                        /\ at[b] # "epilogue" /\ (b \in 0..(GridA(bsz) - 1) => at[b] = "gemv")
  BY <1>2 DEF Ready
<1>4. StageInv
  BY DEF StageInv, OutputRight
<1>5. PlaceInv
  BY <1>3 DEF PlaceInv, Placed
<1>6. StartedInv
  <2>1. \A i \in CtrB : at[(i \div THREADS) % GridA(bsz)] = "gemv"
    BY <1>1, <1>2, <1>3, ShareOf
  <2> QED
    BY <1>2, <1>3, <2>1 DEF StartedInv
<1>7. LastInv
  <2>1. \A s \in ActiveSlots, c \in 0..(ChunksI - 1) : ctr_a[IndexA(s, c)] = 0
    BY <1>1, Actives, Indices
  <2> QED
    BY <1>2, <1>3, <2>1 DEF LastInv
<1>8. EmptyInv
  <2>1. \A e \in 0..(ChunksH - 1) : at[2 * (e % NgA) + 1] = "gemv"
    BY <1>1, <1>3, EmptyBlock
  <2> QED
    BY <2>1 DEF EmptyInv
<1>9. CountersExact
  <2>1. \A s, c : ArrivalsA(s, c) = {}
    <3>1. \A b \in 0..(GridA(bsz) - 1) : Arrived(b) = 0
      BY <1>2, <1>3 DEF Arrived
    <3>2. \A a \in (0..(GridA(bsz) - 1)) \X (0..(RunRows - 1)) : ~ (a[2] < Arrived(a[1]))
      <4> TAKE a \in (0..(GridA(bsz) - 1)) \X (0..(RunRows - 1))
      <4>1. a[1] \in 0..(GridA(bsz) - 1) /\ a[2] \in Nat
        BY CoopAssumption
      <4> QED
        BY <3>1, <4>1
    <3> QED
      BY <3>2 DEF ArrivalsA
  <2>2. \A s \in Slots, c \in 0..(ChunksI - 1) : ctr_a[IndexA(s, c)] = 0
    BY <1>1, Indices
  <2> QED
    BY <2>1, <2>2, FS_EmptySet DEF CountersExact
<1> QED
  BY <1>4, <1>5, <1>6, <1>7, <1>8, <1>9 DEF IInv

\* A kernel B that starts with its counters at zero and all activations in.
LEMMA StartOfB ==
  ASSUME TypeOK, stage = "b", RunsFit, bsz = 1 \/ had = Projs \X ActiveSlots,
         at = Ready(GridB(bsz)), r = [b \in Blocks |-> 0],
         ActiveSlots \X (0..(ChunksI - 1)) \subseteq act_out,
         \A i \in CtrB : ctr_b[i] = 0,
         out = EmptyRows \X (0..(ChunksH - 1))
  PROVE  IInv
<1>1. shape \in Shapes /\ bsz \in 1..MaxRows /\ route \in [Slots -> 0..ExpertCount]
  BY DEF TypeOK
<1>2. GridB(bsz) \in Nat /\ Blocks \subseteq Nat /\ 0..(GridB(bsz) - 1) \subseteq Blocks
  <2>1. bsz \in Nat /\ bsz > 0 /\ bsz <= MaxRows
    BY <1>1, Sizes
  <2> QED
    BY <1>1, <2>1, Grids
<1>3. \A b \in Blocks : /\ at[b] = (IF b < GridB(bsz) THEN "gemv" ELSE "done") /\ r[b] = 0
                        /\ at[b] # "epilogue" /\ (b \in 0..(GridB(bsz) - 1) => at[b] = "gemv")
  BY <1>2 DEF Ready
<1>4. StageInv
  BY DEF StageInv, OutputRight
<1>5. PlaceInv
  BY <1>3 DEF PlaceInv, Placed
<1>6. StartedInv
  <2>1. \A i \in CtrA : at[(i \div THREADS) % GridB(bsz)] = "gemv"
    BY <1>1, <1>2, <1>3, ShareOf
  <2> QED
    BY <1>2, <1>3, <2>1 DEF StartedInv
<1>7. \A row \in 0..(bsz - 1), c \in 0..(ChunksH - 1) : ctr_b[IndexB(row, c)] = 0
  BY <1>1, Rows, Indices
<1>8. LastInv
  <2>1. \A row \in (0..(bsz - 1)) \ EmptyRows : ExpectedB(row) # 0
    BY <1>1, Rows
  <2> QED
    BY <1>3, <1>7, <2>1 DEF LastInv
<1>9. EmptyInv
  BY DEF EmptyInv, EmptyRows
<1>10. CountersExact
  <2>1. \A row, c : ArrivalsB(row, c) = {}
    <3>1. \A b \in 0..(GridB(bsz) - 1) : Arrived(b) = 0
      BY <1>2, <1>3 DEF Arrived
    <3>2. \A a \in (0..(GridB(bsz) - 1)) \X (0..(RunRows - 1)) : ~ (a[2] < Arrived(a[1]))
      <4> TAKE a \in (0..(GridB(bsz) - 1)) \X (0..(RunRows - 1))
      <4>1. a[1] \in 0..(GridB(bsz) - 1) /\ a[2] \in Nat
        BY CoopAssumption
      <4> QED
        BY <3>1, <4>1
    <3> QED
      BY <3>2 DEF ArrivalsB
  <2> QED
    BY <1>7, <2>1, FS_EmptySet DEF CountersExact
<1> QED
  BY <1>4, <1>5, <1>6, <1>8, <1>9, <1>10 DEF IInv

\* No kernel with blocks that meet runs: before a call, in its rotation or after it.
LEMMA Between ==
  ASSUME TypeOK, stage \notin {"a", "b"}, \A b \in Blocks : at[b] = "done",
         stage = "rot" => bsz > 1 /\ act_out = {} /\ out = {},
         stage # "dead" => \A i \in CtrA : ctr_a[i] = 0,
         OutputRight
  PROVE  IInv
BY DEF IInv, StageInv, PlaceInv, StartedInv, LastInv, EmptyInv, CountersExact

\* The same of the state a step leads to.
LEMMA StartOfANext ==
  ((/\ TypeOK /\ stage = "a" /\ RunsFit /\ (bsz = 1 \/ had = Projs \X ActiveSlots)
    /\ at = Ready(GridA(bsz)) /\ r = [b \in Blocks |-> 0] /\ act_out = {}
    /\ (\A i \in CtrA : ctr_a[i] = 0)
    /\ out = (IF bsz = 1 THEN {} ELSE EmptyRows \X (0..(ChunksH - 1))))
     => IInv)'
BY StartOfA, PTL

LEMMA StartOfBNext ==
  ((/\ TypeOK /\ stage = "b" /\ RunsFit /\ (bsz = 1 \/ had = Projs \X ActiveSlots)
    /\ at = Ready(GridB(bsz)) /\ r = [b \in Blocks |-> 0]
    /\ ActiveSlots \X (0..(ChunksI - 1)) \subseteq act_out
    /\ (\A i \in CtrB : ctr_b[i] = 0)
    /\ out = EmptyRows \X (0..(ChunksH - 1)))
     => IInv)'
BY StartOfB, PTL

LEMMA BetweenNext ==
  ((/\ TypeOK /\ stage \notin {"a", "b"} /\ (\A b \in Blocks : at[b] = "done")
    /\ (stage = "rot" => bsz > 1 /\ act_out = {} /\ out = {})
    /\ (stage # "dead" => \A i \in CtrA : ctr_a[i] = 0)
    /\ OutputRight)
     => IInv)'
BY Between, PTL

LEMMA OneRowNext ==
  (shape \in Shapes /\ bsz = 1 /\ bsz \in 1..MaxRows /\ route \in [Slots -> 0..ExpertCount] => RunsFit)'
BY OneRow, PTL

LEMMA RunTableNext ==
  (shape \in Shapes /\ bsz \in 1..MaxRows /\ bsz > 1 /\ route \in [Slots -> 0..ExpertCount] /\ runs = build_runs
     => RunsFit)'
BY RunTable, PTL

LEMMA InitIInv ==
  ASSUME Init
  PROVE  IInv
<1>1. shape \in Shapes
  BY DEF Init
<1>2. /\ MaxRows \in Nat /\ MaxRows > 0 /\ TopK \in Nat /\ GpcA \in Nat /\ GpcB \in Nat /\ ExpertCount \in Nat
      /\ RunRows \in Nat /\ MaxRows * TopK \in Nat /\ TopK * GpcB \in Nat
  <2>1. MaxRows \in Nat /\ MaxRows > 0 /\ TopK \in Nat /\ GpcA \in Nat /\ GpcB \in Nat /\ ExpertCount \in Nat /\ RunRows \in Nat
    BY <1>1, Sizes
  <2> QED
    BY <2>1, Product
<1>3. TypeOK
  <2>1. 0 \in 0..(TopK * GpcB) /\ 0 \in 0..(GpcA * 2) /\ 0 \in 0..(MaxRows * TopK) /\ 0 \in 0..RunRows
        /\ ExpertCount \in 0..ExpertCount /\ 1 \in 1..MaxRows
    BY <1>2
  <2> QED
    BY <1>1, <2>1 DEF Init, TypeOK, Idle
<1>4. \A b \in Blocks : at[b] = "done"
  BY DEF Init, Idle
<1>5. OutputRight /\ stage = "idle" /\ \A i \in CtrA : ctr_a[i] = 0
  BY DEF Init, OutputRight
<1> QED
  BY <1>3, <1>4, <1>5, Between

\* What the shape alone fixes.
LEMMA FrameShape ==
  ASSUME UNCHANGED shape
  PROVE  /\ TopK' = TopK /\ MaxRows' = MaxRows /\ ExpertCount' = ExpertCount /\ ChunksI' = ChunksI
         /\ ChunksH' = ChunksH /\ GpcA' = GpcA /\ GpcB' = GpcB /\ NgA' = NgA /\ NgB' = NgB
         /\ Slots' = Slots /\ CtrA' = CtrA /\ CtrB' = CtrB /\ Blocks' = Blocks
         /\ \A n : n = bsz' => GridA(bsz)' = GridA(n) /\ GridB(bsz)' = GridB(n)
<1>1. /\ TopK' = TopK /\ MaxRows' = MaxRows /\ ExpertCount' = ExpertCount /\ ChunksI' = ChunksI
      /\ ChunksH' = ChunksH /\ GpcA' = GpcA /\ GpcB' = GpcB
  BY DEF TopK, MaxRows, ExpertCount, ChunksI, ChunksH, GpcA, GpcB
<1>2. NgA' = NgA /\ NgB' = NgB /\ Slots' = Slots /\ CtrA' = CtrA /\ CtrB' = CtrB
  BY <1>1, Zenon DEF NgA, NgB, Slots, CtrA, CtrB
<1>3. GridA(MaxRows)' = GridA(MaxRows) /\ GridB(MaxRows)' = GridB(MaxRows)
  BY <1>1, <1>2, Zenon DEF GridA, GridB
<1>4. Blocks' = Blocks
  BY <1>3, Zenon DEF Blocks
<1>5. \A n : n = bsz' => GridA(bsz)' = GridA(n) /\ GridB(bsz)' = GridB(n)
  BY <1>1, <1>2, Zenon DEF GridA, GridB
<1> QED
  BY <1>1, <1>2, <1>4, <1>5

\* A call begins.
LEMMA LaunchKeeps ==
  ASSUME IInv, goal50_coop_launch
  PROVE  IInv'
<1>1. PICK rows \in 1..MaxRows, picks \in [Slots -> 0..ExpertCount] :
        bsz' = rows /\ route' = picks /\ Begin(IF rows > 1 THEN "rot" ELSE "a", rows)
  BY DEF goal50_coop_launch
<1>2. /\ stage \in {"idle", "done"}
      /\ had' = {} /\ gu' = {} /\ act_out' = {} /\ d_out' = {} /\ out' = {}
      /\ UNCHANGED <<shape, ctr_a, ctr_b, runs>>
  BY DEF goal50_coop_launch
<1>3. TypeOK /\ StageInv /\ CountersExact
  BY DEF IInv
<1>4. /\ \A b \in Blocks : at[b] = "done"
      /\ \A i \in CtrA : ctr_a[i] = 0
  BY <1>2, <1>3 DEF StageInv, CountersExact
<1>5. shape \in Shapes /\ MaxRows \in Nat /\ rows \in Nat /\ RunRows \in Nat
  <2>1. shape \in Shapes
    BY <1>3 DEF TypeOK
  <2> QED
    BY <2>1, Sizes
<1>6. \A rest \in {"rot", "a", "dead"} :
        stage' = rest /\ at' \in [Blocks -> {"gemv", "arrive", "epilogue", "done"}] /\ r' \in [Blocks -> 0..RunRows]
          => TypeOK'
  BY <1>1, <1>2, <1>3, FrameShape DEF TypeOK
<1>7. CASE stage' = "dead" /\ UNCHANGED <<at, r>>
  <2>1. TypeOK'
    BY <1>3, <1>6, <1>7 DEF TypeOK
  <2> QED
    BY <1>2, <1>4, <1>7, <2>1, BetweenNext, FrameShape DEF OutputRight
<1>8. CASE rows > 1 /\ stage' = "rot" /\ at' = Idle /\ r' = [b \in Blocks |-> 0]
  <2>1. TypeOK'
    BY <1>5, <1>6, <1>8 DEF Idle
  <2>2. \A b \in Blocks : at'[b] = "done"
    BY <1>8 DEF Idle
  <2> QED
    BY <1>1, <1>2, <1>4, <1>8, <2>1, <2>2, BetweenNext, FrameShape DEF OutputRight
<1>9. CASE rows = 1 /\ stage' = "a" /\ at' = Ready(GridA(rows)) /\ r' = [b \in Blocks |-> 0]
  <2>1. TypeOK'
    BY <1>5, <1>6, <1>9 DEF Ready
  <2>2. RunsFit'
    BY <1>1, <1>9, <2>1, OneRowNext DEF TypeOK
  <2>3. at' = Ready(GridA(bsz))'
    BY <1>1, <1>2, <1>9, FrameShape DEF Ready
  <2> QED
    BY <1>1, <1>2, <1>4, <1>9, <2>1, <2>2, <2>3, StartOfANext, FrameShape
<1> QED
  BY <1>1, <1>5, <1>7, <1>8, <1>9 DEF Begin

\* What shape, rows and routes fix.
LEMMA FrameCall ==
  ASSUME UNCHANGED <<shape, bsz, route>>
  PROVE  ActiveSlots' = ActiveSlots /\ EmptyRows' = EmptyRows /\ build_runs' = build_runs
<1>1. ActiveSlots' = ActiveSlots
  BY FrameShape DEF ActiveSlots, Active
<1>2. EmptyRows' = EmptyRows
  BY <1>1, FrameShape DEF EmptyRows, SlotsOf, RowOf
<1>3. \A s : Rank(s)' = Rank(s) /\ First(s)' = First(s)
  BY <1>1 DEF Rank, First
<1>4. \A order, i : StartsRun(order, i)' = StartsRun(order, i)
  BY <1>3, Zenon DEF StartsRun
<1>5. Order' = Order
  BY <1>1, <1>3 DEF Order
<1>6. StartSet' = StartSet
  BY <1>1, <1>4, <1>5 DEF StartSet
<1>7. Starts' = Starts
  BY <1>1, <1>6 DEF Starts
<1>8. (build_runs = [n |-> Cardinality(StartSet), start |-> Starts, order |-> Order])'
  BY Built, PTL
<1> QED
  BY <1>1, <1>2, <1>5, <1>6, <1>7, <1>8, Built

\* The rotation of a call of several rows.
LEMMA RotKeeps ==
  ASSUME IInv, exl3_moe_coop_rot_kernel
  PROVE  IInv'
<1>1. /\ stage = "rot" /\ runs' = build_runs /\ had' = Projs \X ActiveSlots
      /\ out' = EmptyRows \X (0..(ChunksH - 1)) /\ Begin("a", bsz)
      /\ UNCHANGED <<shape, bsz, route, ctr_a, ctr_b, gu, act_out, d_out>>
  BY DEF exl3_moe_coop_rot_kernel, EmptyRows
<1>2. TypeOK /\ StageInv /\ CountersExact
  BY DEF IInv
<1>3. /\ \A b \in Blocks : at[b] = "done"
      /\ \A i \in CtrA : ctr_a[i] = 0
      /\ bsz > 1 /\ act_out = {}
  BY <1>1, <1>2 DEF StageInv, CountersExact
<1>4. shape \in Shapes /\ bsz \in 1..MaxRows /\ route \in [Slots -> 0..ExpertCount] /\ RunRows \in Nat /\ bsz # 1
  <2>1. shape \in Shapes /\ bsz \in 1..MaxRows /\ route \in [Slots -> 0..ExpertCount]
    BY <1>2 DEF TypeOK
  <2>2. MaxRows \in Nat /\ RunRows \in Nat
    BY <2>1, Sizes
  <2> QED
    BY <1>3, <2>1, <2>2
<1>5. runs'.n \in 0..(MaxRows * TopK)
  <2> DEFINE n == bsz * TopK
             m == MaxRows * TopK
  <2>1. runs'.n = Cardinality(StartSet)
    BY <1>1, Built
  <2>2. Cardinality(StartSet) \in 0..Cardinality(ActiveSlots) /\ Cardinality(ActiveSlots) \in 0..n
    BY <1>4, Actives, Started
  <2>3. n \in Nat /\ m \in Nat /\ n <= m
    <3>1. bsz \in Nat /\ bsz > 0 /\ bsz <= MaxRows
      BY <1>4, Sizes
    <3> QED
      BY <1>4, <3>1, Grids
  <2> HIDE DEF n, m
  <2>4. runs'.n \in 0..m
    BY <2>1, <2>2, <2>3
  <2> QED
    BY <2>4 DEF m
<1>6. \A rest \in {"a", "dead"} :
        stage' = rest /\ at' \in [Blocks -> {"gemv", "arrive", "epilogue", "done"}] /\ r' \in [Blocks -> 0..RunRows]
          => TypeOK'
  <2>1. had' \subseteq Projs \X Slots /\ out' \subseteq (0..(MaxRows - 1)) \X (0..(ChunksH - 1))
    <3>1. ActiveSlots \subseteq Slots /\ EmptyRows \subseteq 0..(MaxRows - 1)
      BY <1>4, Actives, Rows DEF EmptyRows
    <3> QED
      BY <1>1, <3>1
  <2> QED
    BY <1>1, <1>2, <1>5, <2>1, FrameShape DEF TypeOK, Projs
<1>7. CASE stage' = "dead" /\ UNCHANGED <<at, r>>
  <2>1. TypeOK'
    BY <1>2, <1>6, <1>7 DEF TypeOK
  <2> QED
    BY <1>1, <1>3, <1>7, <2>1, BetweenNext, FrameShape DEF OutputRight
<1>8. CASE stage' = "a" /\ at' = Ready(GridA(bsz)) /\ r' = [b \in Blocks |-> 0]
  <2>1. TypeOK'
    BY <1>4, <1>6, <1>8 DEF Ready
  <2>2. RunsFit'
    BY <1>1, <1>3, <2>1, FrameCall, RunTableNext DEF TypeOK
  <2>3. at' = Ready(GridA(bsz))'
    BY <1>1, <1>8, FrameShape DEF Ready
  <2>4. had' = Projs' \X ActiveSlots' /\ out' = (IF bsz' = 1 THEN {} ELSE EmptyRows' \X (0..(ChunksH' - 1)))
    BY <1>1, <1>4, FrameCall, FrameShape DEF Projs
  <2> QED
    BY <1>1, <1>3, <1>8, <2>1, <2>2, <2>3, <2>4, StartOfANext, FrameShape
<1> QED
  BY <1>1, <1>7, <1>8 DEF Begin

\* Kernel A ends: every activation is in, and the counters of kernel B are clear.
LEMMA FinishAKeeps ==
  ASSUME IInv, FinishA
  PROVE  IInv'
<1>1. /\ stage = "a" /\ (\A b \in Blocks : at[b] = "done") /\ Begin("b", bsz)
      /\ UNCHANGED <<shape, bsz, route, ctr_a, ctr_b, runs, had, gu, act_out, d_out, out>>
  BY DEF FinishA, buffers
<1>2. TypeOK /\ StageInv /\ PlaceInv /\ StartedInv /\ LastInv /\ EmptyInv /\ CountersExact
  BY DEF IInv
<1>3. /\ shape \in Shapes /\ bsz \in 1..MaxRows /\ route \in [Slots -> 0..ExpertCount] /\ RunRows \in Nat /\ RunsFit
      /\ (bsz = 1 \/ had = Projs \X ActiveSlots)
  <2>1. shape \in Shapes /\ bsz \in 1..MaxRows /\ route \in [Slots -> 0..ExpertCount]
    BY <1>2 DEF TypeOK
  <2> QED
    BY <1>1, <1>2, <2>1, Sizes DEF StageInv
<1>4. ActiveSlots \X (0..(ChunksI - 1)) \subseteq act_out
  <2> SUFFICES ASSUME NEW s \in ActiveSlots, NEW c \in 0..(ChunksI - 1) PROVE <<s, c>> \in act_out
    OBVIOUS
  <2>1. \A b \in 0..(GridA(bsz) - 1) : Arrived(b) = RunLength(RunOfA(b))
    <3> TAKE b \in 0..(GridA(bsz) - 1)
    <3>1. b \in Blocks /\ b < GridA(bsz)
      BY <1>1, <1>3, RunningA, Grids
    <3>2. Placed(b, RunLength(RunOfA(b))) /\ at[b] = "done"
      BY <1>1, <1>2, <3>1 DEF PlaceInv
    <3> QED
      BY <3>2 DEF Placed, Arrived
  <2>2. ArrivalsA(s, c) = AllA(s, c)
    BY <2>1 DEF ArrivalsA, AllA
  <2>3. Cardinality(AllA(s, c)) = ExpectedA
    BY <1>3, CountA
  <2>4. ctr_a[IndexA(s, c)] = Cardinality(ArrivalsA(s, c))
    <3>1. s \in Slots
      BY <1>3, Actives
    <3> QED
      BY <1>1, <1>2, <3>1 DEF CountersExact
  <2>5. ctr_a[IndexA(s, c)] = ExpectedA
    BY <2>2, <2>3, <2>4
  <2> QED
    BY <1>1, <1>2, <2>5 DEF LastInv
<1>5. \A i \in CtrB : ctr_b[i] = 0
  <2> TAKE i \in CtrB
  <2>1. (i \div THREADS) % GridA(bsz) \in 0..(GridA(bsz) - 1)
    BY <1>3, ShareOf
  <2>2. (i \div THREADS) % GridA(bsz) \in Blocks
    BY <1>1, <2>1, RunningA
  <2> QED
    BY <1>1, <1>2, <2>2 DEF StartedInv
<1>6. out = EmptyRows \X (0..(ChunksH - 1))
  <2>1. \A e \in 0..(ChunksH - 1) : at[2 * (e % NgA) + 1] = "done"
    BY <1>1, <1>3, EmptyBlock
  <2> QED
    BY <1>1, <1>2, <2>1 DEF EmptyInv
<1>7. \A rest \in {"b", "dead"} :
        stage' = rest /\ at' \in [Blocks -> {"gemv", "arrive", "epilogue", "done"}] /\ r' \in [Blocks -> 0..RunRows]
          => TypeOK'
  BY <1>1, <1>2, FrameShape DEF TypeOK, Projs
<1>8. CASE stage' = "dead" /\ UNCHANGED <<at, r>>
  <2>1. TypeOK'
    BY <1>2, <1>7, <1>8 DEF TypeOK
  <2> QED
    BY <1>1, <1>8, <2>1, BetweenNext, FrameShape DEF OutputRight
<1>9. CASE stage' = "b" /\ at' = Ready(GridB(bsz)) /\ r' = [b \in Blocks |-> 0]
  <2>1. TypeOK'
    BY <1>3, <1>7, <1>9 DEF Ready
  <2>2. RunsFit'
    BY <1>1, <1>3, Frame
  <2>3. at' = Ready(GridB(bsz))'
    BY <1>1, <1>9, FrameShape DEF Ready
  <2>4. /\ bsz' = 1 \/ had' = Projs' \X ActiveSlots'
        /\ out' = EmptyRows' \X (0..(ChunksH' - 1))
        /\ ActiveSlots' \X (0..(ChunksI' - 1)) \subseteq act_out'
    BY <1>1, <1>3, <1>4, <1>6, FrameCall, FrameShape DEF Projs
  <2> QED
    BY <1>1, <1>5, <1>9, <2>1, <2>2, <2>3, <2>4, StartOfBNext, FrameShape
<1> QED
  BY <1>1, <1>8, <1>9 DEF Begin

\* An arrival adds the block and the row of its run to those of one chunk of one row.
LEMMA ArrivalsStepB ==
  ASSUME IInv, stage = "b", UNCHANGED <<shape, bsz, route, runs>>
  PROVE  /\ (\A d \in Blocks : Arrived(d)' = Arrived(d)) => \A row, c : ArrivalsB(row, c)' = ArrivalsB(row, c)
         /\ \A b \in Blocks :
              at[b] = "arrive" /\ Arrived(b)' = r[b] + 1 /\ (\A d \in Blocks \ {b} : Arrived(d)' = Arrived(d)) =>
                /\ \A row, c : ~ (row = RowOf(SlotB(b)) /\ c = ChunkB(b)) => ArrivalsB(row, c)' = ArrivalsB(row, c)
                /\ \A row, c : row = RowOf(SlotB(b)) /\ c = ChunkB(b) =>
                     /\ ArrivalsB(row, c)' = ArrivalsB(row, c) \cup {<<b, r[b]>>}
                     /\ <<b, r[b]>> \notin ArrivalsB(row, c) /\ <<b, r[b]>> \in AllB(row, c)
<1> DEFINE P == (0..(GridB(bsz) - 1)) \X (0..(RunRows - 1))
           on(a, row, c) == ChunkB(a[1]) = c /\ RowOf(read_run(RunOfB(a[1]))[a[2]]) = row
<1>1. \A row, c : ArrivalsB(row, c) = {a \in P : on(a, row, c) /\ a[2] < Arrived(a[1])}
  BY DEF ArrivalsB
<1>2. \A row, c : ArrivalsB(row, c)' = {a \in P : on(a, row, c) /\ a[2] < Arrived(a[1])'}
  BY Frame DEF ArrivalsB
<1>3. \A d \in 0..(GridB(bsz) - 1) : d \in Blocks
  BY RunningB
<1>4. \A a \in P : a[1] \in Blocks /\ a[1] \in 0..(GridB(bsz) - 1) /\ a[2] \in Nat /\ a = <<a[1], a[2]>>
  BY <1>3, CoopAssumption
<1>5. ASSUME \A d \in Blocks : Arrived(d)' = Arrived(d), NEW row, NEW c PROVE ArrivalsB(row, c)' = ArrivalsB(row, c)
  <2>1. \A a \in P : Arrived(a[1])' = Arrived(a[1])
    BY <1>4, <1>5
  <2> HIDE DEF P, on
  <2> QED
    BY <1>1, <1>2, <2>1
<1>6. ASSUME NEW b \in Blocks, at[b] = "arrive", Arrived(b)' = r[b] + 1,
             \A d \in Blocks \ {b} : Arrived(d)' = Arrived(d)
      PROVE  /\ \A row, c : ~ (row = RowOf(SlotB(b)) /\ c = ChunkB(b)) => ArrivalsB(row, c)' = ArrivalsB(row, c)
             /\ \A row, c : row = RowOf(SlotB(b)) /\ c = ChunkB(b) =>
                  /\ ArrivalsB(row, c)' = ArrivalsB(row, c) \cup {<<b, r[b]>>}
                  /\ <<b, r[b]>> \notin ArrivalsB(row, c) /\ <<b, r[b]>> \in AllB(row, c)
  <2> DEFINE x == <<b, r[b]>>
  <2>1. b \in 0..(GridB(bsz) - 1) /\ r[b] \in Nat /\ r[b] < RunRows /\ r[b] < RunLength(RunOfB(b))
    BY <1>6, RunningB
  <2>2. Arrived(b) = r[b] /\ x[1] = b /\ x[2] = r[b]
    BY <1>6 DEF Arrived
  <2>3. x \in P
    BY <2>1, CoopAssumption
  <2>4. \A row, c : on(x, row, c) <=> row = RowOf(SlotB(b)) /\ c = ChunkB(b)
    BY <2>2 DEF SlotB
  <2>5. ~ (x[2] < Arrived(x[1])) /\ x[2] < Arrived(x[1])'
    BY <1>6, <2>1, <2>2
  <2>6. \A a \in P : a # x => (a[2] < Arrived(a[1])' <=> a[2] < Arrived(a[1]))
    <3> TAKE a \in P
    <3> HAVE a # x
    <3>1. a[1] \in Blocks /\ a[2] \in Nat /\ a = <<a[1], a[2]>>
      BY <1>4
    <3>2. CASE a[1] = b
      <4>1. a[2] # r[b]
        BY <3>1, <3>2
      <4> QED
        BY <1>6, <2>1, <2>2, <3>1, <3>2, <4>1
    <3>3. CASE a[1] # b
      BY <1>6, <3>1, <3>3
    <3> QED
      BY <3>2, <3>3
  <2>7. x \in AllB(RowOf(SlotB(b)), ChunkB(b))
    BY <2>1, <2>2, <2>3 DEF AllB, SlotB
  <2> HIDE DEF P, on, x
  <2>8. ASSUME NEW row, NEW c, ~ (row = RowOf(SlotB(b)) /\ c = ChunkB(b)) PROVE ArrivalsB(row, c)' = ArrivalsB(row, c)
    <3>1. ~ on(x, row, c)
      BY <2>4, <2>8
    <3>2. \A a \in P : on(a, row, c) => (a[2] < Arrived(a[1])' <=> a[2] < Arrived(a[1]))
      BY <2>6, <3>1
    <3> QED
      BY <1>1, <1>2, <3>2
  <2>9. ASSUME NEW row, NEW c, row = RowOf(SlotB(b)), c = ChunkB(b)
        PROVE  ArrivalsB(row, c)' = ArrivalsB(row, c) \cup {x} /\ x \notin ArrivalsB(row, c)
    <3>1. on(x, row, c)
      BY <2>4, <2>9
    <3>2. ArrivalsB(row, c) = {a \in P : on(a, row, c) /\ a[2] < Arrived(a[1])}
      BY <1>1
    <3>3. ArrivalsB(row, c)' = {a \in P : on(a, row, c) /\ a[2] < Arrived(a[1])'}
      BY <1>2
    <3> DEFINE old(a) == a[2] < Arrived(a[1])
               new(a) == a[2] < Arrived(a[1])'
               X == ArrivalsB(row, c)
               Y == ArrivalsB(row, c)'
    <3>4. X = {a \in P : on(a, row, c) /\ old(a)} /\ Y = {a \in P : on(a, row, c) /\ new(a)}
      BY <3>2, <3>3
    <3>5. ~ old(x) /\ new(x) /\ \A a \in P : a # x => (new(a) <=> old(a))
      BY <2>5, <2>6
    <3> HIDE DEF old, new, X, Y
    <3>6. \A a : a \in Y <=> a \in X \/ a = x
      BY <2>3, <3>1, <3>4, <3>5
    <3>7. x \notin X
      BY <3>4, <3>5
    <3>8. Y = X \cup {x}
      BY <3>6
    <3> QED
      BY <3>7, <3>8 DEF X, Y
  <2> QED
    BY <2>7, <2>8, <2>9 DEF x
<1> QED
  BY <1>5, <1>6

\* The arrival of a block of kernel B.
LEMMA ArriveBKeeps ==
  ASSUME IInv, NEW b \in Blocks, ArriveB(b)
  PROVE  IInv'
<1>0. PICK row, c, i : row = RowOf(SlotB(b)) /\ c = ChunkB(b) /\ i = IndexB(row, c)
  OBVIOUS
<1> DEFINE last == ctr_b[i] = ExpectedB(row) - 1
<1>1. /\ stage = "b" /\ at[b] = "arrive" /\ ctr_b' = [ctr_b EXCEPT ![i] = ctr_b[i] + 1]
      /\ IF last THEN at' = [at EXCEPT ![b] = "epilogue"] /\ UNCHANGED r ELSE NextRow(b, RunOfB(b))
      /\ UNCHANGED <<shape, stage, bsz, route, ctr_a, runs, had, gu, act_out, d_out, out>>
  BY <1>0 DEF ArriveB, stream, buffers
<1>2. TypeOK /\ StageInv /\ PlaceInv /\ StartedInv /\ LastInv /\ EmptyInv /\ CountersExact
  BY DEF IInv
<1>3. /\ shape \in Shapes /\ bsz \in 1..MaxRows /\ route \in [Slots -> 0..ExpertCount] /\ RunsFit
      /\ at \in [Blocks -> {"gemv", "arrive", "epilogue", "done"}] /\ r \in [Blocks -> 0..RunRows]
      /\ ctr_b \in [CtrB -> 0..(TopK * GpcB)]
  BY <1>1, <1>2 DEF TypeOK, StageInv
<1>4. /\ b \in 0..(GridB(bsz) - 1) /\ RunOfB(b) \in RunSet /\ c \in 0..(ChunksH - 1)
      /\ r[b] \in Nat /\ r[b] < RunLength(RunOfB(b)) /\ r[b] < RunRows
      /\ RunLength(RunOfB(b)) \in Nat /\ RunLength(RunOfB(b)) <= RunRows
      /\ row \in (0..(bsz - 1)) \ EmptyRows /\ row \in 0..(bsz - 1) /\ row \in 0..(MaxRows - 1) /\ i \in CtrB
      /\ RunRows \in Nat /\ ExpectedB(row) \in 0..(TopK * GpcB) /\ ExpectedB(row) \in Nat
  <2>1. RunRows \in Nat
    BY <1>3, Sizes
  <2>2. /\ b \in 0..(GridB(bsz) - 1) /\ row \in (0..(bsz - 1)) \ EmptyRows
        /\ r[b] < RunLength(RunOfB(b)) /\ r[b] < RunRows
    BY <1>0, <1>1, RunningB
  <2>3. /\ RunOfB(b) \in RunSet /\ c \in 0..(ChunksH - 1) /\ r[b] \in Nat
        /\ RunLength(RunOfB(b)) \in Nat /\ RunLength(RunOfB(b)) <= RunRows
    BY <1>0, <1>1, <2>2, RunningB
  <2>4. row \in 0..(bsz - 1) /\ row \in 0..(MaxRows - 1) /\ ExpectedB(row) \in 0..(TopK * GpcB)
    BY <1>3, <2>2, Rows
  <2>5. i \in CtrB
    BY <1>0, <1>3, <2>3, <2>4, Indices
  <2>6. ExpectedB(row) \in Nat
    <3> DEFINE m == TopK * GpcB
    <3>1. m \in Nat
      BY <1>3, Sizes, Product
    <3>2. ExpectedB(row) \in 0..m
      BY <2>4
    <3> HIDE DEF m
    <3> QED
      BY <3>1, <3>2
  <2> QED
    BY <2>1, <2>2, <2>3, <2>4, <2>5, <2>6
<1> HIDE DEF last
\* Where the block goes.
<1>5. /\ at' \in [Blocks -> {"gemv", "arrive", "epilogue", "done"}] /\ r' \in [Blocks -> 0..RunRows]
      /\ \A d \in Blocks \ {b} : at'[d] = at[d] /\ r'[d] = r[d]
      /\ at'[b] = "epilogue" <=> last
      /\ last => r'[b] = r[b]
      /\ ~ last => r'[b] = r[b] + 1 /\ at'[b] = (IF r[b] + 1 < RunLength(RunOfB(b)) THEN "arrive" ELSE "done")
  <2>1. CASE last
    BY <1>1, <1>3, <1>4, <2>1
  <2>2. CASE ~ last
    <3>1. r[b] + 1 \in 0..RunRows
      BY <1>4
    <3> QED
      BY <1>1, <1>3, <2>2, <3>1 DEF NextRow
  <2> QED
    BY <2>1, <2>2
<1>6. Arrived(b)' = r[b] + 1 /\ \A d \in Blocks \ {b} : Arrived(d)' = Arrived(d)
  BY <1>4, <1>5 DEF Arrived
<1>7. Placed(b, RunLength(RunOfB(b)))'
  <2>1. RunLength(RunOfB(b))' = RunLength(RunOfB(b))
    BY <1>1, Frame
  <2> QED
    BY <1>4, <1>5, <2>1 DEF Placed
\* The counter of the chunk and what it counts.
<1>8. /\ \A u, e : ~ (u = row /\ e = c) => ArrivalsB(u, e)' = ArrivalsB(u, e)
      /\ ArrivalsB(row, c)' = ArrivalsB(row, c) \cup {<<b, r[b]>>}
      /\ <<b, r[b]>> \notin ArrivalsB(row, c) /\ <<b, r[b]>> \in AllB(row, c)
  BY <1>0, <1>1, <1>6, ArrivalsStepB
<1>9. /\ ctr_b[i] = Cardinality(ArrivalsB(row, c)) /\ ctr_b[i] \in Nat
      /\ Cardinality(ArrivalsB(row, c)') = ctr_b[i] + 1 /\ ctr_b[i] < ExpectedB(row)
  <2>1. ctr_b[i] = Cardinality(ArrivalsB(row, c))
    BY <1>0, <1>1, <1>2, <1>4 DEF CountersExact
  <2>2. /\ IsFiniteSet(ArrivalsB(row, c)) /\ Cardinality(ArrivalsB(row, c)) <= ExpectedB(row)
        /\ Cardinality(ArrivalsB(row, c)) # ExpectedB(row)
    BY <1>1, <1>4, <1>8, RunningB
  <2>3. Cardinality(ArrivalsB(row, c)) \in Nat
    BY <2>2, FS_CardinalityType
  <2>4. Cardinality(ArrivalsB(row, c)') = Cardinality(ArrivalsB(row, c)) + 1
    BY <1>8, <2>2, FS_AddElement
  <2> QED
    BY <1>4, <2>1, <2>2, <2>3, <2>4
<1>10. /\ ctr_b' \in [CtrB -> 0..(TopK * GpcB)] /\ ctr_b'[i] = ctr_b[i] + 1
       /\ \A u \in 0..(bsz - 1), e \in 0..(ChunksH - 1) :
            ~ (u = row /\ e = c) => ctr_b'[IndexB(u, e)] = ctr_b[IndexB(u, e)]
  <2>1. ctr_b[i] + 1 \in 0..(TopK * GpcB)
    <3> DEFINE m == TopK * GpcB
    <3>1. m \in Nat /\ ExpectedB(row) \in 0..m
      BY <1>3, <1>4, Sizes, Product
    <3> HIDE DEF m
    <3>2. ctr_b[i] + 1 \in 0..m
      BY <1>4, <1>9, <3>1
    <3> QED
      BY <3>2 DEF m
  <2>2. \A u \in 0..(bsz - 1), e \in 0..(ChunksH - 1) : ~ (u = row /\ e = c) => IndexB(u, e) # i /\ IndexB(u, e) \in CtrB
    <3>1. 0..(bsz - 1) \subseteq 0..(MaxRows - 1)
      BY <1>3, Rows
    <3> QED
      BY <1>0, <1>3, <1>4, <3>1, Indices
  <2> QED
    BY <1>1, <1>3, <1>4, <2>1, <2>2
<1>11. TypeOK'
  BY <1>1, <1>2, <1>5, <1>10, Frame DEF TypeOK, Projs
<1>12. StageInv'
  BY <1>1, <1>2, Frame DEF StageInv, OutputRight, Projs
<1>13. PlaceInv'
  <2>1. \A d \in Blocks \ {b} : IF d < GridB(bsz) THEN Placed(d, RunLength(RunOfB(d)))' ELSE at'[d] = "done"
    <3> TAKE d \in Blocks \ {b}
    <3>1. RunLength(RunOfB(d))' = RunLength(RunOfB(d))
      BY <1>1, Frame
    <3>2. IF d < GridB(bsz) THEN Placed(d, RunLength(RunOfB(d))) ELSE at[d] = "done"
      BY <1>1, <1>2 DEF PlaceInv
    <3> QED
      BY <1>5, <3>1, <3>2 DEF Placed
  <2>2. b < GridB(bsz)
    BY <1>3, <1>4, Grids
  <2> QED
    BY <1>1, <1>7, <2>1, <2>2, Frame DEF PlaceInv
<1>14. StartedInv'
  <2>1. \A d \in 0..(GridB(bsz) - 1) : d \in Blocks /\ (at'[d] # "gemv" => at[d] # "gemv")
    BY <1>1, <1>5, RunningB
  <2>2. \A j \in CtrA : (j \div THREADS) % GridB(bsz) \in 0..(GridB(bsz) - 1)
    BY <1>3, ShareOf
  <2> QED
    BY <1>1, <1>2, <2>1, <2>2, Frame DEF StartedInv
<1>15. EmptyInv'
  BY <1>1, <1>2, Frame DEF EmptyInv
<1>16. CountersExact'
  <2>1. \A u \in 0..(bsz - 1), e \in 0..(ChunksH - 1) : ctr_b'[IndexB(u, e)] = Cardinality(ArrivalsB(u, e)')
    <3> TAKE u \in 0..(bsz - 1), e \in 0..(ChunksH - 1)
    <3>1. CASE u = row /\ e = c
      BY <1>0, <1>9, <1>10, <3>1
    <3>2. CASE ~ (u = row /\ e = c)
      BY <1>1, <1>2, <1>8, <1>10, <3>2 DEF CountersExact
    <3> QED
      BY <3>1, <3>2
  <2> QED
    BY <1>1, <2>1, Frame DEF CountersExact
<1>17. LastInv'
  <2> DEFINE held(u, e) == \E d \in Blocks : at[d] = "epilogue" /\ RowOf(SlotB(d)) = u /\ ChunkB(d) = e
             heldNext(u, e) == \E d \in Blocks : at'[d] = "epilogue" /\ RowOf(SlotB(d))' = u /\ ChunkB(d) = e
  <2>1. /\ \A u \in (0..(bsz - 1)) \ EmptyRows, e \in 0..(ChunksH - 1) :
             ctr_b[IndexB(u, e)] = ExpectedB(u) <=> <<u, e>> \in out \/ held(u, e)
        /\ \A d \in Blocks : at[d] = "epilogue" =>
             /\ <<RowOf(SlotB(d)), ChunkB(d)>> \notin out
             /\ \A f \in Blocks \ {d} : at[f] = "epilogue" =>
                  <<RowOf(SlotB(f)), ChunkB(f)>> # <<RowOf(SlotB(d)), ChunkB(d)>>
    BY <1>1, <1>2 DEF LastInv
  <2>2. <<row, c>> \notin out /\ ~ held(row, c)
    BY <1>0, <1>4, <1>9, <2>1
  <2>3. \A d \in Blocks : d # b => RowOf(SlotB(d))' = RowOf(SlotB(d))
    <3> TAKE d \in Blocks
    <3> HAVE d # b
    <3>1. SlotB(d)' = SlotB(d)
      BY <1>1, <1>5, Frame DEF SlotB
    <3> QED
      BY <1>1, <3>1, Frame
  <2>4. last => RowOf(SlotB(b))' = row
    <3> HAVE last
    <3>1. SlotB(b)' = SlotB(b)
      BY <1>1, <1>5, Frame DEF SlotB
    <3> QED
      BY <1>0, <1>1, <3>1, Frame
  <2>5. \A u, e : heldNext(u, e) <=> held(u, e) \/ (last /\ u = row /\ e = c)
    BY <1>0, <1>1, <1>5, <2>3, <2>4
  <2>6. \A u \in (0..(bsz - 1)) \ EmptyRows, e \in 0..(ChunksH - 1) :
          ctr_b'[IndexB(u, e)] = ExpectedB(u) <=> <<u, e>> \in out \/ heldNext(u, e)
    <3> TAKE u \in (0..(bsz - 1)) \ EmptyRows, e \in 0..(ChunksH - 1)
    <3>1. CASE u = row /\ e = c
      <4>1. ctr_b'[i] = ExpectedB(row) <=> last
        BY <1>4, <1>9, <1>10 DEF last
      <4> HIDE DEF held, heldNext
      <4> QED
        BY <1>0, <2>2, <2>5, <3>1, <4>1
    <3>2. CASE ~ (u = row /\ e = c)
      <4> HIDE DEF held, heldNext
      <4> QED
        BY <1>10, <2>1, <2>5, <3>2
    <3> QED
      BY <3>1, <3>2
  <2>7. \A d \in Blocks : at'[d] = "epilogue" =>
          /\ <<RowOf(SlotB(d))', ChunkB(d)>> \notin out
          /\ \A f \in Blocks \ {d} : at'[f] = "epilogue" =>
               <<RowOf(SlotB(f))', ChunkB(f)>> # <<RowOf(SlotB(d))', ChunkB(d)>>
    BY <1>0, <1>1, <1>5, <2>1, <2>2, <2>3, <2>4
  <2> QED
    BY <1>1, <2>6, <2>7, Frame DEF LastInv
<1> QED
  BY <1>11, <1>12, <1>13, <1>14, <1>15, <1>16, <1>17 DEF IInv

\* The last arrival of a chunk of a row: the results it sums are there.
LEMMA ReduceBKeeps ==
  ASSUME IInv, NEW b \in Blocks, ReduceB(b)
  PROVE  IInv'
<1>0. PICK row, c, i : row = RowOf(SlotB(b)) /\ c = ChunkB(b) /\ i = IndexB(row, c)
  OBVIOUS
<1>1. /\ stage = "b" /\ at[b] = "epilogue" /\ NextRow(b, RunOfB(b))
      /\ out' = IF \A s \in SlotsOf(row), g \in GroupsOf(c, GpcB) : <<s, g>> \in d_out
                THEN out \cup {<<row, c>>} ELSE out \ {<<row, c>>}
      /\ UNCHANGED <<shape, stage, bsz, route, ctr_a, ctr_b, runs, had, gu, act_out, d_out>>
  BY <1>0 DEF ReduceB, stream
<1>2. TypeOK /\ StageInv /\ PlaceInv /\ StartedInv /\ LastInv /\ EmptyInv /\ CountersExact
  BY DEF IInv
<1>3. /\ shape \in Shapes /\ bsz \in 1..MaxRows /\ route \in [Slots -> 0..ExpertCount] /\ RunsFit
      /\ at \in [Blocks -> {"gemv", "arrive", "epilogue", "done"}] /\ r \in [Blocks -> 0..RunRows]
  BY <1>1, <1>2 DEF TypeOK, StageInv
<1>4. /\ b \in 0..(GridB(bsz) - 1) /\ RunOfB(b) \in RunSet /\ c \in 0..(ChunksH - 1)
      /\ r[b] \in Nat /\ r[b] < RunLength(RunOfB(b)) /\ r[b] < RunRows
      /\ RunLength(RunOfB(b)) \in Nat /\ RunLength(RunOfB(b)) <= RunRows
      /\ row \in (0..(bsz - 1)) \ EmptyRows /\ row \in 0..(bsz - 1) /\ row \in 0..(MaxRows - 1) /\ RunRows \in Nat
  <2>1. RunRows \in Nat
    BY <1>3, Sizes
  <2>2. /\ b \in 0..(GridB(bsz) - 1) /\ row \in (0..(bsz - 1)) \ EmptyRows
        /\ r[b] < RunLength(RunOfB(b)) /\ r[b] < RunRows
    BY <1>0, <1>1, RunningB
  <2>3. /\ RunOfB(b) \in RunSet /\ c \in 0..(ChunksH - 1) /\ r[b] \in Nat
        /\ RunLength(RunOfB(b)) \in Nat /\ RunLength(RunOfB(b)) <= RunRows
    BY <1>0, <1>1, <2>2, RunningB
  <2>4. row \in 0..(bsz - 1) /\ row \in 0..(MaxRows - 1)
    BY <1>3, <2>2, Rows
  <2> QED
    BY <2>1, <2>2, <2>3, <2>4
<1> DEFINE held(u, e) == \E d \in Blocks : at[d] = "epilogue" /\ RowOf(SlotB(d)) = u /\ ChunkB(d) = e
           heldNext(u, e) == \E d \in Blocks : at'[d] = "epilogue" /\ RowOf(SlotB(d))' = u /\ ChunkB(d) = e
<1>5. /\ \A u \in (0..(bsz - 1)) \ EmptyRows, e \in 0..(ChunksH - 1) :
           ctr_b[IndexB(u, e)] = ExpectedB(u) <=> <<u, e>> \in out \/ held(u, e)
      /\ \A d \in Blocks : at[d] = "epilogue" =>
           /\ <<RowOf(SlotB(d)), ChunkB(d)>> \notin out
           /\ \A f \in Blocks \ {d} : at[f] = "epilogue" =>
                <<RowOf(SlotB(f)), ChunkB(f)>> # <<RowOf(SlotB(d)), ChunkB(d)>>
  BY <1>1, <1>2 DEF LastInv
<1>6. out' = out \cup {<<row, c>>}
  <2>1. ctr_b[IndexB(row, c)] = ExpectedB(row)
    BY <1>0, <1>1, <1>4, <1>5
  <2>2. \A s \in SlotsOf(row), g \in GroupsOf(c, GpcB) : <<s, g>> \in d_out
    BY <1>1, <1>4, <2>1, FullB
  <2> QED
    BY <1>1, <2>2
<1>7. /\ at' \in [Blocks -> {"gemv", "arrive", "epilogue", "done"}] /\ r' \in [Blocks -> 0..RunRows]
      /\ \A d \in Blocks \ {b} : at'[d] = at[d] /\ r'[d] = r[d]
      /\ r'[b] = r[b] + 1 /\ at'[b] = (IF r[b] + 1 < RunLength(RunOfB(b)) THEN "arrive" ELSE "done")
  <2>1. r[b] + 1 \in 0..RunRows
    BY <1>4
  <2> QED
    BY <1>1, <1>3, <2>1 DEF NextRow
<1>8. \A d \in Blocks : Arrived(d)' = Arrived(d)
  BY <1>1, <1>4, <1>7 DEF Arrived
<1>9. Placed(b, RunLength(RunOfB(b)))'
  <2>1. RunLength(RunOfB(b))' = RunLength(RunOfB(b))
    BY <1>1, Frame
  <2> QED
    BY <1>4, <1>7, <2>1 DEF Placed
<1>10. TypeOK'
  <2>1. out' \subseteq (0..(MaxRows - 1)) \X (0..(ChunksH - 1))
    BY <1>2, <1>4, <1>6 DEF TypeOK
  <2> QED
    BY <1>1, <1>2, <1>7, <2>1, Frame DEF TypeOK, Projs
<1>11. StageInv'
  BY <1>1, <1>2, Frame DEF StageInv, OutputRight, Projs
<1>12. PlaceInv'
  <2>1. \A d \in Blocks \ {b} : IF d < GridB(bsz) THEN Placed(d, RunLength(RunOfB(d)))' ELSE at'[d] = "done"
    <3> TAKE d \in Blocks \ {b}
    <3>1. RunLength(RunOfB(d))' = RunLength(RunOfB(d))
      BY <1>1, Frame
    <3>2. IF d < GridB(bsz) THEN Placed(d, RunLength(RunOfB(d))) ELSE at[d] = "done"
      BY <1>1, <1>2 DEF PlaceInv
    <3> QED
      BY <1>7, <3>1, <3>2 DEF Placed
  <2>2. b < GridB(bsz)
    BY <1>3, <1>4, Grids
  <2> QED
    BY <1>1, <1>9, <2>1, <2>2, Frame DEF PlaceInv
<1>13. StartedInv'
  <2>1. \A d \in 0..(GridB(bsz) - 1) : d \in Blocks /\ (at'[d] # "gemv" => at[d] # "gemv")
    BY <1>1, <1>7, RunningB
  <2>2. \A j \in CtrA : (j \div THREADS) % GridB(bsz) \in 0..(GridB(bsz) - 1)
    BY <1>3, ShareOf
  <2> QED
    BY <1>1, <1>2, <2>1, <2>2, Frame DEF StartedInv
<1>14. EmptyInv'
  BY <1>1, <1>2, <1>4, <1>6, Frame DEF EmptyInv
<1>15. CountersExact'
  <2>1. \A u, e : ArrivalsB(u, e)' = ArrivalsB(u, e)
    BY <1>1, <1>8, ArrivalsStepB
  <2> QED
    BY <1>1, <1>2, <2>1, Frame DEF CountersExact
<1>16. LastInv'
  <2>1. \A d \in Blocks : d # b => RowOf(SlotB(d))' = RowOf(SlotB(d))
    <3> TAKE d \in Blocks
    <3> HAVE d # b
    <3>1. SlotB(d)' = SlotB(d)
      BY <1>1, <1>7, Frame DEF SlotB
    <3> QED
      BY <1>1, <3>1, Frame
  <2>2. \A u, e : heldNext(u, e) <=> held(u, e) /\ ~ (u = row /\ e = c)
    <3> DEFINE other(u, e) == \E d \in Blocks \ {b} : at[d] = "epilogue" /\ RowOf(SlotB(d)) = u /\ ChunkB(d) = e
    <3>1. \A u, e : heldNext(u, e) <=> other(u, e)
      BY <1>7, <2>1
    <3>2. \A u, e : held(u, e) <=> other(u, e) \/ (u = row /\ e = c)
      BY <1>0, <1>1
    <3>3. ~ other(row, c)
      BY <1>0, <1>1, <1>5
    <3> HIDE DEF held, heldNext, other
    <3> QED
      BY <3>1, <3>2, <3>3
  <2>3. held(row, c)
    BY <1>0, <1>1
  <2>4. \A u \in (0..(bsz - 1)) \ EmptyRows, e \in 0..(ChunksH - 1) :
          ctr_b[IndexB(u, e)] = ExpectedB(u) <=> <<u, e>> \in out' \/ heldNext(u, e)
    <3> HIDE DEF held, heldNext
    <3> QED
      BY <1>5, <1>6, <2>2, <2>3
  <2>5. \A d \in Blocks : at'[d] = "epilogue" =>
          /\ <<RowOf(SlotB(d))', ChunkB(d)>> \notin out'
          /\ \A f \in Blocks \ {d} : at'[f] = "epilogue" =>
               <<RowOf(SlotB(f))', ChunkB(f)>> # <<RowOf(SlotB(d))', ChunkB(d)>>
    BY <1>0, <1>1, <1>5, <1>6, <1>7, <2>1
  <2>6. stage' = "b" /\ bsz' = bsz /\ ctr_b' = ctr_b /\ UNCHANGED <<shape, bsz, route, runs>>
    BY <1>1
  <2>7. /\ Blocks' = Blocks /\ EmptyRows' = EmptyRows /\ ChunksH' = ChunksH
        /\ \A d : ChunkB(d)' = ChunkB(d)
        /\ \A u, e : IndexB(u, e)' = IndexB(u, e) /\ ExpectedB(u)' = ExpectedB(u)
    BY <2>6, Frame
  <2> QED
    BY <2>4, <2>5, <2>6, <2>7 DEF LastInv
<1> QED
  BY <1>10, <1>11, <1>12, <1>13, <1>14, <1>15, <1>16 DEF IInv

\* The multiplication of a block of kernel B.
LEMMA GemvBKeeps ==
  ASSUME IInv, NEW b \in Blocks, GemvB(b)
  PROVE  IInv'
<1> DEFINE k == RunOfB(b)
           run == read_run(k)
           M == Multiplied(run, ActivationsIn)
<1>1. /\ stage = "b" /\ at[b] = "gemv"
      /\ ctr_a' = [j \in CtrA |-> IF j \in Share(b, GridB(bsz), MaxRows * TopK * ChunksI) THEN 0 ELSE ctr_a[j]]
      /\ at' = [at EXCEPT ![b] = IF RunLength(k) = 0 THEN "done" ELSE "arrive"]
      /\ d_out' = d_out \cup (M \X {GroupB(b)})
      /\ UNCHANGED <<shape, stage, bsz, route, ctr_b, runs, had, gu, act_out, out, r>>
  BY DEF GemvB, stream
<1>2. TypeOK /\ StageInv /\ PlaceInv /\ StartedInv /\ LastInv /\ EmptyInv /\ CountersExact
  BY DEF IInv
<1>3. /\ shape \in Shapes /\ bsz \in 1..MaxRows /\ route \in [Slots -> 0..ExpertCount] /\ RunsFit
      /\ at \in [Blocks -> {"gemv", "arrive", "epilogue", "done"}] /\ r \in [Blocks -> 0..RunRows]
      /\ ActiveSlots \subseteq Slots /\ ActiveSlots \X (0..(ChunksI - 1)) \subseteq act_out
  <2>1. shape \in Shapes /\ bsz \in 1..MaxRows /\ route \in [Slots -> 0..ExpertCount]
    BY <1>2 DEF TypeOK
  <2> QED
    BY <1>1, <1>2, <2>1, Actives DEF TypeOK, StageInv
<1>4. /\ b \in 0..(GridB(bsz) - 1) /\ k \in RunSet /\ GroupB(b) \in 0..(NgB - 1)
      /\ RunLength(k) \in Nat /\ RunLength(k) <= RunRows /\ r[b] = 0
  <2>1. b \in 0..(GridB(bsz) - 1)
    BY <1>1, RunningB
  <2>2. Placed(b, RunLength(k))
    <3>1. b < GridB(bsz)
      BY <1>3, <2>1, Grids
    <3> QED
      BY <1>1, <1>2, <3>1 DEF PlaceInv
  <2> QED
    BY <1>1, <1>3, <2>1, <2>2, PlaceB, RunningB DEF Placed
<1>5. /\ M \subseteq ActiveSlots
      /\ \A j \in DOMAIN run : run[j] \in M
  <2>1. \A s \in ActiveSlots : ActivationsIn[s]
    BY <1>3 DEF ActivationsIn
  <2> QED
    BY <1>3, <1>4, <2>1, MultipliedAll
<1>6. /\ \A s \in M : <<s, GroupB(b)>> \in d_out' /\ d_out \subseteq d_out'
  BY <1>1
<1>7. d_out' \subseteq Slots \X (0..(NgB - 1))
  BY <1>1, <1>2, <1>3, <1>4, <1>5 DEF TypeOK
<1> HIDE DEF k, run, M
<1>8. /\ at' \in [Blocks -> {"gemv", "arrive", "epilogue", "done"}]
      /\ \A d \in Blocks \ {b} : at'[d] = at[d]
      /\ at'[b] = (IF RunLength(k) = 0 THEN "done" ELSE "arrive")
  BY <1>1, <1>3
<1>9. \A d \in Blocks : Arrived(d)' = Arrived(d)
  <2>1. Arrived(b)' = 0 /\ Arrived(b) = 0
    BY <1>1, <1>4, <1>8 DEF Arrived
  <2> QED
    BY <1>1, <1>8, <2>1 DEF Arrived
<1>10. TypeOK'
  <2>1. ctr_a' \in [CtrA -> 0..(GpcA * 2)]
    <3>1. 0 \in 0..(GpcA * 2)
      BY <1>3, Sizes
    <3>2. ctr_a \in [CtrA -> 0..(GpcA * 2)]
      BY <1>2 DEF TypeOK
    <3> QED
      BY <1>1, <3>1, <3>2
  <2> QED
    BY <1>1, <1>2, <1>7, <1>8, <2>1, Frame DEF TypeOK, Projs
<1>11. StageInv'
  BY <1>1, <1>2, Frame DEF StageInv, OutputRight, Projs
<1>12. PlaceInv'
  <2>1. \A d \in Blocks \ {b} : IF d < GridB(bsz) THEN Placed(d, RunLength(RunOfB(d)))' ELSE at'[d] = "done"
    <3> TAKE d \in Blocks \ {b}
    <3>1. RunLength(RunOfB(d))' = RunLength(RunOfB(d))
      BY <1>1, Frame
    <3>2. IF d < GridB(bsz) THEN Placed(d, RunLength(RunOfB(d))) ELSE at[d] = "done"
      BY <1>1, <1>2 DEF PlaceInv
    <3> QED
      BY <1>1, <1>8, <3>1, <3>2 DEF Placed
  <2>2. b < GridB(bsz)
    BY <1>3, <1>4, Grids
  <2>3. Placed(b, RunLength(RunOfB(b)))'
    <3>1. RunLength(RunOfB(b))' = RunLength(k)
      BY <1>1, Frame DEF k
    <3> QED
      BY <1>1, <1>4, <1>8, <3>1 DEF Placed
  <2> QED
    BY <1>1, <2>1, <2>2, <2>3, Frame DEF PlaceInv
<1>13. StartedInv'
  <2>1. \A d \in 0..(GridB(bsz) - 1) : d \in Blocks /\ (d # b => at'[d] = at[d])
    BY <1>1, <1>8, RunningB
  <2>2. \A d \in 0..(GridB(bsz) - 1) : at'[d] # "gemv" =>
          \A j \in DOMAIN read_run(RunOfB(d)) : <<read_run(RunOfB(d))[j], GroupB(d)>> \in d_out'
    <3> TAKE d \in 0..(GridB(bsz) - 1)
    <3>1. CASE d = b
      BY <1>5, <1>6, <3>1 DEF k, run
    <3>2. CASE d # b
      BY <1>1, <1>2, <1>6, <2>1, <3>2 DEF StartedInv
    <3> QED
      BY <3>1, <3>2
  <2>3. \A j \in CtrA : at'[(j \div THREADS) % GridB(bsz)] # "gemv" => ctr_a'[j] = 0
    <3> TAKE j \in CtrA
    <3> DEFINE d == (j \div THREADS) % GridB(bsz)
    <3>1. d \in 0..(GridB(bsz) - 1) /\ (j \in Share(b, GridB(bsz), MaxRows * TopK * ChunksI) <=> d = b)
      BY <1>3, ShareOf
    <3>2. at[d] # "gemv" => ctr_a[j] = 0
      BY <1>1, <1>2 DEF StartedInv
    <3>3. ctr_a'[j] = IF d = b THEN 0 ELSE ctr_a[j]
      BY <1>1, <3>1
    <3> HIDE DEF d
    <3> QED
      BY <2>1, <3>1, <3>2, <3>3 DEF d
  <2> QED
    BY <1>1, <2>2, <2>3, Frame DEF StartedInv
<1>14. EmptyInv'
  BY <1>1, <1>2, Frame DEF EmptyInv
<1>15. CountersExact'
  <2>1. \A u, e : ArrivalsB(u, e)' = ArrivalsB(u, e)
    BY <1>1, <1>9, ArrivalsStepB
  <2> QED
    BY <1>1, <1>2, <2>1, Frame DEF CountersExact
<1>16. LastInv'
  <2>1. \A d \in Blocks : RowOf(SlotB(d))' = RowOf(SlotB(d)) /\ (at'[d] = "epilogue" <=> at[d] = "epilogue")
    <3> TAKE d \in Blocks
    <3>1. SlotB(d)' = SlotB(d)
      BY <1>1, Frame DEF SlotB
    <3> QED
      BY <1>1, <1>8, <3>1, Frame
  <2>2. /\ \A u \in (0..(bsz - 1)) \ EmptyRows, e \in 0..(ChunksH - 1) :
             ctr_b[IndexB(u, e)] = ExpectedB(u) <=>
               <<u, e>> \in out \/ \E d \in Blocks : at[d] = "epilogue" /\ RowOf(SlotB(d)) = u /\ ChunkB(d) = e
        /\ \A d \in Blocks : at[d] = "epilogue" =>
             /\ <<RowOf(SlotB(d)), ChunkB(d)>> \notin out
             /\ \A f \in Blocks \ {d} : at[f] = "epilogue" =>
                  <<RowOf(SlotB(f)), ChunkB(f)>> # <<RowOf(SlotB(d)), ChunkB(d)>>
    BY <1>1, <1>2 DEF LastInv
  <2> QED
    BY <1>1, <2>1, <2>2, Frame DEF LastInv
<1> QED
  BY <1>10, <1>11, <1>12, <1>13, <1>14, <1>15, <1>16 DEF IInv

\* Kernel B ends: the output is whole, and the counters of kernel A are clear.
LEMMA FinishBKeeps ==
  ASSUME IInv, FinishB
  PROVE  IInv'
<1>1. /\ stage = "b" /\ (\A b \in Blocks : at[b] = "done") /\ stage' = "done"
      /\ UNCHANGED <<shape, bsz, route, ctr_a, ctr_b, runs, had, gu, act_out, d_out, out, at, r>>
  BY DEF FinishB, buffers
<1>2. TypeOK /\ StageInv /\ PlaceInv /\ StartedInv /\ LastInv /\ EmptyInv /\ CountersExact
  BY DEF IInv
<1>3. shape \in Shapes /\ bsz \in 1..MaxRows /\ route \in [Slots -> 0..ExpertCount] /\ RunsFit
  BY <1>1, <1>2 DEF TypeOK, StageInv
<1>4. ASSUME NEW row \in 0..(bsz - 1), NEW c \in 0..(ChunksH - 1) PROVE <<row, c>> \in out
  <2>1. CASE row \in EmptyRows
    BY <1>1, <1>2, <2>1 DEF EmptyInv
  <2>2. CASE row \notin EmptyRows
    <3>1. \A b \in 0..(GridB(bsz) - 1) : Arrived(b) = RunLength(RunOfB(b))
      <4> TAKE b \in 0..(GridB(bsz) - 1)
      <4>1. b \in Blocks /\ b < GridB(bsz)
        BY <1>1, <1>3, RunningB, Grids
      <4>2. Placed(b, RunLength(RunOfB(b))) /\ at[b] = "done"
        BY <1>1, <1>2, <4>1 DEF PlaceInv
      <4> QED
        BY <4>2 DEF Placed, Arrived
    <3>2. ArrivalsB(row, c) = AllB(row, c)
      BY <3>1 DEF ArrivalsB, AllB
    <3>3. Cardinality(AllB(row, c)) = ExpectedB(row)
      BY <1>3, CountB
    <3>4. ctr_b[IndexB(row, c)] = Cardinality(ArrivalsB(row, c))
      BY <1>1, <1>2 DEF CountersExact
    <3>5. ctr_b[IndexB(row, c)] = ExpectedB(row)
      BY <3>2, <3>3, <3>4
    <3> QED
      BY <1>1, <1>2, <2>2, <3>5 DEF LastInv
  <2> QED
    BY <2>1, <2>2
<1>5. out = (0..(bsz - 1)) \X (0..(ChunksH - 1))
  BY <1>1, <1>2, <1>4 DEF EmptyInv
<1>6. \A i \in CtrA : ctr_a[i] = 0
  <2> TAKE i \in CtrA
  <2>1. (i \div THREADS) % GridB(bsz) \in 0..(GridB(bsz) - 1)
    BY <1>3, ShareOf
  <2>2. (i \div THREADS) % GridB(bsz) \in Blocks
    BY <1>1, <2>1, RunningB
  <2> QED
    BY <1>1, <1>2, <2>2 DEF StartedInv
<1>7. TypeOK'
  BY <1>1, <1>2, FrameShape DEF TypeOK, Projs
<1> QED
  BY <1>1, <1>5, <1>6, <1>7, BetweenNext, FrameShape DEF OutputRight

-----------------------------------------------------------------------------
(* The theorems *)

LEMMA StepIInv ==
  ASSUME IInv, [Next]_vars
  PROVE  IInv'
<1>1. CASE goal50_coop_launch
  BY <1>1, LaunchKeeps
<1>2. CASE exl3_moe_coop_rot_kernel
  BY <1>2, RotKeeps
<1>3. CASE exl3_moe_coop_a_kernel
  <2>1. CASE FinishA
    BY <2>1, FinishAKeeps
  <2>2. ASSUME NEW b \in Blocks, GemvA(b) \/ ArriveA(b) \/ EpilogueA(b) PROVE IInv'
    BY <2>2, GemvAKeeps, ArriveAKeeps, EpilogueAKeeps
  <2> QED
    BY <1>3, <2>1, <2>2 DEF exl3_moe_coop_a_kernel
<1>4. CASE exl3_moe_coop_b_kernel
  <2>1. CASE FinishB
    BY <2>1, FinishBKeeps
  <2>2. ASSUME NEW b \in Blocks, GemvB(b) \/ ArriveB(b) \/ ReduceB(b) PROVE IInv'
    BY <2>2, GemvBKeeps, ArriveBKeeps, ReduceBKeeps
  <2> QED
    BY <1>4, <2>1, <2>2 DEF exl3_moe_coop_b_kernel
<1>5. CASE UNCHANGED vars
  <2>1. UNCHANGED <<shape, stage, bsz, route, ctr_a, ctr_b, runs, had, gu, act_out, d_out, out, at, r>>
    BY <1>5 DEF vars, stream, buffers
  <2>2. \A b : Arrived(b)' = Arrived(b)
    BY <2>1 DEF Arrived
  <2>3. \A s, c : ArrivalsA(s, c)' = ArrivalsA(s, c) /\ ArrivalsB(s, c)' = ArrivalsB(s, c)
    BY <2>1, <2>2, Frame DEF ArrivalsA, ArrivalsB
  <2>4. \A b : SlotA(b)' = SlotA(b) /\ SlotB(b)' = SlotB(b)
    BY <2>1, Frame DEF SlotA, SlotB
  <2>5. TypeOK' /\ StageInv' /\ CountersExact'
    BY <2>1, <2>3, Frame DEF IInv, TypeOK, StageInv, OutputRight, CountersExact, Projs
  <2>6. PlaceInv'
    BY <2>1, Frame DEF IInv, PlaceInv, Placed
  <2>7. StartedInv' /\ EmptyInv'
    BY <2>1, Frame DEF IInv, StartedInv, EmptyInv, ProjOf
  <2>8. LastInv'
    BY <2>1, <2>4, Frame DEF IInv, LastInv
  <2> QED
    BY <2>5, <2>6, <2>7, <2>8 DEF IInv
<1> QED
  BY <1>1, <1>2, <1>3, <1>4, <1>5 DEF Next

\* The invariant of the cooperative kernels, over any number of calls: the runs hold the
\* routed slots, a block is where its run says, and counters, partial results and written
\* chunks go together.
THEOREM CoopInvariant == Spec => []IInv
<1>1. Init => IInv
  BY InitIInv
<1>2. IInv /\ [Next]_vars => IInv'
  BY StepIInv
<1> QED
  BY <1>1, <1>2, PTL DEF Spec

\* The completion counters count this call's arrivals and nothing an earlier call left.
THEOREM CountersAreExact == Spec => []CountersExact
<1>1. IInv => CountersExact
  BY DEF IInv
<1> QED
  BY <1>1, CoopInvariant, PTL

\* One block is the last to arrive at a chunk, when all it reads is stored, and every chunk
\* of every call is written, once and right.
THEOREM CallsAreRight == Spec => []CallRight
<1>1. IInv => CallRight
  <2> SUFFICES ASSUME IInv PROVE TypeOK /\ OutputRight /\ LastArrival
    BY DEF CallRight
  <2>1. TypeOK /\ OutputRight /\ LastInv
    BY DEF IInv, StageInv
  <2>2. ASSUME stage = "a", NEW b \in Blocks, at[b] = "epilogue"
        PROVE  /\ <<SlotA(b), ChunkA(b)>> \notin act_out
               /\ \A p \in Projs, g \in GroupsOf(ChunkA(b), GpcA) : <<p, SlotA(b), g>> \in gu
               /\ \A d \in Blocks \ {b} : at[d] = "epilogue" =>
                    <<SlotA(d), ChunkA(d)>> # <<SlotA(b), ChunkA(b)>>
    <3>1. SlotA(b) \in ActiveSlots /\ ChunkA(b) \in 0..(ChunksI - 1)
      BY <2>2, RunningA
    <3>2. ctr_a[IndexA(SlotA(b), ChunkA(b))] = ExpectedA
      BY <2>1, <2>2, <3>1 DEF LastInv
    <3>3. \A p \in Projs, g \in GroupsOf(ChunkA(b), GpcA) : <<p, SlotA(b), g>> \in gu
      BY <2>2, <3>1, <3>2, FullA
    <3> QED
      BY <2>1, <2>2, <3>3 DEF LastInv
  <2>3. ASSUME stage = "b", NEW b \in Blocks, at[b] = "epilogue"
        PROVE  /\ <<RowOf(SlotB(b)), ChunkB(b)>> \notin out
               /\ \A s \in SlotsOf(RowOf(SlotB(b))), g \in GroupsOf(ChunkB(b), GpcB) : <<s, g>> \in d_out
               /\ \A d \in Blocks \ {b} : at[d] = "epilogue" =>
                    <<RowOf(SlotB(d)), ChunkB(d)>> # <<RowOf(SlotB(b)), ChunkB(b)>>
    <3>1. RowOf(SlotB(b)) \in (0..(bsz - 1)) \ EmptyRows /\ ChunkB(b) \in 0..(ChunksH - 1)
      BY <2>3, RunningB
    <3>2. ctr_b[IndexB(RowOf(SlotB(b)), ChunkB(b))] = ExpectedB(RowOf(SlotB(b)))
      BY <2>1, <2>3, <3>1 DEF LastInv
    <3>3. \A s \in SlotsOf(RowOf(SlotB(b))), g \in GroupsOf(ChunkB(b), GpcB) : <<s, g>> \in d_out
      BY <2>3, <3>1, <3>2, FullB
    <3> QED
      BY <2>1, <2>3, <3>3 DEF LastInv
  <2>4. LastArrival
    BY <2>2, <2>3 DEF LastArrival
  <2> QED
    BY <2>1, <2>4
<1> QED
  BY <1>1, CoopInvariant, PTL
==============================================================================
